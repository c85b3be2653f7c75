\* Two tasks, creations one after the other, every other operation and every fault at
\* any time.
SPECIFICATION Spec
CONSTANTS
  None = None
  i1 = i1  i2 = i2  a = a  b = b  lost = lost
  Ids = {i1, i2}
  Pictures = {a, b, lost}
  Keys = {"k1", "k2"}
  Forms <- MCForms
  Sheets <- MCSheets
  Uploads <- MCUploads
  Files <- MCFiles
  MaxWorkers = 2
  Serial = TRUE
INVARIANTS OnlyReopeningDuplicates PicturesAreKept BulkIsHonest
CHECK_DEADLOCK FALSE
