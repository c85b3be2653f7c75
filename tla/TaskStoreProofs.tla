--------------------------- MODULE TaskStoreProofs ---------------------------
(***************************************************************************)
(* Theorems about the tasks table, the pictures and the bulk import, for   *)
(* every number of tasks, every form, spreadsheet and file, and every      *)
(* failure between two steps: when nobody creates tasks in two places at   *)
(* once and no id is given twice while something is left of its task.      *)
(***************************************************************************)
EXTENDS TaskStoreProperties, SequenceTheorems, TLAPS

-----------------------------------------------------------------------------
\* Who is in the middle of what

\* The pool resumes and deletes, the others create.
JobsKnown ==
  /\ job["pool"].pc \in {"idle", "resume", "delete", "clear"}
  /\ \A t \in {"form", "shell"} : job[t].pc \in {"idle", "copy", "insert"}
  /\ \A t \in Threads : job[t].pc # "idle" => job[t].id \in Ids
  /\ \A t \in Threads : job[t].pc = "idle" => IsIdle(t)
  /\ \A t \in Threads : Creating(t) => job[t].draft.status = "pending"
  /\ \A t \in Threads : job[t].pc = "copy" => job[t].draft.managed

\* One creation at a time, of an id that is nobody's, and that the pool is not at.
OneCreation ==
  /\ ~(Creating("form") /\ Creating("shell"))
  /\ bulk.n > 0 => ~Creating("shell")
CreatesNew == \A t \in {"form", "shell"} : Creating(t) =>
  ~Present(job[t].id) /\ worker[job[t].id] = 0 /\ job["pool"].id # job[t].id
ClearsOld == job["pool"].pc = "clear" => ~Present(job["pool"].id)

\* The rule is still open for what is being created.
KeyIsFree == \A t \in {"form", "shell"} : Creating(t) =>
  \A i \in Ids : task[i].status \in Active /\ task[i].key = job[t].draft.key => i \in reopened

\* Unless a task was given back, it has one worker at most, which holds its claim or
\* has lost its row.
OneWorker == \A i \in Ids :
  i \notin reopened => worker[i] = 0 \/ (worker[i] = 1 /\ task[i].status \in {"running", "absent"})

\* The pictures are there before the row.
CopiedFirst == \A t \in {"form", "shell"} :
  job[t].pc = "insert" /\ job[t].draft.managed => Copied(t) \subseteq folder[job[t].id]

\* Where a bulk import stands: what is being created is its current row.
BulkStands ==
  /\ bulk.n = 0 => bulk = NoBulk
  /\ \A p \in bulk.done : p[1] \in DOMAIN bulk.sheet
  /\ bulk.n > 0 /\ Creating("form") =>
       LET row == bulk.sheet[bulk.n] IN
       /\ bulk.n \in DOMAIN bulk.sheet
       /\ job["form"].draft = RowDraft(row)
       /\ Resolves(row, bulk.staged) /\ row.mode # "unknown" /\ row.slip = "none"
       /\ \A n \in DOMAIN bulk.sheet : <<n, job["form"].id>> \notin bulk.done

StoreInv ==
  /\ TypeOK /\ JobsKnown /\ OneCreation /\ CreatesNew /\ ClearsOld
  /\ KeyIsFree /\ OnlyReopeningDuplicates /\ OneWorker
  /\ CopiedFirst /\ PicturesAreKept
  /\ BulkStands /\ BulkIsHonest

-----------------------------------------------------------------------------
\* What a row shows

Pics(assets) == {assets[k].pic : k \in DOMAIN assets}

\* Files of one kind are a sequence of assets, with the pictures that the files are.
LEMMA ShownAssets ==
  ASSUME NEW files \in Seq(Pictures), NEW kind \in AssetTypes
  PROVE  /\ Shown(files, kind) \in Seq(Asset)
         /\ Pics(Shown(files, kind)) = {files[k] : k \in DOMAIN files}
<1>1. Len(files) \in Nat /\ files \in [1..Len(files) -> Pictures] /\ DOMAIN files = 1..Len(files)
  BY LenProperties
<1>2. Shown(files, kind) \in [1..Len(files) -> Asset]  BY <1>1 DEF Shown, Asset
<1>3. Shown(files, kind) \in Seq(Asset)  BY <1>1, <1>2, SeqDef
<1>4. Pics(Shown(files, kind)) = {files[k] : k \in DOMAIN files}  BY <1>1 DEF Shown, Pics
<1> QED  BY <1>3, <1>4

LEMMA OneShown ==
  ASSUME NEW p \in Pictures, NEW kind \in AssetTypes
  PROVE  /\ Shown(<<p>>, kind) \in Seq(Asset)
         /\ Len(Shown(<<p>>, kind)) = 1
         /\ Pics(Shown(<<p>>, kind)) = {p}
<1>1. <<p>> \in Seq(Pictures) /\ DOMAIN <<p>> = 1..1 /\ <<p>>[1] = p  OBVIOUS
<1>2. Shown(<<p>>, kind) \in Seq(Asset)  BY <1>1, ShownAssets
<1>3. DOMAIN Shown(<<p>>, kind) = 1..1  BY <1>1 DEF Shown
<1>4. Len(Shown(<<p>>, kind)) = 1  BY <1>2, <1>3, LenProperties
<1>5. Shown(<<p>>, kind)[1].pic = p  BY <1>1 DEF Shown
<1>6. Pics(Shown(<<p>>, kind)) = {p}  BY <1>3, <1>5 DEF Pics
<1> QED  BY <1>2, <1>4, <1>6

\* A pair is a first frame and a last one.
LEMMA PairShown ==
  ASSUME NEW p \in Pictures, NEW q \in Pictures
  PROVE  LET pair == Shown(<<p>>, "first_frame") \o Shown(<<q>>, "last_frame") IN
         pair \in Seq(Asset) /\ pair # <<>> /\ Pics(pair) = {p, q}
<1> DEFINE a == Shown(<<p>>, "first_frame")
           b == Shown(<<q>>, "last_frame")
<1>1. a \in Seq(Asset) /\ Len(a) = 1 /\ Pics(a) = {p}  BY OneShown DEF AssetTypes
<1>2. b \in Seq(Asset) /\ Len(b) = 1 /\ Pics(b) = {q}  BY OneShown DEF AssetTypes
<1>3. DOMAIN a = 1..1 /\ DOMAIN b = 1..1  BY <1>1, <1>2, LenProperties
<1>4. a[1].pic = p /\ b[1].pic = q  BY <1>1, <1>2, <1>3 DEF Pics
<1> HIDE DEF a, b
<1>5. a \o b \in Seq(Asset) /\ Len(a \o b) = 2 /\ (a \o b)[1] = a[1] /\ (a \o b)[2] = b[1]
  BY <1>1, <1>2, ConcatProperties
<1>6. DOMAIN (a \o b) = 1..2  BY <1>5, LenProperties
<1>7. Pics(a \o b) = {p, q}  BY <1>4, <1>5, <1>6 DEF Pics
<1>8. a \o b # <<>>  BY <1>5
<1> QED  BY <1>5, <1>7, <1>8 DEF a, b

\* A row that fits what it needs uses every picture it names, and no other; one for
\* frames goes to the frames tab.
LEMMA RowIsWhole ==
  ASSUME NEW row \in SheetRow, Fits(row)
  PROVE  /\ RowAssets(row) \in Seq(Asset)
         /\ Pics(RowAssets(row)) = Named(row)
         /\ RowDraft(row) \in TaskRow
         /\ row.kind \in FrameKinds /\ row.mode # "unknown" => RowMode(row) = "frames"
<1> USE DEF SheetRow
<1>0. None \notin Pictures  BY StoreOK
<1>1. row.ref \in Seq(Pictures) /\ DOMAIN row.ref = 1..Len(row.ref) /\ Len(row.ref) \in Nat
  BY LenProperties
<1>2. RowAssets(row) \in Seq(Asset) /\ Pics(RowAssets(row)) = Named(row)
  <2>1. CASE row.kind = "frames_pair"
    <3>1. row.start \in Pictures /\ row.end \in Pictures /\ row.ref = <<>>
      BY <2>1 DEF Fits, FrameKinds
    <3>2. RowAssets(row) = Shown(<<row.start>>, "first_frame") \o Shown(<<row.end>>, "last_frame")
      BY <2>1 DEF RowAssets
    <3>3. Named(row) = {row.start, row.end}  BY <3>1, <1>0 DEF Named
    <3> QED  BY <3>1, <3>2, <3>3, PairShown
  <2>2. CASE row.kind = "first_frame"
    <3>1. row.start \in Pictures /\ row.end = None /\ row.ref = <<>>
      BY <2>2 DEF Fits, FrameKinds
    <3>2. RowAssets(row) = Shown(<<row.start>>, "first_frame")  BY <2>2 DEF RowAssets
    <3>3. Named(row) = {row.start}  BY <3>1, <1>0 DEF Named
    <3> QED  BY <3>1, <3>2, <3>3, OneShown DEF AssetTypes
  <2>3. CASE row.kind = "last_frame"
    <3>1. row.end \in Pictures /\ row.start = None /\ row.ref = <<>>
      BY <2>3 DEF Fits, FrameKinds
    <3>2. RowAssets(row) = Shown(<<row.end>>, "last_frame")  BY <2>3 DEF RowAssets
    <3>3. Named(row) = {row.end}  BY <3>1, <1>0 DEF Named
    <3> QED  BY <3>1, <3>2, <3>3, OneShown DEF AssetTypes
  <2>4. CASE row.kind \notin FrameKinds
    <3>1. row.end = None /\ row.start = None  BY <2>4 DEF Fits, FrameKinds
    <3>2. RowAssets(row) = Shown(row.ref, row.kind)  BY <2>4 DEF RowAssets, FrameKinds
    <3>3. Named(row) = {row.ref[k] : k \in DOMAIN row.ref}  BY <3>1 DEF Named
    <3>4. row.kind \in AssetTypes  BY <2>4 DEF Kinds
    <3> QED  BY <1>1, <3>2, <3>3, <3>4, ShownAssets
  <2> QED  BY <2>1, <2>2, <2>3, <2>4 DEF FrameKinds
<1>3. RowMode(row) \in Modes  BY DEF RowMode, Modes
<1>4. RowDraft(row) \in TaskRow  BY <1>2, <1>3 DEF RowDraft, TaskRow, Active
<1>5. row.kind \in FrameKinds /\ row.mode # "unknown" => RowMode(row) = "frames"
  BY DEF RowMode, Modes
<1> QED  BY <1>2, <1>4, <1>5

LEMMA FormIsTyped ==
  ASSUME NEW form \in FormRow, NEW via, form.kind = "frames_pair" => Len(form.files) = 2
  PROVE  FormDraft(form, via) \in TaskRow
<1> USE DEF FormRow
<1>1. FormAssets(form) \in Seq(Asset)
  <2>1. CASE form.kind = "frames_pair"
    <3>0. Len(form.files) = 2  BY <2>1
    <3> HIDE DEF FormRow
    <3>1. 1 \in 1..Len(form.files) /\ 2 \in 1..Len(form.files)  BY <3>0
    <3> USE DEF FormRow
    <3>2. form.files[1] \in Pictures /\ form.files[2] \in Pictures  BY <3>1, ElementOfSeq
    <3> QED  BY <2>1, <3>2, PairShown DEF FormAssets
  <2>2. CASE form.kind # "frames_pair"
    <3>1. form.kind \in AssetTypes  BY <2>2 DEF Kinds, FrameKinds, AssetTypes
    <3> QED  BY <2>2, <3>1, ShownAssets DEF FormAssets
  <2> QED  BY <2>1, <2>2
<1> QED  BY <1>1 DEF FormDraft, TaskRow, Active, Modes

LEMMA ImportIsTyped ==
  ASSUME NEW r \in FileRow
  PROVE  ImportedRow(r) \in TaskRow
<1>1. Shown(r.files, r.kind) \in Seq(Asset)  BY ShownAssets DEF FileRow
<1> QED  BY <1>1 DEF FileRow, ImportedRow, TaskRow, Active, Modes

LEMMA Blanks == NoTask \in TaskRow /\ NoJob \in JobState /\ NoBulk \in BulkState
<1>1. NoTask \in TaskRow  BY DEF NoTask, TaskRow, Modes
<1>2. NoJob \in JobState  BY <1>1 DEF NoJob, JobState
<1>3. NoBulk \in BulkState  BY DEF NoBulk, BulkState
<1> QED  BY <1>1, <1>2, <1>3

\* What follows of a spreadsheet's row
LEMMA RowOfSheet ==
  ASSUME TypeOK, NEW n \in DOMAIN bulk.sheet
  PROVE  bulk.sheet[n] \in SheetRow /\ n \in 1..Len(bulk.sheet)
<1>1. bulk.sheet \in Seq(SheetRow)  BY DEF TypeOK, BulkState
<1> QED  BY <1>1, LenProperties, ElementOfSeq

-----------------------------------------------------------------------------
\* The steps that begin nothing and insert nothing

\* The jobs of the form's thread and of the command line are what they were, as far
\* as they are creating.
GoOn == \A t \in {"form", "shell"} : Creating(t)' =>
  Creating(t) /\ job'[t].id = job[t].id /\ job'[t].draft = job[t].draft

\* No row is new; what a row shows stays, with its pictures; what is active was
\* active or is reopened; a worker begins on a row, and alone on one that is not.
NoNewRow == \A i \in Ids :
  /\ Present(i)' => /\ Present(i) /\ folder[i] \subseteq folder'[i]
                    /\ task'[i].assets = task[i].assets /\ task'[i].mode = task[i].mode
                    /\ task'[i].managed = task[i].managed /\ task'[i].key = task[i].key
  /\ task'[i].status \in Active => task[i].status \in Active \/ i \in reopened'
  /\ worker'[i] > 0 => worker[i] > 0 \/ Present(i)
  /\ i \notin reopened' =>
       worker'[i] = 0 \/ (worker'[i] = 1 /\ task'[i].status \in {"running", "absent"})

\* What the created tasks of a bulk import show
RowsStay == \A i \in Ids : Present(i)' =>
  Present(i) /\ task'[i].assets = task[i].assets /\ task'[i].mode = task[i].mode

LEMMA CreatedStays ==
  ASSUME BulkIsHonest, RowsStay, NEW n \in DOMAIN bulk.sheet, NEW i \in Ids, <<n, i>> \in bulk.done
  PROVE  LET row == bulk.sheet[n] IN
         /\ PreviewOk(row, bulk.staged)
         /\ Present(i)' =>
              /\ {task'[i].assets[k].pic : k \in DOMAIN task'[i].assets} = Named(row)
              /\ row.kind \in FrameKinds => task'[i].mode = "frames"
<1>1. Present(i)' => Present(i) /\ task'[i].assets = task[i].assets /\ task'[i].mode = task[i].mode
  BY DEF RowsStay
<1> QED  BY <1>1 DEF BulkIsHonest

LEMMA HonestStays ==
  ASSUME BulkIsHonest, RowsStay, bulk' = bulk
  PROVE  BulkIsHonest'
<1>1. bulk # NoBulk =>
        LET done == {n \in DOMAIN bulk.sheet : \E i \in Ids : <<n, i>> \in bulk.done} IN
        done \cup bulk.errors = 1..(bulk.n - 1) /\ done \cap bulk.errors = {}
  BY DEF BulkIsHonest
<1> QED  BY <1>1, CreatedStays DEF BulkIsHonest

LEMMA NothingNew ==
  ASSUME StoreInv, TypeOK', JobsKnown', GoOn, NoNewRow, reopened \subseteq reopened',
         CopiedFirst', ClearsOld', bulk' \in {bulk, NoBulk},
         job'["pool"].id \in {job["pool"].id, None} \/ Present(job'["pool"].id)
  PROVE  StoreInv'
<1> USE DEF StoreInv
<1>1. OneCreation'
  BY DEF OneCreation, GoOn, NoBulk
<1>2. CreatesNew'
  <2> SUFFICES ASSUME NEW t \in {"form", "shell"}, Creating(t)'
               PROVE  ~Present(job[t].id)' /\ worker'[job'[t].id] = 0 /\ job'["pool"].id # job'[t].id
    BY DEF CreatesNew
  <2>1. Creating(t) /\ job'[t].id = job[t].id  BY DEF GoOn
  <2>2. ~Present(job[t].id) /\ worker[job[t].id] = 0 /\ job["pool"].id # job[t].id
    BY <2>1 DEF CreatesNew
  <2>3. t \in Threads /\ job'[t].pc # "idle"  BY DEF Threads, Creating
  <2>4. job'[t].id \in Ids  BY <2>3 DEF JobsKnown
  <2>5. ~Present(job[t].id)' /\ worker'[job'[t].id] = 0
    BY <2>1, <2>2, <2>4 DEF NoNewRow, Present, TypeOK
  <2>6. job'["pool"].id # job'[t].id  BY <2>1, <2>2, <2>4, StoreOK
  <2> QED  BY <2>5, <2>6
<1>3. KeyIsFree'
  <2> SUFFICES ASSUME NEW t \in {"form", "shell"}, Creating(t)', NEW i \in Ids,
                      task'[i].status \in Active, task'[i].key = job'[t].draft.key
               PROVE  i \in reopened'
    BY DEF KeyIsFree
  <2>1. Creating(t) /\ job'[t].draft = job[t].draft  BY DEF GoOn
  <2>2. Present(i)'  BY DEF Present, Active
  <2>3. task'[i].key = task[i].key /\ (task[i].status \in Active \/ i \in reopened')
    BY <2>2 DEF NoNewRow
  <2> QED  BY <2>1, <2>3 DEF KeyIsFree
<1>4. OnlyReopeningDuplicates'
  <2> SUFFICES ASSUME NEW i \in Ids, NEW k \in Ids, i # k,
                      task'[i].status \in Active, task'[k].status \in Active, task'[i].key = task'[k].key
               PROVE  i \in reopened' \/ k \in reopened'
    BY DEF OnlyReopeningDuplicates
  <2>1. Present(i)' /\ Present(k)'  BY DEF Present, Active
  <2>2. task'[i].key = task[i].key /\ (task[i].status \in Active \/ i \in reopened')
    BY <2>1 DEF NoNewRow
  <2>3. task'[k].key = task[k].key /\ (task[k].status \in Active \/ k \in reopened')
    BY <2>1 DEF NoNewRow
  <2> QED  BY <2>2, <2>3 DEF OnlyReopeningDuplicates
<1>5. PicturesAreKept'
  <2> SUFFICES ASSUME NEW i \in Ids, Present(i)', task'[i].managed, NEW k \in DOMAIN task'[i].assets
               PROVE  task'[i].assets[k].pic \in folder'[i]
    BY DEF PicturesAreKept
  <2>1. /\ Present(i) /\ folder[i] \subseteq folder'[i]
        /\ task'[i].assets = task[i].assets /\ task'[i].managed = task[i].managed
    BY DEF NoNewRow
  <2> QED  BY <2>1 DEF PicturesAreKept
<1>6. BulkStands'
  <2>1. CASE bulk' = NoBulk  BY <2>1 DEF BulkStands, NoBulk
  <2>2. CASE bulk' = bulk
    <3>1. (bulk.n = 0 => bulk = NoBulk)' /\ \A p \in bulk'.done : p[1] \in DOMAIN bulk'.sheet
      BY <2>2 DEF BulkStands
    <3>2. ASSUME bulk'.n > 0, Creating("form")'
          PROVE  LET row == bulk'.sheet[bulk'.n] IN
                 /\ bulk'.n \in DOMAIN bulk'.sheet
                 /\ job'["form"].draft = RowDraft(row)
                 /\ Resolves(row, bulk'.staged) /\ row.mode # "unknown" /\ row.slip = "none"
                 /\ \A n \in DOMAIN bulk'.sheet : <<n, job'["form"].id>> \notin bulk'.done
      <4>1. Creating("form") /\ job'["form"].id = job["form"].id /\ job'["form"].draft = job["form"].draft
        BY <3>2 DEF GoOn
      <4> QED  BY <2>2, <3>2, <4>1 DEF BulkStands
    <3> QED  BY <3>1, <3>2 DEF BulkStands
  <2> QED  BY <2>1, <2>2
<1>7. BulkIsHonest'
  <2>1. CASE bulk' = NoBulk  BY <2>1 DEF BulkIsHonest, NoBulk
  <2>2. CASE bulk' = bulk
    <3>1. RowsStay  BY DEF NoNewRow, RowsStay
    <3> QED  BY <2>2, <3>1, HonestStays
  <2> QED  BY <2>1, <2>2
<1>8. OneWorker'  BY DEF NoNewRow, OneWorker
<1> QED  BY <1>1, <1>2, <1>3, <1>4, <1>5, <1>6, <1>7, <1>8

\* When the two keep their jobs or are done with them, what they copied stays.
LEMMA CopiesStay ==
  ASSUME CopiedFirst, JobsKnown,
         \A t \in {"form", "shell"} : job'[t] \in {job[t], NoJob},
         \A t \in {"form", "shell"} : job[t].pc = "insert" => folder[job[t].id] \subseteq folder'[job[t].id]
  PROVE  CopiedFirst' /\ GoOn
<1>1. CopiedFirst'
  <2> SUFFICES ASSUME NEW t \in {"form", "shell"}, job'[t].pc = "insert", job'[t].draft.managed
               PROVE  Copied(t)' \subseteq folder'[job'[t].id]
    BY DEF CopiedFirst
  <2>1. job'[t] = job[t]  BY DEF NoJob
  <2>2. Copied(t)' = Copied(t)  BY <2>1 DEF Copied
  <2> QED  BY <2>1, <2>2 DEF CopiedFirst
<1>2. GoOn  BY DEF GoOn, Creating, NoJob
<1> QED  BY <1>1, <1>2

-----------------------------------------------------------------------------
\* The steps that begin a creation

\* Nobody creates, and the id is nobody's.
LEMMA Beginning ==
  ASSUME StoreInv, NEW t \in {"form", "shell"}, NEW i \in Ids, NEW draft \in TaskRow,
         IsIdle(t), \A u \in {"form", "shell"} : ~Creating(u), t = "shell" => bulk = NoBulk,
         Fresh(i), Begins(t, i, draft), draft.status = "pending", ~ActiveTask(draft.key),
         UNCHANGED <<task, folder, bulk, reopened, worker>>,
         bulk.n > 0 => LET row == bulk.sheet[bulk.n] IN
           /\ bulk.n \in DOMAIN bulk.sheet /\ draft = RowDraft(row)
           /\ Resolves(row, bulk.staged) /\ row.mode # "unknown" /\ row.slip = "none"
  PROVE  StoreInv'
<1> USE DEF StoreInv
<1> DEFINE new == [pc |-> IF draft.managed THEN "copy" ELSE "insert", id |-> i, draft |-> draft, keep |-> FALSE]
<1>0. t \in Threads /\ "pool" \in Threads /\ {"form", "shell"} \subseteq Threads  BY DEF Threads
<1>1. job' = [job EXCEPT ![t] = new] /\ job \in [Threads -> JobState]  BY DEF Begins, TypeOK
<1>2. new \in JobState /\ new.pc \in {"copy", "insert"} /\ new.id = i /\ new.draft = draft
      /\ (new.pc = "copy" <=> draft.managed)
  BY DEF JobState
<1>3. ~Present(i) /\ worker[i] = 0 /\ \A u \in Threads : job[u].id # i
  BY DEF Fresh, InUse, TypeOK
<1> HIDE DEF new
<1>4. job'[t] = new /\ \A u \in Threads : u # t => job'[u] = job[u]  BY <1>0, <1>1
<1>5. \A u \in {"form", "shell"} : Creating(u)' => u = t  BY <1>0, <1>4 DEF Creating
<1>6. TypeOK'  BY <1>0, <1>1, <1>2 DEF TypeOK
<1>7. JobsKnown'
  <2>1. job'["pool"] = job["pool"]  BY <1>0, <1>4
  <2>2. ASSUME NEW u \in Threads
        PROVE  /\ u \in {"form", "shell"} => job'[u].pc \in {"idle", "copy", "insert"}
               /\ job'[u].pc # "idle" => job'[u].id \in Ids
               /\ job'[u].pc = "idle" => job'[u] = NoJob
               /\ job'[u].pc \in {"copy", "insert"} => job'[u].draft.status = "pending"
               /\ job'[u].pc = "copy" => job'[u].draft.managed
    <3>1. CASE u = t  BY <1>2, <1>4, <3>1
    <3>2. CASE u # t  BY <1>4, <3>2 DEF JobsKnown, Creating, IsIdle
    <3> QED  BY <3>1, <3>2
  <2> QED  BY <1>0, <2>1, <2>2 DEF JobsKnown, Creating, IsIdle
<1>8. OneCreation'  BY <1>5 DEF OneCreation, NoBulk
<1>9. CreatesNew'
  <2>1. job'["pool"] = job["pool"]  BY <1>0, <1>4
  <2> QED  BY <1>0, <1>2, <1>3, <1>4, <1>5, <2>1 DEF CreatesNew, Present
<1>10. ClearsOld'  BY <1>0, <1>4 DEF ClearsOld, Present
<1>11. KeyIsFree'
  <2> SUFFICES ASSUME NEW k \in Ids, task[k].status \in Active, task[k].key = draft.key PROVE FALSE
    BY <1>2, <1>4, <1>5 DEF KeyIsFree
  <2> QED  BY DEF ActiveTask
<1>12. OnlyReopeningDuplicates' /\ PicturesAreKept' /\ BulkIsHonest' /\ OneWorker'
  <2>1. OnlyReopeningDuplicates'  BY DEF OnlyReopeningDuplicates
  <2>2. PicturesAreKept'  BY DEF PicturesAreKept, Present
  <2>3. RowsStay  BY DEF RowsStay, Present
  <2>4. BulkIsHonest'  BY <2>3, HonestStays
  <2>5. OneWorker'  BY DEF OneWorker
  <2> QED  BY <2>1, <2>2, <2>4, <2>5
<1>13. CopiedFirst'
  <2> SUFFICES ASSUME NEW u \in {"form", "shell"}, job'[u].pc = "insert", job'[u].draft.managed
               PROVE  FALSE
    BY DEF CopiedFirst
  <2>1. u = t  BY <1>5 DEF Creating
  <2> QED  BY <1>2, <1>4, <2>1
<1>14. BulkStands'
  <2>1. ASSUME bulk.n > 0, Creating("form")' PROVE job'["form"].id = i /\ job'["form"].draft = draft
    BY <1>2, <1>4, <1>5, <2>1
  <2>2. \A n \in DOMAIN bulk.sheet : <<n, i>> \notin bulk.done  BY DEF Fresh
  <2> QED  BY <2>1, <2>2 DEF BulkStands
<1> QED  BY <1>6, <1>7, <1>8, <1>9, <1>10, <1>11, <1>12, <1>13, <1>14

LEMMA NobodyCreates ==
  ASSUME Serial, NEW t \in Threads, MayCreate(t)
  PROVE  bulk = NoBulk /\ \A u \in {"form", "shell"} : ~Creating(u)
BY DEF MayCreate, Threads

LEMMA SubmitFormStep ==
  ASSUME StoreInv, Serial, NEW form \in Forms, NEW via \in {"page", "api"}, SubmitForm(form, via)
  PROVE  StoreInv'
<1>1. PICK i \in Ids : Fresh(i) /\ Begins("form", i, FormDraft(form, via))  BY DEF SubmitForm
<1>2. form \in FormRow  BY StoreOK
<1>3. FormDraft(form, via) \in TaskRow  BY <1>2, FormIsTyped DEF SubmitForm
<1>4. /\ IsIdle("form") /\ bulk = NoBulk /\ \A u \in {"form", "shell"} : ~Creating(u)
      /\ ~ActiveTask(FormDraft(form, via).key)
  BY NobodyCreates DEF SubmitForm, MayCreate, Admits, Threads
<1>5. FormDraft(form, via).status = "pending" /\ ~(bulk.n > 0)  BY <1>4 DEF FormDraft, NoBulk
<1>6. UNCHANGED <<task, folder, bulk, reopened, worker>>  BY DEF SubmitForm
<1> HIDE DEF StoreInv
<1> QED  BY <1>1, <1>3, <1>4, <1>5, <1>6, Beginning

LEMMA TaskAddStep ==
  ASSUME StoreInv, Serial, NEW form \in Forms, NEW i \in Ids, NEW managed \in BOOLEAN,
         TaskAdd(form, i, managed)
  PROVE  StoreInv'
<1> DEFINE draft == [FormDraft(form, "shell") EXCEPT !.managed = managed]
<1>1. form \in FormRow  BY StoreOK
<1>2. FormDraft(form, "shell") \in TaskRow  BY <1>1, FormIsTyped DEF TaskAdd
<1>3. draft \in TaskRow  BY <1>2 DEF TaskRow
<1>4. draft.status = "pending"  BY DEF FormDraft
<1>5. /\ IsIdle("shell") /\ bulk = NoBulk /\ \A u \in {"form", "shell"} : ~Creating(u)
      /\ Fresh(i) /\ Begins("shell", i, draft) /\ ~ActiveTask(draft.key)
  BY NobodyCreates DEF TaskAdd, MayCreate, Admits, Threads
<1>6. ~(bulk.n > 0)  BY <1>5 DEF NoBulk
<1>7. UNCHANGED <<task, folder, bulk, reopened, worker>>  BY DEF TaskAdd
<1> HIDE DEF draft
<1> QED  BY <1>3, <1>4, <1>5, <1>6, <1>7, Beginning

\* A row that is not created is reported.
LEMMA Reporting ==
  ASSUME StoreInv, bulk # NoBulk,
         bulk.n \in DOMAIN bulk.sheet,
         bulk' = [bulk EXCEPT !.n = @ + 1, !.errors = @ \cup {bulk.n}],
         task' = task
  PROVE  BulkIsHonest' /\ bulk' \in BulkState /\ bulk'.n > 1
<1> USE DEF StoreInv
<1> DEFINE done == {n \in DOMAIN bulk.sheet : \E i \in Ids : <<n, i>> \in bulk.done}
<1>1. bulk \in BulkState /\ bulk.n \in Nat /\ bulk.n # 0  BY DEF TypeOK, BulkState, BulkStands
<1>2. /\ bulk'.sheet = bulk.sheet /\ bulk'.done = bulk.done /\ bulk'.staged = bulk.staged
      /\ bulk'.n = bulk.n + 1 /\ bulk'.errors = bulk.errors \cup {bulk.n}
  BY <1>1 DEF BulkState
<1>3. bulk' \in BulkState
  <2>1. bulk.n + 1 \in Nat /\ bulk.errors \cup {bulk.n} \in SUBSET Nat  BY <1>1 DEF BulkState
  <2> QED  BY <1>1, <2>1 DEF BulkState
<1>4. done \cup bulk.errors = 1..(bulk.n - 1) /\ done \cap bulk.errors = {}  BY DEF BulkIsHonest
<1>5. done \cup (bulk.errors \cup {bulk.n}) = 1..((bulk.n + 1) - 1) /\ done \cap (bulk.errors \cup {bulk.n}) = {}
  <2> HIDE DEF done
  <2>1. bulk.n \notin done  BY <1>1, <1>4
  <2>2. (bulk.n + 1) - 1 = bulk.n /\ (1..(bulk.n - 1)) \cup {bulk.n} = 1..bulk.n  BY <1>1
  <2> QED  BY <1>4, <2>1, <2>2
<1>6. RowsStay  BY DEF RowsStay, Present
<1>7. BulkIsHonest'  BY <1>2, <1>5, <1>6, CreatedStays DEF BulkIsHonest
<1> QED  BY <1>1, <1>2, <1>3, <1>7

\* The steps of a bulk import on its own
LEMMA BulkAlone ==
  ASSUME StoreInv, \A u \in {"form", "shell"} : ~Creating(u), UNCHANGED <<task, folder, job, reopened, worker>>,
         bulk' \in BulkState, bulk'.n > 0, BulkIsHonest',
         \A p \in bulk'.done : p[1] \in DOMAIN bulk'.sheet
  PROVE  StoreInv'
<1> USE DEF StoreInv
<1>1. \A u \in {"form", "shell"} : ~Creating(u)'  BY DEF Creating
<1>2. TypeOK' /\ JobsKnown'  BY DEF TypeOK, JobsKnown, Creating, IsIdle
<1>3. OneCreation' /\ CreatesNew' /\ KeyIsFree'  BY <1>1 DEF OneCreation, CreatesNew, KeyIsFree
<1>4. BulkStands'  BY <1>1 DEF BulkStands, BulkState
<1>5. ClearsOld' /\ OnlyReopeningDuplicates' /\ PicturesAreKept' /\ OneWorker'
  BY DEF ClearsOld, OnlyReopeningDuplicates, PicturesAreKept, Present, OneWorker
<1>6. CopiedFirst'  BY DEF CopiedFirst, Copied
<1> QED  BY <1>2, <1>3, <1>4, <1>5, <1>6

LEMMA UploadSheetStep ==
  ASSUME StoreInv, Serial, NEW sheet \in Sheets, NEW staged \in Uploads, UploadSheet(sheet, staged)
  PROVE  StoreInv'
<1>1. bulk' = [sheet |-> sheet, staged |-> staged, n |-> 1, done |-> {}, errors |-> {}]
  BY DEF UploadSheet, NoBulk
<1>2. bulk' \in BulkState  BY <1>1, StoreOK DEF BulkState
<1>3. BulkIsHonest'  BY <1>1 DEF BulkIsHonest
<1>4. \A u \in {"form", "shell"} : ~Creating(u)  BY NobodyCreates DEF UploadSheet, Threads
<1>5. UNCHANGED <<task, folder, job, reopened, worker>>  BY DEF UploadSheet
<1>6. bulk'.n > 0 /\ \A p \in bulk'.done : p[1] \in DOMAIN bulk'.sheet  BY <1>1
<1> QED  BY <1>2, <1>3, <1>4, <1>5, <1>6, BulkAlone

LEMMA NextRowStep ==
  ASSUME StoreInv, Serial, NextRow
  PROVE  StoreInv'
<1> DEFINE row == bulk.sheet[bulk.n]
<1>1. TypeOK /\ BulkStands /\ OneCreation  BY DEF StoreInv
<1>2. bulk # NoBulk /\ IsIdle("form") /\ bulk.n <= Len(bulk.sheet)  BY DEF NextRow, InBulk
<1>3. bulk.n \in Nat /\ bulk.n > 0 /\ bulk.sheet \in Seq(SheetRow)
  BY <1>1, <1>2 DEF TypeOK, BulkState, BulkStands
<1>4. bulk.n \in DOMAIN bulk.sheet  BY <1>2, <1>3, LenProperties
<1>5. row \in SheetRow  BY <1>1, <1>4, RowOfSheet
<1>6. \A u \in {"form", "shell"} : ~Creating(u)
  BY <1>1, <1>2, <1>3 DEF OneCreation, IsIdle, NoJob, Creating
<1>7. CASE Resolves(row, bulk.staged) /\ row.mode # "unknown" /\ Admits(RowDraft(row), row.slip)
  <2>1. PICK i \in Ids : Fresh(i) /\ Begins("form", i, RowDraft(row))  BY <1>7 DEF NextRow
  <2>2. UNCHANGED <<task, folder, bulk, reopened, worker>>  BY <1>7 DEF NextRow
  <2>3. RowDraft(row) \in TaskRow  BY <1>5, <1>7, RowIsWhole DEF Resolves
  <2>4. RowDraft(row).status = "pending"  BY DEF RowDraft
  <2>5. row.slip = "none" /\ ~ActiveTask(RowDraft(row).key)  BY <1>7 DEF Admits
  <2> QED  BY <1>2, <1>4, <1>6, <1>7, <2>1, <2>2, <2>3, <2>4, <2>5, Beginning
<1>8. CASE ~(Resolves(row, bulk.staged) /\ row.mode # "unknown" /\ Admits(RowDraft(row), row.slip))
  <2>1. /\ bulk' = [bulk EXCEPT !.n = @ + 1, !.errors = @ \cup {bulk.n}]
        /\ UNCHANGED <<task, folder, job, reopened, worker>>
    BY <1>8 DEF NextRow
  <2>3. BulkIsHonest' /\ bulk' \in BulkState /\ bulk'.n > 1  BY <1>2, <1>4, <2>1, Reporting
  <2>4. bulk'.done = bulk.done /\ bulk'.sheet = bulk.sheet  BY <1>1, <2>1 DEF TypeOK, BulkState
  <2>5. \A p \in bulk'.done : p[1] \in DOMAIN bulk'.sheet  BY <1>1, <2>4 DEF BulkStands
  <2>6. bulk'.n > 0  BY <2>3 DEF BulkState
  <2> QED  BY <1>6, <2>1, <2>3, <2>5, <2>6, BulkAlone
<1> QED  BY <1>7, <1>8

-----------------------------------------------------------------------------
\* The steps of a creation

\* Only the form's thread and the command line create.
LEMMA Creator ==
  ASSUME JobsKnown, NEW t \in Threads, Creating(t)
  PROVE  t \in {"form", "shell"} /\ job[t].id \in Ids
BY DEF JobsKnown, Threads, Creating

\* One of them is done.
LEMMA DoneWith ==
  ASSUME TypeOK, JobsKnown, NEW t \in {"form", "shell"}, Finished(t)
  PROVE  /\ job' \in [Threads -> JobState] /\ JobsKnown' /\ job'["pool"] = job["pool"]
         /\ job'[t] = NoJob /\ \A u \in Threads : job'[u] \in {job[u], NoJob}
<1>0. t \in Threads /\ t # "pool" /\ "pool" \in Threads  BY DEF Threads
<1>1. job' = [job EXCEPT ![t] = NoJob] /\ job \in [Threads -> JobState]  BY DEF Finished, TypeOK
<1>2. job' \in [Threads -> JobState]  BY <1>1, Blanks
<1>3. job'[t] = NoJob /\ \A u \in Threads : u # t => job'[u] = job[u]  BY <1>0, <1>1
<1>4. job'["pool"] = job["pool"]  BY <1>0, <1>3
<1>5. ASSUME NEW u \in Threads
      PROVE  /\ u \in {"form", "shell"} => job'[u].pc \in {"idle", "copy", "insert"}
             /\ job'[u].pc # "idle" => job'[u].id \in Ids
             /\ job'[u].pc = "idle" => job'[u] = NoJob
             /\ job'[u].pc \in {"copy", "insert"} => job'[u].draft.status = "pending"
             /\ job'[u].pc = "copy" => job'[u].draft.managed
  <2>1. CASE u = t  BY <1>3, <2>1 DEF NoJob
  <2>2. CASE u # t  BY <1>3, <2>2 DEF JobsKnown, Creating, IsIdle
  <2> QED  BY <2>1, <2>2
<1>6. JobsKnown'  BY <1>4, <1>5 DEF JobsKnown, Creating, IsIdle, Threads
<1> QED  BY <1>2, <1>3, <1>4, <1>6

LEMMA CopyStep ==
  ASSUME StoreInv, NEW t \in Threads, Copy(t)
  PROVE  StoreInv'
<1> USE DEF StoreInv
<1>0. t \in {"form", "shell"} /\ job[t].id \in Ids /\ Creating(t) /\ "pool" \in Threads
  BY Creator DEF Copy, Creating, Threads
<1>1. /\ job[t].pc = "copy" /\ UNCHANGED <<task, bulk, reopened, worker>>
      /\ folder' = [folder EXCEPT ![job[t].id] = @ \cup Copied(t)]
      /\ job' = [job EXCEPT ![t].pc = "insert"]
      /\ job \in [Threads -> JobState] /\ folder \in [Ids -> SUBSET Pictures]
  BY DEF Copy, TypeOK
<1>2. job[t] \in JobState  BY <1>1
<1>3. /\ job'[t] = [job[t] EXCEPT !.pc = "insert"]
      /\ \A u \in Threads : u # t => job'[u] = job[u]
  BY <1>1
<1>4. /\ job'[t].pc = "insert" /\ job'[t].id = job[t].id /\ job'[t].draft = job[t].draft
      /\ job'[t] \in JobState
  BY <1>2, <1>3 DEF JobState
<1>5. Copied(t) \subseteq Pictures /\ Copied(t)' = Copied(t)
  <2>1. job[t].draft.assets \in Seq(Asset)  BY <1>2 DEF JobState, TaskRow
  <2>2. \A k \in DOMAIN job[t].draft.assets : job[t].draft.assets[k] \in Asset
    BY <2>1, LenProperties
  <2> QED  BY <1>4, <2>2 DEF Copied, Asset
<1>6. \A i \in Ids : folder[i] \subseteq folder'[i]  BY <1>1
<1>7. Copied(t) \subseteq folder'[job[t].id]  BY <1>0, <1>1
<1>8. TypeOK'
  <2>1. job' \in [Threads -> JobState]  BY <1>1, <1>3, <1>4
  <2>2. folder' \in [Ids -> SUBSET Pictures]  BY <1>0, <1>1, <1>5
  <2> QED  BY <1>1, <2>1, <2>2 DEF TypeOK
<1>9. JobsKnown'
  <2>1. job'["pool"] = job["pool"]  BY <1>0, <1>3
  <2>2. ASSUME NEW u \in Threads
        PROVE  /\ u \in {"form", "shell"} => job'[u].pc \in {"idle", "copy", "insert"}
               /\ job'[u].pc # "idle" => job'[u].id \in Ids
               /\ job'[u].pc = "idle" => job'[u] = NoJob
               /\ job'[u].pc \in {"copy", "insert"} => job'[u].draft.status = "pending"
               /\ job'[u].pc = "copy" => job'[u].draft.managed
    <3>1. CASE u = t  BY <1>0, <1>4, <3>1 DEF JobsKnown
    <3>2. CASE u # t  BY <1>3, <3>2 DEF JobsKnown, Creating, IsIdle
    <3> QED  BY <3>1, <3>2
  <2> QED  BY <2>1, <2>2 DEF JobsKnown, Creating, IsIdle, Threads
<1>10. GoOn
  <2> SUFFICES ASSUME NEW u \in {"form", "shell"}, Creating(u)'
               PROVE  Creating(u) /\ job'[u].id = job[u].id /\ job'[u].draft = job[u].draft
    BY DEF GoOn
  <2>1. CASE u = t  BY <1>0, <1>4, <2>1
  <2>2. CASE u # t  BY <1>3, <2>2 DEF Creating, Threads
  <2> QED  BY <2>1, <2>2
<1>11. NoNewRow  BY <1>1, <1>6 DEF NoNewRow, Present, OneWorker
<1>12. CopiedFirst'
  <2> SUFFICES ASSUME NEW u \in {"form", "shell"}, job'[u].pc = "insert", job'[u].draft.managed
               PROVE  Copied(u)' \subseteq folder'[job'[u].id]
    BY DEF CopiedFirst
  <2>1. CASE u = t  BY <1>4, <1>5, <1>7, <2>1
  <2>2. CASE u # t
    <3>1. u \in Threads /\ job'[u] = job[u]  BY <1>3, <2>2 DEF Threads
    <3>2. Copied(u)' = Copied(u) /\ job[u].id \in Ids  BY <3>1 DEF Copied, JobsKnown
    <3>3. Copied(u) \subseteq folder[job[u].id]  BY <3>1 DEF CopiedFirst
    <3> QED  BY <1>6, <3>1, <3>2, <3>3
  <2> QED  BY <2>1, <2>2
<1>13. ClearsOld'  BY <1>0, <1>1, <1>3 DEF ClearsOld, Present
<1>14. job'["pool"] = job["pool"]  BY <1>0, <1>3
<1> HIDE DEF StoreInv
<1> QED  BY <1>1, <1>8, <1>9, <1>10, <1>11, <1>12, <1>13, <1>14, NothingNew

\* A creation that ends without a row, whatever it leaves behind
LEMMA GivingUp ==
  ASSUME StoreInv, NEW t \in {"form", "shell"}, Creating(t), Finished(t), UNCHANGED <<task, reopened, worker>>,
         bulk' \in {bulk, NoBulk}, folder' \in [Ids -> SUBSET Pictures],
         \A i \in Ids : folder[i] \subseteq folder'[i]
  PROVE  StoreInv'
<1> USE DEF StoreInv
<1>1. /\ job' \in [Threads -> JobState] /\ JobsKnown' /\ job'["pool"] = job["pool"]
      /\ \A u \in Threads : job'[u] \in {job[u], NoJob}
  BY DoneWith
<1>2. TypeOK'  BY <1>1, Blanks DEF TypeOK
<1>3. NoNewRow  BY DEF NoNewRow, Present, OneWorker
<1>4. \A u \in {"form", "shell"} : job[u].pc = "insert" => folder[job[u].id] \subseteq folder'[job[u].id]
  BY DEF JobsKnown, Threads
<1>5. CopiedFirst' /\ GoOn  BY <1>1, <1>4, CopiesStay DEF Threads
<1>6. ClearsOld'  BY <1>1 DEF ClearsOld, Present
<1> HIDE DEF StoreInv
<1> QED  BY <1>1, <1>2, <1>3, <1>5, <1>6, NothingNew

LEMMA CopyFailsStep ==
  ASSUME StoreInv, NEW t \in Threads, CopyFails(t)
  PROVE  StoreInv'
<1> USE DEF StoreInv
<1>0. t \in {"form", "shell"} /\ job[t].id \in Ids /\ Creating(t)
  BY Creator DEF CopyFails, Creating
<1>1. PICK some \in SUBSET Copied(t) : folder' = [folder EXCEPT ![job[t].id] = @ \cup some]
  BY DEF CopyFails
<1>2. Copied(t) \subseteq Pictures
  <2>1. job[t].draft.assets \in Seq(Asset)  BY DEF TypeOK, JobState, TaskRow
  <2>2. \A k \in DOMAIN job[t].draft.assets : job[t].draft.assets[k] \in Asset
    BY <2>1, LenProperties
  <2> QED  BY <2>2 DEF Copied, Asset
<1>3. folder \in [Ids -> SUBSET Pictures]  BY DEF TypeOK
<1>4. folder' \in [Ids -> SUBSET Pictures] /\ \A i \in Ids : folder[i] \subseteq folder'[i]
  BY <1>0, <1>1, <1>2, <1>3
<1>5. Finished(t) /\ bulk' \in {bulk, NoBulk} /\ UNCHANGED <<task, reopened, worker>>
  BY DEF CopyFails, Aborts
<1> HIDE DEF StoreInv
<1> QED  BY <1>0, <1>4, <1>5, GivingUp

LEMMA InsertFailsStep ==
  ASSUME StoreInv, NEW t \in Threads, InsertFails(t)
  PROVE  StoreInv'
<1> USE DEF StoreInv
<1>0. t \in {"form", "shell"} /\ Creating(t)  BY Creator DEF InsertFails, Creating
<1>1. Finished(t) /\ bulk' \in {bulk, NoBulk} /\ UNCHANGED <<task, folder, reopened, worker>>
  BY DEF InsertFails, Aborts
<1>2. folder' \in [Ids -> SUBSET Pictures] /\ \A i \in Ids : folder[i] \subseteq folder'[i]
  BY <1>1 DEF TypeOK
<1> HIDE DEF StoreInv
<1> QED  BY <1>0, <1>1, <1>2, GivingUp

\* The current row of a bulk import is created: as previewed, with what it names.
LEMMA Counting ==
  ASSUME StoreInv, bulk # NoBulk, Creating("form"), NEW i \in Ids, i = job["form"].id,
         bulk' = [bulk EXCEPT !.n = @ + 1, !.done = @ \cup {<<bulk.n, i>>}],
         task' = [task EXCEPT ![i] = job["form"].draft]
  PROVE  BulkIsHonest' /\ bulk' \in BulkState /\ bulk'.n > 1
         /\ \A p \in bulk'.done : p[1] \in DOMAIN bulk'.sheet
<1> USE DEF StoreInv
<1> DEFINE row == bulk.sheet[bulk.n]
           done == {n \in DOMAIN bulk.sheet : \E k \in Ids : <<n, k>> \in bulk.done}
           more == bulk.done \cup {<<bulk.n, i>>}
           done2 == {n \in DOMAIN bulk.sheet : \E k \in Ids : <<n, k>> \in more}
<1>1. bulk \in BulkState /\ bulk.n \in Nat /\ bulk.n # 0 /\ bulk.n > 0
  BY DEF TypeOK, BulkState, BulkStands
<1>2. /\ bulk'.sheet = bulk.sheet /\ bulk'.done = more /\ bulk'.staged = bulk.staged
      /\ bulk'.n = bulk.n + 1 /\ bulk'.errors = bulk.errors
  BY <1>1 DEF BulkState
<1>3. bulk' \in BulkState
  <2>1. bulk.n + 1 \in Nat /\ more \in SUBSET (Nat \X Ids)  BY <1>1 DEF BulkState
  <2> QED  BY <1>1, <2>1 DEF BulkState
<1>4. done \cup bulk.errors = 1..(bulk.n - 1) /\ done \cap bulk.errors = {}  BY DEF BulkIsHonest
<1>5. /\ bulk.n \in DOMAIN bulk.sheet /\ job["form"].draft = RowDraft(row)
      /\ Resolves(row, bulk.staged) /\ row.mode # "unknown" /\ row.slip = "none"
      /\ \A n \in DOMAIN bulk.sheet : <<n, i>> \notin bulk.done
  BY <1>1 DEF BulkStands
<1>6. row \in SheetRow  BY <1>5, RowOfSheet
<1>7. done2 = done \cup {bulk.n}  BY <1>5
<1>8. done2 \cup bulk.errors = 1..((bulk.n + 1) - 1) /\ done2 \cap bulk.errors = {}
  <2> HIDE DEF done, done2
  <2>1. bulk.n \notin bulk.errors  BY <1>1, <1>4
  <2>2. (bulk.n + 1) - 1 = bulk.n /\ (1..(bulk.n - 1)) \cup {bulk.n} = 1..bulk.n  BY <1>1
  <2> QED  BY <1>4, <1>7, <2>1, <2>2
<1>9. ASSUME NEW n \in DOMAIN bulk.sheet, NEW k \in Ids, <<n, k>> \in more
      PROVE  LET r == bulk.sheet[n] IN
             /\ PreviewOk(r, bulk.staged)
             /\ Present(k)' =>
                  /\ {task'[k].assets[a].pic : a \in DOMAIN task'[k].assets} = Named(r)
                  /\ r.kind \in FrameKinds => task'[k].mode = "frames"
  <2>1. CASE <<n, k>> = <<bulk.n, i>>
    <3>1. n = bulk.n /\ k = i  BY <2>1
    <3>2. PreviewOk(row, bulk.staged)  BY <1>5 DEF PreviewOk
    <3>3. task'[i] = RowDraft(row)  BY <1>5 DEF TypeOK
    <3>4. task'[i].assets = RowAssets(row) /\ task'[i].mode = RowMode(row)  BY <3>3 DEF RowDraft
    <3>5. Pics(RowAssets(row)) = Named(row) /\ (row.kind \in FrameKinds => RowMode(row) = "frames")
      BY <1>5, <1>6, RowIsWhole DEF Resolves
    <3>6. {task'[i].assets[a].pic : a \in DOMAIN task'[i].assets} = Named(row)
      BY <3>4, <3>5 DEF Pics
    <3> QED  BY <3>1, <3>2, <3>4, <3>5, <3>6
  <2>2. CASE <<n, k>> # <<bulk.n, i>>
    <3>1. <<n, k>> \in bulk.done  BY <1>9, <2>2
    <3>2. k # i  BY <1>5, <3>1
    <3>3. task'[k] = task[k]  BY <3>2 DEF TypeOK
    <3> QED  BY <3>1, <3>3 DEF BulkIsHonest, Present
  <2> QED  BY <2>1, <2>2
<1>10. BulkIsHonest'  BY <1>2, <1>8, <1>9 DEF BulkIsHonest
<1>11. \A p \in bulk'.done : p[1] \in DOMAIN bulk'.sheet
  <2> SUFFICES ASSUME NEW p \in more PROVE p[1] \in DOMAIN bulk.sheet  BY <1>2
  <2> QED  BY <1>5 DEF BulkStands
<1> QED  BY <1>1, <1>2, <1>3, <1>10, <1>11

\* What holds of the rows and their pictures when one is added that nobody else has
\* an active task of
LEMMA RowIsAdded ==
  ASSUME StoreInv, NEW t \in {"form", "shell"}, Creating(t), job[t].pc = "insert",
         task' = [task EXCEPT ![job[t].id] = job[t].draft], folder' = folder,
         reopened' = reopened \ {job[t].id}
  PROVE  OnlyReopeningDuplicates' /\ PicturesAreKept'
<1> USE DEF StoreInv
<1> DEFINE i == job[t].id
           draft == job[t].draft
<1>1. i \in Ids  BY Creator DEF Threads
<1>2. task \in [Ids -> TaskRow]  BY DEF TypeOK
<1> HIDE DEF i, draft
<1>3. task' = [task EXCEPT ![i] = draft] /\ reopened' = reopened \ {i}  BY DEF i, draft
<1>4. task'[i] = draft /\ \A k \in Ids : k # i => task'[k] = task[k]  BY <1>1, <1>2, <1>3
<1>5. \A k \in Ids : task[k].status \in Active /\ task[k].key = draft.key => k \in reopened
  BY DEF KeyIsFree, draft
<1>6. OnlyReopeningDuplicates'
  <2> SUFFICES ASSUME NEW k \in Ids, NEW l \in Ids, k # l,
                      task'[k].status \in Active, task'[l].status \in Active, task'[k].key = task'[l].key
               PROVE  k \in reopened' \/ l \in reopened'
    BY DEF OnlyReopeningDuplicates
  <2>1. CASE k = i  BY <1>3, <1>4, <1>5, <2>1
  <2>2. CASE l = i  BY <1>3, <1>4, <1>5, <2>2
  <2>3. CASE k # i /\ l # i  BY <1>3, <1>4, <2>3 DEF OnlyReopeningDuplicates
  <2> QED  BY <2>1, <2>2, <2>3
<1>7. PicturesAreKept'
  <2> SUFFICES ASSUME NEW k \in Ids, Present(k)', task'[k].managed, NEW n \in DOMAIN task'[k].assets
               PROVE  task'[k].assets[n].pic \in folder'[k]
    BY DEF PicturesAreKept
  <2>1. CASE k = i
    <3>1. draft.managed /\ n \in DOMAIN draft.assets  BY <1>4, <2>1
    <3>2. draft.assets[n].pic \in Copied(t)  BY <3>1 DEF Copied, draft
    <3>3. Copied(t) \subseteq folder[i]  BY <3>1 DEF CopiedFirst, i, draft
    <3> QED  BY <1>4, <2>1, <3>2, <3>3
  <2>2. CASE k # i
    <3>1. task'[k] = task[k]  BY <1>4, <2>2
    <3> QED  BY <3>1 DEF PicturesAreKept, Present
  <2> QED  BY <2>1, <2>2
<1> QED  BY <1>6, <1>7

LEMMA RowStep ==
  ASSUME StoreInv, NEW t \in {"form", "shell"}, Creating(t), Insert(t), job'["pool"] = job["pool"]
  PROVE  ClearsOld' /\ OnlyReopeningDuplicates' /\ PicturesAreKept' /\ OneWorker'
<1> DEFINE i == job[t].id
           ok == ~Present(i) /\ (job[t].draft.dep = None \/ Present(job[t].draft.dep))
<1>0. /\ CreatesNew /\ ClearsOld /\ OnlyReopeningDuplicates /\ PicturesAreKept /\ OneWorker
      /\ TypeOK /\ JobsKnown
  BY DEF StoreInv
<1>1. /\ task' = IF ok THEN [task EXCEPT ![i] = job[t].draft] ELSE task
      /\ reopened' = IF ok THEN reopened \ {i} ELSE reopened
      /\ folder' = folder /\ worker' = worker /\ job[t].pc = "insert"
  BY DEF Insert
<1>2. CASE ok
  <2>1. OnlyReopeningDuplicates' /\ PicturesAreKept'  BY <1>1, <1>2, RowIsAdded
  <2>2. ClearsOld'
    <3>1. job["pool"].id # i  BY <1>0 DEF CreatesNew
    <3>2. job["pool"].pc = "clear" => job["pool"].id \in Ids  BY <1>0 DEF JobsKnown, Threads
    <3> QED  BY <1>0, <1>1, <1>2, <3>1, <3>2 DEF ClearsOld, Present, TypeOK
  <2>3. OneWorker'
    <3>1. i \in Ids /\ worker[i] = 0  BY <1>0, Creator DEF CreatesNew, Threads
    <3>2. ASSUME NEW k \in Ids, k \notin reopened'
          PROVE  worker[k] = 0 \/ (worker[k] = 1 /\ task'[k].status \in {"running", "absent"})
      <4>1. CASE k = i  BY <3>1, <4>1
      <4>2. CASE k # i
        <5>1. task'[k] = task[k] /\ k \notin reopened  BY <1>0, <1>1, <1>2, <3>2, <4>2 DEF TypeOK
        <5> QED  BY <1>0, <5>1 DEF OneWorker
      <4> QED  BY <4>1, <4>2
    <3> QED  BY <1>1, <3>2 DEF OneWorker
  <2> QED  BY <2>1, <2>2, <2>3
<1>3. CASE ~ok
  <2>1. task' = task /\ reopened' = reopened  BY <1>1, <1>3
  <2> QED  BY <1>0, <1>1, <2>1 DEF ClearsOld, OnlyReopeningDuplicates, PicturesAreKept, OneWorker, Present
<1> QED  BY <1>2, <1>3

LEMMA InsertStep ==
  ASSUME StoreInv, NEW t \in Threads, Insert(t)
  PROVE  StoreInv'
<1> USE DEF StoreInv
<1> DEFINE i == job[t].id
           ok == ~Present(i) /\ (job[t].draft.dep = None \/ Present(job[t].draft.dep))
<1>0. t \in {"form", "shell"} /\ job[t].id \in Ids /\ Creating(t) /\ job[t].pc = "insert"
  BY Creator DEF Insert, Creating
<1>1. /\ task' = IF ok THEN [task EXCEPT ![i] = job[t].draft] ELSE task
      /\ reopened' = IF ok THEN reopened \ {i} ELSE reopened
      /\ folder' = folder /\ worker' = worker /\ Finished(t)
      /\ bulk' = IF t # "form" \/ bulk = NoBulk THEN bulk
                 ELSE IF ok THEN [bulk EXCEPT !.n = @ + 1, !.done = @ \cup {<<bulk.n, job[t].id>>}]
                 ELSE [bulk EXCEPT !.n = @ + 1, !.errors = @ \cup {bulk.n}]
  BY DEF Insert, Concludes
<1>2. /\ job' \in [Threads -> JobState] /\ JobsKnown' /\ job'["pool"] = job["pool"]
      /\ job'[t] = NoJob /\ \A u \in Threads : job'[u] \in {job[u], NoJob}
  BY <1>0, <1>1, DoneWith
<1>3. \A u \in {"form", "shell"} : ~Creating(u)' /\ job'[u].pc # "insert"
  <2>1. \A u \in {"form", "shell"} : u # t => ~Creating(u)  BY <1>0 DEF OneCreation
  <2> QED  BY <1>2, <2>1 DEF Creating, NoJob, Threads
<1>4. job[t].draft \in TaskRow  BY DEF TypeOK, JobState
<1>5. task' \in [Ids -> TaskRow] /\ reopened' \subseteq Ids  BY <1>0, <1>1, <1>4 DEF TypeOK
<1>6. CASE t = "shell" \/ bulk = NoBulk
  <2>1. bulk = NoBulk  BY <1>0, <1>6 DEF OneCreation, BulkStands, TypeOK, BulkState
  <2>2. bulk' = NoBulk  BY <1>1, <2>1
  <2>3. BulkIsHonest' /\ bulk' \in BulkState /\ BulkStands'
    BY <2>2, Blanks DEF BulkIsHonest, BulkStands, NoBulk
  <2>4. TypeOK'  BY <1>1, <1>2, <1>5, <2>3 DEF TypeOK
  <2>5. OneCreation' /\ CreatesNew' /\ KeyIsFree' /\ CopiedFirst'
    BY <1>3 DEF OneCreation, CreatesNew, KeyIsFree, CopiedFirst
  <2>6. ClearsOld' /\ OnlyReopeningDuplicates' /\ PicturesAreKept' /\ OneWorker'
    BY <1>0, <1>1, <1>2, RowStep
  <2> QED  BY <1>2, <2>3, <2>4, <2>5, <2>6
<1>7. CASE t = "form" /\ bulk # NoBulk
  <2>1. bulk.n > 0 /\ bulk.n \in DOMAIN bulk.sheet
    BY <1>0, <1>7 DEF BulkStands, TypeOK, BulkState
  <2>2. /\ BulkIsHonest' /\ bulk' \in BulkState /\ bulk'.n > 1
        /\ \A p \in bulk'.done : p[1] \in DOMAIN bulk'.sheet
    <3>1. CASE ok  BY <1>0, <1>1, <1>7, <3>1, Counting
    <3>2. CASE ~ok
      <4>1. bulk' = [bulk EXCEPT !.n = @ + 1, !.errors = @ \cup {bulk.n}] /\ task' = task
        BY <1>1, <1>7, <3>2
      <4>2. bulk'.done = bulk.done /\ bulk'.sheet = bulk.sheet  BY <4>1 DEF TypeOK, BulkState
      <4>3. \A p \in bulk'.done : p[1] \in DOMAIN bulk'.sheet  BY <4>2 DEF BulkStands
      <4> HIDE DEF StoreInv
      <4> QED  BY <1>7, <2>1, <4>1, <4>3, Reporting
    <3> QED  BY <3>1, <3>2
  <2>3. TypeOK'  BY <1>1, <1>2, <1>5, <2>2 DEF TypeOK
  <2>4. BulkStands'  BY <1>3, <2>2 DEF BulkStands, BulkState
  <2>5. OneCreation' /\ CreatesNew' /\ KeyIsFree' /\ CopiedFirst'
    BY <1>3 DEF OneCreation, CreatesNew, KeyIsFree, CopiedFirst
  <2>6. ClearsOld' /\ OnlyReopeningDuplicates' /\ PicturesAreKept' /\ OneWorker'
    BY <1>0, <1>1, <1>2, RowStep
  <2> QED  BY <1>2, <2>2, <2>3, <2>4, <2>5, <2>6
<1> QED  BY <1>0, <1>6, <1>7

\* A file is inserted as a whole; its pictures are not copied.
LEMMA ImportTasksStep ==
  ASSUME StoreInv, Serial, NEW file \in Files, ImportTasks(file)
  PROVE  StoreInv'
<1> USE DEF StoreInv
<1> DEFINE inserted == {file[n].id : n \in DOMAIN file}
           at(i) == CHOOSE n \in DOMAIN file : file[n].id = i
<1>1. /\ FileOk(file) /\ Accepted(file) /\ \A n \in DOMAIN file : Fresh(file[n].id)
      /\ task' = [i \in Ids |-> IF i \notin inserted THEN task[i] ELSE ImportedRow(file[at(i)])]
      /\ reopened' = reopened \ inserted
      /\ UNCHANGED <<folder, job, bulk, worker>>
  BY DEF ImportTasks
<1>2. bulk = NoBulk /\ \A u \in {"form", "shell"} : ~Creating(u)
  BY NobodyCreates DEF ImportTasks, Threads
<1>3. \A n \in DOMAIN file : file[n] \in FileRow
  <2>1. file \in Seq(FileRow)  BY StoreOK
  <2> QED  BY <2>1, LenProperties, ElementOfSeq
<1>4. \A i \in inserted : at(i) \in DOMAIN file /\ file[at(i)].id = i
  <2> TAKE i \in inserted
  <2>1. \E n \in DOMAIN file : file[n].id = i  OBVIOUS
  <2> QED  BY <2>1
<1> HIDE DEF at
<1>5. inserted \subseteq Ids  BY <1>3 DEF FileRow
<1>6. \A i \in Ids \ inserted : task'[i] = task[i]  BY <1>1
<1>7. \A i \in inserted : /\ task'[i] = ImportedRow(file[at(i)])
                          /\ task'[i].key = file[at(i)].key /\ ~task'[i].managed
  <2> TAKE i \in inserted
  <2>1. task'[i] = ImportedRow(file[at(i)])  BY <1>1, <1>5
  <2> QED  BY <2>1 DEF ImportedRow
<1>8. \A i \in inserted : worker[i] = 0 /\ \A u \in Threads : job[u].id # i
  BY <1>1, <1>3 DEF Fresh, InUse, TypeOK, FileRow
<1> HIDE DEF inserted
<1>9. TypeOK'
  <2>1. ASSUME NEW i \in Ids PROVE task'[i] \in TaskRow
    <3>1. CASE i \in inserted  BY <1>3, <1>4, <1>7, <3>1, ImportIsTyped
    <3>2. CASE i \notin inserted  BY <1>6, <3>2 DEF TypeOK
    <3> QED  BY <3>1, <3>2
  <2>2. task' \in [Ids -> TaskRow]  BY <1>1, <2>1
  <2> QED  BY <1>1, <2>2 DEF TypeOK
<1>10. JobsKnown'  BY <1>1 DEF JobsKnown, Creating, IsIdle
<1>11. \A u \in {"form", "shell"} : ~Creating(u)'  BY <1>1, <1>2 DEF Creating
<1>12. OneCreation' /\ CreatesNew' /\ KeyIsFree'
  BY <1>11 DEF OneCreation, CreatesNew, KeyIsFree
<1>13. CopiedFirst'  BY <1>11 DEF CopiedFirst, Creating
<1>14. ClearsOld'
  <2>1. job["pool"].pc = "clear" => job["pool"].id \in Ids  BY DEF JobsKnown, Threads
  <2>2. job["pool"].pc = "clear" => job["pool"].id \notin inserted  BY <1>8 DEF Threads
  <2> QED  BY <1>1, <1>6, <2>1, <2>2 DEF ClearsOld, Present
<1>15. OnlyReopeningDuplicates'
  <2>1. \A i \in inserted, k \in Ids : ~(task[k].status \in Active /\ task[k].key = task'[i].key)
    BY <1>1, <1>4, <1>7 DEF Accepted, ActiveTask
  <2>2. \A i, k \in inserted : i # k => task'[i].key # task'[k].key
    BY <1>1, <1>4, <1>7 DEF FileOk
  <2> SUFFICES ASSUME NEW i \in Ids, NEW k \in Ids, i # k,
                      task'[i].status \in Active, task'[k].status \in Active, task'[i].key = task'[k].key
               PROVE  i \in reopened' \/ k \in reopened'
    BY DEF OnlyReopeningDuplicates
  <2>3. CASE i \in inserted \/ k \in inserted  BY <1>6, <2>1, <2>2, <2>3
  <2>4. CASE i \notin inserted /\ k \notin inserted  BY <1>1, <1>6, <2>4 DEF OnlyReopeningDuplicates
  <2> QED  BY <2>3, <2>4
<1>16. PicturesAreKept'
  <2> SUFFICES ASSUME NEW i \in Ids, Present(i)', task'[i].managed, NEW k \in DOMAIN task'[i].assets
               PROVE  task'[i].assets[k].pic \in folder'[i]
    BY DEF PicturesAreKept
  <2>1. task'[i] = task[i]  BY <1>6, <1>7
  <2> QED  BY <1>1, <2>1 DEF PicturesAreKept, Present
<1>17. BulkIsHonest' /\ BulkStands'
  BY <1>1, <1>2 DEF BulkIsHonest, BulkStands, NoBulk
<1>18. OneWorker'
  <2> SUFFICES ASSUME NEW k \in Ids, k \notin reopened'
               PROVE  worker[k] = 0 \/ (worker[k] = 1 /\ task'[k].status \in {"running", "absent"})
    BY <1>1 DEF OneWorker
  <2>1. CASE k \in inserted  BY <1>8, <2>1
  <2>2. CASE k \notin inserted  BY <1>1, <1>6, <2>2 DEF OneWorker
  <2> QED  BY <2>1, <2>2
<1> QED  BY <1>9, <1>10, <1>12, <1>13, <1>14, <1>15, <1>16, <1>17, <1>18

-----------------------------------------------------------------------------
\* Resume, reset and deletion

\* The pool's thread goes on; the others stay where they are.
PoolGoes ==
  /\ job' \in [Threads -> JobState]
  /\ job'["form"] = job["form"] /\ job'["shell"] = job["shell"]
  /\ job'["pool"].pc \in {"idle", "resume", "delete", "clear"}
  /\ job'["pool"].pc # "idle" => job'["pool"].id \in Ids
  /\ job'["pool"].pc = "idle" => job'["pool"] = NoJob

LEMMA PoolJob ==
  ASSUME TypeOK, JobsKnown, NEW new \in JobState, job' = [job EXCEPT !["pool"] = new],
         (new.pc \in {"resume", "delete", "clear"} /\ new.id \in Ids) \/ new = NoJob
  PROVE  PoolGoes /\ job'["pool"] = new
<1>1. job \in [Threads -> JobState] /\ {"form", "shell", "pool"} \subseteq Threads  BY DEF TypeOK, Threads
<1>2. job' \in [Threads -> JobState]  BY <1>1
<1>3. job'["pool"] = new /\ job'["form"] = job["form"] /\ job'["shell"] = job["shell"]  BY <1>1
<1> QED  BY <1>2, <1>3 DEF PoolGoes, NoJob

LEMMA PoolStep ==
  ASSUME StoreInv, PoolGoes, NoNewRow, task' \in [Ids -> TaskRow], folder' \in [Ids -> SUBSET Pictures],
         reopened \subseteq reopened', reopened' \subseteq Ids, bulk' = bulk, worker' \in [Ids -> Nat],
         \A t \in {"form", "shell"} : job[t].pc = "insert" => folder[job[t].id] \subseteq folder'[job[t].id],
         ClearsOld',
         job'["pool"].id \in {job["pool"].id, None} \/ Present(job'["pool"].id)
  PROVE  StoreInv'
<1> USE DEF StoreInv
<1>1. TypeOK'  BY DEF TypeOK, PoolGoes
<1>2. JobsKnown'
  <2>1. ASSUME NEW u \in {"form", "shell"}
        PROVE  /\ job'[u].pc \in {"idle", "copy", "insert"}
               /\ job'[u].pc # "idle" => job'[u].id \in Ids
               /\ job'[u].pc = "idle" => job'[u] = NoJob
               /\ job'[u].pc \in {"copy", "insert"} => job'[u].draft.status = "pending"
               /\ job'[u].pc = "copy" => job'[u].draft.managed
    <3>1. job'[u] = job[u] /\ u \in Threads  BY DEF PoolGoes, Threads
    <3> QED  BY <3>1 DEF JobsKnown, Creating, IsIdle
  <2> QED  BY <2>1 DEF JobsKnown, Creating, IsIdle, Threads, PoolGoes
<1>3. \A t \in {"form", "shell"} : job'[t] \in {job[t], NoJob}  BY DEF PoolGoes
<1>4. CopiedFirst' /\ GoOn  BY <1>3, CopiesStay
<1> HIDE DEF StoreInv
<1> QED  BY <1>1, <1>2, <1>4, NothingNew

\* A status of a task alone changes, in a way that gives the task back.
LEMMA GivenBackRows ==
  ASSUME TypeOK, OneWorker, NEW i \in Ids, NEW s \in Active, GivesBack(i, s),
         folder' = folder, worker' = worker
  PROVE  /\ task' \in [Ids -> TaskRow] /\ NoNewRow
         /\ reopened \subseteq reopened' /\ reopened' \subseteq Ids
         /\ \A k \in Ids : Present(k)' => Present(k)
<1>1. task \in [Ids -> TaskRow] /\ task[i] \in TaskRow  BY DEF TypeOK
<1>2. [task[i] EXCEPT !.status = s] \in TaskRow  BY <1>1 DEF TaskRow, Active
<1>3. task' \in [Ids -> TaskRow]  BY <1>1, <1>2 DEF GivesBack
<1>4. reopened \subseteq reopened' /\ reopened' \subseteq Ids  BY DEF GivesBack, TypeOK
<1>5. task[i].status \in {"absent"} \cup Active \cup Ended  BY <1>1 DEF TaskRow
<1>6. ASSUME NEW k \in Ids
      PROVE  /\ Present(k)' => /\ Present(k)
                               /\ task'[k].assets = task[k].assets /\ task'[k].mode = task[k].mode
                               /\ task'[k].managed = task[k].managed /\ task'[k].key = task[k].key
             /\ task'[k].status \in Active => task[k].status \in Active \/ k \in reopened'
             /\ k \notin reopened' =>
                  worker[k] = 0 \/ (worker[k] = 1 /\ task'[k].status \in {"running", "absent"})
  <2>1. CASE k = i /\ Present(i)
    <3>1. task'[i] = [task[i] EXCEPT !.status = s]  BY <1>1, <2>1 DEF GivesBack
    <3>2. /\ task'[i].assets = task[i].assets /\ task'[i].mode = task[i].mode
          /\ task'[i].managed = task[i].managed /\ task'[i].key = task[i].key
      BY <1>1, <3>1 DEF TaskRow
    <3>3. task[i].status \in Active \/ i \in reopened'  BY <1>5, <2>1 DEF GivesBack, Present
    <3>4. i \notin reopened' => worker[i] = 0  BY DEF GivesBack, TypeOK
    <3> QED  BY <2>1, <3>2, <3>3, <3>4
  <2>2. CASE k # i \/ ~Present(i)
    <3>1. task'[k] = task[k]  BY <1>1, <2>2 DEF GivesBack
    <3> QED  BY <1>4, <3>1 DEF Present, OneWorker
  <2> QED  BY <2>1, <2>2
<1>7. NoNewRow  BY <1>6 DEF NoNewRow
<1> QED  BY <1>3, <1>4, <1>6, <1>7

LEMMA ResumeStep ==
  ASSUME StoreInv, Resume
  PROVE  StoreInv'
<1> USE DEF StoreInv
<1>1. job["pool"].id \in Ids  BY DEF Resume, JobsKnown, Threads
<1>2. /\ task' \in [Ids -> TaskRow] /\ NoNewRow
      /\ reopened \subseteq reopened' /\ reopened' \subseteq Ids
  BY <1>1, GivenBackRows DEF Resume, Active
<1>3. PoolGoes /\ job'["pool"] = NoJob  BY PoolJob, Blanks DEF Resume, Finished
<1>4. UNCHANGED <<folder, bulk, worker>>  BY DEF Resume
<1>5. folder' \in [Ids -> SUBSET Pictures] /\ worker' \in [Ids -> Nat]  BY <1>4 DEF TypeOK
<1>6. ClearsOld' /\ job'["pool"].id = None  BY <1>3 DEF ClearsOld, NoJob
<1> HIDE DEF StoreInv
<1> QED  BY <1>2, <1>3, <1>4, <1>5, <1>6, PoolStep

\* A step that leaves the jobs alone
LEMMA JobsStand ==
  ASSUME TypeOK, JobsKnown, job' = job
  PROVE  PoolGoes
BY DEF TypeOK, JobsKnown, PoolGoes, IsIdle, Threads

\* The reset by an operator, and the recoveries
LEMMA GivenBackStep ==
  ASSUME StoreInv, NEW i \in Ids, TaskReset(i) \/ Recovered(i)
  PROVE  StoreInv'
<1> USE DEF StoreInv
<1>1. UNCHANGED <<folder, job, bulk, worker>>  BY DEF TaskReset, Recovered
<1>2. PICK s \in Active : GivesBack(i, s)  BY DEF TaskReset, Recovered, Active
<1>3. /\ task' \in [Ids -> TaskRow] /\ NoNewRow
      /\ reopened \subseteq reopened' /\ reopened' \subseteq Ids
      /\ \A k \in Ids : Present(k)' => Present(k)
  BY <1>1, <1>2, GivenBackRows
<1>4. PoolGoes  BY <1>1, JobsStand
<1>5. folder' \in [Ids -> SUBSET Pictures] /\ worker' \in [Ids -> Nat]  BY <1>1 DEF TypeOK
<1>6. ClearsOld'
  <2>1. job["pool"].pc = "clear" => job["pool"].id \in Ids  BY DEF JobsKnown, Threads
  <2> QED  BY <1>1, <1>3, <2>1 DEF ClearsOld, Present
<1> HIDE DEF StoreInv
<1> QED  BY <1>1, <1>3, <1>4, <1>5, <1>6, PoolStep

LEMMA AskStep ==
  ASSUME StoreInv, NEW i \in Ids, AskResume(i) \/ AskDelete(i)
  PROVE  StoreInv'
<1> USE DEF StoreInv
<1>1. Present(i) /\ UNCHANGED <<task, folder, bulk, reopened, worker>>
  BY DEF AskResume, AskDelete, Present, Resumable
<1>2. PICK new \in JobState : /\ job' = [job EXCEPT !["pool"] = new]
                              /\ new.pc \in {"resume", "delete"} /\ new.id = i
  <2>1. CASE AskResume(i)
    <3>1. [NoJob EXCEPT !.pc = "resume", !.id = i] \in JobState  BY Blanks DEF NoJob, JobState
    <3> QED  BY <2>1, <3>1 DEF AskResume, NoJob
  <2>2. CASE AskDelete(i)
    <3>1. PICK keep \in BOOLEAN : job' = [job EXCEPT !["pool"] = [NoJob EXCEPT !.pc = "delete", !.id = i, !.keep = keep]]
      BY <2>2 DEF AskDelete
    <3>2. [NoJob EXCEPT !.pc = "delete", !.id = i, !.keep = keep] \in JobState
      BY Blanks DEF NoJob, JobState
    <3> QED  BY <3>1, <3>2 DEF NoJob
  <2> QED  BY <2>1, <2>2
<1>3. PoolGoes /\ job'["pool"] = new  BY <1>2, PoolJob
<1>4. NoNewRow  BY <1>1 DEF NoNewRow, Present, OneWorker
<1>5. /\ task' \in [Ids -> TaskRow] /\ folder' \in [Ids -> SUBSET Pictures]
      /\ worker' \in [Ids -> Nat] /\ reopened' \subseteq Ids
  BY <1>1 DEF TypeOK
<1>6. ClearsOld' /\ Present(job'["pool"].id)  BY <1>1, <1>2, <1>3 DEF ClearsOld
<1> HIDE DEF StoreInv
<1> QED  BY <1>1, <1>3, <1>4, <1>5, <1>6, PoolStep

LEMMA DeleteRowStep ==
  ASSUME StoreInv, DeleteRow
  PROVE  StoreInv'
<1> USE DEF StoreInv
<1> DEFINE i == job["pool"].id
<1>1. /\ task' = [k \in Ids |-> IF k = i THEN NoTask
                   ELSE IF task[k].dep = i THEN [task[k] EXCEPT !.dep = None] ELSE task[k]]
      /\ IF job["pool"].keep THEN Finished("pool") ELSE job' = [job EXCEPT !["pool"].pc = "clear"]
      /\ job["pool"].pc = "delete" /\ UNCHANGED <<folder, bulk, reopened, worker>>
  BY DEF DeleteRow
<1>2. i \in Ids /\ job \in [Threads -> JobState] /\ job["pool"] \in JobState
  BY <1>1 DEF JobsKnown, Threads, TypeOK
<1>3. ASSUME NEW k \in Ids, k # i
      PROVE  /\ task'[k] \in TaskRow /\ task'[k].status = task[k].status
             /\ task'[k].assets = task[k].assets /\ task'[k].mode = task[k].mode
             /\ task'[k].managed = task[k].managed /\ task'[k].key = task[k].key
  <2>1. task[k] \in TaskRow  BY DEF TypeOK
  <2>2. CASE task[k].dep = i
    <3>1. task'[k] = [task[k] EXCEPT !.dep = None]  BY <1>1, <1>3, <2>2
    <3> QED  BY <2>1, <3>1 DEF TaskRow
  <2>3. CASE task[k].dep # i
    <3>1. task'[k] = task[k]  BY <1>1, <1>3, <2>3
    <3> QED  BY <2>1, <3>1
  <2> QED  BY <2>2, <2>3
<1>4. task'[i] = NoTask /\ task'[i].status = "absent"  BY <1>1, <1>2 DEF NoTask
<1>5. task' \in [Ids -> TaskRow]
  <2>1. \A k \in Ids : task'[k] \in TaskRow  BY <1>3, <1>4, Blanks
  <2> QED  BY <1>1, <2>1
<1>6. NoNewRow
  <2> SUFFICES ASSUME NEW k \in Ids
               PROVE  /\ Present(k)' =>
                           /\ Present(k) /\ folder[k] \subseteq folder'[k]
                           /\ task'[k].assets = task[k].assets /\ task'[k].mode = task[k].mode
                           /\ task'[k].managed = task[k].managed /\ task'[k].key = task[k].key
                      /\ task'[k].status \in Active => task[k].status \in Active \/ k \in reopened'
                      /\ k \notin reopened' =>
                           worker[k] = 0 \/ (worker[k] = 1 /\ task'[k].status \in {"running", "absent"})
    BY <1>1 DEF NoNewRow
  <2>1. CASE k = i  BY <1>1, <1>4, <2>1 DEF Present, NoTask, Active, OneWorker
  <2>2. CASE k # i  BY <1>1, <1>3, <2>2 DEF Present, OneWorker
  <2> QED  BY <2>1, <2>2
<1>7. PoolGoes /\ ClearsOld' /\ job'["pool"].id \in {job["pool"].id, None}
  <2>1. CASE job["pool"].keep
    <3>1. PoolGoes /\ job'["pool"] = NoJob  BY <1>1, <2>1, PoolJob, Blanks DEF Finished
    <3> QED  BY <3>1 DEF ClearsOld, NoJob
  <2>2. CASE ~job["pool"].keep
    <3> DEFINE new == [job["pool"] EXCEPT !.pc = "clear"]
    <3>1. new \in JobState /\ new.pc = "clear" /\ new.id = i  BY <1>2 DEF JobState
    <3>2. job' = [job EXCEPT !["pool"] = new]  BY <1>1, <1>2, <2>2 DEF Threads
    <3> HIDE DEF new
    <3>3. PoolGoes /\ job'["pool"] = new  BY <1>2, <3>1, <3>2, PoolJob
    <3> QED  BY <1>4, <3>1, <3>3 DEF ClearsOld, Present
  <2> QED  BY <2>1, <2>2
<1>8. folder' \in [Ids -> SUBSET Pictures] /\ worker' \in [Ids -> Nat] /\ reopened' \subseteq Ids
  BY <1>1 DEF TypeOK
<1> HIDE DEF StoreInv
<1> QED  BY <1>1, <1>5, <1>6, <1>7, <1>8, PoolStep

LEMMA ClearFolderStep ==
  ASSUME StoreInv, ClearFolder
  PROVE  StoreInv'
<1> USE DEF StoreInv
<1> DEFINE i == job["pool"].id
<1>1. /\ folder' = [folder EXCEPT ![i] = {}] /\ Finished("pool")
      /\ job["pool"].pc = "clear" /\ UNCHANGED <<task, bulk, reopened, worker>>
  BY DEF ClearFolder
<1>2. i \in Ids /\ ~Present(i)  BY <1>1 DEF JobsKnown, Threads, ClearsOld
<1>3. folder' \in [Ids -> SUBSET Pictures] /\ \A k \in Ids : k # i => folder'[k] = folder[k]
  BY <1>1 DEF TypeOK
<1>4. NoNewRow  BY <1>1, <1>2, <1>3 DEF NoNewRow, Present, OneWorker
<1>5. PoolGoes /\ job'["pool"] = NoJob  BY <1>1, PoolJob, Blanks DEF Finished
<1>6. ClearsOld' /\ job'["pool"].id = None  BY <1>5 DEF ClearsOld, NoJob
<1>7. ASSUME NEW t \in {"form", "shell"}, job[t].pc = "insert"
      PROVE  folder[job[t].id] \subseteq folder'[job[t].id]
  <2>1. job[t].id \in Ids /\ job[t].id # i  BY <1>7 DEF JobsKnown, Threads, CreatesNew, Creating
  <2> QED  BY <1>3, <2>1
<1>8. task' \in [Ids -> TaskRow] /\ worker' \in [Ids -> Nat] /\ reopened' \subseteq Ids
  BY <1>1 DEF TypeOK
<1> HIDE DEF StoreInv
<1> QED  BY <1>1, <1>3, <1>4, <1>5, <1>6, <1>7, <1>8, PoolStep

-----------------------------------------------------------------------------
\* Deaths, the workers, the end of a bulk import

LEMMA DiesStep ==
  ASSUME StoreInv, NEW ts \in {{"form", "pool"}, {"shell"}}, Dies(ts)
  PROVE  StoreInv'
<1> USE DEF StoreInv
<1>1. /\ job' = [t \in Threads |-> IF t \in ts THEN NoJob ELSE job[t]]
      /\ bulk' \in {bulk, NoBulk} /\ UNCHANGED <<task, folder, reopened>>
      /\ worker' \in [Ids -> Nat] /\ \A i \in Ids : worker'[i] \in {worker[i], 0}
  BY DEF Dies, TypeOK
<1>2. \A t \in Threads : job'[t] \in {job[t], NoJob}  BY <1>1
<1>3. job' \in [Threads -> JobState]  BY <1>1, Blanks DEF TypeOK
<1>4. TypeOK'  BY <1>1, <1>3, Blanks DEF TypeOK
<1>5. JobsKnown'
  <2>1. ASSUME NEW u \in Threads
        PROVE  /\ u \in {"form", "shell"} => job'[u].pc \in {"idle", "copy", "insert"}
               /\ u = "pool" => job'[u].pc \in {"idle", "resume", "delete", "clear"}
               /\ job'[u].pc # "idle" => job'[u].id \in Ids
               /\ job'[u].pc = "idle" => job'[u] = NoJob
               /\ job'[u].pc \in {"copy", "insert"} => job'[u].draft.status = "pending"
               /\ job'[u].pc = "copy" => job'[u].draft.managed
    <3>1. CASE job'[u] = NoJob  BY <3>1 DEF NoJob
    <3>2. CASE job'[u] = job[u]  BY <3>2 DEF JobsKnown, Creating, IsIdle
    <3> QED  BY <1>2, <3>1, <3>2
  <2> QED  BY <2>1 DEF JobsKnown, Creating, IsIdle, Threads
<1>6. CopiedFirst' /\ GoOn  BY <1>1, <1>2, CopiesStay DEF Threads
<1>7. NoNewRow  BY <1>1 DEF NoNewRow, Present, OneWorker
<1>8. job'["pool"] \in {job["pool"], NoJob}  BY <1>2 DEF Threads
<1>9. ClearsOld' /\ job'["pool"].id \in {job["pool"].id, None}
  BY <1>1, <1>8 DEF ClearsOld, NoJob, Present
<1> HIDE DEF StoreInv
<1> QED  BY <1>1, <1>4, <1>5, <1>6, <1>7, <1>9, NothingNew

\* A worker begins or ends, and the row has another status: at the end of one that
\* nobody was to disturb, the row is the worker's.
LEMMA WorkersStep ==
  ASSUME StoreInv, NEW i \in Ids, Claimed(i) \/ Worked(i)
  PROVE  StoreInv'
<1> USE DEF StoreInv
<1>1. /\ UNCHANGED <<folder, job, bulk, reopened>>
      /\ worker \in [Ids -> Nat] /\ task \in [Ids -> TaskRow] /\ task[i] \in TaskRow
  BY DEF Claimed, Worked, TypeOK
<1>2. PICK row \in TaskRow :
        /\ task' = [task EXCEPT ![i] = row]
        /\ row.status = "absent" <=> ~Present(i)
        /\ row.assets = task[i].assets /\ row.mode = task[i].mode
        /\ row.managed = task[i].managed /\ row.key = task[i].key
        /\ Claimed(i) => row.status = "running"
  <2>1. CASE task' = task
    <3>1. task' = [task EXCEPT ![i] = task[i]]  BY <1>1, <2>1
    <3>2. Claimed(i) => task[i].status = "running"  BY <1>1, <2>1 DEF Claimed, TaskRow
    <3> QED  BY <1>1, <3>1, <3>2 DEF Present
  <2>2. ASSUME NEW s \in Active \cup Ended, task' = [task EXCEPT ![i].status = s], Present(i),
               Claimed(i) => s = "running"
        PROVE  \E row \in TaskRow :
                 /\ task' = [task EXCEPT ![i] = row]
                 /\ row.status = "absent" <=> ~Present(i)
                 /\ row.assets = task[i].assets /\ row.mode = task[i].mode
                 /\ row.managed = task[i].managed /\ row.key = task[i].key
                 /\ Claimed(i) => row.status = "running"
    <3> DEFINE row == [task[i] EXCEPT !.status = s]
    <3>1. row \in TaskRow  BY <1>1 DEF TaskRow
    <3>2. /\ row.status = s /\ s # "absent"
          /\ row.assets = task[i].assets /\ row.mode = task[i].mode
          /\ row.managed = task[i].managed /\ row.key = task[i].key
      BY <1>1 DEF TaskRow, Active, Ended
    <3>3. task' = [task EXCEPT ![i] = row]  BY <1>1, <2>2
    <3> HIDE DEF row
    <3> QED  BY <2>2, <3>1, <3>2, <3>3
  <2>3. CASE Claimed(i)
    <3>1. task' = [task EXCEPT ![i].status = "running"] /\ Present(i)  BY <2>3 DEF Claimed, Present
    <3> QED  BY <2>2, <3>1 DEF Active
  <2>4. CASE Worked(i) /\ ~Claimed(i)
    <3>1. \/ task' = task
          \/ Present(i) /\ \E s \in Ended \cup {"waiting"} : task' = [task EXCEPT ![i].status = s]
      BY <2>4 DEF Worked
    <3> QED  BY <2>1, <2>2, <2>4, <3>1 DEF Active
  <2> QED  BY <2>3, <2>4
<1>3. task'[i] = row /\ \A k \in Ids : k # i => task'[k] = task[k]  BY <1>1, <1>2
<1>4. task' \in [Ids -> TaskRow]  BY <1>1, <1>2
<1>5. /\ worker' \in [Ids -> Nat] /\ \A k \in Ids : k # i => worker'[k] = worker[k]
      /\ Claimed(i) => worker'[i] = worker[i] + 1
      /\ ~Claimed(i) => worker[i] > 0 /\ worker'[i] = worker[i] - 1
  BY <1>1 DEF Claimed, Worked
<1>6. Claimed(i) => Present(i) /\ task[i].status \in {"pending", "waiting"}  BY DEF Claimed, Present
<1>7. ASSUME row.status \in Active PROVE task[i].status \in Active \/ i \in reopened
  <2>1. CASE Claimed(i)  BY <1>6, <2>1 DEF Active
  <2>2. CASE ~Claimed(i)
    <3>1. i \notin reopened => task[i].status \in {"running", "absent"}
      BY <1>1, <1>5, <2>2 DEF OneWorker
    <3> QED  BY <1>2, <1>7, <3>1 DEF Active, Present
  <2> QED  BY <2>1, <2>2
<1>8. i \notin reopened => worker'[i] = 0 \/ (worker'[i] = 1 /\ row.status = "running")
  <2>1. CASE Claimed(i)  BY <1>1, <1>2, <1>5, <1>6, <2>1 DEF OneWorker
  <2>2. CASE ~Claimed(i)  BY <1>1, <1>5, <2>2 DEF OneWorker
  <2> QED  BY <2>1, <2>2
<1>9. NoNewRow
  <2> SUFFICES ASSUME NEW k \in Ids
               PROVE  /\ Present(k)' =>
                           /\ Present(k) /\ folder[k] \subseteq folder'[k]
                           /\ task'[k].assets = task[k].assets /\ task'[k].mode = task[k].mode
                           /\ task'[k].managed = task[k].managed /\ task'[k].key = task[k].key
                      /\ task'[k].status \in Active => task[k].status \in Active \/ k \in reopened'
                      /\ worker'[k] > 0 => worker[k] > 0 \/ Present(k)
                      /\ k \notin reopened' =>
                           worker'[k] = 0 \/ (worker'[k] = 1 /\ task'[k].status \in {"running", "absent"})
    BY DEF NoNewRow
  <2>1. CASE k = i
    <3>1. worker'[i] > 0 => worker[i] > 0 \/ Present(i)  BY <1>1, <1>5, <1>6
    <3> QED  BY <1>1, <1>2, <1>3, <1>7, <1>8, <2>1, <3>1 DEF Present
  <2>2. CASE k # i  BY <1>1, <1>3, <1>5, <2>2 DEF Present, OneWorker
  <2> QED  BY <2>1, <2>2
<1>10. PoolGoes  BY <1>1, JobsStand
<1>11. ClearsOld'
  <2>1. job["pool"].pc = "clear" => job["pool"].id \in Ids  BY DEF JobsKnown, Threads
  <2> QED  BY <1>1, <1>2, <1>3, <2>1 DEF ClearsOld, Present
<1>12. folder' \in [Ids -> SUBSET Pictures] /\ reopened' \subseteq Ids  BY <1>1 DEF TypeOK
<1> HIDE DEF StoreInv
<1> QED  BY <1>1, <1>4, <1>5, <1>9, <1>10, <1>11, <1>12, PoolStep

\* Nothing but the bulk import changes, which ends or not.
LEMMA StandingStep ==
  ASSUME StoreInv, UNCHANGED <<task, folder, job, reopened, worker>>, bulk' \in {bulk, NoBulk}
  PROVE  StoreInv'
<1> USE DEF StoreInv
<1>1. TypeOK'  BY Blanks DEF TypeOK
<1>2. JobsKnown'  BY DEF JobsKnown, Creating, IsIdle
<1>3. NoNewRow  BY DEF NoNewRow, Present, OneWorker
<1>4. CopiedFirst' /\ GoOn  BY CopiesStay
<1>5. ClearsOld'  BY DEF ClearsOld, Present
<1> HIDE DEF StoreInv
<1> QED  BY <1>1, <1>2, <1>3, <1>4, <1>5, NothingNew

-----------------------------------------------------------------------------
\* The theorems

LEMMA StoreInitially == Init => StoreInv
<1> SUFFICES ASSUME Init PROVE StoreInv  OBVIOUS
<1> USE DEF Init
<1>1. \A t \in Threads : job[t] = NoJob  OBVIOUS
<1>2. \A t \in Threads : job[t].pc = "idle" /\ IsIdle(t) /\ ~Creating(t)
  BY <1>1 DEF NoJob, IsIdle, Creating
<1>3. \A i \in Ids : task[i].status = "absent" /\ ~Present(i)  BY DEF NoTask, Present
<1>4. TypeOK  BY Blanks DEF TypeOK
<1>5. JobsKnown  BY <1>2 DEF JobsKnown, Threads, Creating
<1>6. OneCreation /\ CreatesNew /\ ClearsOld /\ KeyIsFree /\ CopiedFirst
  BY <1>2 DEF OneCreation, CreatesNew, ClearsOld, KeyIsFree, CopiedFirst, Threads
<1>7. OnlyReopeningDuplicates /\ PicturesAreKept /\ OneWorker
  BY <1>3 DEF OnlyReopeningDuplicates, PicturesAreKept, OneWorker, Active
<1>8. BulkStands /\ BulkIsHonest  BY DEF BulkStands, BulkIsHonest, NoBulk
<1> QED  BY <1>4, <1>5, <1>6, <1>7, <1>8 DEF StoreInv

LEMMA StoreStep ==
  ASSUME Serial, StoreInv, [Next]_vars
  PROVE  StoreInv'
<1> USE DEF Next
<1>1. ASSUME NEW t \in Threads, Copy(t) \/ CopyFails(t) \/ Insert(t) \/ InsertFails(t)
      PROVE  StoreInv'
  BY <1>1, CopyStep, CopyFailsStep, InsertStep, InsertFailsStep
<1>2. ASSUME NEW form \in Forms, NEW via \in {"page", "api"}, SubmitForm(form, via)
      PROVE  StoreInv'
  BY <1>2, SubmitFormStep
<1>3. ASSUME NEW form \in Forms, NEW i \in Ids, NEW managed \in BOOLEAN, TaskAdd(form, i, managed)
      PROVE  StoreInv'
  BY <1>3, TaskAddStep
<1>4. ASSUME NEW sheet \in Sheets, NEW staged \in Uploads, UploadSheet(sheet, staged)
      PROVE  StoreInv'
  BY <1>4, UploadSheetStep
<1>5. CASE NextRow  BY <1>5, NextRowStep
<1>6. CASE BulkAnswers
  <2>1. UNCHANGED <<task, folder, job, reopened, worker>> /\ bulk' = NoBulk  BY <1>6 DEF BulkAnswers
  <2> QED  BY <2>1, StandingStep
<1>7. ASSUME NEW file \in Files, ImportTasks(file) PROVE StoreInv'  BY <1>7, ImportTasksStep
<1>8. CASE Resume  BY <1>8, ResumeStep
<1>9. CASE DeleteRow  BY <1>9, DeleteRowStep
<1>10. CASE ClearFolder  BY <1>10, ClearFolderStep
<1>11. ASSUME NEW i \in Ids, AskResume(i) \/ AskDelete(i) PROVE StoreInv'  BY <1>11, AskStep
<1>12. ASSUME NEW i \in Ids, TaskReset(i) \/ Recovered(i) PROVE StoreInv'  BY <1>12, GivenBackStep
<1>13. ASSUME NEW i \in Ids, Claimed(i) \/ Worked(i) PROVE StoreInv'  BY <1>13, WorkersStep
<1>14. CASE Dies({"form", "pool"}) \/ Dies({"shell"})  BY <1>14, DiesStep
<1>15. CASE UNCHANGED vars  BY <1>15, StandingStep DEF vars
<1> QED  BY <1>1, <1>2, <1>3, <1>4, <1>5, <1>6, <1>7, <1>8, <1>9, <1>10, <1>11, <1>12, <1>13,
            <1>14, <1>15

LEMMA StoreInvKept == ASSUME Serial PROVE Spec => []StoreInv
<1>1. StoreInv /\ [Next]_vars => StoreInv'  BY StoreStep
<1> QED  BY <1>1, StoreInitially, PTL DEF Spec

\* The rows, the directories and the jobs keep their shapes (schema.py:26-60): a
\* draft is only made of a row that fits what its kind needs.
THEOREM StoreTypeCorrect == ASSUME Serial PROVE Spec => []TypeOK
<1>1. StoreInv => TypeOK  BY DEF StoreInv
<1> QED  BY <1>1, StoreInvKept, PTL

\* Of two active tasks of one creative and segment, one was resumed or reset after it
\* had ended, or taken back from a worker that was still at it and wrote its result
\* later: no importer and no form admits the second (schema.py:7-9).
THEOREM OnlyReopeningDuplicatesKept == ASSUME Serial PROVE Spec => []OnlyReopeningDuplicates
<1>1. StoreInv => OnlyReopeningDuplicates  BY DEF StoreInv
<1> QED  BY <1>1, StoreInvKept, PTL

\* A row with copied pictures finds them, whatever fails or dies in between
\* (repository.py:239-291 and 505-521).
THEOREM PicturesAreKeptAlways == ASSUME Serial PROVE Spec => []PicturesAreKept
<1>1. StoreInv => PicturesAreKept  BY DEF StoreInv
<1> QED  BY <1>1, StoreInvKept, PTL

\* A bulk import does or reports each row once, creates none that the preview would
\* have refused, and the tasks show what the rows name (routes/tasks.py:352-354).
THEOREM BulkIsHonestKept == ASSUME Serial PROVE Spec => []BulkIsHonest
<1>1. StoreInv => BulkIsHonest  BY DEF StoreInv
<1> QED  BY <1>1, StoreInvKept, PTL
=============================================================================
