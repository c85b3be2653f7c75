------------------------- MODULE TaskStoreProperties -------------------------
(***************************************************************************)
(* What the table, the pictures and the answers of the imports owe each    *)
(* other.                                                                  *)
(***************************************************************************)
EXTENDS TaskStore

\* The rule "(creative_id, segment_id) is unique among active tasks" that the two
\* importers and the form enforce (schema.py:7-9) is only ever broken through a task
\* that was given back: resumed or reset after it had ended, which asks nobody
\* (repository.py:396-440), or reset, resumed or recovered while its worker was still
\* at it, whose result then reaches a row that has gone on (scheduler/state.py:57-90).
OnlyReopeningDuplicates ==
  \A i, k \in Ids :
    (i # k /\ task[i].status \in Active /\ task[k].status \in Active /\ task[i].key = task[k].key)
      => i \in reopened \/ k \in reopened

\* A row whose pictures were copied finds them in its directory for as long as it
\* exists: whatever fails or dies between the copies and the row, and between the
\* row's deletion and theirs (repository.py:239-291 and 505-521).
PicturesAreKept ==
  \A i \in Ids : Present(i) /\ task[i].managed =>
    \A k \in DOMAIN task[i].assets : task[i].assets[k].pic \in folder[i]

\* All the pictures an operator has named in a row, in whichever column
Named(row) == {row.ref[k] : k \in DOMAIN row.ref} \cup ({row.start, row.end} \ {None})

\* While a bulk import goes on every row before the current one is done or reported,
\* none twice; no row is created that the preview would have refused; and a created
\* task uses every picture its row names, in the frames tab if they are frames
\* (routes/tasks.py:352-354: a typo must not silently produce a misrouted task).
BulkIsHonest ==
  LET done == {n \in DOMAIN bulk.sheet : \E i \in Ids : <<n, i>> \in bulk.done}
  IN /\ bulk # NoBulk => done \cup bulk.errors = 1..(bulk.n - 1) /\ done \cap bulk.errors = {}
     /\ \A n \in DOMAIN bulk.sheet, i \in Ids : <<n, i>> \in bulk.done =>
          LET row == bulk.sheet[n] IN
          /\ PreviewOk(row, bulk.staged)
          /\ Present(i) =>
               /\ {task[i].assets[k].pic : k \in DOMAIN task[i].assets} = Named(row)
               /\ row.kind \in FrameKinds => task[i].mode = "frames"

-----------------------------------------------------------------------------
\* Stated by the schema, and not kept

\* "(creative_id, segment_id) is a business-level uniqueness rule enforced by the
\* importer & scheduler at application layer" (schema.py:7-9)
ActiveIsUnique ==
  \A i, k \in Ids :
    task[i].status \in Active /\ task[k].status \in Active /\ task[i].key = task[k].key => i = k
=============================================================================
