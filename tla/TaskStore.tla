------------------------------ MODULE TaskStore ------------------------------
(***************************************************************************)
(* How tasks come to be and go: the web form, the upload of a spreadsheet  *)
(* with pictures and its preview, the command line's task add, import-     *)
(* tasks and task-reset, resume and deletion (app/tasks/repository.py,     *)
(* app/tasks/importer.py, app/web/routes/tasks.py and pages.py).           *)
(*                                                                         *)
(* create_task looks for an active task of the same creative and segment,  *)
(* copies the pictures into the task's directory and inserts the row: each *)
(* is a step, between which the other threads and processes act.  A        *)
(* picture is a file by its name: two different ones of one name, of which *)
(* the routes keep the later (routes/tasks.py:99-105, 183-201), are one    *)
(* picture here.  Wording is left out.                                     *)
(***************************************************************************)
EXTENDS Naturals, Sequences, FiniteSets

CONSTANTS
  Ids,          \* task ids
  Pictures,     \* pictures that operators upload
  Keys,         \* pairs of a creative_id and a segment_id
  None,         \* no id, an empty column
  Forms,        \* what operators fill in: records [key, kind, files, dep, slip]
  Sheets,       \* spreadsheets: sequences of records [key, kind, ref, start, end, mode, dep, slip]
  Uploads,      \* the sets of pictures they upload with one
  Files,        \* what import-tasks reads: sequences of records [id, key, files, dep, slip]
  MaxWorkers,   \* bound: the workers of one task at a time, whose claims were taken back
  Serial        \* TRUE if nobody creates tasks in two places at once, and an id is only
                \* given to a task when nothing is left of the one that had it

\* The kinds of an asset, and the pair that the forms split; an unknown kind is a slip.
AssetTypes == {"first_frame", "last_frame", "previous_segment_frame", "reference", "other"}
FrameKinds == {"frames_pair", "first_frame", "last_frame"}
Kinds == AssetTypes \cup FrameKinds
Modes == {"none", "ingredients", "frames", "unknown"}
Slips == {"none", "value", "id"}

FormRow == [key : Keys, kind : Kinds, files : Seq(Pictures), dep : Ids \cup {None}, slip : Slips]
SheetRow == [ key : Keys, kind : Kinds, ref : Seq(Pictures), start : Pictures \cup {None},
              end : Pictures \cup {None}, mode : Modes, dep : Ids \cup {None}, slip : Slips ]
FileRow == [ id : Ids, key : Keys, kind : AssetTypes, files : Seq(Pictures),
             dep : Ids \cup {None}, slip : Slips ]

ASSUME StoreOK ==
  /\ None \notin Ids \cup Pictures /\ Serial \in BOOLEAN /\ MaxWorkers \in Nat
  /\ Forms \subseteq FormRow
  /\ Sheets \subseteq Seq(SheetRow)
  /\ Files \subseteq Seq(FileRow)
  /\ Uploads \subseteq SUBSET Pictures

VARIABLES
  task,         \* the tasks table with task_assets
  folder,       \* assets_dir: the copies under each task id
  job,          \* what each thread is in the middle of
  bulk,         \* the bulk import that the form thread is in
  worker,       \* how many workers are at work on a task: they outlive its claim and its row
  reopened      \* history: the tasks that were given back after they had ended, or while
                \* a worker was still at them

vars == <<task, folder, job, bulk, worker, reopened>>

\* The event loop that runs the async routes, the threadpool that runs the others,
\* and one command line.
Threads == {"form", "pool", "shell"}

\* "failed" stands for download_failed as well, "waiting" for retry_waiting and
\* manual_review: nothing here tells them apart.
Ended == {"success", "failed"}
Active == {"pending", "running", "waiting"}
Resumable == {"waiting", "failed"}

NoTask == [status |-> "absent", key |-> None, assets |-> <<>>, mode |-> "none", dep |-> None, managed |-> FALSE]
NoJob == [pc |-> "idle", id |-> None, draft |-> NoTask, keep |-> FALSE]
NoBulk == [sheet |-> <<>>, staged |-> {}, n |-> 0, done |-> {}, errors |-> {}]

Asset == [pic : Pictures, as : AssetTypes]
TaskRow == [ status : {"absent"} \cup Active \cup Ended, key : Keys \cup {None}, assets : Seq(Asset),
             mode : Modes, dep : Ids \cup {None}, managed : BOOLEAN ]
JobState == [ pc : {"idle", "copy", "insert", "resume", "delete", "clear"}, id : Ids \cup {None},
              draft : TaskRow, keep : BOOLEAN ]
BulkState == [ sheet : Seq(SheetRow), staged : SUBSET Pictures, n : Nat, done : SUBSET (Nat \X Ids),
               errors : SUBSET Nat ]

TypeOK ==
  /\ task \in [Ids -> TaskRow] /\ folder \in [Ids -> SUBSET Pictures]
  /\ job \in [Threads -> JobState] /\ bulk \in BulkState
  /\ worker \in [Ids -> Nat] /\ reopened \subseteq Ids

Present(i) == task[i].status # "absent"
IsIdle(t) == job[t] = NoJob
Finished(t) == job' = [job EXCEPT ![t] = NoJob]

Init ==
  /\ task = [i \in Ids |-> NoTask]
  /\ folder = [i \in Ids |-> {}]
  /\ job = [t \in Threads |-> NoJob]
  /\ bulk = NoBulk
  /\ worker = [i \in Ids |-> 0]
  /\ reopened = {}

-----------------------------------------------------------------------------
\* The rows of a spreadsheet

Shown(files, kind) == [k \in DOMAIN files |-> [pic |-> files[k], as |-> kind]]

\* The asset columns that the kind takes are filled and the others are empty.
FitsWhatItNeeds(row) ==
  /\ row.kind \notin FrameKinds => row.ref # <<>>
  /\ row.kind \in {"frames_pair", "first_frame"} => row.start # None
  /\ row.kind \in {"frames_pair", "last_frame"} => row.end # None
Fits(row) ==
  /\ (row.kind \notin FrameKinds) <=> (row.ref # <<>>)
  /\ (row.kind \in {"frames_pair", "first_frame"}) <=> (row.start # None)
  /\ (row.kind \in {"frames_pair", "last_frame"}) <=> (row.end # None)

RowAssets(row) ==
  CASE row.kind = "frames_pair" -> Shown(<<row.start>>, "first_frame") \o Shown(<<row.end>>, "last_frame")
    [] row.kind = "first_frame" -> Shown(<<row.start>>, "first_frame")
    [] row.kind = "last_frame" -> Shown(<<row.end>>, "last_frame")
    [] OTHER -> Shown(row.ref, row.kind)

\* _bulk_resolve_row_assets: every picture it names was uploaded as well.
Resolves(row, staged) ==
  /\ Fits(row)
  /\ \A k \in DOMAIN RowAssets(row) : RowAssets(row)[k].pic \in staged

\* A row for frames goes to the frames tab, unless it names another one.
RowMode(row) ==
  IF row.kind \in FrameKinds /\ row.mode \in {"none", "ingredients"} THEN "frames" ELSE row.mode

\* bulk_validate_route; "value" is a slip that it looks for as well, "id" one that
\* only create_task sees: an illegal character, an unknown kind, a negative number.
PreviewOk(row, staged) == Resolves(row, staged) /\ row.slip # "value" /\ row.mode # "unknown"

RowDraft(row) ==
  [ status |-> "pending", key |-> row.key, assets |-> RowAssets(row), mode |-> RowMode(row),
    dep |-> row.dep, managed |-> TRUE ]

-----------------------------------------------------------------------------
\* create_task

ActiveTask(key) == \E i \in Ids : task[i].status \in Active /\ task[i].key = key

InUse(i) ==
  Present(i) \/ worker[i] > 0 \/ folder[i] # {} \/ (\E t \in Threads : job[t].id = i)
Fresh(i) == ~InUse(i) /\ ~ \E n \in DOMAIN bulk.sheet : <<n, i>> \in bulk.done

Creating(t) == job[t].pc \in {"copy", "insert"}
MayCreate(t) == IsIdle(t) /\ (Serial => \A u \in Threads : ~Creating(u) /\ (u = "form" => bulk = NoBulk))

\* The validation and _has_active_task
AdmitsAnyway(draft, slip) == slip = "none" /\ draft.assets # <<>>
Admits(draft, slip) == slip = "none" /\ draft.assets # <<>> /\ ~ActiveTask(draft.key)

Begins(t, i, draft) ==
  job' = [job EXCEPT ![t] =
    [pc |-> IF draft.managed THEN "copy" ELSE "insert", id |-> i, draft |-> draft, keep |-> FALSE]]

Copied(t) == {job[t].draft.assets[k].pic : k \in DOMAIN job[t].draft.assets}

\* A row of a bulk import counts as done or as an error; a single creation answers.
Concludes(t, ok) ==
  /\ Finished(t)
  /\ bulk' = IF t # "form" \/ bulk = NoBulk THEN bulk
             ELSE IF ok THEN [bulk EXCEPT !.n = @ + 1, !.done = @ \cup {<<bulk.n, job[t].id>>}]
             ELSE [bulk EXCEPT !.n = @ + 1, !.errors = @ \cup {bulk.n}]

\* An exception no route expects: the request ends with an error, the rows that a
\* bulk import has created stay.
Aborts(t) == Finished(t) /\ bulk' = IF t = "form" THEN NoBulk ELSE bulk

Copy(t) ==
  /\ job[t].pc = "copy"
  /\ folder' = [folder EXCEPT ![job[t].id] = @ \cup Copied(t)]
  /\ job' = [job EXCEPT ![t].pc = "insert"]
  /\ UNCHANGED <<task, bulk, reopened, worker>>

CopyFails(t) ==
  /\ job[t].pc = "copy"
  /\ \E some \in SUBSET Copied(t) : folder' = [folder EXCEPT ![job[t].id] = @ \cup some]
  /\ Aborts(t)
  /\ UNCHANGED <<task, reopened, worker>>

\* The transaction; its IntegrityErrors are an id that exists and a dependency that
\* does not, and leave the copies where they are.
Insert(t) ==
  /\ job[t].pc = "insert"
  /\ LET i == job[t].id
         ok == ~Present(i) /\ (job[t].draft.dep = None \/ Present(job[t].draft.dep))
     IN /\ task' = IF ok THEN [task EXCEPT ![i] = job[t].draft] ELSE task
        /\ reopened' = IF ok THEN reopened \ {i} ELSE reopened
        /\ Concludes(t, ok)
  /\ UNCHANGED <<folder, worker>>

\* The database stays locked for longer than the connection waits.
InsertFails(t) ==
  /\ job[t].pc = "insert"
  /\ Aborts(t)
  /\ UNCHANGED <<task, folder, reopened, worker>>

-----------------------------------------------------------------------------
\* The form, in the page and in the API; task add

\* Only the page sends a pair or a first frame to the frames tab.
FormAssets(form) ==
  IF form.kind # "frames_pair" THEN Shown(form.files, form.kind)
  ELSE Shown(<<form.files[1]>>, "first_frame") \o Shown(<<form.files[2]>>, "last_frame")
FormDraft(form, via) ==
  [ status |-> "pending", key |-> form.key, assets |-> FormAssets(form), dep |-> form.dep, managed |-> TRUE,
    mode |-> IF via = "page" /\ form.kind \in {"frames_pair", "first_frame"} THEN "frames" ELSE "none" ]

SubmitForm(form, via) ==
  /\ MayCreate("form") /\ bulk = NoBulk
  /\ form.kind = "frames_pair" => Len(form.files) = 2
  /\ Admits(FormDraft(form, via), form.slip)
  /\ \E i \in Ids : Fresh(i) /\ Begins("form", i, FormDraft(form, via))
  /\ UNCHANGED <<task, folder, bulk, reopened, worker>>

\* task add takes an id of the operator's and files that are not copied as well.
TaskAdd(form, i, managed) ==
  /\ MayCreate("shell")
  /\ form.kind # "frames_pair"
  /\ Serial => Fresh(i)
  /\ LET draft == [FormDraft(form, "shell") EXCEPT !.managed = managed]
     IN Admits(draft, form.slip) /\ Begins("shell", i, draft)
  /\ UNCHANGED <<task, folder, bulk, reopened, worker>>

-----------------------------------------------------------------------------
\* The bulk import

UploadSheet(sheet, staged) ==
  /\ MayCreate("form") /\ bulk = NoBulk
  /\ bulk' = [NoBulk EXCEPT !.sheet = sheet, !.staged = staged, !.n = 1]
  /\ UNCHANGED <<task, folder, job, reopened, worker>>

InBulk == bulk # NoBulk /\ IsIdle("form")

NextRow ==
  /\ InBulk /\ bulk.n <= Len(bulk.sheet)
  /\ LET row == bulk.sheet[bulk.n]
     IN IF /\ Resolves(row, bulk.staged) /\ row.mode # "unknown"
           /\ Admits(RowDraft(row), row.slip)
        THEN /\ \E i \in Ids : Fresh(i) /\ Begins("form", i, RowDraft(row))
             /\ UNCHANGED bulk
        ELSE /\ bulk' = [bulk EXCEPT !.n = @ + 1, !.errors = @ \cup {bulk.n}]
             /\ UNCHANGED job
  /\ UNCHANGED <<task, folder, reopened, worker>>

BulkAnswers ==
  /\ InBulk /\ bulk.n > Len(bulk.sheet)
  /\ bulk' = NoBulk
  /\ UNCHANGED <<task, folder, job, reopened, worker>>

-----------------------------------------------------------------------------
\* import-tasks: the file is validated as a whole and inserted in one transaction

FileOk(file) ==
  /\ \A n \in DOMAIN file : file[n].slip = "none" /\ file[n].files # <<>>
  /\ \A n, k \in DOMAIN file : n # k => file[n].id # file[k].id /\ file[n].key # file[k].key
Known(file, n) == {i \in Ids : Present(i)} \cup {file[k].id : k \in 1..(n - 1)}
Accepted(file) ==
  \A n \in DOMAIN file :
    /\ ~ActiveTask(file[n].key)
    /\ ~Present(file[n].id)
    /\ file[n].dep = None \/ file[n].dep \in Known(file, n) \cup {file[n].id}
ImportedRow(r) ==
  [ status |-> "pending", key |-> r.key, assets |-> Shown(r.files, r.kind), mode |-> "none",
    dep |-> r.dep, managed |-> FALSE ]

ImportTasks(file) ==
  /\ MayCreate("shell")
  /\ FileOk(file) /\ Accepted(file)
  /\ Serial => \A n \in DOMAIN file : Fresh(file[n].id)
  /\ LET inserted == {file[n].id : n \in DOMAIN file}
     IN /\ task' = [i \in Ids |-> IF i \notin inserted THEN task[i]
                    ELSE ImportedRow(file[CHOOSE n \in DOMAIN file : file[n].id = i])]
        /\ reopened' = reopened \ inserted
  /\ UNCHANGED <<folder, job, bulk, worker>>

-----------------------------------------------------------------------------
\* Resume, reset and deletion

AskResume(i) ==
  /\ IsIdle("pool") /\ task[i].status \in Resumable
  /\ job' = [job EXCEPT !["pool"] = [NoJob EXCEPT !.pc = "resume", !.id = i]]
  /\ UNCHANGED <<task, folder, bulk, reopened, worker>>

GivesBack(i, status) ==
  /\ task' = IF Present(i) THEN [task EXCEPT ![i].status = status] ELSE task
  /\ reopened' = IF task[i].status \in Ended \/ worker[i] > 0 THEN reopened \cup {i} ELSE reopened

Resume ==
  /\ job["pool"].pc = "resume"
  /\ GivesBack(job["pool"].id, "pending")
  /\ Finished("pool")
  /\ UNCHANGED <<folder, bulk, worker>>

TaskReset(i) ==
  /\ IsIdle("shell") /\ Present(i)
  /\ GivesBack(i, "pending")
  /\ UNCHANGED <<folder, job, bulk, worker>>

\* Whoever deletes chooses whether the copies stay, and may force the deletion of a
\* running task.
AskDeleteAndClear(i) ==
  /\ IsIdle("pool") /\ Present(i)
  /\ folder' = [folder EXCEPT ![i] = {}]
  /\ \E keep \in BOOLEAN :
       job' = [job EXCEPT !["pool"] = [NoJob EXCEPT !.pc = "delete", !.id = i, !.keep = keep]]
  /\ UNCHANGED <<task, bulk, reopened, worker>>
AskDelete(i) ==
  /\ IsIdle("pool") /\ Present(i)
  /\ \E force, keep \in BOOLEAN :
       /\ force \/ task[i].status # "running"
       /\ job' = [job EXCEPT !["pool"] = [NoJob EXCEPT !.pc = "delete", !.id = i, !.keep = keep]]
  /\ UNCHANGED <<task, folder, bulk, reopened, worker>>

DeleteRow ==
  /\ job["pool"].pc = "delete"
  /\ LET i == job["pool"].id
     IN task' = [k \in Ids |-> IF k = i THEN NoTask
                  ELSE IF task[k].dep = i THEN [task[k] EXCEPT !.dep = None] ELSE task[k]]
  /\ IF job["pool"].keep THEN Finished("pool") ELSE job' = [job EXCEPT !["pool"].pc = "clear"]
  /\ UNCHANGED <<folder, bulk, reopened, worker>>

ClearFolder ==
  /\ job["pool"].pc = "clear"
  /\ folder' = [folder EXCEPT ![job["pool"].id] = {}]
  /\ Finished("pool")
  /\ UNCHANGED <<task, bulk, reopened, worker>>

-----------------------------------------------------------------------------
\* The process dies between two steps: the web console with both of its threads, or
\* the command.  The console takes the scheduler and its workers with it.
Dies(ts) ==
  /\ \/ \E t \in ts : ~IsIdle(t)
     \/ "form" \in ts /\ \E i \in Ids : worker[i] > 0
  /\ job' = [t \in Threads |-> IF t \in ts THEN NoJob ELSE job[t]]
  /\ bulk' = IF "form" \in ts THEN NoBulk ELSE bulk
  /\ worker' = IF "form" \in ts THEN [i \in Ids |-> 0] ELSE worker
  /\ UNCHANGED <<task, folder, reopened>>

-----------------------------------------------------------------------------
\* The scheduler, its recoveries and its workers

Claimed(i) ==
  /\ task[i].status \in {"pending", "waiting"}
  /\ worker[i] < MaxWorkers
  /\ task' = [task EXCEPT ![i].status = "running"]
  /\ worker' = [worker EXCEPT ![i] = @ + 1]
  /\ UNCHANGED <<folder, job, bulk, reopened>>

\* finalize_task writes by the task's id, whatever has become of the row since the
\* claim; an exception leaves it alone.
Worked(i) ==
  /\ worker[i] > 0
  /\ worker' = [worker EXCEPT ![i] = @ - 1]
  /\ \/ UNCHANGED task
     \/ Present(i) /\ \E s \in Ended \cup {"waiting"} : task' = [task EXCEPT ![i].status = s]
  /\ UNCHANGED <<folder, job, bulk, reopened>>

\* The recoveries of orphans and of zombies take a running row back and leave its
\* worker, if there is one, at work; auto_resume_exhausted_tasks.
Recovered(i) ==
  /\ \/ task[i].status = "running" /\ GivesBack(i, "waiting")
     \/ task[i].status = "waiting" /\ GivesBack(i, "pending")
  /\ UNCHANGED <<folder, job, bulk, worker>>

Next ==
  \/ \E t \in Threads : Copy(t) \/ CopyFails(t) \/ Insert(t) \/ InsertFails(t)
  \/ \E form \in Forms :
       \/ \E via \in {"page", "api"} : SubmitForm(form, via)
       \/ \E i \in Ids, managed \in BOOLEAN : TaskAdd(form, i, managed)
  \/ \E sheet \in Sheets, staged \in Uploads : UploadSheet(sheet, staged)
  \/ NextRow \/ BulkAnswers
  \/ \E file \in Files : ImportTasks(file)
  \/ Resume \/ DeleteRow \/ ClearFolder
  \/ \E i \in Ids : AskResume(i) \/ TaskReset(i) \/ AskDelete(i)
  \/ \E i \in Ids : Claimed(i) \/ Worked(i) \/ Recovered(i)
  \/ Dies({"form", "pool"}) \/ Dies({"shell"})

Spec == Init /\ [][Next]_vars
=============================================================================
