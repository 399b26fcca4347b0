----------------------------- MODULE ExportTasks -----------------------------
(***************************************************************************)
(* The export tasks of one database and one bucket: submissions under the    *)
(* owner's row lock, claims under the advisory lock, the execution with its   *)
(* upload thread, cancellation, time-outs, expiry, clean-up and download      *)
(* links.  Each action is one transaction, or what a coroutine does between   *)
(* two of them.  Any process may die at any time.                            *)
(*                                                                         *)
(* Left to chance: which owner's task is claimed first, and whether           *)
(* permission and content checks pass.                                      *)
(***************************************************************************)
EXTENDS Naturals, Sequences, FiniteSets

CONSTANTS
  Tasks,        \* submissions; the task a submission creates has its name
  OwnerOf,      \* the employee who submits it
  KeyOf,        \* its idempotency key
  Limit,        \* open tasks an employee may have
  Workers,      \* one per API process
  NoTask,
  SlowUploads   \* an upload may outlast its execution by more than a minute

ASSUME LimitAssumption == Limit \in Nat
ASSUME TasksAssumption == IsFiniteSet(Tasks) /\ NoTask \notin Tasks
ASSUME SlowAssumption == SlowUploads \in BOOLEAN

VARIABLES
  req,     \* the submissions
  began,   \* the order in which they came, which is that of created_at
  row,     \* the rows of export_tasks
  claim,   \* the task each worker's claim transaction has locked
  work,    \* the executions
  upload,  \* the upload threads
  file,    \* the objects in the bucket
  clean,   \* what each worker's clean-up is at
  link     \* downloads: authorised, then a signed link, which is good for two
           \* minutes: "live" ends with its task's expires_at, "outliving" need not

vars == <<req, began, row, claim, work, upload, file, clean, link>>

Ended == {"failed", "cancelled", "expired"}
Rows ==
  [status : {"none", "pending", "running", "completed", "deleted"} \cup Ended,
   created : {"new", "day", "old"},             \* 24 hours and 90 days
   started : {"none", "new", "late", "past"},   \* 30 and 31 minutes
   expires : {"none", "ahead", "behind"},
   key     : BOOLEAN]                           \* storage_key is not null
NoRow == [status |-> "none", created |-> "new", started |-> "none",
          expires |-> "none", key |-> FALSE]

\* The time-outs go by these columns.
ColumnsAgree(r) ==
  /\ r.status = "none" => r = NoRow
  /\ r.status = "pending" => r.started = "none" /\ r.key
  /\ r.status \in {"running", "completed"} => r.started # "none"
  /\ r.expires # "none" => r.status \in {"completed", "expired", "deleted"}
  /\ r.status \in {"completed", "expired"} => r.expires # "none"

Cleanups == [task : Tasks \cup {NoTask}, pc : {"idle", "listed", "removed"},
             due : BOOLEAN, old : BOOLEAN]
Idle == [task |-> NoTask, pc |-> "idle", due |-> FALSE, old |-> FALSE]

TypeOK ==
  /\ req \in [Tasks -> {"none", "frozen", "locked", "counted",
                        "created", "existing", "refused", "conflict"}]
  /\ began \in Seq(Tasks)
  /\ row \in [Tasks -> Rows]
  /\ claim \in [Workers -> Tasks \cup {NoTask}]
  /\ work \in [Tasks -> {"none", "claimed", "generated", "uploading", "uploaded",
                         "verified", "over"}]
  /\ upload \in [Tasks -> BOOLEAN] /\ file \in [Tasks -> BOOLEAN]
  /\ clean \in [Workers -> Cleanups]
  /\ link \in [Tasks -> {"none", "authorized", "live", "outliving"}]
  /\ \A t \in Tasks : ColumnsAgree(row[t])

Init ==
  /\ req = [t \in Tasks |-> "none"] /\ began = <<>>
  /\ row = [t \in Tasks |-> NoRow]
  /\ claim = [w \in Workers |-> NoTask]
  /\ work = [t \in Tasks |-> "none"]
  /\ upload = [t \in Tasks |-> FALSE] /\ file = [t \in Tasks |-> FALSE]
  /\ clean = [w \in Workers |-> Idle]
  /\ link = [t \in Tasks |-> "none"]

Exists(t) == row[t].status \notin {"none", "deleted"}
Locked(t) == \E w \in Workers : claim[w] = t
Open(o) == {t \in Tasks : OwnerOf[t] = o /\ row[t].status \in {"pending", "running"}}
OwnerRuns(t) == \E s \in Tasks : OwnerOf[s] = OwnerOf[t] /\ row[s].status = "running"
SameKey(t) == {s \in Tasks : OwnerOf[s] = OwnerOf[t] /\ KeyOf[s] = KeyOf[t] /\ Exists(s)}
Earlier(s, t) ==
  \E i, j \in DOMAIN began : i < j /\ began[i] = s /\ began[j] = t
Update(t, r) == row' = [row EXCEPT ![t] = r]

-----------------------------------------------------------------------------
(* Submission: ExportTaskService.create.                                    *)

Asks(t, from, to) == req[t] = from /\ req' = [req EXCEPT ![t] = to]

\* existing_submission: a task of 90 days is not found.
Answer(t) ==
  IF \E s \in SameKey(t) : row[s].created # "old" THEN "existing" ELSE "refused"

Submit(t) ==
  /\ Asks(t, "none", IF SameKey(t) = {} THEN "frozen" ELSE Answer(t))
  /\ began' = Append(began, t)
  /\ UNCHANGED <<row, claim, work, upload, file, clean, link>>

Refuse(t) ==
  /\ Asks(t, "frozen", "refused")
  /\ UNCHANGED <<began, row, claim, work, upload, file, clean, link>>

\* Mutant: the owner's row is read without a lock.
LockOwnerShared(t) ==
  /\ Asks(t, "frozen", "locked")
  /\ UNCHANGED <<began, row, claim, work, upload, file, clean, link>>

LockOwner(t) ==
  /\ \A s \in Tasks : OwnerOf[s] = OwnerOf[t] => req[s] \notin {"locked", "counted"}
  /\ Asks(t, "frozen", "locked")
  /\ UNCHANGED <<began, row, claim, work, upload, file, clean, link>>

CheckSubmission(t) ==
  /\ Asks(t, "locked",
          IF SameKey(t) # {} THEN Answer(t)
          ELSE IF Cardinality(Open(OwnerOf[t])) >= Limit THEN "refused" ELSE "counted")
  /\ UNCHANGED <<began, row, claim, work, upload, file, clean, link>>

\* The unique constraint on the key stands behind the check.
InsertTask(t) ==
  /\ IF SameKey(t) = {}
       THEN /\ Asks(t, "counted", "created")
            /\ Update(t, [row[t] EXCEPT !.status = "pending", !.key = TRUE])
       ELSE Asks(t, "counted", "conflict") /\ UNCHANGED row
  /\ UNCHANGED <<began, claim, work, upload, file, clean, link>>

-----------------------------------------------------------------------------
(* Scheduling: claim_next, cancel and expire_timeouts.                      *)

Claimable(t) ==
  /\ row[t].status = "pending" /\ row[t].created = "new"
  /\ ~OwnerRuns(t) /\ ~Locked(t)
  /\ \A s \in Tasks :
       OwnerOf[s] = OwnerOf[t] /\ Earlier(s, t) => row[s].status # "pending"

\* pg_try_advisory_xact_lock, then the select for update.
SelectTask(w) ==
  /\ \A v \in Workers : claim[v] = NoTask
  /\ \E t \in Tasks : Claimable(t) /\ claim' = [claim EXCEPT ![w] = t]
  /\ UNCHANGED <<req, began, row, work, upload, file, clean, link>>

\* A unique index admits one running task per owner.
CommitClaim(w) ==
  LET t == claim[w] IN
  /\ t # NoTask
  /\ claim' = [claim EXCEPT ![w] = NoTask]
  /\ IF OwnerRuns(t)
       THEN UNCHANGED <<row, work>>
       ELSE /\ Update(t, [row[t] EXCEPT !.status = "running", !.started = "new"])
            /\ work' = [work EXCEPT ![t] = "claimed"]
  /\ UNCHANGED <<req, began, upload, file, clean, link>>

AbortClaim(w) ==
  /\ claim[w] # NoTask /\ claim' = [claim EXCEPT ![w] = NoTask]
  /\ UNCHANGED <<req, began, row, work, upload, file, clean, link>>

\* ExportTaskRepository.transition: a conditional update, which waits for the
\* row's lock.
Transition(t, from, to) ==
  /\ ~Locked(t) /\ row[t].status \in from
  /\ Update(t, [row[t] EXCEPT !.status = to])

Cancel(t) ==
  /\ Transition(t, {"pending", "running"}, "cancelled")
  /\ UNCHANGED <<req, began, claim, work, upload, file, clean, link>>

\* Mutant: running tasks are left to their executions.
ExpireNotRunning(t) ==
  /\ \/ row[t].created # "new" /\ Transition(t, {"pending"}, "failed")
     \/ row[t].expires = "behind" /\ Transition(t, {"completed"}, "expired")
  /\ UNCHANGED <<req, began, claim, work, upload, file, clean, link>>

Expire(t) ==
  /\ \/ row[t].created # "new" /\ Transition(t, {"pending"}, "failed")
     \/ row[t].started # "new" /\ Transition(t, {"running"}, "failed")
     \/ row[t].expires = "behind" /\ Transition(t, {"completed"}, "expired")
  /\ UNCHANGED <<req, began, claim, work, upload, file, clean, link>>

-----------------------------------------------------------------------------
(* Execution: ExportTaskWorker.execute and generate.                        *)

Executing(t) == work[t] \notin {"none", "over"}
Works(t, from, to) == work[t] = from /\ work' = [work EXCEPT ![t] = to]
Checkpoint(t) == row[t].status = "running" /\ row[t].started = "new"

Generate(t) ==
  /\ Checkpoint(t) /\ Works(t, "claimed", "generated")
  /\ UNCHANGED <<req, began, row, claim, upload, file, clean, link>>

\* The upload runs in a thread of its own, which nothing cancels.
StartUpload(t) ==
  /\ Works(t, "generated", "uploading")
  /\ upload' = [upload EXCEPT ![t] = TRUE]
  /\ UNCHANGED <<req, began, row, claim, file, clean, link>>

\* A failed request may have stored the object all the same.
UploadEnds(t) ==
  /\ upload[t] /\ upload' = [upload EXCEPT ![t] = FALSE]
  /\ \/ /\ file' = [file EXCEPT ![t] = TRUE]
        /\ work' = IF work[t] = "uploading" THEN [work EXCEPT ![t] = "uploaded"] ELSE work
     \/ UNCHANGED <<file, work>>
  /\ UNCHANGED <<req, began, row, claim, clean, link>>

Verify(t) ==
  /\ Checkpoint(t) /\ Works(t, "uploaded", "verified")
  /\ UNCHANGED <<req, began, row, claim, upload, file, clean, link>>

\* Mutant: the result is stored whatever has become of the task.
CompleteBlindly(t) ==
  /\ Works(t, "verified", "over")
  /\ Update(t, [row[t] EXCEPT !.status = "completed", !.expires = "ahead"])
  /\ UNCHANGED <<req, began, claim, upload, file, clean, link>>

Complete(t) ==
  /\ Works(t, "verified", "over")
  /\ IF row[t].status = "running"
       THEN Update(t, [row[t] EXCEPT !.status = "completed", !.expires = "ahead"])
       ELSE UNCHANGED row
  /\ UNCHANGED <<req, began, claim, upload, file, clean, link>>

\* An error, a check that fails, or the half hour is over.
Fail(t) ==
  /\ Executing(t) /\ work' = [work EXCEPT ![t] = "over"]
  /\ IF row[t].status = "running"
       THEN Update(t, [row[t] EXCEPT !.status = "failed"]) ELSE UNCHANGED row
  /\ UNCHANGED <<req, began, claim, upload, file, clean, link>>

\* The watchdog finds the task stopped, or the process dies.
Stop(t) ==
  /\ Executing(t) /\ work' = [work EXCEPT ![t] = "over"]
  /\ UNCHANGED <<req, began, row, claim, upload, file, clean, link>>

-----------------------------------------------------------------------------
(* Clean-up and download.                                                  *)

\* The clean-up reads the clock before it lists the candidates.
ListCandidate(w, t) ==
  /\ clean[w] = Idle
  /\ row[t].key /\ Exists(t)
  /\ row[t].status \in Ended \/ row[t].expires = "behind" \/ row[t].created = "old"
  /\ clean' = [clean EXCEPT ![w] =
                 [task |-> t, pc |-> "listed",
                  due |-> row[t].started \in {"none", "past"},
                  old |-> row[t].created = "old"]]
  /\ UNCHANGED <<req, began, row, claim, work, upload, file, link>>

RemoveFile(w) ==
  /\ clean[w].pc = "listed"
  /\ clean' = [clean EXCEPT ![w].pc = "removed"]
  /\ file' = [file EXCEPT ![clean[w].task] = FALSE]
  /\ UNCHANGED <<req, began, row, claim, work, upload, link>>

\* Mutant: the key is cleared whenever the file was removed.
RecordCleanedEagerly(w) ==
  LET c == clean[w] IN
  /\ c.pc = "removed" /\ clean' = [clean EXCEPT ![w] = Idle]
  /\ Update(c.task, [row[c.task] EXCEPT !.key = FALSE])
  /\ UNCHANGED <<req, began, claim, work, upload, file, link>>

\* cleaned: the key is kept until the execution cannot upload any more.
RecordCleaned(w) ==
  LET c == clean[w]
      r == row[c.task]
      key == r.key /\ ~c.due
  IN
  /\ c.pc = "removed" /\ clean' = [clean EXCEPT ![w] = Idle]
  /\ Update(c.task, [r EXCEPT !.key = key,
                              !.status = IF c.old /\ ~key THEN "deleted" ELSE @])
  /\ UNCHANGED <<req, began, claim, work, upload, file, link>>

\* The store does not answer, or the process dies.
AbandonCleanup(w) ==
  /\ clean[w] # Idle /\ clean' = [clean EXCEPT ![w] = Idle]
  /\ UNCHANGED <<req, began, row, claim, work, upload, file, link>>

Prune(t) ==
  /\ Exists(t) /\ ~row[t].key /\ row[t].created = "old"
  /\ Update(t, [row[t] EXCEPT !.status = "deleted"])
  /\ UNCHANGED <<req, began, claim, work, upload, file, clean, link>>

Fetches(t, from, to) == link[t] = from /\ link' = [link EXCEPT ![t] = to]

Authorize(t) ==
  /\ row[t].status = "completed" /\ row[t].expires = "ahead"
  /\ Fetches(t, "none", "authorized")
  /\ UNCHANGED <<req, began, row, claim, work, upload, file, clean>>

\* Mutant: a link is good for two minutes, whatever expires_at says.
SignForTwoMinutes(t) ==
  /\ row[t].expires = "ahead"
  /\ Fetches(t, "authorized", "outliving")
  /\ UNCHANGED <<req, began, row, claim, work, upload, file, clean>>

\* download, which goes by the row that was read before: its link is good for two
\* minutes, or until that row's expires_at if that is sooner.  A completed task
\* without a key would fail here; there is none (ResultHasFile).
Sign(t) ==
  /\ row[t].expires = "ahead"
  /\ Fetches(t, "authorized", "live")
  /\ UNCHANGED <<req, began, row, claim, work, upload, file, clean>>

LinkEnds(t) ==
  /\ link[t] # "none" /\ link' = [link EXCEPT ![t] = "none"]
  /\ UNCHANGED <<req, began, row, claim, work, upload, file, clean>>

-----------------------------------------------------------------------------
(* Time.                                                                   *)

\* The half hour is watched every second, so that no execution outlasts it by
\* a minute; whether its upload may is SlowUploads.
StartedAges(t) ==
  \/ row[t].started = "new" /\ Update(t, [row[t] EXCEPT !.started = "late"])
  \/ /\ row[t].started = "late" /\ ~Executing(t) /\ (SlowUploads \/ ~upload[t])
     /\ Update(t, [row[t] EXCEPT !.started = "past"])

\* A scan expires before it cleans up, and a file is kept seven days: a task of
\* 90 days is over.
CreatedAges(t) ==
  \/ row[t].created = "new" /\ Update(t, [row[t] EXCEPT !.created = "day"])
  \/ /\ row[t].created = "day" /\ row[t].status \notin {"pending", "running"}
     /\ row[t].started \in {"none", "past"} /\ row[t].expires # "ahead"
     /\ Update(t, [row[t] EXCEPT !.created = "old"])

\* A link that was signed until expires_at ends with it.
ResultAges(t) ==
  /\ row[t].expires = "ahead"
  /\ Update(t, [row[t] EXCEPT !.expires = "behind"])
  /\ link' = [link EXCEPT ![t] = IF @ = "live" THEN "none" ELSE @]

TimePasses(t) ==
  /\ Exists(t)
  /\ ((StartedAges(t) \/ CreatedAges(t)) /\ UNCHANGED link) \/ ResultAges(t)
  /\ UNCHANGED <<req, began, claim, work, upload, file, clean>>

-----------------------------------------------------------------------------
SubmitStep(t) ==
  Submit(t) \/ Refuse(t) \/ LockOwner(t) \/ CheckSubmission(t) \/ InsertTask(t)
ClaimStep(w) == SelectTask(w) \/ CommitClaim(w) \/ AbortClaim(w)
WorkStep(t) ==
  \/ Generate(t) \/ StartUpload(t) \/ UploadEnds(t) \/ Verify(t)
  \/ Complete(t) \/ Fail(t) \/ Stop(t)
CleanStep(w) ==
  \/ \E t \in Tasks : ListCandidate(w, t)
  \/ RemoveFile(w) \/ RecordCleaned(w) \/ AbandonCleanup(w)
LinkStep(t) == Authorize(t) \/ Sign(t) \/ LinkEnds(t)

Next ==
  \/ \E t \in Tasks :
       \/ SubmitStep(t) \/ Cancel(t) \/ Expire(t) \/ WorkStep(t)
       \/ Prune(t) \/ LinkStep(t) \/ TimePasses(t)
  \/ \E w \in Workers : ClaimStep(w) \/ CleanStep(w)

Spec == Init /\ [][Next]_vars

\* Some process is always up again and scans; its transactions end, its clock
\* runs, executions are watched, links end, and the store does not refuse every attempt.
Fairness ==
  /\ \A w \in Workers : WF_vars(CommitClaim(w) \/ AbortClaim(w))
  /\ \A t \in Tasks :
       /\ WF_vars(Expire(t)) /\ WF_vars(WorkStep(t)) /\ WF_vars(TimePasses(t))
       /\ WF_vars(LinkEnds(t))
       /\ SF_vars(\E w \in Workers : ListCandidate(w, t))
       /\ SF_vars(\E w \in Workers : clean[w].task = t /\ RemoveFile(w))
       /\ SF_vars(\E w \in Workers : clean[w].task = t /\ RecordCleaned(w))

FairSpec == Spec /\ Fairness

-----------------------------------------------------------------------------
(* Safety.                                                                 *)

\* However an employee's submissions of one key race, the lock of the owner's row
\* keeps the unique index on the key from being hit: no submission fails on it.
SubmissionsNeverConflict == \A t \in Tasks : req[t] # "conflict"

\* However the processes' scans race, the advisory lock keeps the unique index on
\* running tasks from being hit: no claim is lost to it.
ClaimsNeverConflict == \A w \in Workers : claim[w] # NoTask => ~OwnerRuns(claim[w])

\* Concurrent submissions do not get an employee past the limit.
OpenWithinLimit == \A t \in Tasks : Cardinality(Open(OwnerOf[t])) <= Limit

\* A task shown as completed has its file, until it expires.
ResultHasFile ==
  \A t \in Tasks :
    row[t].status = "completed" /\ row[t].expires = "ahead" => file[t] /\ row[t].key

\* A signed link finds the file as long as it is good, though it was signed by a
\* row read before and the file goes at expires_at.
LinkFindsFile == \A t \in Tasks : link[t] \in {"live", "outliving"} => file[t]

\* export_task_repository.py, cleaned: "Keep the key until execution cannot still
\* upload after cancellation."  No object is in the bucket, or on its way there,
\* whose key is forgotten.
NoOrphanFile == \A t \in Tasks : file[t] \/ upload[t] => row[t].key

-----------------------------------------------------------------------------
(* The promise, as the owner sees it: effective_status shows a completed task   *)
(* past its expiry as expired.                                              *)

StageOf ==
  [none |-> "none", pending |-> "waiting", running |-> "working", completed |-> "ready",
   failed |-> "ended", cancelled |-> "ended", expired |-> "ended", deleted |-> "gone"]

Stage(t) ==
  IF row[t].status = "completed" /\ row[t].expires = "behind"
    THEN "ended" ELSE StageOf[row[t].status]

Promise == INSTANCE ExportPromise WITH
  stage <- [t \in Tasks |-> Stage(t)],
  shelf <- {t \in Tasks : file[t] /\ Stage(t) = "ready"}

KeepsPromise == Promise!Spec

-----------------------------------------------------------------------------
(* Liveness.                                                               *)

\* Whatever dies, no task stays open for ever.
TasksEnd == \A t \in Tasks : row[t].status \in {"pending", "running"}
                               ~> row[t].status \notin {"pending", "running"}

\* No file stays behind, not that of a cancelled, failed or crashed execution
\* either.
FilesGo == \A t \in Tasks : <>[](row[t].status # "completed" => ~file[t])
=============================================================================
