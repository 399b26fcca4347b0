------------------------- MODULE ExportTasksProofs -------------------------
(***************************************************************************)
(* Theorems about ExportTasks for every number of tasks, employees and       *)
(* workers, in three layers, each an inductive invariant: the rows and who    *)
(* may change them (RowInv), what submissions check under their lock         *)
(* (LockInv), and the files (FileInv).  From them follows that the service   *)
(* implements ExportPromise.                                               *)
(***************************************************************************)
EXTENDS ExportTasks, TLAPS, FiniteSetTheorems

RequestStates == {"none", "frozen", "locked", "counted",
                  "created", "existing", "refused", "conflict"}
WorkStates == {"none", "claimed", "generated", "uploading", "uploaded", "verified", "over"}

\* The types of the variables other than row.
OtherTypes ==
  /\ req \in [Tasks -> RequestStates]
  /\ began \in Seq(Tasks)
  /\ claim \in [Workers -> Tasks \cup {NoTask}]
  /\ work \in [Tasks -> WorkStates]
  /\ upload \in [Tasks -> BOOLEAN] /\ file \in [Tasks -> BOOLEAN]
  /\ clean \in [Workers -> Cleanups]
  /\ link \in [Tasks -> {"none", "authorized", "live", "outliving"}]

\* The columns of a row agree, and so do its ages.
GoodRow(r) ==
  /\ ColumnsAgree(r)
  /\ r.created = "old" => r.status \notin {"pending", "running"} /\ r.expires # "ahead"
  /\ r.expires = "ahead" => r.status = "completed"
  /\ r.status = "running" \/ r.expires = "ahead" => r.key

GoodRows == row \in [Tasks -> Rows] /\ \A t \in Tasks : GoodRow(row[t])

\* Rows begin with the insert of their submission.
RowsAreInserted == \A t \in Tasks : row[t].status = "none" <=> req[t] # "created"

\* Nothing will be done on the task any more, and its result is not to be had.
Over(r) == r.status \notin {"none", "pending", "running"} /\ r.expires # "ahead"

\* There is one claim at a time, on a pending task of an idle owner.
ClaimsHold ==
  /\ \A w \in Workers : claim[w] # NoTask =>
       row[claim[w]].status = "pending" /\ ~OwnerRuns(claim[w])
  /\ \A v, w \in Workers : claim[v] # NoTask /\ claim[w] # NoTask => v = w

\* Clean-ups keep to tasks that are over.
CleanupsHold ==
  \A w \in Workers : clean[w] # Idle =>
    /\ clean[w].task \in Tasks /\ clean[w].pc # "idle" /\ Over(row[clean[w].task])

RowInv ==
  OtherTypes /\ GoodRows /\ RowsAreInserted /\ ClaimsHold /\ CleanupsHold

\* The disjuncts of a step, one by one.
LEMMA Steps ==
  ASSUME Next
  PROVE  \/ \E t \in Tasks :
              \/ Submit(t) \/ Refuse(t) \/ LockOwner(t) \/ CheckSubmission(t) \/ InsertTask(t)
              \/ Cancel(t) \/ Expire(t)
              \/ Generate(t) \/ StartUpload(t) \/ UploadEnds(t) \/ Verify(t)
              \/ Complete(t) \/ Fail(t) \/ Stop(t)
              \/ Prune(t) \/ Authorize(t) \/ Sign(t) \/ LinkEnds(t) \/ TimePasses(t)
         \/ \E w \in Workers :
              \/ SelectTask(w) \/ CommitClaim(w) \/ AbortClaim(w)
              \/ \E t \in Tasks : ListCandidate(w, t)
              \/ RemoveFile(w) \/ RecordCleaned(w) \/ AbandonCleanup(w)
BY DEF Next, SubmitStep, ClaimStep, WorkStep, CleanStep, LinkStep

\* A row as it is inserted, and as it is claimed.
Inserted(r) == [r EXCEPT !.status = "pending", !.key = TRUE]
Claimed(r) == [r EXCEPT !.status = "running", !.started = "new"]

\* What else may become of a row in a step.
Move(r, s) ==
  \/ /\ r.status \in {"pending", "running"}
     /\ \E to \in {"failed", "cancelled"} : s = [r EXCEPT !.status = to]
  \/ r.status = "running" /\ s = [r EXCEPT !.status = "completed", !.expires = "ahead"]
  \/ r.status = "completed" /\ r.expires = "behind" /\ s = [r EXCEPT !.status = "expired"]
  \/ /\ Over(r)
     /\ \E k \in BOOLEAN, to \in {r.status, "deleted"} :
          s = [r EXCEPT !.key = k, !.status = to]
  \/ /\ r.status \in {"running"} \cup Ended \cup {"completed"} /\ r.started # "none"
     /\ \E a \in {"late", "past"} : s = [r EXCEPT !.started = a]
  \/ /\ r.status \notin {"none", "deleted"}
     /\ s = [r EXCEPT !.created = "day"]
  \/ /\ r.status \notin {"none", "deleted", "pending", "running"} /\ r.expires # "ahead"
     /\ s = [r EXCEPT !.created = "old"]
  \/ r.status # "none" /\ r.expires = "ahead" /\ s = [r EXCEPT !.expires = "behind"]

\* Rows stay good; only an insert and a claim open or start a task, and what is
\* over stays so.
GoodMove(r, s) ==
  /\ s \in Rows /\ GoodRow(s)
  /\ r.status # "none" /\ s.status # "none"
  /\ s.status \in {"pending", "running"} => s.status = r.status
  /\ r.status = "deleted" => s.status = "deleted"
  /\ Over(r) => Over(s)

\* The insert makes a good row, pending and with a key.
LEMMA InsertedIsGood ==
  ASSUME NEW r \in Rows, GoodRow(r), r.status = "none"
  PROVE  /\ Inserted(r) \in Rows /\ GoodRow(Inserted(r))
         /\ Inserted(r).status = "pending" /\ Inserted(r).key = TRUE
<1>1. r = NoRow
  BY Zenon DEF GoodRow, ColumnsAgree
<1>2. r.created = "new" /\ r.started = "none" /\ r.expires = "none"
  BY <1>1 DEF NoRow
<1>3. \A k \in BOOLEAN : \A s :
        s = [r EXCEPT !.status = "pending", !.key = k]
          => /\ s \in Rows /\ s.key = k
             /\ s.status = "pending" /\ s.created = "new"
             /\ s.started = "none" /\ s.expires = "none"
  BY <1>2 DEF Rows
<1> DEFINE s == Inserted(r)
<1>4. /\ s \in Rows /\ s.key = TRUE
      /\ s.status = "pending" /\ s.created = "new"
      /\ s.started = "none" /\ s.expires = "none"
  BY <1>3, Zenon DEF Inserted
<1> QED BY <1>4, Zenon DEF GoodRow, ColumnsAgree

\* So does the claim of a pending one.
LEMMA ClaimedIsGood ==
  ASSUME NEW r \in Rows, GoodRow(r), r.status = "pending"
  PROVE  Claimed(r) \in Rows /\ GoodRow(Claimed(r)) /\ Claimed(r).status = "running"
BY DEF Rows, GoodRow, ColumnsAgree, NoRow, Ended, Claimed

\* And so does every other change.
LEMMA MoveIsGood ==
  ASSUME NEW r \in Rows, NEW s, GoodRow(r), Move(r, s)
  PROVE  GoodMove(r, s)
<1> USE DEF Rows, GoodRow, ColumnsAgree, NoRow, Ended, Over, GoodMove
<1>1. ASSUME r.status \in {"pending", "running"}, NEW to \in {"failed", "cancelled"},
             s = [r EXCEPT !.status = to]
      PROVE  GoodMove(r, s)
  BY <1>1
<1>2. CASE r.status = "running" /\ s = [r EXCEPT !.status = "completed", !.expires = "ahead"]
  BY <1>2
<1>3. CASE r.status = "completed" /\ r.expires = "behind" /\ s = [r EXCEPT !.status = "expired"]
  BY <1>3
<1>4. ASSUME Over(r), NEW k \in BOOLEAN, NEW to \in {r.status, "deleted"},
             s = [r EXCEPT !.key = k, !.status = to]
      PROVE  GoodMove(r, s)
  BY <1>4
<1>5. ASSUME r.status \in {"running"} \cup Ended \cup {"completed"}, r.started # "none",
             NEW a \in {"late", "past"}, s = [r EXCEPT !.started = a]
      PROVE  GoodMove(r, s)
  BY <1>5
<1>6. CASE r.status \notin {"none", "deleted"} /\ s = [r EXCEPT !.created = "day"]
  BY <1>6
<1>7. CASE /\ r.status \notin {"none", "deleted", "pending", "running"}
           /\ r.expires # "ahead" /\ s = [r EXCEPT !.created = "old"]
  BY <1>7
<1>8. CASE r.status # "none" /\ r.expires = "ahead" /\ s = [r EXCEPT !.expires = "behind"]
  BY <1>8
<1> QED BY <1>1, <1>2, <1>3, <1>4, <1>5, <1>6, <1>7, <1>8, Zenon DEF Move

\* The ways in which a step changes a row.
Inserts(t) == InsertTask(t) /\ SameKey(t) = {} /\ row[t].status = "none" /\ Update(t, Inserted(row[t]))
Starts(w, t) ==
  /\ CommitClaim(w) /\ claim[w] = t /\ row[t].status = "pending" /\ ~OwnerRuns(t)
  /\ Update(t, Claimed(row[t]))
\* What must be the case for a row to become s.
Guarded(t, s) ==
  /\ row[t].status = "pending" /\ s.status # "pending" => ~Locked(t)
  /\ s.started # row[t].started
       => /\ row[t].started # "none" /\ s.started \in {"late", "past"}
          /\ s.started = "past" => ~Executing(t) /\ (SlowUploads \/ ~upload[t])
          /\ UNCHANGED <<work, upload>>
  /\ row[t].key /\ ~s.key
       => \E w \in Workers : RecordCleaned(w) /\ clean[w].task = t /\ clean[w].due
  /\ row[t].expires # "ahead" /\ s.expires = "ahead" => Complete(t) /\ row[t].status = "running"
  /\ row[t].expires = "ahead" /\ s.expires # "ahead" => link'[t] # "live"
Moves(t) == \E s : Move(row[t], s) /\ Guarded(t, s) /\ Update(t, s)

SameColumns(r, s) == s.started = r.started /\ s.key = r.key /\ s.expires = r.expires

\* A change of the status alone needs the row unlocked, and nothing else.
LEMMA SameColumnsGuarded ==
  ASSUME NEW t, NEW s, SameColumns(row[t], s),
         row[t].status = "pending" /\ s.status # "pending" => ~Locked(t)
  PROVE  Guarded(t, s)
BY Zenon DEF SameColumns, Guarded

\* A step changes one row, in one of these ways.
LEMMA RowsChange ==
  ASSUME RowInv, Next, row' # row
  PROVE  \E t \in Tasks : Inserts(t) \/ (\E w \in Workers : Starts(w, t)) \/ Moves(t)
<1>0. \A t \in Tasks : row[t] \in Rows /\ GoodRow(row[t])
  BY DEF RowInv, GoodRows
<1>1. ASSUME NEW t \in Tasks, InsertTask(t) PROVE Inserts(t)
  BY <1>1, row' # row, Zenon DEF RowInv, RowsAreInserted, InsertTask, Asks, Inserts, Inserted
<1>2. ASSUME NEW w \in Workers, CommitClaim(w) PROVE claim[w] \in Tasks /\ Starts(w, claim[w])
  <2>1. claim[w] \in Tasks
    BY <1>2 DEF RowInv, OtherTypes, CommitClaim
  <2> QED BY <1>2, <2>1, row' # row, Zenon DEF RowInv, ClaimsHold, CommitClaim, Starts, Claimed
<1>3. ASSUME NEW t \in Tasks, Cancel(t) \/ Fail(t) PROVE Moves(t)
  <2>1. PICK to \in {"failed", "cancelled"} :
          /\ row[t].status \in {"pending", "running"} /\ (row[t].status = "pending" => ~Locked(t))
          /\ Update(t, [row[t] EXCEPT !.status = to])
    BY <1>3, row' # row DEF Cancel, Fail, Transition
  <2> DEFINE s == [row[t] EXCEPT !.status = to]
  <2>2. Move(row[t], s)
    BY <2>1, Zenon DEF Move
  <2>3. SameColumns(row[t], s)
    BY <1>0 DEF Rows, SameColumns
  <2> QED BY <2>1, <2>2, <2>3, SameColumnsGuarded, Zenon DEF Moves
<1>4. ASSUME NEW t \in Tasks, Expire(t) PROVE Moves(t)
  <2>1. PICK to \in {"failed", "expired"} :
          /\ to = "failed" => row[t].status \in {"pending", "running"}
          /\ to = "expired" => row[t].status = "completed" /\ row[t].expires = "behind"
          /\ ~Locked(t) /\ Update(t, [row[t] EXCEPT !.status = to])
    BY <1>4 DEF Expire, Transition
  <2> DEFINE s == [row[t] EXCEPT !.status = to]
  <2>2. Move(row[t], s)
    BY <2>1 DEF Move
  <2>3. SameColumns(row[t], s)
    BY <1>0 DEF Rows, SameColumns
  <2> QED BY <2>1, <2>2, <2>3, SameColumnsGuarded, Zenon DEF Moves
<1>5. ASSUME NEW t \in Tasks, Complete(t) PROVE Moves(t)
  <2> DEFINE s == [row[t] EXCEPT !.status = "completed", !.expires = "ahead"]
  <2>1. row[t].status = "running" /\ Update(t, s)
    BY <1>5, row' # row, Zenon DEF Complete
  <2>2. Move(row[t], s)
    BY <2>1, Zenon DEF Move
  <2>3. s.started = row[t].started /\ s.key = row[t].key /\ s.expires = "ahead"
    BY <1>0 DEF Rows
  <2>4. row[t].status # "pending"
    BY <2>1
  <2>5. Guarded(t, s)
    BY <1>5, <2>1, <2>3, <2>4, Zenon DEF Guarded
  <2> QED BY <2>1, <2>2, <2>5, Zenon DEF Moves
<1>6. ASSUME NEW w \in Workers, RecordCleaned(w)
      PROVE Moves(clean[w].task) /\ clean[w].task \in Tasks
  <2> DEFINE c == clean[w]
             r == row[c.task]
             k == r.key /\ ~c.due
             to == IF c.old /\ ~k THEN "deleted" ELSE r.status
             s == [r EXCEPT !.key = k, !.status = to]
  <2>1. c # Idle
    BY <1>6 DEF RecordCleaned, Idle
  <2>2. Over(r) /\ c.task \in Tasks
    BY <2>1, Zenon DEF RowInv, CleanupsHold
  <2>3. Update(c.task, s)
    BY <1>6, Zenon DEF RecordCleaned
  <2>4. k \in BOOLEAN /\ to \in {r.status, "deleted"}
    BY Zenon
  <2>5. Move(r, s)
    BY <2>2, <2>4, Zenon DEF Move
  <2>6. r.status # "pending" /\ r.expires # "ahead"
    BY <2>2 DEF Over
  <2>7. \A b \in BOOLEAN : \A v \in {r.status, "deleted"} :
          /\ [r EXCEPT !.key = b, !.status = v].started = r.started
          /\ [r EXCEPT !.key = b, !.status = v].expires = r.expires
          /\ [r EXCEPT !.key = b, !.status = v].key = b
    BY <1>0, <2>2 DEF Rows
  <2>8. s.started = r.started /\ s.expires = r.expires /\ s.key = k
    BY <2>4, <2>7, Zenon
  <2>9. Guarded(c.task, s)
    BY <1>6, <2>6, <2>8, Zenon DEF Guarded
  <2> QED BY <2>2, <2>3, <2>5, <2>9, Zenon DEF Moves
<1>7. ASSUME NEW t \in Tasks, Prune(t) PROVE Moves(t)
  <2> DEFINE k == row[t].key
             s == [row[t] EXCEPT !.key = k, !.status = "deleted"]
  <2>1. Over(row[t])
    BY <1>0, <1>7 DEF GoodRow, Prune, Exists, Over
  <2>2. s = [row[t] EXCEPT !.status = "deleted"] /\ k \in BOOLEAN
    BY <1>0 DEF Rows
  <2>3. Update(t, s)
    BY <1>7, <2>2, Zenon DEF Prune
  <2>4. Move(row[t], s)
    BY <2>1, <2>2, Zenon DEF Move
  <2>5. row[t].status # "pending"
    BY <2>1 DEF Over
  <2>6. SameColumns(row[t], s)
    BY <1>0, <2>2 DEF Rows, SameColumns
  <2> QED BY <2>3, <2>4, <2>5, <2>6, SameColumnsGuarded, Zenon DEF Moves
<1>8. ASSUME NEW t \in Tasks, TimePasses(t) PROVE Moves(t)
  <2>1. row[t].status \notin {"none", "deleted"} /\ UNCHANGED <<work, upload>>
    BY <1>8 DEF TimePasses, Exists
  <2>2. CASE StartedAges(t)
    <3>1. PICK a \in {"late", "past"} :
            /\ Update(t, [row[t] EXCEPT !.started = a]) /\ row[t].started # "none"
            /\ a = "past" => ~Executing(t) /\ (SlowUploads \/ ~upload[t])
      BY <2>2 DEF StartedAges
    <3> DEFINE s == [row[t] EXCEPT !.started = a]
    <3>2. /\ row[t].status # "pending"
          /\ row[t].status \in {"running"} \cup Ended \cup {"completed"}
      BY <1>0, <2>1, <3>1 DEF GoodRow, ColumnsAgree, Rows
    <3>3. Move(row[t], s)
      BY <3>1, <3>2, Zenon DEF Move
    <3>4. s.started = a /\ s.key = row[t].key /\ s.expires = row[t].expires
      BY <1>0 DEF Rows
    <3>5. Guarded(t, s)
      BY <2>1, <3>1, <3>2, <3>4 DEF Guarded
    <3> QED BY <3>1, <3>3, <3>5, Zenon DEF Moves
  <2>3. CASE CreatedAges(t)
    <3>1. PICK a \in {"day", "old"} :
            /\ a = "old" => row[t].status \notin {"pending", "running"} /\ row[t].expires # "ahead"
            /\ Update(t, [row[t] EXCEPT !.created = a])
      BY <2>3 DEF CreatedAges
    <3> DEFINE s == [row[t] EXCEPT !.created = a]
    <3>2. Move(row[t], s)
      BY <2>1, <3>1 DEF Move
    <3>3. SameColumns(row[t], s) /\ s.status = row[t].status
      BY <1>0 DEF Rows, SameColumns
    <3> QED BY <3>1, <3>2, <3>3, SameColumnsGuarded, Zenon DEF Moves
  <2>4. CASE ResultAges(t)
    <3> DEFINE s == [row[t] EXCEPT !.expires = "behind"]
    <3>0. row[t].expires = "ahead" /\ Update(t, s)
      BY <2>4, Zenon DEF ResultAges
    <3>1. row[t].expires = "ahead" /\ link'[t] # "live" /\ Update(t, s)
      BY <2>4, <3>0 DEF ResultAges, RowInv, OtherTypes
    <3>2. Move(row[t], s)
      BY <2>1, <3>1 DEF Move
    <3>3. /\ s.status = row[t].status /\ s.started = row[t].started
          /\ s.key = row[t].key /\ s.expires = "behind"
      BY <1>0 DEF Rows
    <3>4. Guarded(t, s)
      BY <2>1, <3>1, <3>3 DEF Guarded
    <3> QED BY <3>1, <3>2, <3>4, Zenon DEF Moves
  <2> QED BY <1>8, <2>2, <2>3, <2>4 DEF TimePasses
<1>9. ASSUME \/ \E t \in Tasks :
                  \/ Submit(t) \/ Refuse(t) \/ LockOwner(t) \/ CheckSubmission(t)
                  \/ Generate(t) \/ StartUpload(t) \/ UploadEnds(t) \/ Verify(t) \/ Stop(t)
                  \/ Authorize(t) \/ Sign(t) \/ LinkEnds(t)
             \/ \E w \in Workers :
                  \/ SelectTask(w) \/ AbortClaim(w) \/ \E t \in Tasks : ListCandidate(w, t)
                  \/ RemoveFile(w) \/ AbandonCleanup(w)
      PROVE row' = row
  BY <1>9 DEF Submit, Refuse, LockOwner, CheckSubmission, Generate, StartUpload, UploadEnds,
              Verify, Stop, Authorize, Sign, LinkEnds, SelectTask, AbortClaim, ListCandidate,
              RemoveFile, AbandonCleanup
<1> QED BY <1>1, <1>2, <1>3, <1>4, <1>5, <1>6, <1>7, <1>8, <1>9, row' # row, Steps

\* What a step may do to the row of a task.
RowEffect(t) ==
  LET r == row[t]  s == row'[t] IN
  /\ Over(r) => Over(s)
  /\ r.status # "none" => s.status # "none"
  /\ r.status = "deleted" => s.status = "deleted"
  /\ r.status = "none" /\ s.status # "none" => Inserts(t) /\ s.status = "pending"
  /\ s.status = "running" /\ r.status # "running" => \E w \in Workers : Starts(w, t)
  /\ s.status = "pending" => r.status \in {"none", "pending"}
  /\ r.status = "pending" /\ s.status # "pending" /\ Locked(t)
       => \E w \in Workers : Starts(w, t)
  /\ \/ s.started = r.started
     \/ s.started = "new" /\ \E w \in Workers : Starts(w, t)
     \/ /\ r.started # "none" /\ s.started \in {"late", "past"}
        /\ s.started = "past" => ~Executing(t) /\ (SlowUploads \/ ~upload[t])
        /\ UNCHANGED <<work, upload>>
  /\ r.key /\ ~s.key
       => \E w \in Workers : RecordCleaned(w) /\ clean[w].task = t /\ clean[w].due
  /\ r.expires # "ahead" /\ s.expires = "ahead" => Complete(t) /\ r.status = "running"
  /\ r.expires = "ahead" /\ s.expires # "ahead" => link'[t] # "live"

\* The rows stay good, and each changes only so.
LEMMA NextRows ==
  ASSUME RowInv, Next
  PROVE  GoodRows' /\ \A t \in Tasks : RowEffect(t)
<1>1. ASSUME NEW u \in Tasks, row'[u] = row[u] PROVE RowEffect(u)
  BY <1>1 DEF RowEffect
<1>2. CASE row' = row
  BY <1>1, <1>2 DEF RowInv, GoodRows
<1>3. CASE row' # row
  <2>1. PICK t \in Tasks : Inserts(t) \/ (\E w \in Workers : Starts(w, t)) \/ Moves(t)
    BY <1>3, RowsChange
  <2>2. /\ row \in [Tasks -> Rows] /\ row[t] \in Rows
        /\ \A u \in Tasks : GoodRow(row[u])
    BY DEF RowInv, GoodRows
  <2>3. ASSUME NEW s, Update(t, s), s \in Rows, GoodRow(s)
        PROVE  /\ GoodRows' /\ row'[t] = s
               /\ \A u \in Tasks : u # t => row'[u] = row[u]
    BY <2>2, <2>3 DEF Update, GoodRows
  <2>4. CASE Inserts(t)
    <3>1. row[t].status = "none" /\ Update(t, Inserted(row[t]))
      BY <2>4 DEF Inserts
    <3>2. row[t] = NoRow
      BY <2>2, <3>1, Zenon DEF GoodRow, ColumnsAgree
    <3>3. row[t].started = "none" /\ row[t].expires = "none" /\ ~Over(row[t])
      BY <3>1, <3>2 DEF NoRow, Over
    <3>4. /\ GoodRows' /\ row'[t] = Inserted(row[t])
          /\ \A u \in Tasks : u # t => row'[u] = row[u]
      BY <2>2, <2>3, <3>1, InsertedIsGood
    <3>5. row'[t].status = "pending" /\ row'[t].key = TRUE
      <4>1. Inserted(row[t]).status = "pending" /\ Inserted(row[t]).key = TRUE
        BY <2>2, <3>1, InsertedIsGood
      <4> QED BY <3>4, <4>1, Zenon
    <3>6. row'[t].started = "none" /\ row'[t].expires = "none"
      BY <2>2, <3>1, <3>4, <3>5, InsertedIsGood DEF GoodRow, ColumnsAgree
    <3>7. RowEffect(t)
      BY <2>4, <3>1, <3>3, <3>5, <3>6, Zenon DEF RowEffect
    <3> QED BY <1>1, <3>4, <3>7
  <2>5. ASSUME NEW w \in Workers, Starts(w, t)
        PROVE  GoodRows' /\ \A u \in Tasks : RowEffect(u)
    <3>1. row[t].status = "pending" /\ Update(t, Claimed(row[t]))
      BY <2>5 DEF Starts
    <3>2. LET s == Claimed(row[t]) IN
            s.status = "running" /\ s.started = "new"
            /\ s.key = row[t].key /\ s.expires = row[t].expires
      BY <2>2 DEF Claimed, Rows
    <3>3. /\ GoodRows' /\ row'[t] = Claimed(row[t])
          /\ \A u \in Tasks : u # t => row'[u] = row[u]
      BY <2>2, <2>3, <3>1, ClaimedIsGood
    <3>4. ~Over(row[t])
      BY <3>1 DEF Over
    <3>5. RowEffect(t)
      BY <2>5, <3>1, <3>2, <3>3, <3>4 DEF RowEffect
    <3> QED BY <1>1, <3>3, <3>5
  <2>6. CASE Moves(t)
    <3>1. PICK s : Move(row[t], s) /\ Guarded(t, s) /\ Update(t, s)
      BY <2>6 DEF Moves
    <3>2. GoodMove(row[t], s)
      BY <2>2, <3>1, MoveIsGood
    <3>3. /\ GoodRows' /\ row'[t] = s
          /\ \A u \in Tasks : u # t => row'[u] = row[u]
      BY <2>3, <3>1, <3>2 DEF GoodMove
    <3>4. RowEffect(t)
      BY <3>1, <3>2, <3>3 DEF RowEffect, GoodMove, Guarded
    <3> QED BY <1>1, <3>3, <3>4
  <2> QED BY <2>1, <2>4, <2>5, <2>6
<1> QED BY <1>2, <1>3

\* A request moves by its own submission.
Asking(t) == Submit(t) \/ Refuse(t) \/ LockOwner(t) \/ CheckSubmission(t) \/ InsertTask(t)

\* A request moves in no other action than its own.
LEMMA RequestsMove ==
  ASSUME Next, NEW t \in Tasks, req \in [Tasks -> RequestStates], req'[t] # req[t]
  PROVE  Asking(t)
<1>1. PICK u \in Tasks : Asking(u)
  BY Steps DEF Asking, Cancel, Expire, Generate, StartUpload, UploadEnds, Verify, Complete, Fail,
               Stop, Prune, Authorize, Sign, LinkEnds, TimePasses, SelectTask, CommitClaim,
               AbortClaim, ListCandidate, RemoveFile, RecordCleaned, AbandonCleanup
<1>2. \E x : req' = [req EXCEPT ![u] = x]
  BY <1>1 DEF Asking, Submit, Refuse, LockOwner, CheckSubmission, InsertTask, Asks
<1>3. u = t
  BY <1>2
<1> QED BY <1>1, <1>3

\* A row appears with the insert, and with nothing else.
LEMMA NextRowsAreInserted ==
  ASSUME RowInv, Next
  PROVE  RowsAreInserted'
<1> SUFFICES ASSUME NEW t \in Tasks
             PROVE  row'[t].status = "none" <=> req'[t] # "created"
  BY DEF RowsAreInserted
<1>1. RowEffect(t) /\ (row[t].status = "none" <=> req[t] # "created")
  BY NextRows DEF RowInv, RowsAreInserted
<1>2. req \in [Tasks -> RequestStates]
  BY DEF RowInv, OtherTypes
<1>3. CASE InsertTask(t)
  <2>1. req[t] = "counted" /\ row[t].status = "none"
    BY <1>1, <1>3 DEF InsertTask, Asks
  <2>2. CASE SameKey(t) = {}
    <3>1. /\ Update(t, [row[t] EXCEPT !.status = "pending", !.key = TRUE])
          /\ req'[t] = "created"
      BY <1>2, <1>3, <2>2, Zenon DEF InsertTask, Asks
    <3>2. Update(t, Inserted(row[t]))
      BY <3>1, Zenon DEF Inserted
    <3>3. row'[t].status = "pending"
      BY <2>1, <3>2, InsertedIsGood DEF Update, RowInv, GoodRows
    <3> QED BY <3>1, <3>3
  <2>3. CASE SameKey(t) # {}
    BY <1>2, <1>3, <2>1, <2>3 DEF InsertTask, Asks
  <2> QED BY <2>2, <2>3
<1>4. CASE ~InsertTask(t)
  <2>1. row'[t].status = "none" <=> row[t].status = "none"
    BY <1>1, <1>4, Zenon DEF RowEffect, Inserts
  <2>2. req'[t] = "created" <=> req[t] = "created"
    BY <1>2, <1>4, RequestsMove
       DEF Asking, Submit, Refuse, LockOwner, CheckSubmission, Asks, Answer
  <2> QED BY <1>1, <2>1, <2>2
<1> QED BY <1>3, <1>4

-----------------------------------------------------------------------------
(* Types.                                                                  *)

\* A clean-up as it begins.
Listed(t, d, o) == [task |-> t, pc |-> "listed", due |-> d, old |-> o]

\* A clean-up begins with the task it lists; it is due only if the task was never
\* started or its time is past.
LEMMA Listing ==
  ASSUME NEW w \in Workers, NEW t \in Tasks, ListCandidate(w, t)
  PROVE  \E d, o \in BOOLEAN :
           /\ d => row[t].started \in {"none", "past"}
           /\ clean' = [clean EXCEPT ![w] = Listed(t, d, o)]
<1> DEFINE d == row[t].started \in {"none", "past"}
           o == row[t].created = "old"
<1>1. clean' = [clean EXCEPT ![w] = Listed(t, d, o)]
  BY Zenon DEF ListCandidate, Listed
<1>2. d \in BOOLEAN /\ o \in BOOLEAN /\ (d => row[t].started \in {"none", "past"})
  OBVIOUS
<1> HIDE DEF d, o
<1> QED BY <1>1, <1>2, Zenon

\* Every step keeps the types of the other variables.
LEMMA NextOtherTypes ==
  ASSUME RowInv, Next
  PROVE  OtherTypes'
<1> USE DEF OtherTypes, RequestStates, WorkStates
<1>0. OtherTypes
  BY DEF RowInv
<1>1. ASSUME NEW t \in Tasks,
             Submit(t) \/ Refuse(t) \/ LockOwner(t) \/ CheckSubmission(t) \/ InsertTask(t)
      PROVE OtherTypes'
  <2>1. PICK x \in RequestStates : req' = [req EXCEPT ![t] = x]
    BY <1>1, Zenon DEF Submit, Refuse, LockOwner, CheckSubmission, InsertTask, Asks, Answer
  <2>2. began' \in Seq(Tasks)
    <3>1. began' = began \/ began' = Append(began, t)
      BY <1>1, Zenon DEF Submit, Refuse, LockOwner, CheckSubmission, InsertTask
    <3>2. began \in Seq(Tasks)
      BY <1>0
    <3> HIDE DEF OtherTypes
    <3> QED BY <3>1, <3>2
  <2>3. UNCHANGED <<claim, work, upload, file, clean, link>>
    BY <1>1, Zenon DEF Submit, Refuse, LockOwner, CheckSubmission, InsertTask
  <2>4. req' \in [Tasks -> RequestStates]
    BY <1>0, <2>1
  <2> QED BY <1>0, <2>2, <2>3, <2>4
<1>2. ASSUME NEW t \in Tasks,
             \/ Cancel(t) \/ Expire(t) \/ Generate(t) \/ StartUpload(t) \/ UploadEnds(t)
             \/ Verify(t) \/ Complete(t) \/ Fail(t) \/ Stop(t)
      PROVE OtherTypes'
  BY <1>0, <1>2 DEF Cancel, Expire, Generate, StartUpload, UploadEnds, Verify, Complete, Fail,
                    Stop, Works
<1>3. ASSUME NEW t \in Tasks,
             Prune(t) \/ Authorize(t) \/ Sign(t) \/ LinkEnds(t) \/ TimePasses(t)
      PROVE OtherTypes'
  BY <1>0, <1>3 DEF Prune, Authorize, Sign, LinkEnds, TimePasses, ResultAges, Fetches
<1>4. ASSUME NEW w \in Workers, SelectTask(w) \/ CommitClaim(w) \/ AbortClaim(w)
      PROVE OtherTypes'
  BY <1>0, <1>4 DEF SelectTask, CommitClaim, AbortClaim
<1>5. ASSUME NEW w \in Workers, NEW t \in Tasks, ListCandidate(w, t)
      PROVE OtherTypes'
  <2>1. PICK d \in BOOLEAN, o \in BOOLEAN : clean' = [clean EXCEPT ![w] = Listed(t, d, o)]
    BY <1>5, Listing
  <2>2. Listed(t, d, o) \in Cleanups
    BY DEF Listed, Cleanups
  <2>4. clean' \in [Workers -> Cleanups]
    BY <1>0, <2>1, <2>2
  <2> QED BY <1>0, <1>5, <2>4 DEF ListCandidate
<1>6. ASSUME NEW w \in Workers, RemoveFile(w) \/ RecordCleaned(w) \/ AbandonCleanup(w)
      PROVE OtherTypes'
  <2>1. Idle \in Cleanups
    BY DEF Idle, Cleanups
  <2>2. clean[w] \in Cleanups
    BY <1>0
  <2>3. [clean[w] EXCEPT !.pc = "removed"] \in Cleanups
    BY <2>2 DEF Cleanups
  <2>4. clean' \in [Workers -> Cleanups]
    BY <1>0, <1>6, <2>1, <2>3 DEF RemoveFile, RecordCleaned, AbandonCleanup
  <2>5. file' \in [Tasks -> BOOLEAN]
    BY <1>0, <1>6 DEF RemoveFile, RecordCleaned, AbandonCleanup
  <2> QED BY <1>0, <1>6, <2>4, <2>5 DEF RemoveFile, RecordCleaned, AbandonCleanup
<1> QED BY <1>1, <1>2, <1>3, <1>4, <1>5, <1>6, Steps

-----------------------------------------------------------------------------
(* Claims and clean-ups.                                                   *)

\* A claimed task stays pending, as its row is locked, and its owner idle, as there
\* is one claim at a time.
LEMMA NextClaimsHold ==
  ASSUME RowInv, Next
  PROVE  ClaimsHold'
<1>1. /\ claim \in [Workers -> Tasks \cup {NoTask}]
      /\ \A w \in Workers : claim[w] # NoTask =>
           row[claim[w]].status = "pending" /\ ~OwnerRuns(claim[w])
      /\ \A v, w \in Workers : claim[v] # NoTask /\ claim[w] # NoTask => v = w
  BY DEF RowInv, OtherTypes, ClaimsHold
<1>2. CASE \E w \in Workers : SelectTask(w)
  <2>1. PICK w \in Workers : SelectTask(w)
    BY <1>2
  <2>2. PICK t \in Tasks : Claimable(t) /\ claim' = [claim EXCEPT ![w] = t]
    BY <2>1 DEF SelectTask
  <2>3. \A v \in Workers : claim[v] = NoTask
    BY <2>1 DEF SelectTask
  <2>4. row' = row
    BY <2>1 DEF SelectTask
  <2>5. \A v \in Workers : claim'[v] # NoTask => v = w /\ claim'[v] = t
    BY <1>1, <2>2, <2>3
  <2>6. row'[t].status = "pending" /\ ~OwnerRuns(t)'
    BY <2>2, <2>4 DEF Claimable, OwnerRuns
  <2> QED BY <2>5, <2>6 DEF ClaimsHold, OwnerRuns
<1>3. CASE \E w \in Workers : CommitClaim(w) \/ AbortClaim(w)
  <2>1. PICK w \in Workers : CommitClaim(w) \/ AbortClaim(w)
    BY <1>3
  <2>2. claim[w] # NoTask /\ claim' = [claim EXCEPT ![w] = NoTask]
    BY <2>1 DEF CommitClaim, AbortClaim
  <2>3. \A v \in Workers : claim'[v] = NoTask
    BY <1>1, <2>2
  <2> QED BY <2>3 DEF ClaimsHold
<1>4. CASE ~\E w \in Workers : SelectTask(w) \/ CommitClaim(w) \/ AbortClaim(w)
  <2>1. claim' = claim
    BY <1>4, Steps DEF Submit, Refuse, LockOwner, CheckSubmission, InsertTask, Cancel, Expire,
               Generate, StartUpload, UploadEnds, Verify, Complete, Fail,
               Stop, Prune, Authorize, Sign, LinkEnds, TimePasses,
               ListCandidate, RemoveFile, RecordCleaned, AbandonCleanup
  <2>2. ~\E w \in Workers, t \in Tasks : Starts(w, t)
    BY <1>4 DEF Starts
  <2>3. \A t \in Tasks : RowEffect(t)
    BY NextRows
  <2>4. \A t \in Tasks : row'[t].status = "running" => row[t].status = "running"
    BY <2>2, <2>3, Zenon DEF RowEffect
  <2>5. ASSUME NEW w \in Workers, claim[w] # NoTask
        PROVE  row'[claim[w]].status = "pending" /\ ~OwnerRuns(claim[w])'
    <3>1. claim[w] \in Tasks /\ Locked(claim[w]) /\ row[claim[w]].status = "pending"
      BY <1>1, <2>5 DEF Locked
    <3>2. row'[claim[w]].status = "pending"
      BY <2>2, <2>3, <3>1 DEF RowEffect
    <3> QED BY <1>1, <2>1, <2>4, <2>5, <3>2 DEF OwnerRuns
  <2> QED BY <1>1, <2>1, <2>5 DEF ClaimsHold
<1> QED BY <1>2, <1>3, <1>4

\* What a clean-up has listed stays over.
LEMMA NextCleanupsHold ==
  ASSUME RowInv, Next
  PROVE  CleanupsHold'
<1>1. \A t \in Tasks : row[t] \in Rows /\ GoodRow(row[t]) /\ RowEffect(t)
  BY NextRows DEF RowInv, GoodRows
<1>2. ASSUME NEW w \in Workers, clean'[w] = clean[w], clean[w] # Idle
      PROVE  clean'[w].task \in Tasks /\ clean'[w].pc # "idle" /\ Over(row'[clean'[w].task])
  BY <1>1, <1>2 DEF RowInv, CleanupsHold, RowEffect
<1>3. clean \in [Workers -> Cleanups]
  BY DEF RowInv, OtherTypes
<1>4. ASSUME NEW w \in Workers, NEW t \in Tasks, ListCandidate(w, t)
      PROVE  CleanupsHold'
  <2>1. PICK d \in BOOLEAN, o \in BOOLEAN : clean' = [clean EXCEPT ![w] = Listed(t, d, o)]
    BY <1>4, Listing
  <2>2. Over(row'[t])
    BY <1>1, <1>4 DEF ListCandidate, Exists, Ended, GoodRow, ColumnsAgree, Over
  <2>3. \A v \in Workers : v = w \/ clean'[v] = clean[v]
    BY <1>3, <2>1
  <2>4. clean'[w].task = t /\ clean'[w].pc = "listed"
    BY <1>3, <2>1 DEF Listed
  <2> QED BY <1>2, <2>2, <2>3, <2>4 DEF CleanupsHold
<1>5. ASSUME NEW w \in Workers, RemoveFile(w)
      PROVE  CleanupsHold'
  <2>1. clean[w] # Idle /\ clean[w] \in Cleanups
    BY <1>3, <1>5 DEF RemoveFile, Idle
  <2>2. /\ clean'[w] = [clean[w] EXCEPT !.pc = "removed"]
        /\ row' = row /\ \A v \in Workers : v = w \/ clean'[v] = clean[v]
    BY <1>3, <1>5 DEF RemoveFile
  <2>3. clean'[w].task = clean[w].task /\ clean'[w].pc = "removed"
    BY <2>1, <2>2 DEF Cleanups
  <2>4. clean[w].task \in Tasks /\ Over(row[clean[w].task])
    BY <2>1 DEF RowInv, CleanupsHold
  <2>5. clean'[w].task \in Tasks /\ clean'[w].pc # "idle" /\ Over(row'[clean'[w].task])
    BY <2>2, <2>3, <2>4
  <2> QED BY <1>2, <2>2, <2>5 DEF CleanupsHold
<1>6. ASSUME NEW w \in Workers, RecordCleaned(w) \/ AbandonCleanup(w)
      PROVE  CleanupsHold'
  <2>1. clean'[w] = Idle /\ \A v \in Workers : v = w \/ clean'[v] = clean[v]
    BY <1>3, <1>6, Zenon DEF RecordCleaned, AbandonCleanup
  <2> QED BY <1>2, <2>1 DEF CleanupsHold
<1>7. CASE clean' = clean
  BY <1>2, <1>7 DEF CleanupsHold
<1>8. \/ clean' = clean
      \/ \E w \in Workers :
           \/ \E t \in Tasks : ListCandidate(w, t)
           \/ RemoveFile(w) \/ RecordCleaned(w) \/ AbandonCleanup(w)
  BY Steps DEF Submit, Refuse, LockOwner, CheckSubmission, InsertTask, Cancel, Expire,
               Generate, StartUpload, UploadEnds, Verify, Complete, Fail,
               Stop, Prune, Authorize, Sign, LinkEnds, TimePasses,
               SelectTask, CommitClaim, AbortClaim
<1> QED BY <1>4, <1>5, <1>6, <1>7, <1>8

\* The invariant holds at first.
LEMMA InitRowInv == Init => RowInv
<1> SUFFICES ASSUME Init PROVE RowInv
  OBVIOUS
<1>1. NoRow \in Rows /\ NoRow.status = "none" /\ NoRow.created = "new" /\ NoRow.expires = "none"
  BY DEF NoRow, Rows
<1>2. GoodRow(NoRow)
  BY <1>1, Zenon DEF GoodRow, ColumnsAgree
<1>3. GoodRows /\ RowsAreInserted
  BY <1>1, <1>2 DEF GoodRows, RowsAreInserted, Init
<1>4. Idle \in Cleanups
  BY DEF Idle, Cleanups
<1>5. OtherTypes
  BY <1>4 DEF Init, OtherTypes, RequestStates, WorkStates
<1>6. ClaimsHold /\ CleanupsHold
  BY DEF Init, ClaimsHold, CleanupsHold
<1> QED BY <1>3, <1>5, <1>6 DEF RowInv

\* Every step keeps it.
LEMMA NextRowInv == RowInv /\ [Next]_vars => RowInv'
<1>1. ASSUME RowInv, Next PROVE RowInv'
  BY <1>1, NextRows, NextOtherTypes, NextRowsAreInserted, NextClaimsHold, NextCleanupsHold
     DEF RowInv
<1>2. ASSUME RowInv, UNCHANGED vars PROVE RowInv'
  <2> USE <1>2 DEF vars
  <2>1. OtherTypes' /\ GoodRows'
    BY DEF RowInv, OtherTypes, GoodRows
  <2>2. RowsAreInserted' /\ ClaimsHold' /\ CleanupsHold'
    BY DEF RowInv, RowsAreInserted, ClaimsHold, OwnerRuns, CleanupsHold
  <2> QED BY <2>1, <2>2 DEF RowInv
<1> QED BY <1>1, <1>2

\* The rows always agree with the submissions, claims and clean-ups under way.
THEOREM RowsCorrect == Spec => []RowInv
BY InitRowInv, NextRowInv, PTL DEF Spec

\* Types, and the agreement of each row's columns.
THEOREM TypeCorrect == Spec => []TypeOK
<1>1. RowInv => TypeOK
  BY DEF RowInv, OtherTypes, GoodRows, GoodRow, TypeOK, RequestStates, WorkStates
<1> QED BY <1>1, RowsCorrect, PTL

-----------------------------------------------------------------------------
(* The locks.                                                              *)

\* One submission of an employee is between its locks; what it has checked holds
\* until it inserts.
LocksHold ==
  /\ \A s, t \in Tasks :
       /\ OwnerOf[s] = OwnerOf[t]
       /\ req[s] \in {"locked", "counted"} /\ req[t] \in {"locked", "counted"}
       => s = t
  /\ \A t \in Tasks :
       /\ req[t] # "conflict"
       /\ req[t] = "counted"
            => SameKey(t) = {} /\ Cardinality(Open(OwnerOf[t])) < Limit

LockInv == LocksHold /\ OpenWithinLimit

\* The open tasks of an employee can be counted.
LEMMA OpenIsFinite ==
  ASSUME NEW o
  PROVE  IsFiniteSet(Open(o)) /\ Cardinality(Open(o)) \in Nat
BY TasksAssumption, FS_Subset, FS_CardinalityType DEF Open

\* What a step adds to the open tasks and to those with a key, it inserts.
LEMMA OnlyInsertsAdd ==
  ASSUME RowInv, [Next]_vars
  PROVE  /\ \A o : \A t \in Open(o)' \ Open(o) : Inserts(t)
         /\ \A t \in Tasks : \A s \in SameKey(t)' \ SameKey(t) : Inserts(s)
<1>1. \A t \in Tasks : RowEffect(t) \/ row'[t] = row[t]
  BY NextRows DEF vars
<1>2. ASSUME NEW o, NEW t \in Open(o)' \ Open(o) PROVE Inserts(t)
  <2>1. /\ t \in Tasks /\ row'[t].status \in {"pending", "running"}
        /\ row[t].status \notin {"pending", "running"}
    BY <1>2 DEF Open
  <2> QED BY <1>1, <2>1 DEF RowEffect, Starts
<1>3. ASSUME NEW t \in Tasks, NEW s \in SameKey(t)' \ SameKey(t) PROVE Inserts(s)
  <2>1. /\ s \in Tasks /\ row'[s].status \notin {"none", "deleted"}
        /\ row[s].status \in {"none", "deleted"}
    BY <1>3 DEF SameKey, Exists
  <2> QED BY <1>1, <2>1 DEF RowEffect
<1> QED BY <1>2, <1>3

\* At first no lock is held and no task open.
LEMMA InitLockInv == Init => LockInv
<1> SUFFICES ASSUME Init PROVE LockInv
  OBVIOUS
<1>1. \A t \in Tasks : req[t] = "none" /\ row[t].status = "none"
  BY DEF Init, NoRow
<1>2. \A o : Open(o) = {}
  BY <1>1 DEF Open
<1> QED BY <1>1, <1>2, FS_EmptySet, LimitAssumption DEF LockInv, LocksHold, OpenWithinLimit

\* The exclusion of submissions.
LEMMA NextExclusion ==
  ASSUME RowInv, LocksHold, Next, NEW s \in Tasks, NEW t \in Tasks,
         OwnerOf[s] = OwnerOf[t],
         req'[s] \in {"locked", "counted"}, req'[t] \in {"locked", "counted"}
  PROVE  s = t
<1>1. req \in [Tasks -> RequestStates]
  BY DEF RowInv, OtherTypes
<1>2. \A u \in Tasks : req'[u] # req[u] => Asking(u)
  BY <1>1, RequestsMove
<1>3. ASSUME NEW u \in Tasks, LockOwner(u) PROVE s = t
  <2>1. \A v \in Tasks : OwnerOf[v] = OwnerOf[u] => req[v] \notin {"locked", "counted"}
    BY <1>3 DEF LockOwner
  <2>2. \A v \in Tasks : v # u => req'[v] = req[v]
    BY <1>1, <1>3 DEF LockOwner, Asks
  <2> QED BY <2>1, <2>2 DEF LocksHold
<1>4. CASE \A u \in Tasks : ~LockOwner(u)
  <2>1. \A u \in Tasks : req'[u] \in {"locked", "counted"} => req[u] \in {"locked", "counted"}
    BY <1>1, <1>2, <1>4 DEF Asking, Submit, Refuse, CheckSubmission, InsertTask, Asks, Answer
  <2> QED BY <2>1 DEF LocksHold
<1> QED BY <1>3, <1>4

\* Every step keeps what the locks protect.
LEMMA NextLockInv == RowInv /\ LockInv /\ [Next]_vars => LockInv'
<1>1. ASSUME RowInv, LockInv, Next PROVE LockInv'
  <2>1. req \in [Tasks -> RequestStates] /\ LocksHold /\ OpenWithinLimit
    BY <1>1 DEF RowInv, OtherTypes, LockInv
  <2>2. \A u \in Tasks : req'[u] # req[u] => Asking(u)
    BY <1>1, <2>1, RequestsMove
  <2>3. \A u \in Tasks : Inserts(u) => req[u] = "counted" /\ req'[u] = "created"
    BY <1>1, <2>1 DEF Inserts, InsertTask, Asks
  <2>4. ASSUME NEW t \in Tasks PROVE req'[t] # "conflict"
    BY <2>1, <2>2 DEF LocksHold, Asking, Submit, Refuse, LockOwner, CheckSubmission, InsertTask,
                      Asks, Answer
  <2>5. ASSUME NEW t \in Tasks, req'[t] = "counted", req[t] # "counted"
        PROVE  (SameKey(t) = {} /\ Cardinality(Open(OwnerOf[t])) < Limit)'
    <3>1. CheckSubmission(t)
      BY <2>1, <2>2, <2>5 DEF Asking, Submit, Refuse, LockOwner, InsertTask, Asks, Answer
    <3>2. SameKey(t) = {} /\ ~(Cardinality(Open(OwnerOf[t])) >= Limit) /\ row' = row
      BY <2>1, <2>5, <3>1 DEF CheckSubmission, Asks, Answer
    <3>3. SameKey(t)' = SameKey(t) /\ Open(OwnerOf[t])' = Open(OwnerOf[t])
      BY <3>2 DEF SameKey, Exists, Open
    <3> QED BY <3>2, <3>3, OpenIsFinite, LimitAssumption
  <2>6. ASSUME NEW t \in Tasks, req'[t] = "counted", req[t] = "counted"
        PROVE  (SameKey(t) = {} /\ Cardinality(Open(OwnerOf[t])) < Limit)'
    <3>1. \A s \in Tasks : OwnerOf[s] = OwnerOf[t] => ~Inserts(s)
      BY <2>1, <2>3, <2>6 DEF LocksHold
    <3>2. SameKey(t)' \subseteq SameKey(t) /\ Open(OwnerOf[t])' \subseteq Open(OwnerOf[t])
      BY <1>1, <3>1, OnlyInsertsAdd DEF SameKey, Open
    <3>3. Cardinality(Open(OwnerOf[t])') <= Cardinality(Open(OwnerOf[t]))
      BY <3>2, OpenIsFinite, FS_Subset
    <3>4. Cardinality(Open(OwnerOf[t])') \in Nat
      BY <3>2, OpenIsFinite, FS_Subset, FS_CardinalityType
    <3>5. SameKey(t) = {} /\ Cardinality(Open(OwnerOf[t])) < Limit
      BY <2>1, <2>6 DEF LocksHold
    <3>6. Cardinality(Open(OwnerOf[t])') < Limit
      BY <3>3, <3>4, <3>5, OpenIsFinite, LimitAssumption
    <3> QED BY <3>2, <3>5, <3>6
  <2>7. ASSUME NEW t \in Tasks PROVE (Cardinality(Open(OwnerOf[t])) <= Limit)'
    <3> DEFINE o == OwnerOf[t]
    <3>1. CASE \A s \in Tasks : OwnerOf[s] = o => ~Inserts(s)
      <4>1. Open(o)' \subseteq Open(o)
        BY <1>1, <3>1, OnlyInsertsAdd DEF Open
      <4>2. Cardinality(Open(o)') <= Cardinality(Open(o)) /\ Cardinality(Open(o)') \in Nat
        BY <4>1, OpenIsFinite, FS_Subset, FS_CardinalityType
      <4>3. Cardinality(Open(o)) <= Limit
        BY <2>1 DEF OpenWithinLimit
      <4> QED BY <4>2, <4>3, OpenIsFinite, LimitAssumption
    <3>2. ASSUME NEW s \in Tasks, OwnerOf[s] = o, Inserts(s)
          PROVE  (Cardinality(Open(OwnerOf[t])) <= Limit)'
      <4>1. \A u \in Tasks : OwnerOf[u] = o /\ Inserts(u) => u = s
        BY <2>1, <2>3, <3>2 DEF LocksHold
      <4>2. Open(o)' \subseteq Open(o) \cup {s}
        BY <1>1, <4>1, OnlyInsertsAdd DEF Open
      <4>3. Cardinality(Open(o)) < Limit
        BY <2>1, <2>3, <3>2 DEF LocksHold
      <4>4. /\ IsFiniteSet(Open(o) \cup {s})
            /\ Cardinality(Open(o) \cup {s}) <= Cardinality(Open(o)) + 1
            /\ Cardinality(Open(o) \cup {s}) \in Nat
        <5>1. IsFiniteSet(Open(o)) /\ Cardinality(Open(o)) \in Nat
          BY OpenIsFinite
        <5>2. /\ IsFiniteSet(Open(o) \cup {s})
              /\ Cardinality(Open(o) \cup {s})
                   = IF s \in Open(o) THEN Cardinality(Open(o)) ELSE Cardinality(Open(o)) + 1
          BY <5>1, FS_AddElement
        <5> QED BY <5>1, <5>2
      <4>5. /\ Cardinality(Open(o)') <= Cardinality(Open(o) \cup {s})
            /\ Cardinality(Open(o)') \in Nat
        BY <4>2, <4>4, FS_Subset, FS_CardinalityType
      <4> QED BY <4>3, <4>4, <4>5, OpenIsFinite, LimitAssumption
    <3> QED BY <3>1, <3>2
  <2>8. LocksHold'
    BY <1>1, <2>1, <2>4, <2>5, <2>6, NextExclusion DEF LocksHold
  <2> QED BY <2>7, <2>8 DEF LockInv, OpenWithinLimit
<1>2. ASSUME LockInv, UNCHANGED vars PROVE LockInv'
  BY <1>2 DEF LockInv, LocksHold, OpenWithinLimit, SameKey, Exists, Open, vars
<1> QED BY <1>1, <1>2

\* What a submission has checked under the lock of its owner holds until it
\* inserts.
THEOREM LocksCorrect == Spec => [](RowInv /\ LockInv)
BY InitRowInv, NextRowInv, InitLockInv, NextLockInv, PTL DEF Spec

\* The owner's row lock keeps the unique index on the key from being hit.
THEOREM NoSubmissionConflicts == Spec => []SubmissionsNeverConflict
<1>1. LockInv => SubmissionsNeverConflict
  BY DEF LockInv, LocksHold, SubmissionsNeverConflict
<1> QED BY <1>1, LocksCorrect, PTL

\* The advisory lock keeps the unique index on running tasks from being hit,
\* whatever number of processes claims and whatever number of tasks is open.
THEOREM NoClaimConflicts == Spec => []ClaimsNeverConflict
<1>1. RowInv => ClaimsNeverConflict
  BY DEF RowInv, ClaimsHold, ClaimsNeverConflict
<1> QED BY <1>1, LocksCorrect, PTL

\* However many submissions of an employee race, none gets past the limit.
THEOREM LimitHolds == Spec => []OpenWithinLimit
<1>1. LockInv => OpenWithinLimit
  BY DEF LockInv
<1> QED BY <1>1, LocksCorrect, PTL

-----------------------------------------------------------------------------
(* The files.                                                              *)

\* What is executing was started within the half hour and a minute; a task that
\* has all the work behind it has its file, and so has a link.
ResultsHold ==
  \A t \in Tasks :
    /\ Executing(t) => row[t].started \in {"new", "late"}
    /\ upload[t] => \/ row[t].started \in {"new", "late"}
                    \/ SlowUploads /\ row[t].started = "past"
    /\ row[t].status = "running" /\ work[t] \in {"uploaded", "verified"} => file[t]
    /\ row[t].expires = "ahead" => file[t]
    /\ link[t] = "live" => row[t].expires = "ahead"
    /\ link[t] # "outliving"

\* The key is there while there is an execution, an upload or a file; a clean-up
\* that will clear it finds none of them, and leaves no file.
KeysHold ==
  /\ \A t \in Tasks : Executing(t) \/ upload[t] \/ file[t] => row[t].key
  /\ \A w \in Workers : clean[w] # Idle /\ clean[w].due =>
       LET t == clean[w].task IN
       ~Executing(t) /\ ~upload[t] /\ (clean[w].pc = "removed" => ~file[t])

FileInv == ResultsHold /\ (SlowUploads \/ KeysHold)

\* How work, uploads, files, links and clean-ups come about.
WorkEffect(t) ==
  /\ Executing(t)' => Executing(t) \/ \E w \in Workers : Starts(w, t)
  /\ upload'[t] => upload[t] \/ Executing(t)
  /\ file'[t] => file[t] \/ upload[t]
  /\ work'[t] \in {"uploaded", "verified"} => work[t] \in {"uploaded", "verified"} \/ file'[t]
  /\ file[t] /\ ~file'[t] => Over(row[t])
  /\ link'[t] = "live" => link[t] = "live" \/ (row[t].expires = "ahead" /\ row' = row)
  /\ link'[t] = "outliving" => link[t] = "outliving"
CleanEffect(w) ==
  clean'[w] # Idle /\ clean'[w].due =>
    LET t == clean'[w].task IN
    \/ /\ clean[w] # Idle /\ clean[w].task = t /\ clean[w].due
       /\ clean'[w].pc = "removed" => clean[w].pc = "removed" \/ ~file'[t]
    \/ /\ row[t].started \in {"none", "past"} /\ clean'[w].pc = "listed"
       /\ UNCHANGED <<row, work, upload, file>>

\* What the commit of a claim does.
LEMMA StartsWork ==
  ASSUME RowInv, NEW w \in Workers, NEW t \in Tasks, Starts(w, t)
  PROVE  /\ row'[t].status = "running" /\ row'[t].started = "new"
         /\ work' = [work EXCEPT ![t] = "claimed"]
<1>1. row \in [Tasks -> Rows] /\ Update(t, Claimed(row[t])) /\ row[t].status = "pending"
  BY DEF RowInv, GoodRows, Starts
<1>2. row'[t] = Claimed(row[t])
  BY <1>1 DEF Update
<1>3. row'[t].status = "running" /\ row'[t].started = "new"
  BY <1>1, <1>2 DEF Claimed, Rows
<1>4. work' = [work EXCEPT ![t] = "claimed"]
  BY Zenon DEF Starts, CommitClaim
<1> QED BY <1>3, <1>4

\* Executions, uploads, files and links come about only so.
LEMMA NextWork ==
  ASSUME RowInv, Next, NEW t \in Tasks
  PROVE  WorkEffect(t)
<1> USE DEF WorkEffect, Executing
<1>1. /\ work \in [Tasks -> WorkStates] /\ upload \in [Tasks -> BOOLEAN]
      /\ file \in [Tasks -> BOOLEAN] /\ clean \in [Workers -> Cleanups]
      /\ link \in [Tasks -> {"none", "authorized", "live", "outliving"}]
  BY DEF RowInv, OtherTypes
<1>2. ASSUME UNCHANGED <<work, upload, file, link>> PROVE WorkEffect(t)
  BY <1>2
<1>3. ASSUME NEW u \in Tasks,
             Generate(u) \/ StartUpload(u) \/ Verify(u) \/ Complete(u) \/ Fail(u) \/ Stop(u)
      PROVE  WorkEffect(t)
  BY <1>1, <1>3 DEF Generate, StartUpload, Verify, Complete, Fail, Stop, Works, WorkStates
<1>4. ASSUME NEW u \in Tasks, UploadEnds(u) PROVE WorkEffect(t)
  BY <1>1, <1>4 DEF UploadEnds, WorkStates
<1>5. ASSUME NEW u \in Tasks, Authorize(u) \/ Sign(u) \/ LinkEnds(u) PROVE WorkEffect(t)
  BY <1>1, <1>5 DEF Authorize, Sign, LinkEnds, Fetches
<1>6. ASSUME NEW w \in Workers, CommitClaim(w) PROVE WorkEffect(t)
  <2>1. UNCHANGED <<upload, file, link>>
    BY <1>6 DEF CommitClaim
  <2>2. CASE claim[w] = t /\ ~OwnerRuns(t)
    <3>1. row[t].status = "pending"
      BY <1>6, <2>2 DEF CommitClaim, RowInv, ClaimsHold
    <3>2. Update(t, Claimed(row[t])) /\ work' = [work EXCEPT ![t] = "claimed"]
      BY <1>6, <2>2, Zenon DEF CommitClaim, Claimed
    <3>3. Starts(w, t)
      BY <1>6, <2>2, <3>1, <3>2 DEF Starts
    <3> QED BY <1>1, <2>1, <3>2, <3>3
  <2>3. CASE ~(claim[w] = t /\ ~OwnerRuns(t))
    <3>1. work'[t] = work[t]
      BY <1>1, <1>6, <2>3 DEF CommitClaim
    <3> QED BY <2>1, <3>1
  <2> QED BY <2>2, <2>3
<1>7. ASSUME NEW w \in Workers, RemoveFile(w) PROVE WorkEffect(t)
  <2>1. clean[w] # Idle
    BY <1>7 DEF RemoveFile, Idle
  <2>2. clean[w].task \in Tasks /\ Over(row[clean[w].task])
    BY <2>1 DEF RowInv, CleanupsHold
  <2> QED BY <1>1, <1>7, <2>2 DEF RemoveFile
<1>8. ASSUME \/ \E u \in Tasks :
                  \/ Submit(u) \/ Refuse(u) \/ LockOwner(u) \/ CheckSubmission(u)
                  \/ InsertTask(u) \/ Cancel(u) \/ Expire(u) \/ Prune(u)
             \/ \E w \in Workers :
                  \/ SelectTask(w) \/ AbortClaim(w) \/ \E u \in Tasks : ListCandidate(w, u)
                  \/ RecordCleaned(w) \/ AbandonCleanup(w)
      PROVE  UNCHANGED <<work, upload, file, link>>
  BY <1>8 DEF Submit, Refuse, LockOwner, CheckSubmission, InsertTask, Cancel, Expire, Prune,
              SelectTask, AbortClaim, ListCandidate, RecordCleaned, AbandonCleanup
<1>9. ASSUME NEW u \in Tasks, TimePasses(u) PROVE WorkEffect(t)
  BY <1>1, <1>9 DEF TimePasses, ResultAges
<1> QED BY <1>2, <1>3, <1>4, <1>5, <1>6, <1>7, <1>8, <1>9, Steps

\* Clean-ups, too.
LEMMA NextClean ==
  ASSUME RowInv, Next, NEW w \in Workers
  PROVE  CleanEffect(w)
<1>1. clean \in [Workers -> Cleanups] /\ file \in [Tasks -> BOOLEAN]
  BY DEF RowInv, OtherTypes
<1>2. ASSUME clean'[w] = clean[w] PROVE CleanEffect(w)
  BY <1>2 DEF CleanEffect
<1>3. ASSUME NEW v \in Workers, NEW t \in Tasks, ListCandidate(v, t) PROVE CleanEffect(w)
  <2>1. PICK d \in BOOLEAN, o \in BOOLEAN :
          /\ d => row[t].started \in {"none", "past"}
          /\ clean' = [clean EXCEPT ![v] = Listed(t, d, o)]
    BY <1>3, Listing
  <2>2. UNCHANGED <<row, work, upload, file>>
    BY <1>3, Zenon DEF ListCandidate
  <2>3. CASE v = w
    <3>1. clean'[w].task = t /\ clean'[w].pc = "listed" /\ (clean'[w].due = d)
      BY <1>1, <2>1, <2>3 DEF Listed
    <3> QED BY <2>1, <2>2, <3>1 DEF CleanEffect
  <2>4. CASE v # w
    BY <1>1, <1>2, <2>1, <2>4
  <2> QED BY <2>3, <2>4
<1>4. ASSUME NEW v \in Workers, RemoveFile(v) PROVE CleanEffect(w)
  <2>1. CASE v = w
    <3>1. clean[w] # Idle /\ clean[w] \in Cleanups
      BY <1>1, <1>4, <2>1 DEF RemoveFile, Idle
    <3>2. clean[w].task \in Tasks
      BY <3>1 DEF RowInv, CleanupsHold
    <3>3. clean'[w].task = clean[w].task /\ clean'[w].due = clean[w].due
      BY <1>1, <1>4, <2>1, <3>1 DEF RemoveFile, Cleanups
    <3>4. ~file'[clean[w].task]
      BY <1>1, <1>4, <2>1, <3>2 DEF RemoveFile
    <3> QED BY <3>1, <3>3, <3>4 DEF CleanEffect
  <2>2. CASE v # w
    BY <1>1, <1>2, <1>4, <2>2 DEF RemoveFile
  <2> QED BY <2>1, <2>2
<1>5. ASSUME NEW v \in Workers, RecordCleaned(v) \/ AbandonCleanup(v) PROVE CleanEffect(w)
  <2>1. clean' = [clean EXCEPT ![v] = Idle]
    BY <1>5, Zenon DEF RecordCleaned, AbandonCleanup
  <2>2. clean'[w] = Idle \/ clean'[w] = clean[w]
    BY <1>1, <2>1
  <2> QED BY <1>2, <2>2 DEF CleanEffect
<1>6. \/ clean' = clean
      \/ \E v \in Workers :
           \/ \E t \in Tasks : ListCandidate(v, t)
           \/ RemoveFile(v) \/ RecordCleaned(v) \/ AbandonCleanup(v)
  BY Steps DEF Submit, Refuse, LockOwner, CheckSubmission, InsertTask, Cancel, Expire,
               Generate, StartUpload, UploadEnds, Verify, Complete, Fail,
               Stop, Prune, Authorize, Sign, LinkEnds, TimePasses,
               SelectTask, CommitClaim, AbortClaim
<1> QED BY <1>2, <1>3, <1>4, <1>5, <1>6

\* At first there is nothing to keep.
LEMMA InitFileInv == Init => FileInv
BY DEF Init, NoRow, FileInv, ResultsHold, KeysHold, Executing

\* Every step keeps results with their files.
LEMMA NextResults ==
  ASSUME RowInv, ResultsHold, Next
  PROVE  ResultsHold'
<1> SUFFICES ASSUME NEW t \in Tasks
    PROVE  /\ Executing(t)' => row'[t].started \in {"new", "late"}
           /\ upload'[t] => \/ row'[t].started \in {"new", "late"}
                            \/ SlowUploads /\ row'[t].started = "past"
           /\ row'[t].status = "running" /\ work'[t] \in {"uploaded", "verified"} => file'[t]
           /\ row'[t].expires = "ahead" => file'[t]
           /\ link'[t] = "live" => row'[t].expires = "ahead"
           /\ link'[t] # "outliving"
  BY DEF ResultsHold, Executing
<1>1. WorkEffect(t) /\ RowEffect(t) /\ GoodRow(row[t])
  BY NextWork, NextRows DEF RowInv, GoodRows
<1>2. ASSUME NEW w \in Workers, Starts(w, t)
      PROVE  /\ row'[t].started = "new" /\ work'[t] = "claimed"
             /\ row[t].status = "pending"
  BY <1>2, StartsWork DEF RowInv, OtherTypes, Starts
<1>3. Executing(t)' => row'[t].started \in {"new", "late"}
  BY <1>1, <1>2 DEF ResultsHold, WorkEffect, RowEffect, Executing
<1>4. upload'[t] => \/ row'[t].started \in {"new", "late"}
                    \/ SlowUploads /\ row'[t].started = "past"
  <2>1. Executing(t) => row[t].started \in {"new", "late"}
    BY DEF ResultsHold
  <2>2. upload[t] => \/ row[t].started \in {"new", "late"}
                     \/ SlowUploads /\ row[t].started = "past"
    BY DEF ResultsHold
  <2>3. CASE row'[t].started = row[t].started
    BY <1>1, <2>1, <2>2, <2>3 DEF WorkEffect
  <2>4. CASE \E w \in Workers : Starts(w, t)
    BY <1>2, <2>4
  <2>5. CASE /\ row'[t].started \in {"late", "past"}
             /\ row'[t].started = "past" => ~Executing(t) /\ (SlowUploads \/ ~upload[t])
             /\ UNCHANGED <<work, upload>>
    BY <2>5
  <2> QED BY <1>1, <2>3, <2>4, <2>5 DEF RowEffect
<1>5. row'[t].status = "running" /\ work'[t] \in {"uploaded", "verified"} => file'[t]
  BY <1>1, <1>2 DEF ResultsHold, WorkEffect, RowEffect, Over
<1>6. row'[t].expires = "ahead" => file'[t]
  <2>1. CASE Complete(t) /\ row[t].status = "running"
    BY <2>1 DEF Complete, Works, ResultsHold
  <2>2. CASE row[t].expires = "ahead"
    BY <1>1, <2>2 DEF ResultsHold, WorkEffect, Over
  <2> QED BY <1>1, <2>1, <2>2 DEF RowEffect
<1>7. link'[t] = "live" => row'[t].expires = "ahead"
  BY <1>1 DEF ResultsHold, WorkEffect, RowEffect
<1>8. link'[t] # "outliving"
  BY <1>1 DEF ResultsHold, WorkEffect
<1> QED BY <1>3, <1>4, <1>5, <1>6, <1>7, <1>8

\* Every step keeps the keys of files, if uploads end in time: the key is cleared
\* only by a clean-up that began when no upload could come any more.
LEMMA NextKeys ==
  ASSUME RowInv, ResultsHold, KeysHold, Next, ~SlowUploads
  PROVE  KeysHold'
<1>1. \A t \in Tasks : WorkEffect(t) /\ RowEffect(t) /\ GoodRow(row[t])
  BY NextWork, NextRows DEF RowInv, GoodRows
<1>2. ASSUME NEW t \in Tasks, Executing(t)' \/ upload'[t] \/ file'[t]
      PROVE  row'[t].key
  <2>1. row[t].key
    <3>1. ASSUME NEW w \in Workers, Starts(w, t) PROVE row[t].key
      BY <1>1, <3>1, Zenon DEF Starts, GoodRow, ColumnsAgree
    <3>2. CASE Executing(t) \/ upload[t] \/ file[t]
      BY <3>2, Zenon DEF KeysHold
    <3> QED BY <1>1, <1>2, <3>1, <3>2 DEF WorkEffect
  <2>2. SUFFICES ASSUME ~row'[t].key PROVE FALSE
    BY Zenon
  <2>3. PICK w \in Workers : RecordCleaned(w) /\ clean[w].task = t /\ clean[w].due
    BY <1>1, <2>1, <2>2, Zenon DEF RowEffect
  <2>4. clean[w] # Idle /\ clean[w].pc = "removed" /\ UNCHANGED <<work, upload, file>>
    BY <2>3 DEF RecordCleaned, Idle
  <2>5. ~Executing(t) /\ ~upload[t] /\ ~file[t]
    BY <2>3, <2>4 DEF KeysHold
  <2> QED BY <1>2, <2>4, <2>5 DEF Executing
<1>3. ASSUME NEW w \in Workers, NEW t, clean'[w] # Idle, clean'[w].due, t = clean'[w].task
      PROVE  ~Executing(t)' /\ ~upload'[t] /\ (clean'[w].pc = "removed" => ~file'[t])
  <2>1. CleanEffect(w)
    BY NextClean
  <2>2. t \in Tasks
    <3>1. CleanupsHold'
      BY NextRowInv DEF RowInv
    <3> QED BY <1>3, <3>1 DEF CleanupsHold
  <2>3. CASE /\ clean[w] # Idle /\ clean[w].task = t /\ clean[w].due
             /\ clean'[w].pc = "removed" => clean[w].pc = "removed" \/ ~file'[t]
    <3>1. ~Executing(t) /\ ~upload[t] /\ (clean[w].pc = "removed" => ~file[t])
      BY <2>3 DEF KeysHold
    <3>2. row[t].status # "pending"
      BY <2>3 DEF RowInv, CleanupsHold, Over
    <3>3. \A v \in Workers : ~Starts(v, t)
      BY <3>2 DEF Starts
    <3> QED BY <1>1, <2>2, <2>3, <3>1, <3>3 DEF WorkEffect
  <2>4. CASE /\ row[t].started \in {"none", "past"} /\ clean'[w].pc = "listed"
             /\ UNCHANGED <<row, work, upload, file>>
    <3>1. ~Executing(t) /\ ~upload[t]
      BY <2>2, <2>4 DEF ResultsHold
    <3> QED BY <2>4, <3>1 DEF Executing
  <2> QED BY <1>3, <2>1, <2>3, <2>4 DEF CleanEffect
<1>4. ASSUME NEW w \in Workers, clean'[w] # Idle, clean'[w].due
      PROVE  (LET t == clean[w].task IN
              ~Executing(t) /\ ~upload[t] /\ (clean[w].pc = "removed" => ~file[t]))'
  BY <1>3, <1>4 DEF Executing
<1> QED BY <1>2, <1>4 DEF KeysHold, Executing

\* Every step keeps both.
LEMMA NextFileInv == RowInv /\ FileInv /\ [Next]_vars => FileInv'
<1>1. ASSUME RowInv, FileInv, Next PROVE FileInv'
  BY <1>1, NextResults, NextKeys DEF FileInv
<1>2. ASSUME FileInv, UNCHANGED vars PROVE FileInv'
  BY <1>2 DEF FileInv, ResultsHold, KeysHold, Executing, vars
<1> QED BY <1>1, <1>2

\* Results always have their files, and files their keys if uploads end in time.
THEOREM FilesCorrect == Spec => [](RowInv /\ FileInv)
BY InitRowInv, NextRowInv, InitFileInv, NextFileInv, PTL DEF Spec

\* A completed task has its file until it expires, whatever is being cleaned up.
THEOREM ResultsAreThere == Spec => []ResultHasFile
<1>1. ASSUME RowInv, FileInv PROVE ResultHasFile
  <2>1. ASSUME NEW t \in Tasks, row[t].expires = "ahead" PROVE file[t] /\ row[t].key
    <3>1. row[t].key
      BY <1>1, <2>1, Zenon DEF RowInv, GoodRows, GoodRow
    <3> QED BY <1>1, <2>1, <3>1 DEF FileInv, ResultsHold
  <2> QED BY <2>1, Zenon DEF ResultHasFile
<1> QED BY <1>1, FilesCorrect, PTL

\* A signed link finds its file.
THEOREM LinksWork == Spec => []LinkFindsFile
<1>1. FileInv => LinkFindsFile
  BY DEF FileInv, ResultsHold, LinkFindsFile
<1> QED BY <1>1, FilesCorrect, PTL

\* If no upload outlasts its execution by more than a minute, the key of a file is
\* never forgotten.
THEOREM NoOrphans == ASSUME ~SlowUploads PROVE Spec => []NoOrphanFile
<1>1. FileInv => NoOrphanFile
  BY DEF FileInv, KeysHold, NoOrphanFile
<1> QED BY <1>1, FilesCorrect, PTL

-----------------------------------------------------------------------------
(* ExportTasks keeps ExportPromise: the initial states map to initial        *)
(* states, and every step maps to a step or a stutter.                       *)

stage == [t \in Tasks |-> Stage(t)]
shelf == {t \in Tasks : file[t] /\ Stage(t) = "ready"}

\* The stage of a row.
StageIn(r) ==
  IF r.status = "completed" /\ r.expires = "behind" THEN "ended" ELSE StageOf[r.status]

\* The stage of a task is that of its row.
LEMMA StageIsStageIn == \A t : Stage(t) = StageIn(row[t])
BY DEF Stage, StageIn

\* Which rows are in which stage.
LEMMA StageFacts ==
  ASSUME NEW r \in Rows
  PROVE  /\ StageIn(r) = "none" <=> r.status = "none"
         /\ StageIn(r) = "waiting" <=> r.status = "pending"
         /\ StageIn(r) = "working" <=> r.status = "running"
         /\ StageIn(r) = "gone" <=> r.status = "deleted"
         /\ StageIn(r) = "ready" <=> r.status = "completed" /\ r.expires # "behind"
         /\ r.status \in Ended => StageIn(r) = "ended"
BY DEF Rows, StageIn, StageOf, Ended

\* A move of a row is a step of its task, or none.
LEMMA MoveStages ==
  ASSUME NEW r \in Rows, NEW s, GoodRow(r), Move(r, s)
  PROVE  LET a == StageIn(r)  b == StageIn(s) IN
         \/ b = a
         \/ a \in {"waiting", "working"} /\ b = "ended"
         \/ a = "working" /\ b = "ready"
         \/ a = "ready" /\ b = "ended"
         \/ a = "ended" /\ b = "gone"
<1> USE DEF Rows, GoodRow, ColumnsAgree, NoRow, Ended, Over, StageIn, StageOf
<1> DEFINE Goal == LET a == StageIn(r)  b == StageIn(s) IN
         \/ b = a
         \/ a \in {"waiting", "working"} /\ b = "ended"
         \/ a = "working" /\ b = "ready"
         \/ a = "ready" /\ b = "ended"
         \/ a = "ended" /\ b = "gone"
<1>1. ASSUME r.status \in {"pending", "running"}, NEW to \in {"failed", "cancelled"},
             s = [r EXCEPT !.status = to]
      PROVE  Goal
  BY <1>1
<1>2. CASE r.status = "running" /\ s = [r EXCEPT !.status = "completed", !.expires = "ahead"]
  BY <1>2
<1>3. CASE r.status = "completed" /\ r.expires = "behind" /\ s = [r EXCEPT !.status = "expired"]
  BY <1>3
<1>4. ASSUME Over(r), NEW k \in BOOLEAN, NEW to \in {r.status, "deleted"},
             s = [r EXCEPT !.key = k, !.status = to]
      PROVE  Goal
  BY <1>4
<1>5. ASSUME r.status \in {"running"} \cup Ended \cup {"completed"}, r.started # "none",
             NEW a \in {"late", "past"}, s = [r EXCEPT !.started = a]
      PROVE  Goal
  BY <1>5
<1>6. CASE r.status \notin {"none", "deleted"} /\ s = [r EXCEPT !.created = "day"]
  BY <1>6
<1>7. CASE /\ r.status \notin {"none", "deleted", "pending", "running"}
           /\ r.expires # "ahead" /\ s = [r EXCEPT !.created = "old"]
  BY <1>7
<1>8. CASE r.status # "none" /\ r.expires = "ahead" /\ s = [r EXCEPT !.expires = "behind"]
  BY <1>8
<1> QED BY <1>1, <1>2, <1>3, <1>4, <1>5, <1>6, <1>7, <1>8, Zenon DEF Move

\* A task that is ready has its file.
LEMMA ShelfIsReady ==
  RowInv /\ ResultsHold => shelf = {t \in Tasks : stage[t] = "ready"}
<1> SUFFICES ASSUME RowInv, ResultsHold
             PROVE  shelf = {t \in Tasks : stage[t] = "ready"}
  OBVIOUS
<1>1. ASSUME NEW t \in Tasks, Stage(t) = "ready" PROVE file[t]
  <2>1. row[t] \in Rows /\ GoodRow(row[t])
    BY DEF RowInv, GoodRows
  <2>2. row[t].status = "completed" /\ row[t].expires # "behind"
    BY <1>1, <2>1, StageIsStageIn, StageFacts
  <2>3. row[t].expires = "ahead"
    BY <2>1, <2>2 DEF GoodRow, ColumnsAgree, Rows
  <2> QED BY <2>3 DEF ResultsHold
<1> QED BY <1>1 DEF shelf, stage

\* The same after the step.
LEMMA ShelfIsReadyNext ==
  RowInv' /\ ResultsHold' => (shelf = {t \in Tasks : stage[t] = "ready"})'
BY ShelfIsReady, PTL

\* The initial states map to initial states.
LEMMA InitPromise == Init => Promise!Init
<1> SUFFICES ASSUME Init PROVE Promise!Init
  OBVIOUS
<1>1. \A t \in Tasks : Stage(t) = "none"
  BY DEF Init, NoRow, Stage, StageOf
<1> QED BY <1>1 DEF Promise!Init

\* One row changes: so does the stage of one task, and the shelf with it.
LEMMA StageMoves ==
  ASSUME RowInv, ResultsHold, RowInv', ResultsHold', NEW t \in Tasks, NEW s, Update(t, s)
  PROVE  /\ stage' = [stage EXCEPT ![t] = StageIn(s)] /\ stage[t] = StageIn(row[t])
         /\ shelf' = {u \in Tasks : stage'[u] = "ready"}
<1>1. row \in [Tasks -> Rows] /\ row'[t] = s /\ \A u \in Tasks : u # t => row'[u] = row[u]
  BY DEF RowInv, GoodRows, Update
<1>2. stage' = [u \in Tasks |-> StageIn(row'[u])] /\ stage = [u \in Tasks |-> StageIn(row[u])]
  BY DEF stage, Stage, StageIn
<1>3. stage' = [stage EXCEPT ![t] = StageIn(s)] /\ stage[t] = StageIn(row[t])
  BY <1>1, <1>2
<1> QED BY <1>3, ShelfIsReadyNext

\* The promise counts as the service does.
LEMMA SameCount == \A S : Promise!Cardinality(S) = Cardinality(S)
BY Zenon DEF Promise!Cardinality, Cardinality

\* Every step maps to a step of the promise, or to a stutter.
LEMMA StepPromise ==
  ASSUME RowInv, LockInv, ResultsHold, RowInv', ResultsHold', [Next]_vars
  PROVE  [Promise!Next]_(Promise!vars)
<1>0. /\ Promise!vars = <<stage, shelf>> /\ (Promise!vars)' = <<stage', shelf'>>
  BY DEF Promise!vars, stage, shelf
<1>1. /\ row \in [Tasks -> Rows] /\ \A t \in Tasks : row[t] \in Rows /\ GoodRow(row[t])
      /\ stage = [t \in Tasks |-> StageIn(row[t])]
      /\ shelf = {t \in Tasks : stage[t] = "ready"}
  BY ShelfIsReady DEF RowInv, GoodRows, stage, Stage, StageIn
<1>2. ASSUME stage' = stage PROVE UNCHANGED Promise!vars
  <2>1. (shelf = {t \in Tasks : stage[t] = "ready"})'
    BY ShelfIsReadyNext
  <2> QED BY <1>0, <1>1, <1>2, <2>1
<1>3. CASE row' = row
  <2>1. stage' = stage
    BY <1>3 DEF stage, Stage
  <2> QED BY <1>2, <2>1
<1>4. ASSUME NEW t \in Tasks, Inserts(t) PROVE Promise!Accept(t)
  <2>1. /\ Update(t, Inserted(row[t])) /\ row[t].status = "none" /\ SameKey(t) = {}
        /\ req[t] = "counted"
    BY <1>4, Zenon DEF Inserts, InsertTask, Asks
  <2>2. /\ stage' = [stage EXCEPT ![t] = StageIn(Inserted(row[t]))] /\ stage[t] = "none"
        /\ shelf' = {u \in Tasks : stage'[u] = "ready"}
    BY <1>1, <2>1, StageMoves, StageFacts
  <2>3. StageIn(Inserted(row[t])) = "waiting"
    BY <1>1, <2>1, InsertedIsGood, StageFacts
  <2>4. Cardinality(Open(OwnerOf[t])) < Limit
    BY <2>1 DEF LockInv, LocksHold
  <2>5. Promise!Open(OwnerOf[t]) = Open(OwnerOf[t])
    BY <1>1, StageFacts DEF Promise!Open, Open, stage
  <2>6. \A s \in Tasks : OwnerOf[s] = OwnerOf[t] /\ KeyOf[s] = KeyOf[t]
                           => stage[s] \in {"none", "gone"}
    BY <1>1, <2>1, StageFacts DEF SameKey, Exists
  <2>7. shelf' = shelf
    BY <1>1, <2>2, <2>3
  <2>8. Promise!To(t, {"none"}, "waiting")
    BY <2>2, <2>3 DEF Promise!To, stage
  <2> QED BY <2>4, <2>5, <2>6, <2>7, <2>8, SameCount DEF Promise!Accept, stage, shelf
<1>5. ASSUME NEW w \in Workers, NEW t \in Tasks, Starts(w, t) PROVE Promise!Start(t)
  <2>1. Update(t, Claimed(row[t])) /\ row[t].status = "pending" /\ ~OwnerRuns(t)
    BY <1>5 DEF Starts
  <2>2. /\ stage' = [stage EXCEPT ![t] = StageIn(Claimed(row[t]))] /\ stage[t] = "waiting"
        /\ shelf' = {u \in Tasks : stage'[u] = "ready"}
    BY <1>1, <2>1, StageMoves, StageFacts
  <2>3. StageIn(Claimed(row[t])) = "working"
    <3>1. Claimed(row[t]) \in Rows /\ Claimed(row[t]).status = "running"
      BY <1>1, <2>1, ClaimedIsGood
    <3> QED BY <3>1, StageFacts
  <2>4. \A s \in Tasks : OwnerOf[s] = OwnerOf[t] => stage[s] # "working"
    BY <1>1, <2>1, StageFacts DEF OwnerRuns
  <2>5. shelf' = shelf
    BY <1>1, <2>2, <2>3
  <2>6. Promise!To(t, {"waiting"}, "working")
    BY <2>2, <2>3 DEF Promise!To, stage
  <2> QED BY <2>4, <2>5, <2>6 DEF Promise!Start, stage, shelf
<1>6. ASSUME NEW t \in Tasks, Moves(t)
      PROVE  \/ UNCHANGED Promise!vars
             \/ Promise!End(t) \/ Promise!Deliver(t) \/ Promise!Lapse(t) \/ Promise!Forget(t)
  <2>1. PICK s : Move(row[t], s) /\ Update(t, s)
    BY <1>6 DEF Moves
  <2> DEFINE a == StageIn(row[t])
             b == StageIn(s)
  <2>2. /\ stage' = [stage EXCEPT ![t] = b] /\ stage[t] = a
        /\ shelf' = {u \in Tasks : stage'[u] = "ready"}
    BY <2>1, StageMoves
  <2>3. \/ b = a
        \/ a \in {"waiting", "working"} /\ b = "ended"
        \/ a = "working" /\ b = "ready"
        \/ a = "ready" /\ b = "ended"
        \/ a = "ended" /\ b = "gone"
    BY <1>1, <2>1, MoveStages
  <2> HIDE DEF a, b
  <2>4. CASE b = a
    <3>1. stage' = stage
      BY <1>1, <2>2, <2>4
    <3> QED BY <1>2, <3>1
  <2>5. CASE a \in {"waiting", "working"} /\ b = "ended"
    <3>1. shelf' = shelf
      BY <1>1, <2>2, <2>5
    <3>2. Promise!To(t, {"waiting", "working"}, "ended")
      BY <2>2, <2>5 DEF Promise!To, stage
    <3> QED BY <3>1, <3>2 DEF Promise!End, shelf
  <2>6. CASE a = "working" /\ b = "ready"
    <3>1. shelf' = shelf \cup {t}
      BY <1>1, <2>2, <2>6
    <3>2. Promise!To(t, {"working"}, "ready")
      BY <2>2, <2>6 DEF Promise!To, stage
    <3> QED BY <3>1, <3>2 DEF Promise!Deliver, shelf
  <2>7. CASE a = "ready" /\ b = "ended"
    <3>1. shelf' = shelf \ {t}
      BY <1>1, <2>2, <2>7
    <3>2. Promise!To(t, {"ready"}, "ended")
      BY <2>2, <2>7 DEF Promise!To, stage
    <3> QED BY <3>1, <3>2 DEF Promise!Lapse, shelf
  <2>8. CASE a = "ended" /\ b = "gone"
    <3>1. shelf' = shelf
      BY <1>1, <2>2, <2>8
    <3>2. Promise!To(t, {"ended"}, "gone")
      BY <2>2, <2>8 DEF Promise!To, stage
    <3> QED BY <3>1, <3>2 DEF Promise!Forget, shelf
  <2> QED BY <2>3, <2>4, <2>5, <2>6, <2>7, <2>8
<1>7. CASE row' # row
  <2>1. PICK t \in Tasks : Inserts(t) \/ (\E w \in Workers : Starts(w, t)) \/ Moves(t)
    BY <1>7, RowsChange DEF vars
  <2>2. UNCHANGED Promise!vars \/ Promise!Next
    BY <1>4, <1>5, <1>6, <2>1 DEF Promise!Next
  <2> QED BY <2>2
<1> QED BY <1>2, <1>3, <1>7

\* The export service keeps its promise.
THEOREM PromiseKept == Spec => KeepsPromise
<1>1. RowInv /\ LockInv /\ FileInv /\ RowInv' /\ FileInv' /\ [Next]_vars
        => [Promise!Next]_(Promise!vars)
  BY StepPromise DEF FileInv
<1>2. Spec => [](RowInv /\ LockInv /\ FileInv)
  BY LocksCorrect, FilesCorrect, PTL
<1>3. Spec => Promise!Spec
  BY <1>1, <1>2, InitPromise, PTL DEF Spec, Promise!Spec
<1> QED BY <1>3 DEF KeepsPromise
=============================================================================
