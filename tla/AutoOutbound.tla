---------------------------- MODULE AutoOutbound ----------------------------
(***************************************************************************)
(* One automatic outbound task without agents: the engine that claims       *)
(* targets and places calls, the events of the telephony kernel, the sweep  *)
(* of calls nobody hears of, and the operators.  Rows are in the database,  *)
(* the counter of concurrent calls and the sessions of calls in Redis.      *)
(*                                                                         *)
(* Several processes scan and each of them hears every event, or does not.  *)
(* Whatever they do to one call is kept once: all but the first to commit   *)
(* find the record ended and leave without a trace.                         *)
(*                                                                         *)
(* Time is what next_call_at, the time-outs and the TTLs order, in         *)
(* minutes: a request to the kernel takes seconds, a redial waits a minute, *)
(* the sweep half an hour, the counter lives two hours, a session four.     *)
(*                                                                         *)
(* The count of consecutive failures is abstracted: any failure may be the   *)
(* one that pauses the task.  So is what a request of an operator has read: *)
(* its session keeps the task as first read, even under FOR UPDATE, so a    *)
(* request may take effect whatever the status has become.                  *)
(*                                                                         *)
(* What is said of a target is not said of its phone number: create_target  *)
(* does not look for it, and an import skips what is pending only.          *)
(*                                                                         *)
(* Not modelled: agent mode with its queue and pacing, the quotas of tenant *)
(* and trunk and the daily limit of a number (any of them may refuse),      *)
(* operators who set the status of one target, the end date of the task,    *)
(* CDRs, events to subscribers, reception.                                  *)
(***************************************************************************)
EXTENDS Integers, FiniteSets

CONSTANTS
  Targets,         \* the targets of the task; two may have one phone number
  Attempts,        \* bound: the attempts to call them
  MaxConcurrency,  \* max_concurrency of the task
  NoTarget, NoAttempt

ASSUME TargetsAssumption == NoTarget \notin Targets
ASSUME AttemptsAssumption == NoAttempt \notin Attempts /\ IsFiniteSet(Attempts)
ASSUME MaxConcurrencyAssumption == MaxConcurrency \in Nat \ {0}

VARIABLES
  task,      \* status of the task
  target,    \* status of each target
  at,        \* the attempts: coroutine, record, call, session and handlers
  token,     \* target_session: the attempt whose session speaks for a target
  count,     \* the counter of the task's concurrent calls
  scan,      \* a scan that found the task active and room in the counter
  pausing,   \* a scan that found nothing open is about to pause the task
  swept,     \* history: targets the sweep has sent to be called again
  spoiled    \* history: the counter was dropped while calls were counted

vars == <<task, target, at, token, count, scan, pausing, swept, spoiled>>

TaskStates == {"active", "paused", "archived"}
TargetStates == {"absent", "pending", "calling", "redial_pending", "completed",
                 "invalid", "deleted"}
Open == {"pending", "calling", "redial_pending"}
Dialable == {"pending", "redial_pending"}

Coroutine == {"unused", "claimed", "over", "acquired", "restoring", "deferring",
              "recorded", "asking", "reconciling", "replied", "refused",
              "finalising", "counting", "stopping", "resetting", "done"}
Records == {"none", "open", "answered", "ended", "ended_answered"}
Calls == {"none", "asked", "void", "ringing", "talking", "missed", "hung_up"}
Verdicts == {"completed", "invalid", "redial_pending"}
AttemptType ==
  [target : Targets \cup {NoTarget}, prev : TargetStates, pc : Coroutine, held : BOOLEAN,
   rec : Records, call : Calls, sess : {"none", "attempt", "call"}, bind : BOOLEAN,
   ans : {"idle", "loaded", "marked"}, end : {"idle", "loaded", "owner", "released"}]

\* held: it is in the counter; bind: a handler has read the attempt's session and
\* will store it for the call; prev: what a restored target goes back to.
Unused ==
  [target |-> NoTarget, prev |-> "pending", pc |-> "unused", held |-> FALSE, rec |-> "none",
   call |-> "none", sess |-> "none", bind |-> FALSE, ans |-> "idle", end |-> "idle"]

TypeOK ==
  /\ task \in TaskStates
  /\ target \in [Targets -> TargetStates]
  /\ at \in [Attempts -> AttemptType]
  /\ token \in [Targets -> Attempts \cup {NoAttempt}]
  /\ count \in Int
  /\ scan \in BOOLEAN /\ pausing \in BOOLEAN
  /\ swept \in SUBSET Targets
  /\ spoiled \in BOOLEAN

\* A task that has been started and whose scans have done nothing yet.
Init ==
  /\ task = "active"
  /\ target \in [Targets -> {"absent", "pending"}]
  /\ at = [a \in Attempts |-> Unused]
  /\ token = [t \in Targets |-> NoAttempt]
  /\ count = 0
  /\ scan = FALSE /\ pausing = FALSE
  /\ swept = {} /\ spoiled = FALSE

-----------------------------------------------------------------------------
(* Attempts and their targets.                                             *)

Of(t) == {a \in Attempts : at[a].target = t}
Placed(a) == at[a].call \in {"asked", "ringing", "talking"}
Live(a) == at[a].call \in {"ringing", "talking"}
Over(a) == at[a].call \in {"missed", "hung_up"}
Answered(a) == at[a].rec \in {"answered", "ended_answered"}
HasOpenRecord(a) == at[a].rec \in {"open", "answered"}

Dialing(a) == at[a].pc \notin {"unused", "done"}
Handled(a) == at[a].bind \/ at[a].ans # "idle" \/ at[a].end # "idle"
Quiet(t) == \A a \in Of(t) : ~Dialing(a) /\ ~Handled(a)

Becomes(a, r) == at' = [at EXCEPT ![a] = r]
Step(a, from, to) == at[a].pc = from /\ Becomes(a, [at[a] EXCEPT !.pc = to])
SetTarget(t, status) == target' = [target EXCEPT ![t] = status]

\* A target that has been deleted is not found and not written.
Write(t, status) == IF target[t] = "deleted" THEN UNCHANGED target ELSE SetTarget(t, status)

NoneOpen == \A t \in Targets : target[t] \notin Open

\* release_concurrency: never below zero.
Released == IF count > 0 THEN count - 1 ELSE 0

\* set_session_mapping: the reverse index names whoever stored last.
StoreSession(a, r) ==
  /\ Becomes(a, r)
  /\ token' = [token EXCEPT ![at[a].target] = a]

Ended(rec) ==
  CASE rec = "open" -> "ended"
    [] rec = "answered" -> "ended_answered"
    [] OTHER -> rec

\* Mutant: only the session of a call counts, not that of an attempt.
HasCallSession(t) == token[t] # NoAttempt /\ at[token[t]].sess = "call"

\* has_session_for_target.
HasSession(t) == token[t] # NoAttempt /\ at[token[t]].sess # "none"

-----------------------------------------------------------------------------
(* scan_once.                                                              *)

\* Mutant: the planner does not ask for room.
StartScanAnyway ==
  /\ task = "active" /\ ~scan
  /\ scan' = TRUE
  /\ UNCHANGED <<task, target, at, token, count, pausing, swept, spoiled>>

\* The task is listed as active, and the planner finds room for it.
StartScan ==
  /\ task = "active" /\ count < MaxConcurrency /\ ~scan
  /\ scan' = TRUE
  /\ UNCHANGED <<task, target, at, token, count, pausing, swept, spoiled>>

\* claim_due_targets.  A target that has been called is due a minute after its
\* handlers and coroutine at the earliest.
Claim(a, t) ==
  /\ scan /\ at[a].pc = "unused"
  /\ target[t] \in Dialable /\ Quiet(t)
  /\ SetTarget(t, "calling")
  /\ Becomes(a, [Unused EXCEPT !.target = t, !.prev = target[t], !.pc = "claimed"])
  /\ UNCHANGED <<task, token, count, scan, pausing, swept, spoiled>>

\* The batch is done: with nothing open, the task is to be paused.
EndScan ==
  /\ scan /\ ~pausing
  /\ scan' = FALSE
  /\ pausing' = (NoneOpen /\ task = "active")
  /\ UNCHANGED <<task, target, at, token, count, swept, spoiled>>

\* The write relies on what was read, without a lock.
PauseFinished ==
  /\ pausing
  /\ pausing' = FALSE
  /\ task' = "paused"
  /\ UNCHANGED <<target, at, token, count, scan, swept, spoiled>>

-----------------------------------------------------------------------------
(* _process_claimed_target.  A scan takes its claims one after another, but *)
(* several processes scan: any number of them may be under way.             *)

\* The task is no longer active: the claim is given back.
SeesInactive(a) ==
  /\ task # "active"
  /\ Step(a, "claimed", "restoring")
  /\ UNCHANGED <<task, target, token, count, scan, pausing, swept, spoiled>>

\* acquire_concurrency counts first and looks at the result.
Acquire(a) ==
  /\ at[a].pc = "claimed" /\ task = "active"
  /\ count' = count + 1
  /\ Becomes(a, IF count + 1 > MaxConcurrency THEN [at[a] EXCEPT !.pc = "over"]
                ELSE [at[a] EXCEPT !.pc = "acquired", !.held = TRUE])
  /\ UNCHANGED <<task, target, token, scan, pausing, swept, spoiled>>

StepBack(a) ==
  /\ Step(a, "over", "restoring")
  /\ count' = count - 1
  /\ UNCHANGED <<task, target, token, scan, pausing, swept, spoiled>>

\* _restore_target_status, restore_claimed_targets: only what is still calling.
Restore(a) ==
  /\ at[a].pc = "restoring"
  /\ IF target[at[a].target] = "calling" THEN SetTarget(at[a].target, at[a].prev)
     ELSE UNCHANGED target
  /\ Becomes(a, Unused)
  /\ UNCHANGED <<task, token, count, scan, pausing, swept, spoiled>>

\* A quota of tenant, trunk or day refuses, or the record cannot be written:
\* the place is given back.
Refuse(a) ==
  /\ at[a].pc = "acquired"
  /\ count' = Released
  /\ \E to \in {"restoring", "deferring"} :
       Becomes(a, [at[a] EXCEPT !.pc = to, !.held = FALSE])
  /\ UNCHANGED <<task, target, token, scan, pausing, swept, spoiled>>

\* The daily limit: pending again, for the next day.
Defer(a) ==
  /\ at[a].pc = "deferring"
  /\ Write(at[a].target, "pending")
  /\ Becomes(a, Unused)
  /\ UNCHANGED <<task, token, count, scan, pausing, swept, spoiled>>

CreateRecord(a) ==
  /\ at[a].pc = "acquired" /\ target[at[a].target] # "deleted"
  /\ Becomes(a, [at[a] EXCEPT !.pc = "recorded", !.rec = "open"])
  /\ UNCHANGED <<task, target, token, count, scan, pausing, swept, spoiled>>

\* The attempt's session is stored, and the kernel is asked for the call.
Ask(a) ==
  /\ at[a].pc = "recorded"
  /\ StoreSession(a, [at[a] EXCEPT !.pc = "asking", !.sess = "attempt", !.call = "asked"])
  /\ UNCHANGED <<task, target, count, scan, pausing, swept, spoiled>>

GetReply(a) ==
  /\ at[a].call \notin {"asked", "void"}
  /\ Step(a, "asking", "replied")
  /\ UNCHANGED <<task, target, token, count, scan, pausing, swept, spoiled>>

\* The kernel answers with an error: there is no call.  A request without an answer
\* is not taken for one: the engine gives up (LoseReply) before the client does,
\* unless TELEPHONY_RPC_TIMEOUT is set below ORIGINATE_TIMEOUT_SECONDS.
GetRefusal(a) ==
  /\ at[a].pc = "asking" /\ at[a].call = "asked"
  /\ Becomes(a, [at[a] EXCEPT !.pc = "refused", !.call = "void"])
  /\ UNCHANGED <<task, target, token, count, scan, pausing, swept, spoiled>>

\* No reply in time, a broken link, any other exception: nobody knows.
LoseReply(a) ==
  /\ Step(a, "asking", "reconciling")
  /\ UNCHANGED <<task, target, token, count, scan, pausing, swept, spoiled>>

\* Mutant: a call nobody knows of has no place in the counter.
ReconcileReleases(a) ==
  \/ /\ Live(a) /\ Step(a, "reconciling", "replied")
     /\ UNCHANGED <<task, target, token, count, scan, pausing, swept, spoiled>>
  \/ /\ at[a].pc = "reconciling"
     /\ Becomes(a, [at[a] EXCEPT !.pc = "done", !.held = FALSE])
     /\ count' = Released
     /\ UNCHANGED <<task, target, token, scan, pausing, swept, spoiled>>

\* _reconcile_attempt: the call is in the kernel's list, or it is not, or the
\* list is not to be had; then the target stays as it is.
Reconcile(a) ==
  /\ \/ Live(a) /\ Step(a, "reconciling", "replied")
     \/ Step(a, "reconciling", "done")
  /\ UNCHANGED <<task, target, token, count, scan, pausing, swept, spoiled>>

\* The call's session replaces whatever is there, and comes back if it is gone.
StoreReply(a) ==
  /\ at[a].pc = "replied"
  /\ StoreSession(a, [at[a] EXCEPT !.pc = "done", !.sess = "call"])
  /\ UNCHANGED <<task, target, count, scan, pausing, swept, spoiled>>

\* _on_originate_failure.
ReleaseRefused(a) ==
  /\ at[a].pc = "refused"
  /\ count' = Released
  /\ Becomes(a, [at[a] EXCEPT !.pc = "finalising", !.held = FALSE])
  /\ UNCHANGED <<task, target, token, scan, pausing, swept, spoiled>>

FinaliseRefused(a) ==
  /\ at[a].pc = "finalising"
  /\ Write(at[a].target, "pending")
  /\ Becomes(a, [at[a] EXCEPT !.pc = "counting", !.rec = Ended(@)])
  /\ UNCHANGED <<task, token, count, scan, pausing, swept, spoiled>>

\* increment_consecutive_failures, and the threshold is reached or not.
CountFailure(a) ==
  /\ Step(a, "counting", "stopping") \/ Step(a, "counting", "done")
  /\ UNCHANGED <<task, target, token, count, scan, pausing, swept, spoiled>>

\* _auto_pause_task.
AutoPause(a) ==
  /\ at[a].pc = "stopping"
  /\ IF task = "active"
     THEN /\ task' = "paused"
          /\ Becomes(a, [at[a] EXCEPT !.pc = "resetting"])
     ELSE /\ Becomes(a, [at[a] EXCEPT !.pc = "done"])
          /\ UNCHANGED task
  /\ UNCHANGED <<target, token, count, scan, pausing, swept, spoiled>>

\* What is in the counter and will be taken off it.
Counted == {a \in Attempts : at[a].held \/ at[a].pc = "over"}
DropCounter ==
  /\ count' = 0
  /\ spoiled' = (spoiled \/ Counted # {})

\* reset_concurrency.
Reset(a) ==
  /\ Step(a, "resetting", "done")
  /\ DropCounter
  /\ UNCHANGED <<task, target, token, scan, pausing, swept>>

DialNext(a) ==
  \/ SeesInactive(a) \/ Acquire(a) \/ StepBack(a) \/ Restore(a) \/ Refuse(a) \/ Defer(a)
  \/ CreateRecord(a) \/ Ask(a) \/ GetReply(a) \/ GetRefusal(a) \/ LoseReply(a)
  \/ Reconcile(a) \/ StoreReply(a) \/ ReleaseRefused(a) \/ FinaliseRefused(a)
  \/ CountFailure(a) \/ AutoPause(a) \/ Reset(a)

\* The process dies: what is committed and in Redis stays.
DialDies(a) ==
  /\ Dialing(a)
  /\ Becomes(a, [at[a] EXCEPT !.pc = "done"])
  /\ UNCHANGED <<task, target, token, count, scan, pausing, swept, spoiled>>

-----------------------------------------------------------------------------
(* The kernel (external).                                                  *)

CallBecomes(a, from, to) ==
  /\ at[a].call = from
  /\ Becomes(a, [at[a] EXCEPT !.call = to])
  /\ UNCHANGED <<task, target, token, count, scan, pausing, swept, spoiled>>

\* A request whose reply nobody waits for any more may still make a call, or be lost.
KernelStarts(a) == CallBecomes(a, "asked", "ringing")
KernelLoses(a) == at[a].pc # "asking" /\ CallBecomes(a, "asked", "void")
CallAnswered(a) == CallBecomes(a, "ringing", "talking")
CallEnds(a) == CallBecomes(a, "ringing", "missed") \/ CallBecomes(a, "talking", "hung_up")

KernelNext(a) == KernelStarts(a) \/ KernelLoses(a) \/ CallAnswered(a) \/ CallEnds(a)

-----------------------------------------------------------------------------
(* The handlers of call.answered and call.hangup.                           *)

Unmoved == UNCHANGED <<scan, pausing, swept, spoiled>>

\* bind_session_from_attempt: the event is here before the reply.
BindReads(a) ==
  /\ at[a].call = "talking" \/ Over(a)
  /\ at[a].sess = "attempt" /\ ~at[a].bind
  /\ Becomes(a, [at[a] EXCEPT !.bind = TRUE])
  /\ UNCHANGED <<task, target, token, count>> /\ Unmoved

BindStores(a) ==
  /\ at[a].bind
  /\ StoreSession(a, [at[a] EXCEPT !.bind = FALSE, !.sess = "call"])
  /\ UNCHANGED <<task, target, count>> /\ Unmoved

\* handle_call_answered: a record that is answered or ended has nothing left for it.
AnswerLoads(a) ==
  /\ at[a].call \in {"talking", "hung_up"} /\ at[a].sess = "call"
  /\ at[a].ans = "idle" /\ at[a].rec = "open"
  /\ Becomes(a, [at[a] EXCEPT !.ans = "loaded"])
  /\ UNCHANGED <<task, target, token, count>> /\ Unmoved

\* mark_answered_once.
AnswerMarks(a) ==
  /\ at[a].ans = "loaded"
  /\ Becomes(a, IF at[a].rec = "open" THEN [at[a] EXCEPT !.ans = "marked", !.rec = "answered"]
                ELSE [at[a] EXCEPT !.ans = "idle"])
  /\ UNCHANGED <<task, target, token, count>> /\ Unmoved

AnswerStores(a) ==
  /\ at[a].ans = "marked"
  /\ StoreSession(a, [at[a] EXCEPT !.ans = "idle", !.sess = "call"])
  /\ UNCHANGED <<task, target, count>> /\ Unmoved

\* handle_call_ended.
EndLoads(a) ==
  /\ Over(a) /\ at[a].sess = "call"
  /\ at[a].end = "idle" /\ HasOpenRecord(a)
  /\ Becomes(a, [at[a] EXCEPT !.end = "loaded"])
  /\ UNCHANGED <<task, target, token, count>> /\ Unmoved

\* Mutant: the terminal state is the hangup's alone, not the record's.
TerminalOfHangup(a) == Verdicts

\* finalize_record_once resolves the terminal state from the record, and
\* _apply_target_terminal the target from that and from the retries left.
Terminal(a) == IF at[a].rec = "answered" THEN {"completed"} ELSE Verdicts

\* One transaction: record, target, and the task if nothing else is open (by a
\* count it made without a lock on the task; see PauseFinished for the window).
EndFinalises(a) ==
  /\ at[a].end = "loaded"
  /\ IF HasOpenRecord(a)
     THEN \E v \in Terminal(a) :
            /\ Becomes(a, [at[a] EXCEPT !.end = "owner", !.rec = Ended(@)])
            /\ SetTarget(at[a].target, v)
            /\ task' = IF /\ task = "active" /\ v \notin Open
                          /\ \A t \in Targets \ {at[a].target} : target[t] \notin Open
                       THEN "paused" ELSE task
     ELSE /\ Becomes(a, [at[a] EXCEPT !.end = "idle"])
          /\ UNCHANGED <<task, target>>
  /\ UNCHANGED <<token, count>> /\ Unmoved

\* Only the handler that ended the record cleans up.
EndReleases(a) ==
  /\ at[a].end = "owner"
  /\ count' = Released
  /\ Becomes(a, [at[a] EXCEPT !.end = "released", !.held = FALSE])
  /\ UNCHANGED <<task, target, token>> /\ Unmoved

\* delete_session_mapping takes the index with it, whomever it names.
EndDeletes(a) ==
  /\ at[a].end = "released"
  /\ Becomes(a, [at[a] EXCEPT !.end = "idle", !.sess = "none"])
  /\ token' = [token EXCEPT ![at[a].target] = NoAttempt]
  /\ UNCHANGED <<task, target, count>> /\ Unmoved

\* A handler dies or raises; a transaction under way is rolled back.
HandlerDies(a) ==
  /\ Handled(a)
  /\ Becomes(a, [at[a] EXCEPT !.bind = FALSE, !.ans = "idle", !.end = "idle"])
  /\ UNCHANGED <<task, target, token, count>> /\ Unmoved

\* What goes on once an event is heard.
HandlerNext(a) ==
  \/ BindStores(a) \/ AnswerMarks(a) \/ AnswerStores(a)
  \/ EndFinalises(a) \/ EndReleases(a) \/ EndDeletes(a)

HearNext(a) == BindReads(a) \/ AnswerLoads(a) \/ EndLoads(a)

-----------------------------------------------------------------------------
(* Deadlines.                                                              *)

\* Four hours after it was stored; no call lasts that long.
SessionExpires(a) ==
  /\ at[a].sess # "none" /\ ~Placed(a) /\ ~Dialing(a) /\ ~Handled(a)
  /\ Becomes(a, [at[a] EXCEPT !.sess = "none"])
  /\ token' = IF token[at[a].target] = a THEN [token EXCEPT ![at[a].target] = NoAttempt] ELSE token
  /\ UNCHANGED <<task, target, count>> /\ Unmoved

\* Two hours after a place was last asked for.
CounterExpires ==
  /\ count > 0 /\ ~scan /\ \A a \in Attempts : ~Dialing(a)
  /\ DropCounter
  /\ UNCHANGED <<task, target, at, token, scan, pausing, swept>>

\* Mutant: a target without a record is passed over.
SweepRecorded(t) ==
  /\ target[t] = "calling" /\ ~HasSession(t) /\ Quiet(t)
  /\ SetTarget(t, "redial_pending")
  /\ \E a \in Of(t) : HasOpenRecord(a) /\ Becomes(a, [at[a] EXCEPT !.rec = Ended(@)])
  /\ swept' = swept \cup {t}
  /\ UNCHANGED <<task, token, count, scan, pausing, spoiled>>

\* _sweep_stale_calling: half an hour without a change, and no session.  An
\* open record (the latest, here any) is ended; the place in the counter stays.
Sweep(t) ==
  /\ target[t] = "calling" /\ ~HasSession(t) /\ Quiet(t)
  /\ SetTarget(t, "redial_pending")
  /\ \/ \E a \in Of(t) : HasOpenRecord(a) /\ Becomes(a, [at[a] EXCEPT !.rec = Ended(@)])
     \/ (\A a \in Of(t) : ~HasOpenRecord(a)) /\ UNCHANGED at
  /\ swept' = swept \cup {t}
  /\ UNCHANGED <<task, token, count, scan, pausing, spoiled>>

-----------------------------------------------------------------------------
(* Operators (auto_outbound_task_service.py).                               *)

\* start_task, pause_task, archive_task.
SetTask(status) ==
  /\ status = "active" => \E t \in Targets : target[t] \in Dialable
  /\ task # status /\ task' = status
  /\ UNCHANGED <<target, at, token, count, scan, pausing, swept, spoiled>>

\* create_target; a task that had finished its queue goes on.
Append(t) ==
  /\ target[t] = "absent"
  /\ SetTarget(t, "pending")
  /\ task' \in {task, "active"}
  /\ UNCHANGED <<at, token, count, scan, pausing, swept, spoiled>>

\* delete_target has the rows of task and target, but goes by the status it
\* read before: a target that was claimed since is deleted as well.
Delete(t) ==
  /\ target[t] \in {"pending", "invalid"} \/ (target[t] = "calling" /\ ~Quiet(t))
  /\ \A a \in Of(t) : at[a].rec = "none"
  /\ SetTarget(t, "deleted")
  /\ task' = IF task = "active" /\ \A u \in Targets \ {t} : target[u] \notin Open
             THEN "paused" ELSE task
  /\ UNCHANGED <<at, token, count, scan, pausing, swept, spoiled>>

OperatorNext ==
  \/ \E status \in TaskStates : SetTask(status)
  \/ \E t \in Targets : Append(t) \/ Delete(t)

-----------------------------------------------------------------------------

AttemptNext(a) ==
  DialNext(a) \/ DialDies(a) \/ KernelNext(a) \/ HearNext(a) \/ HandlerNext(a)
  \/ HandlerDies(a) \/ SessionExpires(a)

Next ==
  \/ StartScan \/ EndScan \/ PauseFinished \/ CounterExpires \/ OperatorNext
  \/ \E a \in Attempts : AttemptNext(a)
  \/ \E a \in Attempts, t \in Targets : Claim(a, t)
  \/ \E t \in Targets : Sweep(t)

Spec == Init /\ [][Next]_vars

\* Coroutines and scans go on, calls end, clocks run.  Events may stay unheard;
\* handlers may die again and again, so that expiry and sweep need a strong promise.
Fairness ==
  /\ WF_vars(EndScan) /\ WF_vars(PauseFinished) /\ WF_vars(CounterExpires)
  /\ \A a \in Attempts :
       /\ WF_vars(DialNext(a)) /\ WF_vars(HandlerNext(a))
       /\ WF_vars(KernelStarts(a) \/ KernelLoses(a)) /\ WF_vars(CallEnds(a))
       /\ SF_vars(SessionExpires(a))
  /\ \A t \in Targets : SF_vars(Sweep(t))

LiveSpec == Spec /\ Fairness

-----------------------------------------------------------------------------
(* Properties.                                                             *)

\* However many processes dial, no more calls are up than max_concurrency,
\* unless the counter was dropped under calls that it counted.
LimitHolds == ~spoiled => Cardinality({a \in Attempts : Live(a)}) <= MaxConcurrency

\* What that rests on: every call that is up has its place in the counter, also
\* one that nobody heard the reply for.
CallsAreCounted == ~spoiled => Cardinality({a \in Attempts : Live(a)}) <= count

\* A target is not called while a call to it is under way, or may be.
OneCallAtATime ==
  \A a, b \in Attempts :
    /\ Placed(a) /\ Placed(b) /\ at[a].target = at[b].target
    => a = b

\* A target whose answer was recorded is not called again, whatever the order in which
\* the events arrive, unless the sweep says so.
AnsweredIsNotCalledAgain ==
  \A a, b \in Attempts :
    /\ Answered(a) /\ Placed(b) /\ at[a].target = at[b].target
    /\ at[a].target \notin swept
    => a = b

\* No target stays in calling, whatever dies and whatever is not heard.
CallingEnds == \A t \in Targets : target[t] = "calling" ~> target[t] # "calling"

\* A full counter does not stay full, even if nobody gives the places back.
CapacityReturns == count >= MaxConcurrency ~> count < MaxConcurrency
=============================================================================
