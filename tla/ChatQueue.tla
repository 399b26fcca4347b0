------------------------------ MODULE ChatQueue ------------------------------
(***************************************************************************)
(* The queue of online chat: conversations and queue tasks in the database, *)
(* the agents' status and counters in Redis, and the requests that move     *)
(* both.  A visitor starts, re-enters or leaves; the staff and the visitor   *)
(* time-out end, transfer, pull, assign and dispatch; whoever gains a place  *)
(* is filled from the queue.                                                *)
(*                                                                         *)
(* Each action is what one request does up to its next commit or its next   *)
(* command to Redis.  A row that a transaction has selected FOR UPDATE is    *)
(* skipped or waited for by the others; a plain read sees what is committed *)
(* and may be stale by the time it is used.                                 *)
(*                                                                         *)
(* Not modelled: the order of the queue (any task may be next), several      *)
(* groups and channels, hand-over from a bot, a visitor's requests in two    *)
(* tabs at once, a change of max_concurrent, messages and events.  The row of *)
(* a conversation that an assignment by hand has read as active is written   *)
(* like any other.                                                          *)
(***************************************************************************)
EXTENDS Integers, FiniteSets

CONSTANTS
  Agents,
  Convs,        \* conversations; each is started once
  Tasks,        \* rows of queue_tasks
  ConvOf,       \* task_ref_id: the conversation a task is for
  Jobs,         \* requests of staff and schedulers that can be under way at once
  Limit,        \* max_concurrent
  MaxRequests,  \* bound: the requests of staff and schedulers
  NoAgent, NoConv, NoTask

ASSUME AgentsAssumption == NoAgent \notin Agents
ASSUME TasksAssumption == ConvOf \in [Tasks -> Convs] /\ NoTask \notin Tasks /\ NoConv \notin Convs
ASSUME FiniteAssumption == IsFiniteSet(Convs) /\ IsFiniteSet(Jobs)
ASSUME LimitAssumption == Limit \in Nat \ {0} /\ MaxRequests \in Nat

VARIABLES
  conv,      \* conversations: status and agent
  task,      \* queue_tasks: status
  online,    \* the agent's hash: is the status online
  count,     \* the agent's hash: current_count
  entry,     \* the visitor's request
  job,       \* the requests of staff and schedulers
  requests,  \* how many have been made
  spoiled    \* history: the agents whose counter has drifted, see LedgerAgrees

vars == <<conv, task, online, count, entry, job, requests, spoiled>>

AgentOrNone == Agents \cup {NoAgent}
ConvStates == {"none", "queued", "active", "closed"}
TaskStates == {"none", "queued", "assigning", "assigned", "canceled", "timeout"}
EntryStates == {"out", "selected", "counting", "enqueuing", "inserting", "leaving",
                "done", "refused"}
RowStates == {"free", "held"}
JobStates == {"idle", "ending", "moving", "ended", "clamping", "moved", "counted",
              "filling", "listing", "enqueuing", "inserting", "pulling",
              "chosen", "locked", "reserved", "given",
              "dispatching", "dispatched", "settling", "undoing", "releasing"}
JobType ==
  [pc : JobStates, agent : AgentOrNone, conv : Convs \cup {NoConv},
   task : Tasks \cup {NoTask}, places : Int, seen : SUBSET Convs, todo : SUBSET Convs,
   target : AgentOrNone]

\* seen: the conversations this session has read as queued and keeps that way;
\* places: how many it may still pull, or the count it has read;
\* target: who is to be counted when the filling is over.
Idle ==
  [pc |-> "idle", agent |-> NoAgent, conv |-> NoConv, task |-> NoTask,
   places |-> 0, seen |-> {}, todo |-> {}, target |-> NoAgent]

NoRequest == [pc |-> "out", agent |-> NoAgent, row |-> "free"]

TypeOK ==
  /\ conv \in [Convs -> [status : ConvStates, agent : AgentOrNone]]
  /\ task \in [Tasks -> TaskStates]
  /\ online \in [Agents -> BOOLEAN]
  /\ count \in [Agents -> Int]
  /\ entry \in [Convs -> [pc : EntryStates, agent : AgentOrNone, row : RowStates]]
  /\ job \in [Jobs -> JobType]
  /\ requests \in Nat
  /\ spoiled \in SUBSET Agents

Init ==
  /\ conv = [c \in Convs |-> [status |-> "none", agent |-> NoAgent]]
  /\ task = [t \in Tasks |-> "none"]
  /\ online \in [Agents -> BOOLEAN]
  /\ count = [a \in Agents |-> 0]
  /\ entry = [c \in Convs |-> NoRequest]
  /\ job = [j \in Jobs |-> Idle]
  /\ requests = 0
  /\ spoiled = {}

-----------------------------------------------------------------------------
(* Rows and counters.                                                      *)

Waiting(c) == conv[c].status = "queued"
Served(c, a) == conv[c].status = "active" /\ conv[c].agent = a

\* count_active_by_agent.
Load(a) == Cardinality({c \in Convs : Served(c, a)})

\* ACTIVE_TASK_STATUSES.  A task is read as queued until the first commit of
\* its assignment.
Open(t) == task[t] \in {"queued", "assigning"}
OpenTasks(c) == {t \in Tasks : ConvOf[t] = c /\ Open(t)}

\* FOR UPDATE: the row belongs to a transaction that is under way.
Locking == {"locked", "reserved", "dispatching", "dispatched"}
Locked(t) == \E j \in Jobs : job[j].task = t /\ job[j].pc \in Locking
Held(c) == entry[c].row = "held"

HasPlace(a) == online[a] /\ count[a] < Limit

\* enqueue_task: a new row for the conversation, without looking again.
Enqueue(c) ==
  \E t \in Tasks : /\ ConvOf[t] = c /\ task[t] = "none"
                   /\ task' = [task EXCEPT ![t] = "queued"]

\* ConversationRepository.end_conversation: whatever the row says by now.
Close(c) == conv' = [conv EXCEPT ![c].status = "closed"]

\* Who loses a conversation that nobody will take off his counter.
Robbed(c) == IF conv[c].status = "active" THEN {conv[c].agent} ELSE {}

Becomes(j, r) == job' = [job EXCEPT ![j] = r]
Step(j, pc) == Becomes(j, [job[j] EXCEPT !.pc = pc])
End(j) == Becomes(j, Idle)

\* A request of the staff or a scheduler begins.
Begin(j, r) ==
  /\ job[j] = Idle /\ requests < MaxRequests
  /\ requests' = requests + 1
  /\ Becomes(j, r)

-----------------------------------------------------------------------------
(* create_from_visitor and the visitor's other requests.                    *)

\* A request that is over holds nothing.
EntryStep(c, from, to) ==
  /\ entry[c].pc = from
  /\ entry' = [entry EXCEPT ![c] =
                 IF to \in {"done", "refused"} THEN [NoRequest EXCEPT !.pc = to]
                 ELSE [@ EXCEPT !.pc = to]]

\* The first agent with a place, by the counters of this moment.
SelectAgent(c) ==
  /\ entry[c].pc = "out"
  /\ \E a \in AgentOrNone :
       /\ IF a = NoAgent THEN \A b \in Agents : ~HasPlace(b) ELSE HasPlace(a)
       /\ entry' = [entry EXCEPT ![c] = [@ EXCEPT !.pc = "selected", !.agent = a]]
  /\ UNCHANGED <<conv, task, online, count, job, requests, spoiled>>

\* The row is committed before anything is counted or enqueued.
CreateConversation(c) ==
  LET a == entry[c].agent IN
  /\ EntryStep(c, "selected", IF a = NoAgent THEN "enqueuing" ELSE "counting")
  /\ conv' = [conv EXCEPT ![c] =
                [status |-> IF a = NoAgent THEN "queued" ELSE "active", agent |-> a]]
  /\ UNCHANGED <<task, online, count, job, requests, spoiled>>

CountSelected(c) ==
  /\ EntryStep(c, "counting", "done")
  /\ count' = [count EXCEPT ![entry[c].agent] = @ + 1]
  /\ UNCHANGED <<conv, task, online, job, requests, spoiled>>

\* The visitor comes back to a conversation that is still queued.  The row is
\* selected for update; a changed address or browser is committed at once, and
\* the row let go with it.
Reenter(c) ==
  /\ entry[c].pc \in {"done", "refused"} /\ Waiting(c)
  /\ \E row \in RowStates :
       entry' = [entry EXCEPT ![c] = [@ EXCEPT !.pc = "enqueuing", !.row = row]]
  /\ UNCHANGED <<conv, task, online, count, job, requests, spoiled>>

\* enqueue_conversation_if_needed: with two active tasks the query for the
\* duplicate raises; the visitor's request fails, the rows stay.
CheckDuplicate(c) ==
  /\ EntryStep(c, "enqueuing", IF OpenTasks(c) = {} THEN "inserting" ELSE "done")
  /\ UNCHANGED <<conv, task, online, count, job, requests, spoiled>>

InsertTask(c) ==
  /\ EntryStep(c, "inserting", "done")
  /\ Enqueue(c)
  /\ UNCHANGED <<conv, online, count, job, requests, spoiled>>

\* QUEUE_LIMIT_REACHED: the conversation stays, queued and without a task.
RefuseTask(c) ==
  /\ EntryStep(c, "inserting", "refused")
  /\ UNCHANGED <<conv, task, online, count, job, requests, spoiled>>

\* leave_queued_conversation_message, and a form submitted while waiting.
AskToLeave(c) ==
  /\ entry[c].pc \in {"done", "refused"} /\ Waiting(c)
  /\ entry' = [entry EXCEPT ![c].pc = "leaving"]
  /\ UNCHANGED <<conv, task, online, count, job, requests, spoiled>>

\* The task is locked, cancelled, and the conversation closed with it; without
\* exactly one active task the request fails.
LeaveQueue(c) ==
  LET open == OpenTasks(c) IN
  /\ EntryStep(c, "leaving", IF open = {} THEN "refused" ELSE "done")
  /\ \A t \in open : ~Locked(t)
  /\ IF Cardinality(open) = 1
     THEN /\ task' = [t \in Tasks |-> IF t \in open THEN "canceled" ELSE task[t]]
          /\ Close(c)
          /\ spoiled' = spoiled \cup Robbed(c)
     ELSE UNCHANGED <<conv, task, spoiled>>
  /\ UNCHANGED <<online, count, job, requests>>

EntryNext(c) ==
  \/ SelectAgent(c) \/ CreateConversation(c) \/ CountSelected(c)
  \/ Reenter(c) \/ CheckDuplicate(c) \/ InsertTask(c) \/ RefuseTask(c)
  \/ AskToLeave(c) \/ LeaveQueue(c)

-----------------------------------------------------------------------------
(* end_conversation, the visitor time-out, and transfer_conversation.       *)

\* The agent, or the time-out, has read an active conversation.
ReadForEnd(j, c) ==
  /\ conv[c].status = "active"
  /\ Begin(j, [Idle EXCEPT !.pc = "ending", !.conv = c])
  /\ UNCHANGED <<conv, task, online, count, entry, spoiled>>

\* The row is closed without looking again, and read again: the agent to be
\* taken one off is the one of after the commit.
EndConversation(j) ==
  LET c == job[j].conv IN
  /\ job[j].pc = "ending"
  /\ Close(c)
  /\ Becomes(j, [Idle EXCEPT !.pc = "ended", !.agent = conv[c].agent])
  /\ spoiled' = IF conv[c].status = "active" THEN spoiled ELSE spoiled \cup {conv[c].agent}
  /\ UNCHANGED <<task, online, count, entry, requests>>

ReadForTransfer(j, c, b) ==
  /\ conv[c].status = "active" /\ conv[c].agent # b /\ online[b]
  /\ Begin(j, [Idle EXCEPT !.pc = "moving", !.conv = c, !.agent = conv[c].agent, !.target = b])
  /\ UNCHANGED <<conv, task, online, count, entry, spoiled>>

\* Mutant: the update does not ask for the agent that was read.
TransferConversationOfAny(j) ==
  LET c == job[j].conv IN
  /\ job[j].pc = "moving"
  /\ IF conv[c].status = "active"
     THEN /\ conv' = [conv EXCEPT ![c].agent = job[j].target]
          /\ Becomes(j, [job[j] EXCEPT !.pc = "ended", !.conv = NoConv])
     ELSE End(j) /\ UNCHANGED conv
  /\ UNCHANGED <<task, online, count, entry, requests, spoiled>>

\* The conditional update: only if it is still the conversation that was read.
TransferConversation(j) ==
  LET c == job[j].conv IN
  /\ job[j].pc = "moving"
  /\ IF Served(c, job[j].agent)
     THEN /\ conv' = [conv EXCEPT ![c].agent = job[j].target]
          /\ Becomes(j, [job[j] EXCEPT !.pc = "ended", !.conv = NoConv])
     ELSE End(j) /\ UNCHANGED conv
  /\ UNCHANGED <<task, online, count, entry, requests, spoiled>>

\* decrement_count: the increment by -1, and the clamp as a command of its own.
DecrementCount(j) ==
  LET a == job[j].agent IN
  /\ job[j].pc = "ended"
  /\ count' = [count EXCEPT ![a] = @ - 1]
  /\ Step(j, IF count[a] - 1 < 0 THEN "clamping" ELSE "filling")
  /\ UNCHANGED <<conv, task, online, entry, requests, spoiled>>

ClampCount(j) ==
  LET a == job[j].agent IN
  /\ job[j].pc \in {"clamping", "releasing"}
  /\ count' = [count EXCEPT ![a] = 0]
  /\ spoiled' = IF count[a] = 0 THEN spoiled ELSE spoiled \cup {a}
  /\ IF job[j].pc = "clamping" THEN Step(j, "filling") ELSE End(j)
  /\ UNCHANGED <<conv, task, online, entry, requests>>

\* The receiver of a transfer is counted after the giver's place was filled.
CountTarget(j) ==
  /\ job[j].pc = "moved"
  /\ count' = [count EXCEPT ![job[j].target] = @ + 1]
  /\ End(j)
  /\ UNCHANGED <<conv, task, online, entry, requests, spoiled>>

CloserNext(j) ==
  \/ EndConversation(j) \/ TransferConversation(j)
  \/ DecrementCount(j) \/ ClampCount(j) \/ CountTarget(j)
  \/ \E c \in Convs : ReadForEnd(j, c) \/ \E b \in Agents : ReadForTransfer(j, c, b)

-----------------------------------------------------------------------------
(* Presence: on_connect, update_status, and the end of the grace period.    *)

\* What is owed by and to a counter: places reserved for a conversation that is
\* not active yet, and conversations that are gone and not taken off; those that
\* are there and not counted, as new ones or as transferred ones.
ReservedFor(a) == {j \in Jobs : job[j].pc \in {"reserved", "dispatched"} /\ job[j].agent = a}
OwedBy(a) == {j \in Jobs : job[j].pc = "ended" /\ job[j].agent = a}
NewFor(a) == {c \in Convs : entry[c].pc = "counting" /\ entry[c].agent = a}
MovedTo(a) == {j \in Jobs : job[j].target = a /\ job[j].pc # "moving"}

Ledger(a) ==
  Load(a) + Cardinality(ReservedFor(a)) + Cardinality(OwedBy(a))
  - Cardinality(NewFor(a)) - Cardinality(MovedTo(a))

ReadLoad(j, a) ==
  /\ Begin(j, [Idle EXCEPT !.pc = "counted", !.agent = a, !.places = Load(a)])
  /\ UNCHANGED <<conv, task, online, count, entry, spoiled>>

\* The counter is set to what the database said.  This heals a counter, or
\* spoils it if the database or a request has gone on meanwhile.
SetStatus(j, status) ==
  LET a == job[j].agent
      n == job[j].places IN
  /\ job[j].pc = "counted"
  /\ online' = [online EXCEPT ![a] = status]
  /\ count' = [count EXCEPT ![a] = n]
  /\ spoiled' = IF n = Ledger(a) THEN spoiled \ {a} ELSE spoiled \cup {a}
  /\ Becomes(j, IF status THEN [Idle EXCEPT !.pc = "filling", !.agent = a] ELSE Idle)
  /\ UNCHANGED <<conv, task, entry, requests>>

GoOffline(a) ==
  /\ online[a]
  /\ online' = [online EXCEPT ![a] = FALSE]
  /\ UNCHANGED <<conv, task, count, entry, job, requests, spoiled>>

-----------------------------------------------------------------------------
(* trigger_queue_backfill, _assign_queued_conversations and pull_next.      *)

\* The filling is over, or has failed, which its caller does not hear of.
StopFilling(j) ==
  Becomes(j, IF job[j].target = NoAgent THEN Idle
             ELSE [Idle EXCEPT !.pc = "moved", !.target = job[j].target])

\* The agent's places are read once.
ReadPlaces(j) ==
  LET a == job[j].agent IN
  /\ job[j].pc = "filling"
  /\ IF HasPlace(a)
     THEN Becomes(j, [job[j] EXCEPT !.pc = "listing", !.places = Limit - count[a]])
     ELSE StopFilling(j)
  /\ UNCHANGED <<conv, task, online, count, entry, requests, spoiled>>

\* get_queued_by_tenant: as many of the queued conversations as there are places.
ListQueued(j) ==
  LET queued == {c \in Convs : Waiting(c)} IN
  /\ job[j].pc = "listing"
  /\ IF queued = {} THEN StopFilling(j)
     ELSE \E S \in SUBSET queued :
            /\ \/ Cardinality(S) = job[j].places
               \/ S = queued /\ Cardinality(S) < job[j].places
            /\ Becomes(j, [job[j] EXCEPT !.pc = "enqueuing", !.seen = S, !.todo = S])
  /\ UNCHANGED <<conv, task, online, count, entry, requests, spoiled>>

\* Each is enqueued if it has no task; two tasks raise and end the filling.
CheckListed(j, c) ==
  LET open == Cardinality(OpenTasks(c)) IN
  /\ job[j].pc = "enqueuing" /\ c \in job[j].todo
  /\ \/ /\ open = 0
        /\ Becomes(j, [job[j] EXCEPT !.pc = "inserting", !.conv = c, !.todo = @ \ {c}])
     \/ open = 1 /\ Becomes(j, [job[j] EXCEPT !.todo = @ \ {c}])
     \/ open > 1 /\ StopFilling(j)
  /\ UNCHANGED <<conv, task, online, count, entry, requests, spoiled>>

InsertListed(j) ==
  /\ job[j].pc = "inserting"
  /\ \/ /\ Enqueue(job[j].conv)
        /\ Becomes(j, [job[j] EXCEPT !.pc = "enqueuing", !.conv = NoConv])
     \/ StopFilling(j) /\ UNCHANGED task    \* QUEUE_LIMIT_REACHED
  /\ UNCHANGED <<conv, online, count, entry, requests, spoiled>>

StartPulling(j) ==
  /\ job[j].pc = "enqueuing" /\ job[j].todo = {}
  /\ Step(j, "pulling")
  /\ UNCHANGED <<conv, task, online, count, entry, requests, spoiled>>

\* find_pullable_task: FOR UPDATE SKIP LOCKED.
LockTask(j, t) ==
  /\ job[j].pc = "pulling" /\ job[j].places > 0
  /\ task[t] = "queued" /\ ~Locked(t)
  /\ Becomes(j, [job[j] EXCEPT !.pc = "locked", !.task = t])
  /\ UNCHANGED <<conv, task, online, count, entry, requests, spoiled>>

NothingToPull(j) ==
  /\ job[j].pc = "pulling"
  /\ job[j].places <= 0 \/ \A t \in Tasks : task[t] = "queued" => Locked(t)
  /\ StopFilling(j)
  /\ UNCHANGED <<conv, task, online, count, entry, requests, spoiled>>

\* An agent pulls, or the queue's own API assigns, one task that is looked at
\* under its lock.
PullByHand(j, a, t) ==
  /\ task[t] = "queued" /\ ~Locked(t)
  /\ Begin(j, [Idle EXCEPT !.pc = "locked", !.agent = a, !.task = t, !.places = 1])
  /\ UNCHANGED <<conv, task, online, count, entry, spoiled>>

\* The workspace assigns one task by hand.  It reads the task and its
\* conversation first and takes the lock later; the locked row is the object the
\* session has, with the status of the first reading.
ReadByHand(j, a, t) ==
  /\ task[t] = "queued"
  /\ Begin(j, [Idle EXCEPT !.pc = "chosen", !.agent = a, !.task = t, !.conv = ConvOf[t],
                           !.places = 1])
  /\ UNCHANGED <<conv, task, online, count, entry, spoiled>>

LockChosen(j) ==
  /\ job[j].pc = "chosen" /\ ~Locked(job[j].task)
  /\ Step(j, "locked")
  /\ UNCHANGED <<conv, task, online, count, entry, requests, spoiled>>

\* The task is in the hands of a page that has read it before.
ByHand(r) == r.conv # NoConv

\* try_reserve with bypass_capacity.
ReserveAgent(j) ==
  LET a == job[j].agent IN
  /\ job[j].pc = "locked" /\ online[a]
  /\ count' = [count EXCEPT ![a] = @ + 1]
  /\ Step(j, "reserved")
  /\ UNCHANGED <<conv, task, online, entry, requests, spoiled>>

\* Not online, or the hash changed three times under the watch: the task is
\* restored to the queue, whatever has become of one that was chosen by hand.
ReserveRefused(j) ==
  /\ job[j].pc = "locked"
  /\ task' = [task EXCEPT ![job[j].task] = "queued"]
  /\ Becomes(j, [job[j] EXCEPT !.pc = "pulling", !.task = NoTask, !.conv = NoConv,
                               !.places = @ - 1])
  /\ UNCHANGED <<conv, online, count, entry, requests, spoiled>>

\* _assign_business_object: the message to the visitor commits the conversation
\* and the task as it is, and lets the row go.  A conversation that is served by
\* now changes hands and nobody is taken one off.
GiveTask(t, a) ==
  LET c == ConvOf[t] IN
  /\ ~Held(c)
  /\ task' = [task EXCEPT ![t] = "assigning"]
  /\ conv' = [conv EXCEPT ![c] = [status |-> "active", agent |-> a]]
  /\ spoiled' = spoiled \cup Robbed(c)

\* mark_assigned and the last commit, without looking at the row again.
SettleTask(t) == ~Locked(t) /\ task' = [task EXCEPT ![t] = "assigned"]

GivePulled(j) ==
  /\ job[j].pc = "reserved"
  /\ GiveTask(job[j].task, job[j].agent)
  /\ Step(j, "given")
  /\ UNCHANGED <<online, count, entry, requests>>

\* What raises after the commit ends the filling.
CommitPull(j) ==
  /\ job[j].pc = "given"
  /\ SettleTask(job[j].task)
  /\ \/ Becomes(j, [job[j] EXCEPT !.pc = "pulling", !.task = NoTask, !.conv = NoConv,
                                  !.places = @ - 1])
     \/ StopFilling(j)
  /\ UNCHANGED <<conv, online, count, entry, requests, spoiled>>

\* Mutant: mark_assigning commits, before anything is given.
PullFailsAfterTask(j) ==
  /\ job[j].pc = "reserved"
  /\ task' = [task EXCEPT ![job[j].task] = "assigning"]
  /\ spoiled' = spoiled \cup {job[j].agent}
  /\ StopFilling(j)
  /\ UNCHANGED <<conv, online, count, entry, requests>>

\* A step raises.  Before the first commit the rows are rolled back and the
\* counter is not; after it the conversation is served and counted, and the task
\* is left as one that is being assigned.
PullFails(j) ==
  /\ job[j].pc \in {"reserved", "given"}
  /\ spoiled' = IF job[j].pc = "reserved" THEN spoiled \cup {job[j].agent} ELSE spoiled
  /\ StopFilling(j)
  /\ UNCHANGED <<conv, task, online, count, entry, requests>>

\* _void_task_if_visitor_offline: the no-show's task and conversation end
\* together, if this session has read the conversation as queued.
Void(t, seen) ==
  LET c == ConvOf[t] IN
  /\ task[t] = "queued" /\ ~Locked(t)
  /\ Waiting(c) \/ c \in seen
  /\ ~Held(c)
  /\ task' = [task EXCEPT ![t] = "canceled"]
  /\ Close(c)
  /\ spoiled' = spoiled \cup Robbed(c)

VoidPulled(j, t) ==
  /\ job[j].pc = "pulling" /\ job[j].places > 0
  /\ Void(t, job[j].seen)
  /\ UNCHANGED <<online, count, entry, job, requests>>

FillNext(j) ==
  \/ ReadPlaces(j) \/ ListQueued(j) \/ InsertListed(j) \/ StartPulling(j)
  \/ NothingToPull(j) \/ LockChosen(j) \/ ReserveAgent(j) \/ ReserveRefused(j)
  \/ GivePulled(j) \/ CommitPull(j) \/ PullFails(j)
  \/ \E c \in Convs : CheckListed(j, c)
  \/ \E t \in Tasks : LockTask(j, t) \/ VoidPulled(j, t)
  \/ \E t \in Tasks, a \in Agents : PullByHand(j, a, t) \/ ReadByHand(j, a, t)

-----------------------------------------------------------------------------
(* dispatch, cancel_task and timeout_task.                                  *)

LockNext(j, t) ==
  /\ task[t] = "queued" /\ ~Locked(t)
  /\ Begin(j, [Idle EXCEPT !.pc = "dispatching", !.task = t])
  /\ UNCHANGED <<conv, task, online, count, entry, spoiled>>

VoidNext(j, t) ==
  /\ job[j] = Idle /\ requests < MaxRequests
  /\ requests' = requests + 1
  /\ Void(t, {})
  /\ UNCHANGED <<online, count, entry, job>>

\* try_reserve with the limit, on the hash it watches.
ReserveCandidate(j, a) ==
  /\ job[j].pc = "dispatching" /\ HasPlace(a)
  /\ count' = [count EXCEPT ![a] = @ + 1]
  /\ Becomes(j, [job[j] EXCEPT !.pc = "dispatched", !.agent = a])
  /\ UNCHANGED <<conv, task, online, entry, requests, spoiled>>

\* Every candidate was refused, each at its own moment: the task is restored.
AllBusy(j) ==
  /\ job[j].pc = "dispatching"
  /\ End(j)
  /\ UNCHANGED <<conv, task, online, count, entry, requests, spoiled>>

GiveDispatched(j) ==
  /\ job[j].pc = "dispatched"
  /\ GiveTask(job[j].task, job[j].agent)
  /\ Step(j, "settling")
  /\ UNCHANGED <<online, count, entry, requests>>

\* What raises after the last commit is caught like what raises before it.
CommitDispatch(j) ==
  /\ job[j].pc = "settling"
  /\ SettleTask(job[j].task)
  /\ \/ End(j)
     \/ Becomes(j, [Idle EXCEPT !.pc = "undoing", !.agent = job[j].agent])
  /\ UNCHANGED <<conv, online, count, entry, requests, spoiled>>

\* A step raises: what is not committed is rolled back, and the agent is
\* released, the one who serves the conversation by now included.
DispatchFails(j) ==
  LET a == job[j].agent IN
  /\ job[j].pc \in {"dispatched", "settling", "undoing"}
  /\ count' = [count EXCEPT ![a] = @ - 1]
  /\ spoiled' = IF job[j].pc = "dispatched" THEN spoiled ELSE spoiled \cup {a}
  /\ Becomes(j, IF count[a] - 1 < 0 THEN [Idle EXCEPT !.pc = "releasing", !.agent = a] ELSE Idle)
  /\ UNCHANGED <<conv, task, online, entry, requests>>

\* Mutant: the row is read without its lock.
DropTaskUnlocked(t, status) ==
  /\ Open(t) /\ requests < MaxRequests
  /\ requests' = requests + 1
  /\ task' = [task EXCEPT ![t] = status]
  /\ UNCHANGED <<conv, online, count, entry, job, spoiled>>

\* cancel_task and timeout_task take the row lock; the conversation stays as it is.
DropTask(t, status) ==
  /\ Open(t) /\ ~Locked(t) /\ requests < MaxRequests
  /\ requests' = requests + 1
  /\ task' = [task EXCEPT ![t] = status]
  /\ UNCHANGED <<conv, online, count, entry, job, spoiled>>

DispatchNext(j) ==
  \/ AllBusy(j) \/ GiveDispatched(j) \/ CommitDispatch(j) \/ DispatchFails(j)
  \/ \E t \in Tasks : LockNext(j, t) \/ VoidNext(j, t)
  \/ \E a \in Agents : ReserveCandidate(j, a)

-----------------------------------------------------------------------------

Next ==
  \/ \E c \in Convs : EntryNext(c)
  \/ \E j \in Jobs : CloserNext(j) \/ FillNext(j) \/ DispatchNext(j)
  \/ \E j \in Jobs, a \in Agents : ReadLoad(j, a)
  \/ \E j \in Jobs, status \in BOOLEAN : SetStatus(j, status)
  \/ \E a \in Agents : GoOffline(a)
  \/ \E t \in Tasks, status \in {"canceled", "timeout"} : DropTask(t, status)

Spec == Init /\ [][Next]_vars

-----------------------------------------------------------------------------
(* Safety.                                                                 *)

\* The counters agree with the conversations, up to what the requests under
\* way have yet to add or take off, in every state; what spoils a counter is
\* only what the actions above name.
LedgerAgrees == \A a \in Agents \ spoiled : count[a] = Ledger(a)

\* The queue does not forget a visitor: who waits, and whose request is over,
\* has a task in the queue, unless it was cancelled or timed out.
WaitingHasTask ==
  \A c \in Convs :
    Waiting(c) /\ entry[c].pc = "done" =>
      \E t \in Tasks : ConvOf[t] = c /\ task[t] \in {"queued", "canceled", "timeout"}

\* Who may overwrite a task that is settled (given, cancelled or timed out): an
\* assignment between its two commits, when the row is not locked, and a page that
\* assigns by hand what it has read before.  The dispatcher, the fillings, a second
\* cancellation and a visitor who leaves never do, however their transactions overlap.
Settled == {"assigned", "canceled", "timeout"}
Overwrites(j, t) ==
  job[j].task = t /\ (job[j].pc \in {"given", "settling"} \/ ByHand(job[j]))
SettledTaskStays ==
  [][\A t \in Tasks :
       task[t] \in Settled /\ task'[t] # task[t] => \E j \in Jobs : Overwrites(j, t)]_vars

\* A conversation is given away by the queue once.
GivenOnce ==
  \A t, u \in Tasks :
    task[t] = "assigned" /\ task[u] = "assigned" /\ ConvOf[t] = ConvOf[u] => t = u
=============================================================================
