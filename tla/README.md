# OpenDesk verification development

This directory holds TLA+ models of the parts of OpenDesk whose correctness depends on the
order in which requests, callbacks, sweeps, processes and timers interleave, on the server and
in the browsers of agents and visitors; the TLC configurations that check them on small
instances; and theorems about them that TLAPS proves for every number of agents, calls, offers,
dials, targets, conversations, tasks and workers.

Source paths are relative to `src/server/app/` unless they begin with `src/`.

## 1. The system

OpenDesk is a customer-service platform: FastAPI and Socket.IO processes over PostgreSQL and
Redis, a React front end, an external media kernel (FlowKit / RWI) that owns the SIP and WebRTC
legs of calls, and an object store. Several processes serve the same tenants; nothing but the
database, Redis and the kernel is shared. Most of its code is forms over tables. What is hard is
a handful of schedulers that give a scarce thing (an agent, a line, a slot) to waiting work, and
two pages, the agent's desk and the visitor's chat, that must agree with a server they hear from
over channels that lose and reorder.

| part | state | operations | talks to | what is hard | must hold |
| --- | --- | --- | --- | --- | --- |
| call-centre agent resource (`services/cc_agent_resource_service.py`) | a Redis hash per agent: visible status, resource state, call, offer, lease, wrap-up | reserve, bind, mark ringing / in call / after-call work, release, renew, set status; each one WATCH/MULTI transaction | every telephony handler | the handlers act on what they read transactions ago | an occupied agent belongs to a call that will let go of it |
| inbound offers (`services/call_center/nodes.py`, `orchestration/events.py`, `orchestration/offers.py`, `queue.py`, `routers/v1/call_center.py`) | a workflow coroutine per call, a future per offer | reserve, push, wait, bridge; accept, reject, hang up, poll | agent resource, kernel, browser, other nodes over Redis | a decision races the time-out, the lease, the hangup and other tabs; its acknowledgement can be lost | one decision per offer; nobody rings or talks without a workflow behind it; every caller is served or let go |
| outbound dials and healing (`services/call_center/outbound_dial_service.py`, `orchestration/outbound.py`, `orchestration/events.py`, `services/cc_agent_status_service.py`, `services/call_wrapup*_service.py`) | dial requests, call records, the kernel's events | originate, bind, write the record in the background, answer, hang up, reconcile, poll, sweep, reset | agent resource, kernel, database | events overtake the record or are lost; healers act on old reads | records close, reservations are answered, ghosts are healed |
| export tasks (`services/export_task_*.py`, `repositories/export_task_repository.py`) | rows of `export_tasks`, objects in the bucket | submit, claim, execute, cancel, time out, expire, clean up, download | database locks, object store | several processes claim and clean up, an upload thread cannot be stopped, any of them dies | one task per key, one running per owner, results have files, files have keys |
| agent's desk (`src/web/lib/call-session-reducer.ts`, `src/web/context/call-center-runtime.tsx`, `src/web/app/components/features/call-center/use-webrtc-leg.ts`) | a session (phase, call, offer, ended calls), a WebRTC leg, status snapshots | reduce an event, poll, accept, reject, dial, hang up, rebuild the media, leave a call or a wrap-up | server by requests, pushes and polls; microphone | pushes are lost, snapshots are old, three flows set up one leg, the page is reloaded | a live call is not dropped, an ended one does not return, the microphone goes off, the desk comes to agree |
| visitor chat page (`src/web/app/chat/[channelId]/page.tsx`, `src/web/context/visitor-chat-store.ts`, `src/web/lib/visitor-session-recovery.ts`, `src/web/lib/visitor-session-credential.ts`, `socketio/visitor_handlers.py`) | session token, socket and its identity, conversation, subscription, messages shown | mint, remint, connect, start, join, send, merge a push, an acknowledgement, a history | server by HTTP and socket, embedding page | tokens expire, identities change, three channels bring the same message | every message is shown once; what was read stays read; socket and page speak for one visitor; remints are bounded |
| online-chat queue (`services/queue_service.py`, `repositories/queue_repository.py`, `services/queue_resource_provider.py`, `services/routing_service.py`) | queue tasks (rows), the agents' counters (Redis) | enqueue, dispatch, pull, accept, requeue, cancel | conversations, presence | row locks here, counters there, and a rollback between | a task is given once, counters agree with conversations |
| conversations, transfer, visitor time-out (`services/conversation_service.py`, `transfer_service.py`, `visitor_timeout_close_service.py`) | conversation rows | create, assign, transfer, end | queue, counters | several closers without a lock | a conversation ends once |
| agent presence (`services/agent_status_service.py`, `agent_realtime_service.py`) | status and counter in Redis | connect, disconnect, set status | queue | decrement and clamp are two commands | counters never drift |
| call control (`services/call_center/call_control/`, `internal_consult_service.py`) | legs of consults and conferences in Redis | consult, merge, transfer, end | kernel, agent resource | restarts, hangups of either party | every held party is returned or let go |
| automatic outbound (`services/auto_outbound/engine.py`, `frequency.py`, `repositories/auto_outbound_repository.py`, `services/auto_outbound_task_service.py`) | tasks, targets and call records (rows); a counter of concurrent calls and the calls' sessions (Redis, with TTLs) | scan, claim, acquire, originate, reconcile, bind a session, answer, hang up, sweep; start, pause, append, delete | kernel, outbound dial | every process scans and hears every event; a reply may be lost while the call is made; counter and sessions are outside the transactions | the limit holds, a target is called once at a time and not after it has answered, no target stays in calling |
| event delivery (`services/event_delivery_service.py`) | delivery rows | claim, send, retry, sweep | web hooks | a stale claim may still be running | at least once, in the end |
| SIP occupancy (`services/sip_extension_occupancy_service.py`) | presence, owner rows | register, claim, release | kernel | a check before a lock | one owner per extension |
| call finalisation retry (`services/call_finalization_retry_service.py`) | call records | retry | call records | repeats what may be done | idempotent |

Database forms and queries without a scheduler of their own (tickets, knowledge, dashboards,
learning, quality, scheduling tables, surveys, SMS, tenants), the realtime transport, database
retry and the rest of the front end are listed in `PROJECT.json` with the reason they are left out.

How the parts meet: everything telephonic meets in the agent's hash, everything in chat in the
queue task and the agent's counter. The kernel speaks by events, handled in tasks of their own and
lost while its socket is down. The browser speaks by HTTP requests, any of which may land on any
process.

## 2. Modules

| module | role |
| --- | --- |
| `AgentResource` | the hash as a record and every transaction on it as an operator from hash to hash |
| `InboundOffer` | the assign-queue node, the requests of the browser's tabs, the hangup handler, lease and poll |
| `OutboundDial` | one agent's dials, their events, and all that heals the hash |
| `ExportTasks` | submissions, claims, executions, clean-up and links over rows and bucket |
| `ExportPromise` | what the export service promises an employee; `ExportTasks` implements it |
| `CallSession` | the desk's reducer: a session record and one operator per event |
| `AgentDesk` | the desk with its media, requests, socket and polls, against the server as it shows itself |
| `ChatQueue` | conversations, queue tasks and the agents' counters, and all the requests that move them |
| `VisitorMessages` | the chat page's list of messages: what a push, an acknowledgement and a history do to it |
| `VisitorChat` | the chat page's session, socket, conversation and subscription, and its server |
| `AutoOutbound` | one outbound task: scans, attempts, the kernel's events and their handlers, counter, sessions, sweep, operators |
| `MC...` | constants and symmetry for TLC |
| `...Proofs` | the theorems |

`InboundOffer` and `OutboundDial` extend `AgentResource`; they share its operators and, through
`AgentResourceProofs`, the lemmas about them; `CallSession` and with it `AgentDesk` take the hash's
statuses from there, too. `ExportTasks` instantiates `ExportPromise` under a refinement mapping.
`AgentDesk` extends `CallSession`, `VisitorChat` extends `VisitorMessages`.

### AgentResource

One operator per transaction (`ReserveInbound`, `BindOutbound`, `MarkInCall`, `Release`, ...), and
one `Can...` predicate per `ConflictError` or early return. The clock is reduced to what
`_is_expired` and `list_expired_wrapups` compare: a deadline is absent, ahead or behind.
`WellFormed` says that a hash reads consistently. Not modelled: `rekey_current_call`, and the
absent hash with its recovery from database and kernel (planned as AgentRecovery).

### InboundOffer

Each action is what one coroutine does between two awaits.

| variable | code |
| --- | --- |
| `res` | the Redis hashes |
| `wf` | the coroutine of `assign_queue` in `nodes.py`, with `sys._pending_offer_id` and `sys._bridged_agent_id` |
| `offered`, `future` | `_pending_offers` of `offers.py` and the decision set in the future |
| `http` | the accept and reject routes of `routers/v1/call_center.py` |
| `hang` | `_on_hangup` of `events.py`, with what it captured before its first await |
| `call` | the kernel, external |
| `poll` | the status poll of `cc_agent_status_service.py` |

Left to chance: which agent the strategy picks, whether a push or a bridge succeeds and whether an
acknowledgement arrives. `Asks` says which tab may answer which offer. The reject route goes on if the last release
was for a rejection, its own or another tab's (`AnotherRejected`). Not modelled: SIP-device offers, other node
types, queue order, and `_settle_orphaned_serving_agent` (`events.py:1017-1037`), by which a hangup settles an agent whose
workflow is gone: in the modelled flow a bridged workflow lives until its hangup, and only the reception of automatic
outbound or a restarted process leaves such an agent.

### OutboundDial

| variable | code |
| --- | --- |
| `dial` | the dial request: reserve, originate, register, bind, background record |
| `kernel` | the kernel's calls, external |
| `cdr`, `endMark` | the call record and `_outbound_ended` |
| `answer`, `hangup` | the outbound branches of `_on_answered` and `_on_hangup` |
| `link` | the socket of the FlowKit client; events are lost while it is down |
| `poll`, `reconcile`, `sweep`, `reset` | the status poll with its ghost check, the reconcile after a reconnect, the wrap-up sweep, the manual reset |

Not modelled: the two-stage dial over a SIP phone, hosts of a consult
(`cc_agent_status_service.py:187-194`), the healing of a stale offline presence (`:212` on), media
bridging, and the recovery of a hash that has vanished. The agent's own hangup is modelled as the end of the call it asks the
kernel for; what it writes itself when the call is gone already (`hangup_agent_current_call`,
`finalize_agent_call`, `orchestration/events.py:1221-1422`) is not: that path begins a wrap-up without asking whether the call was
answered, and so `WrapUpFollowsCall` is a statement about the kernel's events and the healers. Nor is the cancel of a dial
(`cancel_outbound`, `routers/v1/call_center.py:1557-1601`), which releases by the call's id.

### ExportTasks and ExportPromise

| variable | code |
| --- | --- |
| `req`, `began` | `ExportTaskService.create`: before, under and after `lock_owner`; the order of `created_at` |
| `row` | the columns of `export_tasks` that decide anything; ages are classes that the code's time-outs compare (30 and 31 minutes, 24 hours, 90 days) |
| `claim` | a `claim_next` transaction between its select for update and its commit |
| `work`, `upload` | the execution, and the thread in which `put_object` runs, which nobody can stop |
| `file` | the bucket |
| `clean` | a clean-up between listing, deleting the object and `cleaned` |
| `link` | a download between authorisation, signature and the end of the link: good for two minutes ("outliving") or until `expires_at`, if that comes first ("live") |

Any process may die: a claim is aborted, an execution stops without a word, a clean-up is
abandoned; what it has committed stays. Left to chance: the owner whose task is next, and the
outcome of permission and content checks. `ClaimsNeverConflict` and `SubmissionsNeverConflict` are one property for each of the two
unique indexes. A download that finds a completed task without a key makes it failed
(`export_task_worker.py:202-204`); `ResultHasFile` says that there is no such task, so the transition is left out. Not modelled: the order among tenants, the two slots per
process, and the marks of what the owner has seen. `SlowUploads` says whether an upload may still
be under way a minute after its execution is over.

`ExportPromise` has two variables, the stage of each task and the shelf of files that can be
fetched, and six actions. The refinement maps status and expiry to the stage, as
`effective_status` does, and file and stage to the shelf.

### CallSession and AgentDesk

`CallSession` is the reducer of `call-session-reducer.ts`: an operator per event type from session
to session, and the predicates by which the effects decide that a snapshot speaks for the call on
the desk. Times are the writes of the hash so far, which is what `resourceUpdatedAtMs` orders.

| variable | code |
| --- | --- |
| `s` | `CallSessionState` |
| `cache` | the last reply of the status query, whose effects may still be to come |
| `wrapLocal`, `ending`, `accepting`, `early` | `localWrapUpUntilMs`, `endingCallRef`, `acceptingOfferRef` and the outbound events that came before the reply to the dial |
| `leg`, `setup`, `rebuild` | `use-webrtc-leg.ts`, the flows that wait for it, and the rebuild of the media |
| `req` | the hangup, cancel, reject and ready requests under way |
| `push`, `conn`, `resync` | the `/chat` socket, its breaks, and the server's `connect` handler |
| `h`, `clock`, `life`, `rung`, `answered`, `deadline` | the hash and the call record as the browser sees them; the server's own interleavings are in `InboundOffer` and `OutboundDial` |

A connection may fail and a rebuild, too (`MediaFails`): the leg is then "failed", and no rebuild starts from
there. `lost`, a history field of the leg, tells this from an accept that has failed. The start of a call is what the
record list or the hash says (`StartOf`), which may be earlier than the answer.

Not modelled: the SIP phone, automatic answer, transfer, consult and conference, the server's
request to rebuild the media, a refused microphone, and clocks that disagree. `republish_agent_call_ui` also
heals or releases a hash that contradicts the call record or the kernel (`agent_push.py:96-217`, 304-365); here hash,
record and call change in one step and never contradict each other, and how they come to is the subject of `OutboundDial`.

### ChatQueue

Each action is what one request does up to its next commit or its next command to Redis.

| variable | code |
| --- | --- |
| `conv`, `task` | the rows of `conversations` (status, agent) and of `queue_tasks` (status) |
| `online`, `count` | status and `current_count` in the agent's Redis hash (`agent_status_service.py`) |
| `entry` | the visitor's request: `create_from_visitor`, its re-entry, and the request to leave the queue; `row` is the row lock it holds |
| `job` | the requests of staff and schedulers: end, time-out, transfer, status, filling, pull, dispatch; its `task` is the row it has selected for update |
| `requests` | how many of those, and of cancellations and time-outs, have been made, up to `MaxRequests` |
| `spoiled` | history: the agents whose counter has drifted by a named step; no action reads it |

`Locked` and `Held` are the row locks: a pull and a dispatch skip a locked task, a cancellation
and an assignment wait for it. A plain read sees what is committed and may be old when it is used; a
filling goes on believing what it has listed (`seen`), because its session keeps the objects. A
failure may strike between any two commands: the rows are rolled back, what is in Redis is not.

An assignment has two commits. `_assign_business_object` writes a system or welcome message, and the message
repository commits (`conversation_service.py:872`, 909; `message_repository.py:125-132`): the conversation is active, the task
"assigning", and the lock on its row gone (`given`, `settling`), before `mark_assigned` and the commit of the caller. In between
another request may settle the task, and is overwritten; and a failure rolls nothing back. The workspace's assignment by hand is older still: the
row it locks is the object it read before (`ReadByHand`, `LockChosen`), whatever has become of the task.

Left to chance: which task is next, which agent a strategy prefers, whether a group's limit
refuses a task. Not modelled: the order of the queue, several groups and channels, bots, two tabs of
one visitor, a change of `max_concurrent`.

### VisitorMessages and VisitorChat

A message on show is a record of id, conversation, sender and status; a bubble that has no id yet
has the negative number of its send. `NewMessage`, `ConfirmOptimistic`, `Reconcile` and `MarkRead` are
the store's reducers. Bubbles are told from one another as the page does it, by their text
(`TextOf`).

| variable | code |
| --- | --- |
| `stored`, `mints`, `budget` | the credential in the browser's storage, the session requests under way, `sessionRecoveryBudgetRef` |
| `page` | the page's refs and state: token, visitor, conversation, `authFailed`, `startedRef`, epoch of the connection |
| `sock`, `down`, `buffer` | the Socket.IO connection with the identity of its handshake, what is on its way, and what is emitted before it is connected |
| `sub`, `replaced` | the subscription effect and the count of conversations it has given up as not found |
| `fetches`, `list`, `sent` | history requests, the messages shown, the connection each send went out on |
| `issued`, `expired`, `convs`, `log`, `readBy` | the server: tokens, conversations, messages and receipts |

`reminted` and `mixed` are history variables; no action reads them. Not modelled: refusals of a start (offline,
queue full), the retry button, logout, a reload, bots, attachments, recalls, and the limit of 50 messages of a
history request. Of the mint, that a stored token with a minute to live is used again (`page.tsx:1218-1235`; here every start
mints, which makes more tokens, not fewer) and that one which fails with a stored credential is made once more without it
(1250-1262; one mint more for each, outside the budget, so `RemintsAreBounded` counts remints that are begun,
not requests). Of the join, `visitor_session_required` (2528-2541; one reconnect for each token), time-outs and
other errors with their retries (2543-2588).

### AutoOutbound

| variable | code |
| --- | --- |
| `task`, `target` | the status columns of the task and of its targets |
| `at` | each attempt: its coroutine (`_process_claimed_target` and what it calls), its call record, the kernel's call (external), the session in Redis and the handlers of its events |
| `token` | `target_session`, the reverse index by which the sweep finds a session |
| `count` | the task's counter in `frequency.py`; it lives two hours after it was last asked for |
| `scan`, `pausing` | `scan_once`: a batch under way, and its blind pause of a task in which nothing is open |
| `swept`, `spoiled` | history: targets the sweep has sent back, and whether the counter was dropped while it counted calls; no action reads them |

An attempt's `held` says that its place in the counter is still to be given back; it is the
control state of the code, not a variable of it. `Targets` are rows, not phone numbers: `create_target`
and `create_targets_bulk` (`auto_outbound_task_service.py:1478-1569`) do not look for the number, and an import skips only what is pending
(1637-1649). Two targets may have one number, and every property holds for each of them by itself. A request without an answer is uncertain because the
engine's own limit (`ORIGINATE_TIMEOUT_SECONDS`, 10 s) ends it before the client's (`TELEPHONY_RPC_TIMEOUT`, 30 s by default); set
below 10 s, `client.py:347-349` makes of it a `TelephonyRPCError`, which the engine takes for a certain failure, and
neither `CallsAreCounted` nor `OneCallAtATime` would hold. What several processes do with one event is
kept once: the database lets one of them end the record. Left to chance: whether an event is
heard, whether a quota refuses, whether a failure is the one that pauses the task, and when
operators act. Not modelled: agent mode with its queue and pacing, operators who set the status
of one target, the end date of the task, reception.

## 3. Checks

| run | instance | question |
| --- | --- | --- |
| `inbound_calls` | 2 calls, 1 agent, 2 offers | do late steps of one call touch what the agent does for the other? |
| `inbound_live` | 1 call, 1 agent, 2 offers, 2 tabs that both may answer the first, several nodes | does anybody ring without a workflow or talk without having won, is an offer won once when tabs compete and decisions get lost, is every offer taken back and every caller served? |
| `outbound_pair` | 2 dials, sessions come and go | are the calls of one agent, one after the other, kept apart? |
| `outbound_live` | 1 dial, broken link, sessions, manual reset, the agent's own choices | are records closed, reservations answered and ghosts healed? |
| `exports_live` | a submission and its retry (one key), 1 worker, limit 1 | do submissions conflict, do rows, bucket and links agree, is the promise kept, is one task made of the two, does it end, and does its file go, whatever dies? |
| `desk_live` | an inbound or an outbound call, 1 offer, one break of the socket, reload or failure of the media | does the desk drop a live call, revive an ended one, keep the microphone, or stay behind the server? |
| `queue_ledger` | 2 conversations, 2 agents with 1 place, 2 requests of staff or schedulers at a time | do counters and conversations agree but for the named drifts, is nobody who waits forgotten, and who overwrites a settled task? |
| `visitor_messages` | 2 visitors, 1 send, 1 agent's message, 1 fault | is every message shown, once, and what was read left read? |
| `visitor_session` | 3 visitors, 2 faults | are remints bounded, and does the socket follow the identity they bring? |
| `auto_live` | 1 target, 2 attempts, limit 1 | is every call counted and no target called twice or after it has answered, whatever dies or is not heard; does every target leave calling, and does a full counter empty? |
| `queue_twice`, `visitor_login` | the smallest that show it | disagreements of the code with its own comments (section 6) |

**Bounds.** Agents, calls, offers, dials, tasks and workers are finite sets, and every run explores
its whole state space. On the server nothing else is bounded; the two pages have bounds of their
own (below). Two of a kind suffice for what the
properties are about: two offers are a first attempt and its retry, two calls or dials are the
late handler and its victim, two submissions race for one owner's lock and for one
file. What several workers, agents or offers at once could add is covered by the proofs: the safety
properties of every module and their type invariants are proved for sets of any size, those of the telephony modules in part
under `HasWrapUp`. Runs state no deadlock check: a finite workload ends.

`InboundOffer`: in `inbound_live` both tabs may answer the first offer and nobody the second (`Asks`), so that tabs
compete, and a caller may also meet an agent who does not answer. In `inbound_calls` each offer has one tab.

`ExportTasks`: with one key and limit 1 there is at most one open task. Submissions race for its key; claims cannot race for an
owner here, and `ClaimsNeverConflict` is proved only.

`ChatQueue`: two conversations, one with two tasks, so that it can be enqueued twice; two agents with one
place each (`Limit`), so that a conversation can be transferred and both can be full; two requests
of staff or schedulers at a time (`Jobs`) and two in all (`MaxRequests`), besides the visitors'
own. Every race of the module is one of two requests. A wider instance with a third task
(1.7 million states) passes as well.

`AgentDesk`: `MaxCalls` calls reach the agent and `MaxFaults` times the socket breaks or the page is
reloaded. One call with everything that is late about it (old snapshots, replayed pushes, a rebuild,
a wrap-up) is what the liveness properties are about. What a second call adds is covered by the proofs,
which hold for any number of calls and offers; their invariant was also checked by TLC on instances with two
calls and with two offers, up to several million states each, which do not exhaust them.
`VisitorChat`: `MaxFaults` counts breaks, expiries, failed mints, lost credentials, decays and logins;
`MaxTokens`, `MaxConvs`, `MaxMessages` and `MaxFetches` bound what exists. No mint is ever held back by
`MaxTokens` in either run; no start by `MaxConvs` in `visitor_messages`, and in `visitor_session` a
third conversation is held back in a few states in a thousand. `MaxRecoveries` and `MaxReplaces` are
the code's own limits, made smaller. The safety properties are proved for every value of all of them, and
of `Sends`; their invariants were checked by TLC on both instances first.

`AutoOutbound`: two attempts are a call and its successor, which is what the races of a target are
about; one target is enough for them, since attempts of different targets share nothing but the
counter. `LimitHolds` needs two targets to say anything: with one, `OneCallAtATime` implies it. It
is proved, as is that no two dialers pass the limit together, and was checked by hand on two targets with two attempts (1.2 million states up to
symmetry) and on one with three.

**Symmetry** is used in safety runs only: agents, calls with their offers, dials with their ids,
workers, and tasks of one owner that have keys of their own are interchangeable.

**Fairness.** Each liveness run assumes only what the code schedules by itself.

* Inbound: coroutines and handlers that are ready run (the event loop), a lease is a deadline
  in time, the workspace polls. `StopHolding` is strongly fair: with the agent free again and
  again the retry loop of the node reserves in the end, or its waiting time is over. Requests
  of the browser and hangups of the caller are not fair: nobody has to answer.
* Outbound: the lease and the poll, nothing else. Requests may die, events may be lost and
  handlers may hang; `RingingEnds` and `GhostIsHealed` hold all the same.
* Exports: some process is up and scans again and again, transactions end, executions are watched
  every second, links end. Clean-up is strongly fair, step by step, because each attempt may be
  abandoned: the store and the process are assumed not to fail every time.
* Desk: the server serves, the socket reconnects, the page polls and runs its event handlers and
  effects, requests are answered. The agent's clicks, dials and reloads are not fair.
* Automatic outbound: coroutines, handlers and scans that have begun go on, the kernel decides on
  what it was asked and its calls end, the counter's TTL runs out. Nothing says that an event is
  heard, or that a process survives: sweep and session expiry are strongly fair, because handlers
  may come and die again and again in between, each of them for seconds against their hours.
* Visitor: the link comes back, mints end, handlers and effects run, history requests are answered.
  The visitor's sends and the agent's answers are not fair.

## 4. Proofs

TLAPS checks the following for every value of the constants that satisfies the named assumptions
(constants for "nothing" differ from real ones, `CallOf` and `ReservationOf` are functions,
reservation and call ids differ, `Limit` is a natural number, `MaxConcurrency` a positive one,
`Tasks` and `Attempts` are finite).

| theorem | module | statement |
| --- | --- | --- |
| `TypeCorrect`, `DeskTypeCorrect`, `ChatTypeCorrect` | `InboundOfferProofs`, `OutboundDialProofs`, `ExportTasksProofs`, `ChatQueueProofs`, `AutoOutboundProofs`, `AgentDeskProofs`, `VisitorChatProofs` | the type invariant of each specification |
| `HashesStayWellFormed`, `HashStaysWellFormed` | `InboundOfferProofs`, `OutboundDialProofs` | no interleaving of handlers leaves an inconsistent hash |
| `OfferIsWonOnce` | `InboundOfferProofs` | an offer is won by one request, whose leg is bridged |
| `TalkingAgentAccepted` | `InboundOfferProofs` | an agent whom the hash shows in a call has won an offer of it, and only `mark_ringing` makes a workflow let a won offer go |
| `RingingAgentHasWorkflow` | `InboundOfferProofs` | with `HasWrapUp`, an agent held for an offer has its workflow behind it |
| `OffersEndByTheirOwn` | `InboundOfferProofs` | an offer that has not run out is taken from its agent only by what belongs to it |
| `SettlingTouchesOwnCall` | `InboundOfferProofs` | with `HasWrapUp`, a late hangup or aborted bridge leaves an agent's next call alone |
| `NoRecordOutlivesItsCall`, `ReservationsAreAnswered` | `OutboundDialProofs` | call records close; reservations have their request |
| `WrapUpsFollowCalls` | `OutboundDialProofs` | after-call work is for a call that was answered and is over |
| `LateHangupsAreHarmless` | `OutboundDialProofs` | with `HasWrapUp`, the hangup of one call leaves the hash alone while it holds another |
| `NoSubmissionConflicts`, `NoClaimConflicts`, `LimitHolds` | `ExportTasksProofs` | the owner's lock keeps submissions off the unique index on keys, the advisory lock keeps claims off that on running tasks, and no submission passes the limit |
| `ResultsAreThere`, `LinksWork`, `NoOrphans` | `ExportTasksProofs` | results, links of either kind and keys agree with the bucket; the last if uploads end in time |
| `PromiseKept` | `ExportTasksProofs` | `ExportTasks` implements `ExportPromise` |
| `SettledStays` | `ChatQueueProofs` | a queue task that is assigned, cancelled or timed out is overwritten only by an assignment between its two commits, or by a page that assigns what it read before |
| `WaitersHaveTasks` | `ChatQueueProofs` | a conversation that waits has a task, or a request under way that sees to it |
| `CountersAgree` | `ChatQueueProofs` | an agent's counter is the number of his conversations and of requests between the two, unless a named step has spoiled it |
| `CountedForAll`, `LimitForAll` | `AutoOutboundProofs` | every call that is up has its place in the counter, and no more are up than `max_concurrency`, unless the counter was dropped under them |
| `OneCallForAll` | `AutoOutboundProofs` | a target is not called while a call to it is under way or may be |
| `AnsweredForAll` | `AutoOutboundProofs` | a target whose answer was recorded is not called again, unless the sweep has sent it back |
| `LiveCallsAreKept` | `AgentDeskProofs` | no snapshot, however old, ends a call on the desk that the agent dials or is connected in |
| `EndedCallsStayEnded` | `AgentDeskProofs` | a call the desk has ended does not come back on it |
| `MicrophoneIsReleased` | `AgentDeskProofs` | but for dials, the leg is up only for the desk's call or an accept under way, or a reply has orphaned it |
| `RemintsStayBounded` | `VisitorChatProofs` | the remints of one identity stay within `MAX_SESSION_RECOVERIES` until the budget decays |
| `MessagesAreShownOnce` | `VisitorChatProofs` | a message is listed once, and next to its bubble only while its acknowledgement is on its way or lost |
| `ReadStaysRead` | `VisitorChatProofs` | a message shown as read is not shown unread again |

**The hash.** `AgentResourceProofs` has one lemma per transaction: from a hash of the right form
it makes one of the right form. Type and form are one invariant, because an operation copies
fields (the previous visible status, the call) whose type follows from the form only.

**Inbound.** `OneTabWins` is not inductive: a request that has been told "resolved" says nothing
about a future that is still pending. The invariant adds that a future names only a tab whose
request is past its validation, so that a second one finds it taken.

`TalkingWasAccepted` and `HeldOfferIsLive` are each put beside that invariant, and the pair is
inductive. Both rest on one observation about the hash: only the reservation (`PickAgent`) and the accept
(`EnterCall`) offer a call to an agent or put him in one; every other write only loosens the hash
(`Loosens`). What is left is the other direction, that the workflow or the acceptance an agent
relies on does not go away first: a future once won stays won (`WonIsKept`), and a workflow leaves
its offer only through a release. The second half of `TalkingWasAccepted` rests on the future as well: time-out,
refusal and withdrawal all pop it, and once it names a tab they find it decided. That the workflow
then bridges the agent is not proved, and not so: see `TalkingIsBridged` in section 6. `RingingAgentHasWorkflow` needs `HasWrapUp`: with a
wrap-up of zero seconds an aborted bridge settles nothing (section 6), and an agent
rings for a workflow that has gone on.

The two action properties need to know what the actors hold who write late. `OwnInv` says
it: a poll that is about to write has read a hash that had run out, and an offer is
made once (`Spent`), so that what it finds again in the hash is what it has read. `SettlingTouchesOwnCall`
needs `HasWrapUp` for the reason above.

**Outbound.** A record can be left active only if the background write misses the mark that the
hangup leaves. The invariant relates the state of the write, the mark and the handler's step.
That a reservation is answered follows from ids: only the dial itself writes its reservation.
A wrap-up is written by the hangup and nobody else, from what the answer handler has left in the
record; `WrapUpsFollowCalls` therefore adds that a record is stamped as answered only by an answer.
`LateHangupsAreHarmless` follows from the guards of release and wrap-up on the call the hash names,
and from the form of the hash: an agent who is occupied is so by the call it names.

**Exports.** Three layers, each inductive on top of the one before.

1. `RowInv`: which rows exist, a claim holds a pending task of an idle owner, a clean-up holds a
   task that is over. Its centre is `NextRows`: a step changes one row, and `RowEffect` lists
   how. A clean-up works on a list that may be old; that this does no harm rests on `Over`
   being stable.
2. `LockInv`: one submission per owner is under the lock, and what it has counted (no such key,
   fewer than `Limit` open) stays true until it inserts, since only inserts add to either set.
3. `FileInv`: what is executing was started within the time the code allows; therefore a
   clean-up that finds the time past will not be overtaken by an upload, unless the upload
   outlasts its execution (`SlowUploads`).

The refinement is a consequence: `ResultHasFile` makes the shelf a function of the stages, and the
three ways in which a row changes (insert, claim, move) map to `Accept`, `Start` and one of `End`,
`Deliver`, `Lapse`, `Forget`, or a stutter. `Accept` needs the count of `LockInv`.

**Chat queue.** The invariant has six parts: the types; what a conversation's status says of its agent
(`ConvInv`); where a visitor's request stands (`EntryInv`); that a task belongs to a
conversation that exists (`TaskInv`); what each request of staff holds at each of its steps (`JobInv`);
and that two requests never hold the same row (`LockInv`). Who writes a task either holds its row and has read it under the
lock (pull, dispatch, cancellation, time-out, the visitor who leaves), and then it was open; or is past the first commit of an
assignment; or has read it by hand. `SettledStays` is that division. A task that is "assigning" belongs to a
conversation that waits no more (`TaskInv`), so nobody who waits loses his task to the second commit. The counters are a ledger: `Ledger` is a
sum over conversations and over the requests that have written one side and not yet the other,
and each step moves one summand. Sums over finite sets are taken apart by one lemma about
`Cardinality`; hence `FiniteAssumption`.

**Automatic outbound.** None of the four properties is inductive, because each is about calls and
records, and who may call next is decided by target, session and counter. The invariant has five
parts besides the types:

* `AllSound`: how the stages of one attempt belong together. An open record at work on has its
  session; a call that is or may be up has its place and its session; who has ended the
  record of a call still has the place to give back.
* `Ledger`: the counter covers the attempts that hold a place or are about to step back, and the
  places given are within the limit. Both are needed: `acquire_concurrency` adds first and looks
  then, so the counter may be above the limit while the places are not.
* `Sole`: one attempt at a time may still write to a target (`Speaks`). The engine claims only
  what is quiet, and the sweep only what has no session.
* `Known`: the reverse index names that attempt, and the target stays claimed while it speaks. This
  is what keeps the sweep from a target whose call is up, and therefore needs the session to
  outlive the call.
* `Settled`: for a target the sweep has not touched, who speaks last has the only open record, and an
  answered record that has ended has completed its target.

The proof follows the code's own division: `DialLocal` and `HeardLocal` say of each step of a coroutine or a
handler what it does to its attempt and the counter, `AttemptWrites` what it writes to target and
index, and `TargetStep`, `IndexStep` and `LedgerStep` conclude once for all of them.

**Agent's desk.** `IInv` has eight parts besides the types. Four are about the server and the wire: the hash names calls
as they are (`HashInv`), a live call has the hash (`LifeInv`), a snapshot is no newer than the hash and
shows an answered call if taken since (`CacheInv`), an event on the socket speaks of what has
happened (`WireInv`). Four are about the desk: offers come from the server (`OfferInv`); a call the desk
has ended is on it only as a wrap-up, with no accept on the leg (`SessionInv`); the leg goes with the
phase (`LegInv`); and `DatedInv`, the heart of it: a snapshot dated after the desk's call shows that call while it is
live, while an accept of it may still succeed, and while its offer rings. Its second and third clause are what an
answer to come needs: without them the invariant is not preserved by the server's side of an accept.
The times the desk takes from its own clock lie after every snapshot (`NowIsLater`), and those it takes from the
server are times since which every snapshot shows the call, or the earlier time of a record. That one is taken up only from a snapshot that shows the call,
and every later one does while the call is live; a call on the desk never gets an earlier time (`callStart` may, but a snapshot is measured
against the later of the two).
The reducer enters through one lemma per event, which says what it keeps, clears or takes up.

**Visitor chat.** Three invariants, each inductive beside the types.

* The types say more than the shape of records: whatever names a token, a conversation or a message
  names one that exists, also in an answer on the wire, a history request that waits for a
  remint, or the key of a subscription. What the server issues, opens and stores stays
  (`Grows`), and so does every name.
* `BudgetInv`: until the first login, what was begun was spent. The budget names the token of the
  page from the first remint on, since every later token is followed; before that nothing has been
  begun. The delicate case is the reply to the first request, which changes the token without the
  budget: it is answered once, and until then the page has nothing (`Quiet`) that could ask for a remint.
* `MessagesInv`: the list has one entry for each id; a history request holds one for each message, of its own
  conversation; a stored send went out on a connection that has been (`SendInv`); and while
  that connection lives, the acknowledgement of a stored send is on the wire for as long as its
  bubble is on show (`AckInv`). A reconnect needs the bound of `SendInv`: what is still in the
  buffer belongs to the next connection, and is not stored. Each reducer of the list has one
  lemma: it makes no second entry, brings no bubble back and takes no receipt away.
  `Reconcile` keeps receipts only because a history is of one conversation: an entry of another one
  is dropped with its receipt.

`ShownOnce` and `ReadIsNotUndone` are proved for any `TextOf`, so also where several sends say the
same and a push takes away the bubble of another.

**Only model-checked.** Liveness under fairness, which the prover does not support: `OfferIsTakenBack`,
`CallerIsServed`, `RingingEnds` and `GhostIsHealed` of telephony, `TasksEnd` and `FilesGo` of the exports,
`AnsweredCallIsServed` and `DeskCatchesUp` of the desk, `CallingEnds` and
`CapacityReturns` of automatic outbound, `NothingMissed` and `SocketFollowsIdentity` of the chat page. ENABLED
(it occurs in the guard `Rendered` of the chat page, which its proofs leave unexpanded) and what
recursive definitions compute are out of the prover's reach, too; no module here is recursive.

## 5. What is abstracted

* Time is the order of deadlines; nothing is said of seconds.
* A Redis or database transaction is atomic and, once committed, durable.
* Authentication, tenants, wording, payloads and logging are left out.
* The kernel and the object store are modelled from how the code uses them: the kernel answers a
  call only after it has returned its id and rejects a bridge to a leg that is gone; the store may
  store an object and report an error.

## 6. Disagreements of code and comments

Two are shown by a run that finds the property violated; `PROJECT.json` quotes the comment.

* `visitor_login`: a login in the embedding page mints a token for another visitor while the socket,
  connected, stays bound to the one before. Conversations are then started for the old visitor
  and asked for as the new one.
* `queue_twice`: a filling lists the conversations that wait and enqueues each again; one that
  was assigned meanwhile still reads as waiting, and is given to a second agent.

The others were met while modelling. The property is stated in the module, and a cfg that names it finds
it violated; no run keeps it.

* `InboundOffer`, `TalkingIsBridged`: a browser that answers before `mark_ringing` makes the workflow
  take the time-out outlet although its accept was acknowledged (`services/call_center/nodes.py:757`).
* `InboundOffer`, `SettledAgentIsFree` with `HasWrapUp = FALSE`: with a wrap-up of zero seconds the hangup
  tries to set "ready" on an agent still in the call, gets a conflict that is only logged, and
  leaves the agent busy (`services/call_wrapup_service.py:188`).
* `SettlesOwnCallOnly` of `InboundOffer` and `HangupSettlesOwnCall` of `OutboundDial`, with `HasWrapUp = FALSE`:
  the same branch asks for "ready" without naming a call, and so a late hangup takes an expired hold for another
  call from the agent. The proofs asked for the assumption, and TLC shows the violation without it.
* `OutboundDial`, `WrapUpHasDeadline`: a release of an agent in after-call work leaves a wrap-up
  without a deadline, which the sweep never finds.
* `OutboundDial`, `HangupFreesDialer`: an answer handled before the record is written is forgotten,
  and the hangup leaves the agent in the call until the poll.
* `ExportTasks`, `NoOrphanFile` with `SlowUploads = TRUE`: an upload thread that is still running when
  the key is cleared leaves an object nobody will delete.
* `AgentDesk`, `RingingEnds`: when an offer times out on the server (`services/call_center/nodes.py`,
  811-825 and 880-895) nothing is pushed to a browser that answers over WebRTC, and no poll leaves the
  incoming phase. `nodes.py:1048` takes an offer back on a hangup "so it doesn't ring forever".
* `VisitorChat`, `NoSilentRestart`: `page.tsx:2350-2354` says that after the end of a conversation a
  reconnect must not start a new one. The guard looks at the page's own state; a conversation
  that ended while the socket was down is found only by the join, which then starts another.

Modelling `ChatQueue` brought out facts that its properties allow for by name, in `spoiled` or in a guard:

* two active tasks of one conversation make `get_active_task_by_ref` raise, so that every filling that lists the
  conversation fails from then on;
* a conversation refused by `QUEUE_LIMIT` at its creation stays "queued" without a task until somebody lists it;
* decrement and clamp are two commands, and a place counted late for a receiver is lost in between;
* a pull that fails after it has taken a place does not give it back (`queue_service.py:500`), and a dispatch that
  fails after its commit gives back a place that is taken;
* a conversation that is enqueued while a place is being freed waits for the next place;
* two fillings that read the free places together can overfill an agent;
* a task that is cancelled or timed out between the two commits of its assignment (`queue_service.py:355`, 381) is
  overwritten as assigned, and the canceller has been told otherwise;
* an assignment by hand that fails restores the task to the queue, or one that succeeds marks it assigned, though it was
  settled after the page had read it;
* an assignment that fails or whose process dies after the first commit leaves its task "assigning" for good.

`AutoOutbound` has facts of the same kind. They are in its actions, and its properties are stated so that they hold beside them:

* a target appended between the count of what is open and the pause that follows is left in a paused task; an
  operator who resumes decides on the task as first read and may resume for nothing;
* a `FOR UPDATE` read through a session that has the task keeps the old status: a request can make an archived task
  active again;
* the sweep redials a customer who has answered if the hangup was never heard (`swept`), and does not give
  the place back: single places stay lost until the counter, full and then left alone, expires after two hours;
* an exception of the engine's own counts as an uncertain reply and keeps target and place for as long;
* the automatic pause drops the counter under calls that are up (`spoiled`), and after a resumption the limit can be passed;
* a target deleted while it is claimed is dialled no further only if the record is not written yet.

Two more limits of automatic outbound are named in section 2: what holds of a target is not said of a phone number,
which two targets may share, and a lost reply is uncertain only while `TELEPHONY_RPC_TIMEOUT` is above the engine's own limit.

Four limits of the desk are conditions of its properties, not disagreements. `DeskCatchesUp` is conditional on
`SnapshotAfterStart`: the reply to an accept may come after the end of the call and the sweep,
and then no snapshot is newer than the call's start on this desk. `AnsweredCallIsServed` allows for a call without
sound where a connection or a rebuild has failed (`use-webrtc-leg.ts:158-167`, 498-503): no rebuild starts from a failed leg, and
only the agent, who is told, leads out of it. `MicIsReleased` leaves out dials: the late
reply to a dial may start media for a call that is already over. It also leaves out a leg that a reply has
orphaned, which takes two calls: the answer to a rejection of one offer clears the session whatever it is by then
(`src/web/context/call-center-runtime.tsx:1599`), also that of the next call, already answered, and the leg of
that call stays up. `LiveCallIsKept` speaks of calls that the agent dials or is connected in, not of
calls that are merely offered: an `incoming` push that comes late relabels the session while an accept is under way, and
a snapshot may then end on the desk a call that nobody has answered yet.

## 7. Plan

1. AgentRecovery: the absent hash, `recover_from_sources` against concurrent reservations,
   `rekey_current_call`.
2. CallControl: the legs of a consult across hangups and restarts.
3. EventDelivery and SipOccupancy, two small models of claims that go stale.
4. The agent mode of automatic outbound: pacing and the hand-over to a queue.
5. In the browser: the agent's chat workspace (`src/web/app/workspace/chat/page.tsx`) against the same
   server as `VisitorChat`; the desk's transfer, consult and SIP phone.
