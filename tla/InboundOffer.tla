---------------------------- MODULE InboundOffer ----------------------------
(***************************************************************************)
(* How a queued inbound call reaches an agent's browser.  For each call a   *)
(* workflow coroutine runs the assign_queue node: it reserves an agent in   *)
(* Redis, registers a future for the decision, pushes the offer, marks the  *)
(* agent ringing, waits, and bridges.  The decision comes from HTTP         *)
(* requests of the agent's tabs; the caller may hang up at any point; the   *)
(* offer's lease may run out; the status poll releases what has run out.    *)
(* Each action is what one of these does between two awaits.                *)
(*                                                                         *)
(* External: the media kernel (call) only lets a call end and rejects a     *)
(* bridge to a call or a leg that is gone.                                  *)
(***************************************************************************)
EXTENDS AgentResource, FiniteSets

CONSTANTS
  Agents,
  NoAgent,
  Tabs,          \* browser tabs of an agent
  CallOf,        \* the call an offer is made for
  Asks,          \* bound: which tab answers which offer, each at most once
  HasWrapUp,     \* call_wrapup_seconds > 0
  ManyNodes      \* the HTTP request may land on another node than the call's

ASSUME CallOfAssumption == CallOf \in [Offers -> Calls]
ASSUME NoAgentAssumption == NoAgent \notin Agents
ASSUME AsksAssumption == Asks \in [Offers -> SUBSET Tabs]
ASSUME TabsAssumption == Tabs \cap {"none", "issued", "pending", "refused", "gone"} = {}
ASSUME SwitchAssumption == HasWrapUp \in BOOLEAN /\ ManyNodes \in BOOLEAN

VARIABLES
  res,      \* the agents' Redis hashes
  call,     \* kernel: "up" or "gone"
  wf,       \* the workflow coroutine of each call
  offered,  \* the agent an offer was pushed to
  future,   \* _pending_offers and the decision in it
  http,     \* accept / reject requests
  hang,     \* the call.hangup handler of each call
  poll      \* the status poll of each agent: the expired hash it read

vars == <<res, call, wf, offered, future, http, hang, poll>>

FlowStates == {"queue", "picking", "holding", "picked", "pushed", "ringing",
               "waiting", "failing", "accepted", "bridging", "bridged",
               "aborting", "over"}
\* An accepting decision names the tab whose WebRTC leg is to be bridged.
FutureStates == {"none", "issued", "pending", "refused", "gone"} \cup Tabs
HttpStates == {"idle", "accepting", "failed", "resolved", "unresolved",
               "abandoned", "rejecting", "rejected", "busied", "won", "done"}
HangStates == {"none", "captured", "withdrawing", "settling", "done"}

Flow == [ pc      : FlowStates,
          offer   : Offers \cup {NoOffer},
          agent   : Agents \cup {NoAgent},
          pending : BOOLEAN,    \* sys._pending_offer_id is set
          bridged : BOOLEAN,    \* sys._bridged_agent_id is set
          ended   : BOOLEAN ]   \* done is set: the node loop stops

\* What _on_hangup read from the workflow before its first await.
Hangup == [ pc      : HangStates,
            agent   : Agents \cup {NoAgent},
            offer   : Offers \cup {NoOffer},
            bridged : BOOLEAN ]

NoHangup == [pc |-> "none", agent |-> NoAgent, offer |-> NoOffer, bridged |-> FALSE]
NoPoll == [offer |-> NoOffer, due |-> FALSE]

TypeOK ==
  /\ res \in [Agents -> Hash]
  /\ call \in [Calls -> {"up", "gone"}]
  /\ wf \in [Calls -> Flow]
  /\ offered \in [Offers -> Agents \cup {NoAgent}]
  /\ future \in [Offers -> FutureStates]
  /\ http \in [Offers -> [Tabs -> HttpStates]]
  /\ hang \in [Calls -> Hangup]
  /\ poll \in [Agents -> [offer : Offers \cup {NoOffer}, due : BOOLEAN]]

Init ==
  /\ res = [a \in Agents |-> Free("ready")]
  /\ call = [c \in Calls |-> "up"]
  /\ wf = [c \in Calls |-> [pc |-> "queue", offer |-> NoOffer, agent |-> NoAgent,
                            pending |-> FALSE, bridged |-> FALSE, ended |-> FALSE]]
  /\ offered = [o \in Offers |-> NoAgent]
  /\ future = [o \in Offers |-> "none"]
  /\ http = [o \in Offers |-> [t \in Tabs |-> "idle"]]
  /\ hang = [c \in Calls |-> NoHangup]
  /\ poll = [a \in Agents |-> NoPoll]

-----------------------------------------------------------------------------
(* Steps several handlers share.                                           *)

Goto(c, pc) == wf' = [wf EXCEPT ![c].pc = pc]

ReleaseOffer(a, o) ==
  res' = [res EXCEPT ![a] = Release(@, o, NoCall, FALSE)]

\* Mutant: the last decision wins.
ResolveAgain(o, decision) == future' = [future EXCEPT ![o] = decision]

\* resolve_offer: the first decision wins, later ones find no future.
Resolve(o, decision) ==
  future' = [future EXCEPT ![o] = IF @ = "pending" THEN decision ELSE @]

CancelOffer(o) == Resolve(o, "gone")

-----------------------------------------------------------------------------
(* The workflow of a call: AssignQueueExecutor.execute.                     *)

\* The node is entered with a new offer id, used for the whole execution.
EnterAssignQueue(c, o) ==
  /\ wf[c].pc = "queue" /\ ~wf[c].ended
  /\ CallOf[o] = c /\ future[o] = "none"
  /\ future' = [future EXCEPT ![o] = "issued"]
  /\ wf' = [wf EXCEPT ![c].pc = "picking", ![c].offer = o, ![c].agent = NoAgent]
  /\ UNCHANGED <<res, call, offered, http, hang, poll>>

\* pick_ready_agent_for_queue: some agent whose hash can be reserved.
PickAgent(c, a) ==
  /\ wf[c].pc = "picking"
  /\ CanReserve(res[a], "inbound")
  /\ res' = [res EXCEPT ![a] = Reserve(@, "inbound", c, wf[c].offer)]
  /\ wf' = [wf EXCEPT ![c].pc = "picked", ![c].agent = a]
  /\ UNCHANGED <<call, offered, future, http, hang, poll>>

NoAgentFound(c) ==
  /\ wf[c].pc = "picking"
  /\ Goto(c, "holding")
  /\ UNCHANGED <<res, call, offered, future, http, hang, poll>>

\* The hold loop tries again unless it sees that the caller is gone, and
\* leaves when the queue wait has run out.
HoldCaller(c) ==
  /\ wf[c].pc = "holding" /\ ~wf[c].ended
  /\ Goto(c, "picking")
  /\ UNCHANGED <<res, call, offered, future, http, hang, poll>>

StopHolding(c) ==
  /\ wf[c].pc = "holding"
  /\ Goto(c, IF wf[c].ended THEN "over" ELSE "queue")
  /\ UNCHANGED <<res, call, offered, future, http, hang, poll>>

\* register_offer, then the push is awaited; the browser may show it already.
PushOffer(c) ==
  /\ wf[c].pc = "picked"
  /\ future' = [future EXCEPT ![wf[c].offer] = "pending"]
  /\ offered' = [offered EXCEPT ![wf[c].offer] = wf[c].agent]
  /\ Goto(c, "pushed")
  /\ UNCHANGED <<res, call, http, hang, poll>>

\* The socket server cannot be reached, so no browser has seen the offer.
PushFails(c) ==
  /\ wf[c].pc = "picked"
  /\ future' = [future EXCEPT ![wf[c].offer] = "gone"]
  /\ Goto(c, "failing")
  /\ UNCHANGED <<res, call, offered, http, hang, poll>>

RingAgent(c) ==
  LET f == wf[c] IN
  /\ f.pc = "pushed"
  /\ IF CanMarkRinging(res[f.agent], c, f.offer)
       THEN /\ res' = [res EXCEPT ![f.agent] = MarkRinging(@)]
            /\ Goto(c, "ringing")
            /\ UNCHANGED future
       ELSE /\ CancelOffer(f.offer)
            /\ Goto(c, "failing")
            /\ UNCHANGED res
  /\ UNCHANGED <<call, offered, http, hang, poll>>

\* The transfer prompt is played between mark_ringing and this step, and only
\* now are the markers set that let the hangup handler withdraw the offer.
StartWaiting(c) ==
  /\ wf[c].pc = "ringing"
  /\ wf' = [wf EXCEPT ![c].pc = "waiting", ![c].pending = TRUE]
  /\ UNCHANGED <<res, call, offered, future, http, hang, poll>>

Decided(c) ==
  LET o == wf[c].offer IN
  /\ wf[c].pc = "waiting"
  /\ future[o] \in Tabs \cup {"refused"}
  /\ wf' = [wf EXCEPT ![c].pending = FALSE,
                      ![c].pc = IF future[o] = "refused" THEN "failing" ELSE "accepted"]
  /\ UNCHANGED <<res, call, offered, future, http, hang, poll>>

\* Mutant: the workflow waits on while another holder has its agent.
OfferTimesOutWhileHeld(c) ==
  /\ wf[c].pc = "waiting"
  /\ future[wf[c].offer] = "pending"
  /\ res[wf[c].agent].offer = wf[c].offer
  /\ CancelOffer(wf[c].offer)
  /\ wf' = [wf EXCEPT ![c].pc = "failing", ![c].pending = FALSE]
  /\ UNCHANGED <<res, call, offered, http, hang, poll>>

\* Mutant: the time-out does not ask whether the decision has come.
OfferTimesOutRegardless(c) ==
  /\ wf[c].pc = "waiting"
  /\ CancelOffer(wf[c].offer)
  /\ wf' = [wf EXCEPT ![c].pc = "failing", ![c].pending = FALSE]
  /\ UNCHANGED <<res, call, offered, http, hang, poll>>

OfferTimesOut(c) ==
  /\ wf[c].pc = "waiting"
  /\ future[wf[c].offer] = "pending"
  /\ CancelOffer(wf[c].offer)
  /\ wf' = [wf EXCEPT ![c].pc = "failing", ![c].pending = FALSE]
  /\ UNCHANGED <<res, call, offered, http, hang, poll>>

\* Mutant: the failure path takes the outlet without the release.
GiveUpWithoutRelease(c) ==
  /\ wf[c].pc = "failing"
  /\ wf' = [wf EXCEPT ![c].pc = IF wf[c].ended THEN "over" ELSE "queue",
                      ![c].offer = NoOffer, ![c].agent = NoAgent]
  /\ UNCHANGED <<res, call, offered, future, http, hang, poll>>

\* The release every failure path ends with before it takes the timeout outlet.
GiveUp(c) ==
  /\ wf[c].pc = "failing"
  /\ ReleaseOffer(wf[c].agent, wf[c].offer)
  /\ wf' = [wf EXCEPT ![c].pc = IF wf[c].ended THEN "over" ELSE "queue",
                      ![c].offer = NoOffer, ![c].agent = NoAgent]
  /\ UNCHANGED <<call, offered, future, http, hang, poll>>

\* No outlet is wired: the workflow ends and hangs the caller up.
EndWorkflow(c) ==
  /\ wf[c].pc = "queue"
  /\ Goto(c, "over")
  /\ call' = [call EXCEPT ![c] = "gone"]
  /\ UNCHANGED <<res, offered, future, http, hang, poll>>

\* The CDR and the presence rows are committed before the marker is set.
SetBridgedAgent(c) ==
  /\ wf[c].pc = "accepted"
  /\ wf' = [wf EXCEPT ![c].pc = "bridging", ![c].bridged = TRUE]
  /\ UNCHANGED <<res, call, offered, future, http, hang, poll>>

\* An accept request whose decision was not acknowledged hangs its leg up.
LegUp(o) == http[o][future[o]] # "abandoned"

Bridge(c) ==
  /\ wf[c].pc = "bridging"
  /\ Goto(c, IF call[c] = "up" /\ LegUp(wf[c].offer) THEN "bridged" ELSE "aborting")
  /\ UNCHANGED <<res, call, offered, future, http, hang, poll>>

\* _abort_bridge: settle the agent, then End("bridge_aborted") hangs up.
AbortBridge(c) ==
  /\ wf[c].pc = "aborting"
  /\ res' = [res EXCEPT ![wf[c].agent] = PostCall(@, c, HasWrapUp)]
  /\ Goto(c, "over")
  /\ call' = [call EXCEPT ![c] = "gone"]
  /\ UNCHANGED <<offered, future, http, hang, poll>>

-----------------------------------------------------------------------------
(* The caller or the agent hangs up: _on_hangup.                            *)

CallEnds(c) ==
  /\ call[c] = "up"
  /\ call' = [call EXCEPT ![c] = "gone"]
  /\ UNCHANGED <<res, wf, offered, future, http, hang, poll>>

\* bridged_agent_info and pending_offer_info are read, then on_call_hangup
\* ends the workflow object.
CaptureWorkflow(c) ==
  LET f == wf[c]
      withdraw == f.pending /\ ~f.bridged
  IN
  /\ call[c] = "gone" /\ hang[c].pc = "none"
  /\ hang' = [hang EXCEPT ![c] =
       [pc |-> IF withdraw THEN "captured" ELSE "settling",
        agent |-> f.agent,
        offer |-> IF withdraw THEN f.offer ELSE NoOffer,
        bridged |-> f.bridged]]
  /\ wf' = [wf EXCEPT ![c].ended = TRUE]
  /\ UNCHANGED <<res, call, offered, future, http, poll>>

WithdrawOffer(c) ==
  /\ hang[c].pc = "captured"
  /\ Resolve(hang[c].offer, "refused")
  /\ hang' = [hang EXCEPT ![c].pc = "withdrawing"]
  /\ UNCHANGED <<res, call, wf, offered, http, poll>>

ReleaseWithdrawn(c) ==
  /\ hang[c].pc = "withdrawing"
  /\ ReleaseOffer(hang[c].agent, hang[c].offer)
  /\ hang' = [hang EXCEPT ![c].pc = "settling"]
  /\ UNCHANGED <<call, wf, offered, future, http, poll>>

\* Of a call without a bridged agent the record may still name a serving one, who
\* is settled then; but here that name is written only after the marker is set and
\* the bridge has succeeded.  It takes a workflow that was dropped with the call up,
\* by the reception of an automatic call or by a restart.
SettleAgent(c) ==
  LET h == hang[c] IN
  /\ h.pc = "settling"
  /\ res' = IF h.bridged THEN [res EXCEPT ![h.agent] = PostCall(@, c, HasWrapUp)] ELSE res
  /\ hang' = [hang EXCEPT ![c] = [NoHangup EXCEPT !.pc = "done"]]
  /\ UNCHANGED <<call, wf, offered, future, http, poll>>

-----------------------------------------------------------------------------
(* The agent's requests: accept_offer and reject_offer.                     *)

Step(o, t, from, to) ==
  /\ http[o][t] = from
  /\ http' = [http EXCEPT ![o][t] = to]

ValidOffer(o) ==
  LET h == res[offered[o]] IN
  h.offer = o /\ h.state \in {"reserved", "ringing"} /\ ~Expired(h)

Validate(o, t, next) ==
  /\ t \in Asks[o]
  /\ offered[o] # NoAgent
  /\ ValidOffer(o)
  /\ Step(o, t, "idle", next)
  /\ UNCHANGED <<res, call, wf, offered, future, hang, poll>>

\* The accept lock of the offer only turns requests away, which is no step
\* here, and its time may run out under a request that waits for the kernel:
\* the model lets it exclude nothing.
AcceptOffer(o, t) == Validate(o, t, "accepting")
RejectOffer(o, t) == Validate(o, t, "rejecting")

\* deliver_offer_decision: a decision for a call of another node is published,
\* which can lose it, and its acknowledgement is awaited for five seconds.
Deliver(o, decision) ==
  \/ Resolve(o, decision)
  \/ ManyNodes /\ UNCHANGED future

\* webrtc.offer failed: fail_current_offer releases, then delivers a refusal.
ReleaseFailed(o, t) ==
  /\ Step(o, t, "accepting", "failed")
  /\ ReleaseOffer(offered[o], o)
  /\ UNCHANGED <<call, wf, offered, future, hang, poll>>

DeliverFailure(o, t) ==
  /\ Step(o, t, "failed", "done")
  /\ Deliver(o, "refused")
  /\ UNCHANGED <<res, call, wf, offered, hang, poll>>

DeliverAccept(o, t) ==
  /\ http[o][t] = "accepting"
  /\ Deliver(o, t)
  /\ \/ future[o] = "pending" /\ future'[o] = t /\ Step(o, t, "accepting", "resolved")
     \/ /\ future[o] # "pending" \/ ManyNodes
        /\ Step(o, t, "accepting", "unresolved")
  /\ UNCHANGED <<res, call, wf, offered, hang, poll>>

\* The leg is hung up and the agent released as if the offer had expired.
AbandonAccept(o, t) ==
  /\ Step(o, t, "unresolved", "abandoned")
  /\ ReleaseOffer(offered[o], o)
  /\ UNCHANGED <<call, wf, offered, future, hang, poll>>

EnterCall(o, t) ==
  LET a == offered[o] IN
  /\ http[o][t] = "resolved"
  /\ IF CanMarkInCall(res[a], o)
       THEN /\ Step(o, t, "resolved", "won")
            /\ res' = [res EXCEPT ![a] = MarkInCall(@, CallOf[o], "inbound")]
       ELSE Step(o, t, "resolved", "done") /\ UNCHANGED res
  /\ UNCHANGED <<call, wf, offered, future, hang, poll>>

\* The release must have been for a rejection and the agent be free after it: it
\* is this request's own, or the hash still shows that of another tab, if nothing
\* was written to it since.
AnotherRejected(a) ==
  /\ ~Occupied(res[a])
  /\ \E o \in Offers, t \in Tabs : offered[o] = a /\ http[o][t] = "rejected"

ReleaseRejected(o, t) ==
  LET a == offered[o] IN
  /\ http[o][t] = "rejecting"
  /\ \/ CanRelease(res[a], o, NoCall, FALSE) /\ Step(o, t, "rejecting", "rejected")
     \/ /\ ~CanRelease(res[a], o, NoCall, FALSE)
        /\ \/ AnotherRejected(a) /\ Step(o, t, "rejecting", "rejected")
           \/ Step(o, t, "rejecting", "done")
  /\ ReleaseOffer(a, o)
  /\ UNCHANGED <<call, wf, offered, future, hang, poll>>

\* set_status("busy"): a conflict fails the request before it tells the workflow.
LeaveReadyPool(o, t) ==
  LET a == offered[o] IN
  /\ http[o][t] = "rejected"
  /\ IF CanSetVisible(res[a], "busy")
       THEN /\ Step(o, t, "rejected", "busied")
            /\ res' = [res EXCEPT ![a] = SetVisible(@, "busy")]
       ELSE Step(o, t, "rejected", "done") /\ UNCHANGED res
  /\ UNCHANGED <<call, wf, offered, future, hang, poll>>

DeliverReject(o, t) ==
  /\ Step(o, t, "busied", "done")
  /\ Deliver(o, "refused")
  /\ UNCHANGED <<res, call, wf, offered, hang, poll>>

-----------------------------------------------------------------------------
(* Time, the status poll and the agent's own status changes.                *)

\* The lease of an offer runs out.  That of a call is four hours; what
\* happens when it does is modelled in AgentReconcile.
LeaseExpires(a) ==
  /\ res[a].state \in {"reserved", "ringing"} /\ res[a].lease = "ahead"
  /\ res' = [res EXCEPT ![a].lease = "behind"]
  /\ UNCHANGED <<call, wf, offered, future, http, hang, poll>>

PollReads(a) ==
  /\ ~poll[a].due /\ Expired(res[a])
  /\ poll' = [poll EXCEPT ![a] = [offer |-> res[a].offer, due |-> TRUE]]
  /\ UNCHANGED <<res, call, wf, offered, future, http, hang>>

PollReleases(a) ==
  /\ poll[a].due
  /\ ReleaseOffer(a, poll[a].offer)
  /\ poll' = [poll EXCEPT ![a] = NoPoll]
  /\ UNCHANGED <<call, wf, offered, future, http, hang>>

ChooseStatus(a, v) ==
  /\ CanSetVisible(res[a], v)
  /\ res[a].visible # v
  /\ res' = [res EXCEPT ![a] = SetVisible(@, v)]
  /\ UNCHANGED <<call, wf, offered, future, http, hang, poll>>

-----------------------------------------------------------------------------
WorkflowStep(c) ==
  \/ \E o \in Offers : EnterAssignQueue(c, o)
  \/ \E a \in Agents : PickAgent(c, a)
  \/ NoAgentFound(c) \/ HoldCaller(c) \/ StopHolding(c)
  \/ PushOffer(c) \/ PushFails(c) \/ RingAgent(c) \/ StartWaiting(c)
  \/ Decided(c) \/ OfferTimesOut(c) \/ GiveUp(c)
  \/ EndWorkflow(c) \/ SetBridgedAgent(c) \/ Bridge(c) \/ AbortBridge(c)

HangupStep(c) ==
  CaptureWorkflow(c) \/ WithdrawOffer(c) \/ ReleaseWithdrawn(c) \/ SettleAgent(c)

RequestStep(o, t) ==
  \/ ReleaseFailed(o, t) \/ DeliverFailure(o, t)
  \/ DeliverAccept(o, t) \/ AbandonAccept(o, t) \/ EnterCall(o, t)
  \/ ReleaseRejected(o, t) \/ LeaveReadyPool(o, t) \/ DeliverReject(o, t)

PollStep(a) == PollReads(a) \/ PollReleases(a)

Next ==
  \/ \E c \in Calls : WorkflowStep(c) \/ HangupStep(c) \/ CallEnds(c)
  \/ \E o \in Offers, t \in Tabs :
       AcceptOffer(o, t) \/ RejectOffer(o, t) \/ RequestStep(o, t)
  \/ \E a \in Agents : LeaseExpires(a) \/ PollStep(a)
  \/ \E a \in Agents, v \in {"ready", "break"} : ChooseStatus(a, v)

Spec == Init /\ [][Next]_vars

\* The event loop runs every coroutine and handler on, the lease is a clock,
\* the workspace polls the status every 30 s and the hold loop counts its
\* waiting.  Agents, tabs and the caller are free to do nothing.
Fairness ==
  /\ \A c \in Calls : /\ WF_vars(WorkflowStep(c)) /\ WF_vars(HangupStep(c))
                      /\ SF_vars(StopHolding(c))
  /\ \A o \in Offers : \A t \in Asks[o] : WF_vars(RequestStep(o, t))
  /\ \A a \in Agents : WF_vars(LeaseExpires(a)) /\ WF_vars(PollStep(a))

FairSpec == Spec /\ Fairness

-----------------------------------------------------------------------------
(* Safety.                                                                 *)

\* Whatever mixture of requests, hangups and polls wrote it, every hash reads
\* consistently: an agent in an active state names a call, a ringing agent has
\* a lease that can run out, nobody who is free keeps an offer or a lease.
ResourcesWellFormed == \A a \in Agents : WellFormed(res[a])

\* An agent rings only for an offer a workflow still stands behind: the
\* offer's call is the hash's call and its workflow has picked this agent and
\* not yet given up, so somebody is left who will free the agent.
HeldOfferIsLive ==
  \A a \in Agents, o \in Offers :
    res[a].offer = o =>
      LET f == wf[CallOf[o]] IN
      /\ res[a].call = CallOf[o]
      /\ f.offer = o /\ f.agent = a
      /\ f.pc \notin {"queue", "picking", "holding", "over"}

\* One offer is accepted once: whichever tabs, nodes and retries compete, the
\* requests told "resolved" are at most one, and the workflow bridges the leg
\* of exactly that request.
OneTabWins ==
  \A o \in Offers, t \in Tabs :
    http[o][t] \in {"resolved", "won"} => future[o] = t

\* The workflow takes the failure path of its offer, or drops the offer at once.
LetsGo(c) ==
  /\ wf[c].pc # "failing"
  /\ wf'[c].pc = "failing" \/ wf'[c].offer # wf[c].offer

TalkersWon ==
  \A a \in Agents :
    res[a].state = "in_call" =>
      \E o \in Offers : /\ CallOf[o] = res[a].call /\ offered[o] = a
                        /\ future[o] \in Tabs /\ http[o][future[o]] = "won"

\* Nobody is shown in a call that was not accepted: the hash of a busy agent
\* names a call of which this agent won an offer.  And no time-out, refusal or
\* withdrawal that comes too late makes a workflow let a won offer go: only its own
\* mark_ringing does, when the accept overtook it, and leaves the agent in the call
\* of a workflow that offers the caller to the next one.
TalkingWasAccepted ==
  /\ []TalkersWon
  /\ [][\A c \in Calls, o \in Offers :
          wf[c].offer = o /\ future[o] \in Tabs /\ LetsGo(c) => wf[c].pc = "pushed"]_vars

\* Settling one call does not touch an agent who by then works on another:
\* a late hangup or an aborted bridge leaves that agent's hash as it is.
SettlesOwnCallOnly ==
  [][\A a \in Agents :
       Occupied(res[a]) /\ res'[a] # res[a] =>
         \A c \in Calls \ {res[a].call} : ~HangupStep(c) /\ ~AbortBridge(c)]_vars

\* An offer that has not run out is taken from its agent only by those it
\* belongs to: its workflow, its requests or the hangup of its call.  No status
\* change, no poll that read an older hash and no other call's step ends it.
LiveOfferEndsByItsOwn ==
  [][\A a \in Agents, o \in Offers :
       /\ res[a].offer = o /\ ~Expired(res[a]) /\ res'[a].offer # o
       => \/ WorkflowStep(CallOf[o]) \/ HangupStep(CallOf[o])
          \/ \E t \in Tabs : RequestStep(o, t)]_vars

-----------------------------------------------------------------------------
(* Liveness.                                                               *)

\* No offer occupies an agent for ever, whatever is lost or left undone: the
\* workflow, a request, the hangup or the poll takes it back.
OfferIsTakenBack ==
  \A a \in Agents : []<>(res[a].offer = NoOffer)

\* Every caller is connected to an agent or let go.
CallerIsServed ==
  \A c \in Calls : <>[](wf[c].pc \in {"bridged", "over"})

-----------------------------------------------------------------------------
(* What the code's own comments say and the code does not do.              *)

\* call_wrapup_service.py: "A duration of 0 skips after-call work entirely and
\* returns the agent to ready immediately": once the call of a bridged agent is
\* settled the agent is not in it any more.
SettledAgentIsFree ==
  \A c \in Calls, a \in Agents :
    /\ hang[c].pc = "done" /\ wf[c].bridged /\ wf[c].agent = a
    /\ \A o \in Offers, t \in Tabs : CallOf[o] = c => http[o][t] # "resolved"
    => ~(res[a].state = "in_call" /\ res[a].call = c)

\* accept_offer: resolving the offer makes "the workflow [proceed] with
\* call.stop + call.bridge": an agent shown in a call whose workflow is
\* past the ringing is the agent the workflow bridges.
TalkingIsBridged ==
  \A a \in Agents, c \in Calls :
    res[a].state = "in_call" /\ res[a].call = c =>
      wf[c].agent = a /\ wf[c].pc \notin {"failing", "queue", "over"}
=============================================================================
