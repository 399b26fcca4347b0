------------------------- MODULE InboundOfferProofs -------------------------
(***************************************************************************)
(* Theorems about InboundOffer for every number of agents, calls, offers    *)
(* and tabs: its variables keep their types, every write of every handler   *)
(* leaves well-formed hashes, an offer is accepted by one tab, who talks has *)
(* accepted, who rings has a workflow, and no step of one call takes the     *)
(* agent from another.                                                      *)
(***************************************************************************)
EXTENDS InboundOffer, AgentResourceProofs

\* The types of the variables other than res.
TypeRest ==
  /\ call \in [Calls -> {"up", "gone"}]
  /\ wf \in [Calls -> Flow]
  /\ offered \in [Offers -> Agents \cup {NoAgent}]
  /\ future \in [Offers -> FutureStates]
  /\ http \in [Offers -> [Tabs -> HttpStates]]
  /\ hang \in [Calls -> Hangup]
  /\ poll \in [Agents -> [offer : Offers \cup {NoOffer}, due : BOOLEAN]]

\* Type and form of a hash are one induction: whether an operation leaves a
\* hash of the right type depends on the form it found.
HashInv == TypeRest /\ res \in [Agents -> GoodHash]

\* The two conjuncts of HashInv that say something of res are TypeOK's first
\* and ResourcesWellFormed.
LEMMA HashInvIsBoth == HashInv <=> TypeOK /\ ResourcesWellFormed
BY DEF HashInv, TypeRest, TypeOK, ResourcesWellFormed, GoodHash

\* One agent's hash is replaced by a good one.
LEMMA PutGood ==
  ASSUME NEW r \in [Agents -> GoodHash], NEW a, NEW h, a \in Agents => h \in GoodHash
  PROVE  [r EXCEPT ![a] = h] \in [Agents -> GoodHash]
OBVIOUS

\* The release that ends an offer.
LEMMA ReleaseOfferIsGood ==
  ASSUME res \in [Agents -> GoodHash], NEW a, NEW o, ReleaseOffer(a, o)
  PROVE  res' \in [Agents -> GoodHash]
<1>1. a \in Agents => Release(res[a], o, NoCall, FALSE) \in GoodHash
  BY ReleaseIsGood
<1> QED BY <1>1, PutGood DEF ReleaseOffer

\* A decision, a withdrawal or a time-out leaves the type of the futures.
LEMMA ResolveTyped ==
  ASSUME future \in [Offers -> FutureStates], NEW o, NEW d \in FutureStates, Resolve(o, d)
  PROVE  future' \in [Offers -> FutureStates]
BY DEF Resolve

\* A workflow that moves on keeps its type.
LEMMA GotoTyped ==
  ASSUME wf \in [Calls -> Flow], NEW c \in Calls, NEW pc \in FlowStates, Goto(c, pc)
  PROVE  wf' \in [Calls -> Flow]
BY DEF Goto, Flow

\* The start: everybody ready, no offer made.
LEMMA InitHashInv == Init => HashInv
<1> SUFFICES ASSUME Init PROVE HashInv
  OBVIOUS
<1>1. res \in [Agents -> GoodHash]
  BY FreeIsGood DEF Init, VisibleStatuses
<1>2. TypeRest
  BY DEF Init, TypeRest, Flow, FlowStates, FutureStates, HttpStates, Hangup, HangStates,
         NoHangup, NoPoll
<1> QED BY <1>1, <1>2 DEF HashInv

\* The steps of a call's workflow.
LEMMA WorkflowHashInv ==
  ASSUME HashInv, NEW c \in Calls, WorkflowStep(c)
  PROVE  HashInv'
<1> USE DEF HashInv
<1>t. /\ wf[c] \in Flow /\ wf[c].offer \in Offers \cup {NoOffer}
      /\ wf[c].agent \in Agents \cup {NoAgent}
  BY DEF TypeRest, Flow
<1>1. ASSUME NEW o \in Offers, EnterAssignQueue(c, o) PROVE HashInv'
  BY <1>1, <1>t DEF EnterAssignQueue, TypeRest, Flow, FlowStates, FutureStates
<1>2. ASSUME NEW a \in Agents, PickAgent(c, a) PROVE HashInv'
  <2>1. Reserve(res[a], "inbound", c, wf[c].offer) \in GoodHash
    BY <1>2, <1>t, ReserveInboundIsGood DEF PickAgent
  <2>2. res' \in [Agents -> GoodHash]
    BY <1>2, <2>1, PutGood DEF PickAgent
  <2>3. TypeRest'
    BY <1>2, <1>t DEF PickAgent, TypeRest, Flow, FlowStates
  <2> QED BY <2>2, <2>3
<1>3. CASE NoAgentFound(c) \/ HoldCaller(c) \/ StopHolding(c)
  <2>1. wf' \in [Calls -> Flow]
    BY <1>3, GotoTyped DEF NoAgentFound, HoldCaller, StopHolding, TypeRest, FlowStates
  <2> QED BY <2>1, <1>3 DEF NoAgentFound, HoldCaller, StopHolding, TypeRest
<1>4. CASE PushOffer(c) \/ PushFails(c)
  <2>1. wf' \in [Calls -> Flow]
    BY <1>4, GotoTyped DEF PushOffer, PushFails, TypeRest, FlowStates
  <2> QED BY <2>1, <1>4, <1>t DEF PushOffer, PushFails, TypeRest, FutureStates
<1>5. CASE RingAgent(c)
  <2> DEFINE a == wf[c].agent
             o == wf[c].offer
  <2>1. CASE CanMarkRinging(res[a], c, o)
    <3>1. a \in Agents => MarkRinging(res[a]) \in GoodHash
      BY <2>1, MarkRingingIsGood
    <3>2. res' = [res EXCEPT ![a] = MarkRinging(res[a])]
      BY <1>5, <2>1 DEF RingAgent
    <3>3. res' \in [Agents -> GoodHash]
      BY <3>1, <3>2, PutGood
    <3>4. wf' \in [Calls -> Flow]
      BY <1>5, <2>1, GotoTyped DEF RingAgent, TypeRest, FlowStates
    <3> QED BY <3>3, <3>4, <1>5, <2>1 DEF RingAgent, TypeRest
  <2>2. CASE ~CanMarkRinging(res[a], c, o)
    <3>1. future' \in [Offers -> FutureStates]
      BY <1>5, <2>2, ResolveTyped DEF RingAgent, CancelOffer, TypeRest, FutureStates
    <3>2. wf' \in [Calls -> Flow]
      BY <1>5, <2>2, GotoTyped DEF RingAgent, TypeRest, FlowStates
    <3> QED BY <3>1, <3>2, <1>5, <2>2 DEF RingAgent, TypeRest
  <2> QED BY <2>1, <2>2
<1>6. CASE StartWaiting(c) \/ Decided(c) \/ SetBridgedAgent(c) \/ Bridge(c)
  <2>1. CASE Bridge(c)
    <3>1. wf' \in [Calls -> Flow]
      BY <2>1, GotoTyped DEF Bridge, TypeRest, FlowStates
    <3> QED BY <3>1, <2>1 DEF Bridge, TypeRest
  <2>2. CASE StartWaiting(c)
    BY <2>2, <1>t DEF StartWaiting, TypeRest, Flow, FlowStates
  <2>3. CASE Decided(c)
    <3>1. [wf[c] EXCEPT !.pending = FALSE,
                        !.pc = IF future[wf[c].offer] = "refused" THEN "failing"
                                                                 ELSE "accepted"] \in Flow
      BY <1>t DEF Flow, FlowStates
    <3> QED BY <3>1, <2>3 DEF Decided, TypeRest
  <2>4. CASE SetBridgedAgent(c)
    BY <2>4, <1>t DEF SetBridgedAgent, TypeRest, Flow, FlowStates
  <2> QED BY <1>6, <2>1, <2>2, <2>3, <2>4
<1>7. CASE OfferTimesOut(c)
  <2>1. future' \in [Offers -> FutureStates]
    BY <1>7, ResolveTyped DEF OfferTimesOut, CancelOffer, TypeRest, FutureStates
  <2> QED BY <2>1, <1>7, <1>t DEF OfferTimesOut, TypeRest, Flow, FlowStates
<1>8. CASE GiveUp(c)
  <2>1. res' \in [Agents -> GoodHash]
    BY <1>8, ReleaseOfferIsGood DEF GiveUp
  <2> QED BY <2>1, <1>8, <1>t DEF GiveUp, TypeRest, Flow, FlowStates
<1>9. CASE EndWorkflow(c)
  BY <1>9, <1>t DEF EndWorkflow, Goto, TypeRest, Flow, FlowStates
<1>10. CASE AbortBridge(c)
  <2>1. wf[c].agent \in Agents => PostCall(res[wf[c].agent], c, HasWrapUp) \in GoodHash
    BY PostCallIsGood, SwitchAssumption
  <2>2. res' \in [Agents -> GoodHash]
    BY <1>10, <2>1, PutGood DEF AbortBridge
  <2> QED BY <2>2, <1>10, <1>t DEF AbortBridge, Goto, TypeRest, Flow, FlowStates
<1> QED BY <1>1, <1>2, <1>3, <1>4, <1>5, <1>6, <1>7, <1>8, <1>9, <1>10 DEF WorkflowStep

\* The steps of the hangup handler, and the hangup itself.
LEMMA HangupHashInv ==
  ASSUME HashInv, NEW c \in Calls, HangupStep(c) \/ CallEnds(c)
  PROVE  HashInv'
<1> USE DEF HashInv
<1>t. wf[c] \in Flow /\ hang[c] \in Hangup
  BY DEF TypeRest
<1>1. CASE CallEnds(c)
  BY <1>1 DEF CallEnds, TypeRest
<1>2. CASE CaptureWorkflow(c)
  BY <1>2, <1>t DEF CaptureWorkflow, TypeRest, Flow, Hangup, HangStates
<1>3. CASE WithdrawOffer(c)
  <2>1. future' \in [Offers -> FutureStates]
    BY <1>3, ResolveTyped DEF WithdrawOffer, TypeRest, FutureStates
  <2> QED BY <2>1, <1>3, <1>t DEF WithdrawOffer, TypeRest, Hangup, HangStates
<1>4. CASE ReleaseWithdrawn(c)
  <2>1. res' \in [Agents -> GoodHash]
    BY <1>4, ReleaseOfferIsGood DEF ReleaseWithdrawn
  <2> QED BY <2>1, <1>4, <1>t DEF ReleaseWithdrawn, TypeRest, Hangup, HangStates
<1>5. CASE SettleAgent(c)
  <2>1. hang[c].agent \in Agents => PostCall(res[hang[c].agent], c, HasWrapUp) \in GoodHash
    BY PostCallIsGood, SwitchAssumption
  <2>2. res' \in [Agents -> GoodHash]
    BY <1>5, <2>1, PutGood DEF SettleAgent
  <2> QED BY <2>2, <1>5, <1>t DEF SettleAgent, TypeRest, Hangup, HangStates, NoHangup
<1> QED BY <1>1, <1>2, <1>3, <1>4, <1>5 DEF HangupStep

\* The steps of an agent's requests.
LEMMA RequestHashInv ==
  ASSUME HashInv, NEW o \in Offers, NEW t \in Tabs,
         AcceptOffer(o, t) \/ RejectOffer(o, t) \/ RequestStep(o, t)
  PROVE  HashInv'
<1> USE DEF HashInv
<1>s. ASSUME NEW from, NEW to \in HttpStates, Step(o, t, from, to)
      PROVE  http' \in [Offers -> [Tabs -> HttpStates]]
  BY <1>s DEF Step, TypeRest
<1>d. ASSUME NEW d \in FutureStates, Deliver(o, d)
      PROVE  future' \in [Offers -> FutureStates]
  BY <1>d, ResolveTyped DEF Deliver, TypeRest
<1>1. CASE AcceptOffer(o, t) \/ RejectOffer(o, t)
  <2>1. http' \in [Offers -> [Tabs -> HttpStates]]
    BY <1>1, <1>s DEF AcceptOffer, RejectOffer, Validate, HttpStates
  <2> QED BY <2>1, <1>1 DEF AcceptOffer, RejectOffer, Validate, TypeRest
<1>2. CASE ReleaseFailed(o, t) \/ AbandonAccept(o, t) \/ ReleaseRejected(o, t)
  <2>1. http' \in [Offers -> [Tabs -> HttpStates]]
    BY <1>2, <1>s DEF ReleaseFailed, AbandonAccept, ReleaseRejected, HttpStates
  <2>2. res' \in [Agents -> GoodHash]
    BY <1>2, ReleaseOfferIsGood DEF ReleaseFailed, AbandonAccept, ReleaseRejected
  <2> QED BY <2>1, <2>2, <1>2 DEF ReleaseFailed, AbandonAccept, ReleaseRejected, TypeRest
<1>3. CASE DeliverFailure(o, t) \/ DeliverReject(o, t)
  <2>1. http' \in [Offers -> [Tabs -> HttpStates]]
    BY <1>3, <1>s DEF DeliverFailure, DeliverReject, HttpStates
  <2>2. future' \in [Offers -> FutureStates]
    BY <1>3, <1>d DEF DeliverFailure, DeliverReject, FutureStates
  <2> QED BY <2>1, <2>2, <1>3 DEF DeliverFailure, DeliverReject, TypeRest
<1>4. CASE DeliverAccept(o, t)
  <2>1. http' \in [Offers -> [Tabs -> HttpStates]]
    BY <1>4, <1>s DEF DeliverAccept, HttpStates
  <2>2. future' \in [Offers -> FutureStates]
    BY <1>4, <1>d DEF DeliverAccept, FutureStates
  <2> QED BY <2>1, <2>2, <1>4 DEF DeliverAccept, TypeRest
<1>5. CASE EnterCall(o, t)
  <2> DEFINE a == offered[o]
  <2>1. http' \in [Offers -> [Tabs -> HttpStates]]
    BY <1>5, <1>s DEF EnterCall, HttpStates
  <2>2. CASE CanMarkInCall(res[a], o)
    <3>1. a \in Agents => MarkInCall(res[a], CallOf[o], "inbound") \in GoodHash
      BY <2>2, MarkInCallIsGood, CallOfAssumption DEF Directions
    <3>2. res' \in [Agents -> GoodHash]
      BY <1>5, <2>2, <3>1, PutGood DEF EnterCall
    <3> QED BY <2>1, <3>2, <1>5 DEF EnterCall, TypeRest
  <2>3. CASE ~CanMarkInCall(res[a], o)
    BY <2>1, <2>3, <1>5 DEF EnterCall, TypeRest
  <2> QED BY <2>2, <2>3
<1>6. CASE LeaveReadyPool(o, t)
  <2> DEFINE a == offered[o]
  <2>1. http' \in [Offers -> [Tabs -> HttpStates]]
    BY <1>6, <1>s DEF LeaveReadyPool, HttpStates
  <2>2. a \in Agents => SetVisible(res[a], "busy") \in GoodHash
    BY SetVisibleIsGood DEF VisibleStatuses
  <2>3. res' \in [Agents -> GoodHash]
    BY <1>6, <2>2, PutGood DEF LeaveReadyPool
  <2> QED BY <2>1, <2>3, <1>6 DEF LeaveReadyPool, TypeRest
<1> QED BY <1>1, <1>2, <1>3, <1>4, <1>5, <1>6 DEF RequestStep

\* The lease, the poll and the agent's own choice.
LEMMA AgentHashInv ==
  ASSUME HashInv, NEW a \in Agents,
         \/ LeaseExpires(a) \/ PollStep(a)
         \/ \E v \in {"ready", "break"} : ChooseStatus(a, v)
  PROVE  HashInv'
<1> USE DEF HashInv
<1>1. CASE LeaseExpires(a)
  <2>1. [res[a] EXCEPT !.lease = "behind"] \in GoodHash
    BY <1>1, LeaseEndIsGood DEF LeaseExpires, Occupied, ActiveStates
  <2>2. res' \in [Agents -> GoodHash]
    BY <1>1, <2>1, PutGood DEF LeaseExpires
  <2> QED BY <2>2, <1>1 DEF LeaseExpires, TypeRest
<1>2. CASE PollReads(a)
  <2>1. res[a].offer \in Offers \cup {NoOffer}
    BY DEF GoodHash, Hash
  <2> QED BY <1>2, <2>1 DEF PollReads, TypeRest
<1>3. CASE PollReleases(a)
  <2>1. res' \in [Agents -> GoodHash]
    BY <1>3, ReleaseOfferIsGood DEF PollReleases
  <2> QED BY <2>1, <1>3 DEF PollReleases, NoPoll, TypeRest
<1>4. ASSUME NEW v \in {"ready", "break"}, ChooseStatus(a, v) PROVE HashInv'
  <2>1. SetVisible(res[a], v) \in GoodHash
    BY SetVisibleIsGood DEF VisibleStatuses
  <2>2. res' \in [Agents -> GoodHash]
    BY <1>4, <2>1, PutGood DEF ChooseStatus
  <2> QED BY <2>2, <1>4 DEF ChooseStatus, TypeRest
<1> QED BY <1>1, <1>2, <1>3, <1>4 DEF PollStep

\* Every step, and a stutter.
LEMMA NextHashInv == HashInv /\ [Next]_vars => HashInv'
<1> SUFFICES ASSUME HashInv, [Next]_vars PROVE HashInv'
  OBVIOUS
<1>1. CASE Next
  BY <1>1, WorkflowHashInv, HangupHashInv, RequestHashInv, AgentHashInv DEF Next
<1>2. CASE UNCHANGED vars
  BY <1>2 DEF vars, HashInv, TypeRest
<1> QED BY <1>1, <1>2

\* HashInv is inductive.
LEMMA AlwaysHashInv == Spec => []HashInv
BY InitHashInv, NextHashInv, PTL DEF Spec

\* Every variable keeps its type, for any number of agents, calls and tabs.
THEOREM TypeCorrect == Spec => []TypeOK
BY AlwaysHashInv, HashInvIsBoth, PTL

\* Whatever the workflow, the hangup handler, requests of any number of tabs,
\* the poll and the agent do to the hashes, in any order, each reads
\* consistently.
THEOREM HashesStayWellFormed == Spec => []ResourcesWellFormed
BY AlwaysHashInv, HashInvIsBoth, PTL

-----------------------------------------------------------------------------
(* One tab wins.  A request that was told "resolved" found the future       *)
(* pending and put its tab there; what could put another decision over it   *)
(* is a second registration of the same offer, so the induction needs that  *)
(* a workflow about to register an offer registers one that is new.  Back in *)
(* the queue it has none, or one it has never registered.                   *)

OfferIsFresh ==
  \A c \in Calls :
    (\/ wf[c].pc \in {"picking", "holding", "picked"}
     \/ wf[c].pc = "queue" /\ wf[c].offer # NoOffer) =>
      /\ wf[c].offer \in Offers
      /\ CallOf[wf[c].offer] = c
      /\ future[wf[c].offer] = "issued"

WinInv == HashInv /\ OfferIsFresh /\ OneTabWins

\* At the start no request was made.
LEMMA InitWinInv == Init => WinInv
<1> SUFFICES ASSUME Init PROVE WinInv
  OBVIOUS
<1>1. OfferIsFresh /\ OneTabWins
  BY DEF Init, OfferIsFresh, OneTabWins
<1> QED BY <1>1, InitHashInv DEF WinInv

\* A decision, a withdrawal or a time-out changes only a future that is pending.
LEMMA ResolveKeepsDecided ==
  ASSUME HashInv, NEW o, NEW d, Resolve(o, d)
  PROVE  \A p \in Offers : future[p] # "pending" => future'[p] = future[p]
BY DEF Resolve, HashInv, TypeRest

\* The workflow registers an offer only while it is fresh, and no other step of
\* it touches a decided future.
LEMMA WorkflowWinInv ==
  ASSUME WinInv, NEW c \in Calls, WorkflowStep(c)
  PROVE  OfferIsFresh' /\ OneTabWins'
<1> USE DEF WinInv
<1>t. /\ wf \in [Calls -> Flow] /\ future \in [Offers -> FutureStates]
      /\ \A p \in Offers : future[p] \in Tabs =>
                             future[p] \notin {"none", "issued", "pending"}
  BY TabsAssumption DEF HashInv, TypeRest
<1>1. ASSUME NEW o \in Offers, EnterAssignQueue(c, o) PROVE OfferIsFresh' /\ OneTabWins'
  BY <1>1, <1>t DEF EnterAssignQueue, OfferIsFresh, OneTabWins, Flow
<1>3. ASSUME NEW a \in Agents, PickAgent(c, a) PROVE OfferIsFresh' /\ OneTabWins'
  BY <1>3, <1>t DEF PickAgent, OfferIsFresh, OneTabWins, Flow
<1>4. CASE NoAgentFound(c) \/ HoldCaller(c) \/ StopHolding(c)
  BY <1>4, <1>t DEF NoAgentFound, HoldCaller, StopHolding, Goto, OfferIsFresh, OneTabWins,
                    Flow
<1>5. CASE PushOffer(c) \/ PushFails(c)
  <2>1. /\ wf[c].offer \in Offers /\ CallOf[wf[c].offer] = c
        /\ future[wf[c].offer] = "issued"
    BY <1>5 DEF PushOffer, PushFails, OfferIsFresh
  <2>2. /\ http' = http
        /\ \A p \in Offers \ {wf[c].offer} : future'[p] = future[p]
        /\ \A d \in Calls \ {c} : wf'[d] = wf[d]
        /\ wf'[c].pc \in {"pushed", "failing"}
    BY <1>5, <1>t DEF PushOffer, PushFails, Goto, Flow
  <2>3. OfferIsFresh'
    BY <2>1, <2>2, CallOfAssumption DEF OfferIsFresh
  <2>4. OneTabWins'
    BY <2>1, <2>2, <1>t DEF OneTabWins
  <2> QED BY <2>3, <2>4
<1>6. CASE RingAgent(c) \/ OfferTimesOut(c)
  <2>1. \A p \in Offers : future[p] # "pending" => future'[p] = future[p]
    BY <1>6, ResolveKeepsDecided DEF RingAgent, OfferTimesOut, CancelOffer
  <2>2. /\ http' = http
        /\ \A d \in Calls \ {c} : wf'[d] = wf[d]
        /\ wf'[c].pc \in {"ringing", "failing"}
    BY <1>6, <1>t DEF RingAgent, OfferTimesOut, Goto, Flow
  <2>3. OfferIsFresh'
    BY <2>1, <2>2 DEF OfferIsFresh
  <2>4. OneTabWins'
    BY <2>1, <2>2, <1>t DEF OneTabWins
  <2> QED BY <2>3, <2>4
<1>7. CASE StartWaiting(c) \/ Decided(c) \/ GiveUp(c) \/ EndWorkflow(c)
           \/ SetBridgedAgent(c) \/ Bridge(c) \/ AbortBridge(c)
  <2>1. /\ http' = http /\ future' = future
        /\ \A d \in Calls \ {c} : wf'[d] = wf[d]
        /\ wf'[c].pc \notin {"picking", "holding", "picked"}
        /\ wf'[c].pc = "queue" => wf'[c].offer = NoOffer
    BY <1>7, <1>t DEF StartWaiting, Decided, GiveUp, EndWorkflow, SetBridgedAgent, Bridge,
                      AbortBridge, Goto, Flow
  <2> QED BY <2>1 DEF OfferIsFresh, OneTabWins
<1> QED BY <1>1, <1>3, <1>4, <1>5, <1>6, <1>7 DEF WorkflowStep

\* A hangup refuses an offer at most while it is pending.
LEMMA HangupWinInv ==
  ASSUME WinInv, NEW c \in Calls, HangupStep(c) \/ CallEnds(c)
  PROVE  OfferIsFresh' /\ OneTabWins'
<1> USE DEF WinInv
<1>t. /\ wf \in [Calls -> Flow] /\ future \in [Offers -> FutureStates]
      /\ \A p \in Offers : future[p] \in Tabs => future[p] # "pending"
  BY TabsAssumption DEF HashInv, TypeRest
<1>1. /\ \A p \in Offers : future[p] # "pending" => future'[p] = future[p]
      /\ http' = http
  BY ResolveKeepsDecided
     DEF HangupStep, CallEnds, CaptureWorkflow, WithdrawOffer, ReleaseWithdrawn, SettleAgent
<1>2. \A d \in Calls : wf'[d].pc = wf[d].pc /\ wf'[d].offer = wf[d].offer
  BY <1>t DEF HangupStep, CallEnds, CaptureWorkflow, WithdrawOffer, ReleaseWithdrawn,
              SettleAgent, Flow
<1>3. OfferIsFresh'
  BY <1>1, <1>2 DEF OfferIsFresh
<1>4. OneTabWins'
  BY <1>1, <1>t DEF OneTabWins
<1> QED BY <1>3, <1>4

\* A request is told "resolved" only when its own tab is the decision.
LEMMA RequestWinInv ==
  ASSUME WinInv, NEW o \in Offers, NEW t \in Tabs,
         AcceptOffer(o, t) \/ RejectOffer(o, t) \/ RequestStep(o, t)
  PROVE  OfferIsFresh' /\ OneTabWins'
<1> USE DEF WinInv
<1>t. /\ future \in [Offers -> FutureStates] /\ http \in [Offers -> [Tabs -> HttpStates]]
      /\ \A p \in Offers : future[p] \in Tabs => future[p] # "pending"
  BY TabsAssumption DEF HashInv, TypeRest
<1>1. /\ \A p \in Offers : future[p] # "pending" => future'[p] = future[p]
      /\ wf' = wf
  <2>1. ASSUME NEW d, Deliver(o, d)
        PROVE  \A p \in Offers : future[p] # "pending" => future'[p] = future[p]
    BY <2>1, ResolveKeepsDecided DEF Deliver
  <2>2. CASE DeliverAccept(o, t) \/ DeliverFailure(o, t) \/ DeliverReject(o, t)
    BY <2>1, <2>2 DEF DeliverAccept, DeliverFailure, DeliverReject
  <2>3. CASE ~(DeliverAccept(o, t) \/ DeliverFailure(o, t) \/ DeliverReject(o, t))
    BY <2>3 DEF AcceptOffer, RejectOffer, RequestStep, Validate, ReleaseFailed, AbandonAccept,
                EnterCall, ReleaseRejected, LeaveReadyPool
  <2> QED BY <2>2, <2>3
<1>2. OfferIsFresh'
  BY <1>1 DEF OfferIsFresh
<1>3. ASSUME NEW from, NEW to, Step(o, t, from, to),
             to \in {"resolved", "won"} =>
               \/ from = "resolved"
               \/ future'[o] = t
      PROVE  OneTabWins'
  <2>1. ASSUME NEW p \in Offers, NEW u \in Tabs, http'[p][u] \in {"resolved", "won"}
        PROVE  future'[p] = u
    <3>1. CASE p = o /\ u = t
      BY <1>1, <1>3, <1>t, <2>1, <3>1 DEF Step, OneTabWins
    <3>2. CASE ~(p = o /\ u = t)
      <4>1. http'[p][u] = http[p][u]
        BY <1>3, <1>t, <3>2 DEF Step
      <4> QED BY <4>1, <1>1, <1>t, <2>1 DEF OneTabWins
    <3> QED BY <3>1, <3>2
  <2> QED BY <2>1 DEF OneTabWins
<1>4. OneTabWins'
  BY <1>3 DEF AcceptOffer, RejectOffer, RequestStep, Validate, ReleaseFailed, AbandonAccept,
              EnterCall, ReleaseRejected, LeaveReadyPool, DeliverAccept, DeliverFailure,
              DeliverReject
<1> QED BY <1>2, <1>4

\* The steps of an agent's hash alone decide nothing.
LEMMA AgentWinInv ==
  ASSUME WinInv, NEW a \in Agents,
         \/ LeaseExpires(a) \/ PollStep(a)
         \/ \E v \in {"ready", "break"} : ChooseStatus(a, v)
  PROVE  OfferIsFresh' /\ OneTabWins'
BY DEF WinInv, OfferIsFresh, OneTabWins, LeaseExpires, PollStep, PollReads, PollReleases,
       ChooseStatus

\* Every step, and a stutter.
LEMMA NextWinInv == WinInv /\ [Next]_vars => WinInv'
<1> SUFFICES ASSUME WinInv, [Next]_vars PROVE OfferIsFresh' /\ OneTabWins'
  BY NextHashInv DEF WinInv
<1>1. CASE Next
  BY <1>1, WorkflowWinInv, HangupWinInv, RequestWinInv, AgentWinInv DEF Next
<1>2. CASE UNCHANGED vars
  BY <1>2 DEF vars, WinInv, OfferIsFresh, OneTabWins
<1> QED BY <1>1, <1>2

\* However many tabs, nodes and retries compete for an offer, one request at
\* most is told it won, and it is the one whose leg the workflow bridges.
THEOREM OfferIsWonOnce == Spec => []OneTabWins
<1>1. WinInv => OneTabWins
  BY DEF WinInv
<1> QED BY InitWinInv, NextWinInv, <1>1, PTL DEF Spec

-----------------------------------------------------------------------------
(* What an agent's hash and the workflows of the calls say of each other:   *)
(* an agent who rings has a workflow that will free him, and one who talks   *)
(* has accepted.  Both rest on how a write may change a hash: all but the    *)
(* reservation and the accept loosen it.                                    *)

\* Who is held is held for an offer, and no call runs out.
Lively(h) ==
  /\ h.state \in {"reserved", "ringing"} => h.offer # NoOffer
  /\ h.state = "in_call" => h.lease # "behind"

\* A write that neither offers a call to the agent nor puts him in one, nor
\* gives an offer that has run out more time.
Loosens(h, g) ==
  /\ \/ g.offer = NoOffer
     \/ g.offer = h.offer /\ g.call = h.call /\ (Expired(h) => Expired(g))
  /\ g.state = "in_call" => h.state = "in_call" /\ g.call = h.call
  /\ Lively(h) => Lively(g)

\* A free hash names nothing.
LEMMA FreeLoosens ==
  ASSUME NEW h, NEW v
  PROVE  Loosens(h, Free(v))
BY DEF Loosens, Lively, Free, Unoccupied, ResourceForVisible

\* release, under any guards.
LEMMA ReleaseLoosens ==
  ASSUME NEW h, NEW o, NEW c, NEW allow
  PROVE  Loosens(h, Release(h, o, c, allow))
BY FreeLoosens DEF Release, Loosens

\* set_visible_status: in a call only "busy" is accepted.
LEMMA SetVisibleLoosens ==
  ASSUME NEW h, NEW v, CanSetVisible(h, v)
  PROVE  Loosens(h, SetVisible(h, v))
<1>1. CASE Occupied(h) /\ ~Expired(h)
  <2> DEFINE r == SetVisible(h, v)
  <2>1. h.state = "in_call"
    BY <1>1 DEF CanSetVisible
  <2>2. r.offer = NoOffer /\ r.state = "in_call" /\ r.call = h.call /\ r.lease = "none"
    BY <1>1 DEF SetVisible, Occupy
  <2> HIDE DEF r
  <2>3. Loosens(h, r)
    BY <2>1, <2>2 DEF Loosens, Lively
  <2> QED BY <2>3 DEF r
<1>2. CASE ~(Occupied(h) /\ ~Expired(h))
  BY <1>2, FreeLoosens DEF SetVisible
<1> QED BY <1>1, <1>2

\* apply_post_call_agent_status.
LEMMA PostCallLoosens ==
  ASSUME NEW h, NEW c, NEW hasWrapUp
  PROVE  Loosens(h, PostCall(h, c, hasWrapUp))
<1>1. Loosens(h, h)
  BY DEF Loosens
<1>2. Loosens(h, MarkAfterCallWork(h, c))
  BY <1>1 DEF Loosens, Lively, MarkAfterCallWork, Unoccupied, ResourceForVisible
<1>3. CanSetVisible(h, "ready") => Loosens(h, SetVisible(h, "ready"))
  BY SetVisibleLoosens
<1> QED BY <1>1, <1>2, <1>3 DEF PostCall

\* mark_ringing leaves call and offer, and comes too late for what has run out.
LEMMA MarkRingingLoosens ==
  ASSUME NEW h, NEW c, NEW o, CanMarkRinging(h, c, o)
  PROVE  Loosens(h, MarkRinging(h))
BY DEF Loosens, Lively, CanMarkRinging, MarkRinging, Occupy

\* One agent's hash is loosened, the others stay.
LEMMA PutLoosens ==
  ASSUME NEW a, NEW g, a \in Agents => Loosens(res[a], g),
         res \in [Agents -> GoodHash], res' = [res EXCEPT ![a] = g]
  PROVE  \A b \in Agents : Loosens(res[b], res'[b])
<1>1. \A b \in Agents : Loosens(res[b], res[b])
  BY DEF Loosens
<1> QED BY <1>1

\* A step that leaves the hashes alone.
LEMMA SameLoosens == res' = res => \A b \in Agents : Loosens(res[b], res'[b])
BY DEF Loosens

\* The release of an offer.
LEMMA ReleaseOfferLoosens ==
  ASSUME NEW a, NEW o, ReleaseOffer(a, o), res \in [Agents -> GoodHash]
  PROVE  \A b \in Agents : Loosens(res[b], res'[b])
BY PutLoosens, ReleaseLoosens DEF ReleaseOffer

\* The workflow loosens every hash but that of the agent it picks.
LEMMA WorkflowLoosens ==
  ASSUME HashInv, NEW c \in Calls, WorkflowStep(c), \A a \in Agents : ~PickAgent(c, a)
  PROVE  \A b \in Agents : Loosens(res[b], res'[b])
<1>t. res \in [Agents -> GoodHash]
  BY DEF HashInv
<1>1. CASE RingAgent(c)
  BY <1>1, <1>t, PutLoosens, MarkRingingLoosens, SameLoosens DEF RingAgent
<1>2. CASE GiveUp(c)
  BY <1>2, <1>t, ReleaseOfferLoosens DEF GiveUp
<1>3. CASE AbortBridge(c)
  BY <1>3, <1>t, PutLoosens, PostCallLoosens DEF AbortBridge
<1>4. CASE ~(RingAgent(c) \/ GiveUp(c) \/ AbortBridge(c))
  BY <1>4, SameLoosens
     DEF WorkflowStep, EnterAssignQueue, NoAgentFound, HoldCaller, StopHolding, PushOffer,
         PushFails, StartWaiting, Decided, OfferTimesOut, EndWorkflow, SetBridgedAgent, Bridge
<1> QED BY <1>1, <1>2, <1>3, <1>4

\* So does the hangup.
LEMMA HangupLoosens ==
  ASSUME HashInv, NEW c \in Calls, HangupStep(c) \/ CallEnds(c)
  PROVE  \A b \in Agents : Loosens(res[b], res'[b])
<1>t. res \in [Agents -> GoodHash]
  BY DEF HashInv
<1>1. CASE ReleaseWithdrawn(c)
  BY <1>1, <1>t, ReleaseOfferLoosens DEF ReleaseWithdrawn
<1>2. CASE SettleAgent(c)
  BY <1>2, <1>t, PutLoosens, PostCallLoosens, SameLoosens DEF SettleAgent
<1>3. CASE CaptureWorkflow(c) \/ WithdrawOffer(c) \/ CallEnds(c)
  BY <1>3, SameLoosens DEF CaptureWorkflow, WithdrawOffer, CallEnds
<1> QED BY <1>1, <1>2, <1>3 DEF HangupStep

\* Of the requests only the accept puts an agent in a call.
LEMMA RequestLoosens ==
  ASSUME HashInv, NEW o \in Offers, NEW t \in Tabs,
         AcceptOffer(o, t) \/ RejectOffer(o, t) \/ RequestStep(o, t), ~EnterCall(o, t)
  PROVE  \A b \in Agents : Loosens(res[b], res'[b])
<1>t. res \in [Agents -> GoodHash]
  BY DEF HashInv
<1>1. CASE ReleaseFailed(o, t) \/ AbandonAccept(o, t) \/ ReleaseRejected(o, t)
  BY <1>1, <1>t, ReleaseOfferLoosens DEF ReleaseFailed, AbandonAccept, ReleaseRejected
<1>2. CASE LeaveReadyPool(o, t)
  BY <1>2, <1>t, PutLoosens, SetVisibleLoosens, SameLoosens DEF LeaveReadyPool
<1>3. CASE AcceptOffer(o, t) \/ RejectOffer(o, t) \/ DeliverFailure(o, t)
           \/ DeliverAccept(o, t) \/ DeliverReject(o, t)
  BY <1>3, SameLoosens
     DEF AcceptOffer, RejectOffer, Validate, DeliverFailure, DeliverAccept, DeliverReject
<1> QED BY <1>1, <1>2, <1>3 DEF RequestStep

\* The lease, the poll and the agent's own choice.
LEMMA AgentLoosens ==
  ASSUME HashInv, NEW a \in Agents,
         \/ LeaseExpires(a) \/ PollStep(a)
         \/ \E v \in {"ready", "break"} : ChooseStatus(a, v)
  PROVE  \A b \in Agents : Loosens(res[b], res'[b])
<1>t. res \in [Agents -> GoodHash] /\ res[a] \in Hash
  BY DEF HashInv, GoodHash
<1>1. CASE LeaseExpires(a)
  <2> DEFINE g == [res[a] EXCEPT !.lease = "behind"]
  <2>1. /\ g.offer = res[a].offer /\ g.call = res[a].call /\ g.state = res[a].state
        /\ g.lease = "behind" /\ res[a].state # "in_call"
    BY <1>t, <1>1 DEF Hash, LeaseExpires
  <2>2. res' = [res EXCEPT ![a] = g]
    BY <1>1 DEF LeaseExpires
  <2> HIDE DEF g
  <2>3. Loosens(res[a], g)
    BY <2>1 DEF Loosens, Lively, Expired, Occupied
  <2> QED BY <2>2, <2>3, <1>t, PutLoosens
<1>2. CASE PollReads(a)
  BY <1>2, SameLoosens DEF PollReads
<1>3. CASE PollReleases(a)
  BY <1>3, <1>t, ReleaseOfferLoosens DEF PollReleases
<1>4. ASSUME NEW v \in {"ready", "break"}, ChooseStatus(a, v)
      PROVE  \A b \in Agents : Loosens(res[b], res'[b])
  BY <1>4, <1>t, PutLoosens, SetVisibleLoosens DEF ChooseStatus
<1> QED BY <1>1, <1>2, <1>3, <1>4 DEF PollStep

-----------------------------------------------------------------------------
(* A talking agent has accepted: the witness is the offer he won, and of an *)
(* offer that was won nothing changes any more.                             *)

TalkInv == WinInv /\ TalkersWon

\* A decided offer is not pushed or decided again, and a win is final.
LEMMA WonIsKept ==
  ASSUME WinInv, [Next]_vars, NEW o \in Offers, future[o] \in Tabs,
         http[o][future[o]] = "won"
  PROVE  /\ offered'[o] = offered[o] /\ future'[o] = future[o]
         /\ http'[o][future'[o]] = "won"
<1>t. /\ future \in [Offers -> FutureStates] /\ offered \in [Offers -> Agents \cup {NoAgent}]
      /\ http \in [Offers -> [Tabs -> HttpStates]] /\ HashInv
      /\ future[o] \notin {"none", "issued", "pending"}
  BY TabsAssumption DEF WinInv, HashInv, TypeRest
<1>r. ASSUME NEW p, NEW d, Resolve(p, d) PROVE future'[o] = future[o]
  BY <1>r, <1>t, ResolveKeepsDecided
<1>1. ASSUME NEW c \in Calls, WorkflowStep(c)
      PROVE  offered'[o] = offered[o] /\ future'[o] = future[o] /\ http' = http
  <2>1. CASE PushOffer(c) \/ PushFails(c)
    <3>1. wf[c].offer # o
      BY <2>1, <1>t DEF PushOffer, PushFails, WinInv, OfferIsFresh
    <3> QED BY <3>1, <2>1, <1>t DEF PushOffer, PushFails
  <2>2. CASE RingAgent(c) \/ OfferTimesOut(c)
    BY <2>2, <1>r DEF RingAgent, OfferTimesOut, CancelOffer
  <2>3. ASSUME NEW p \in Offers, EnterAssignQueue(c, p)
        PROVE  offered' = offered /\ future'[o] = future[o] /\ http' = http
    BY <2>3, <1>t DEF EnterAssignQueue
  <2>4. CASE ~(PushOffer(c) \/ PushFails(c) \/ RingAgent(c) \/ OfferTimesOut(c)
               \/ \E p \in Offers : EnterAssignQueue(c, p))
    BY <1>1, <2>4
       DEF WorkflowStep, PickAgent, NoAgentFound, HoldCaller, StopHolding, StartWaiting,
           Decided, GiveUp, EndWorkflow, SetBridgedAgent, Bridge, AbortBridge
  <2> QED BY <2>1, <2>2, <2>3, <2>4
<1>2. ASSUME NEW c \in Calls, HangupStep(c) \/ CallEnds(c)
      PROVE  offered'[o] = offered[o] /\ future'[o] = future[o] /\ http' = http
  BY <1>2, <1>r DEF HangupStep, CallEnds, CaptureWorkflow, WithdrawOffer, ReleaseWithdrawn,
                    SettleAgent
<1>3. ASSUME NEW p \in Offers, NEW t \in Tabs,
             AcceptOffer(p, t) \/ RejectOffer(p, t) \/ RequestStep(p, t)
      PROVE  /\ offered'[o] = offered[o] /\ future'[o] = future[o]
             /\ http'[o][future[o]] = "won"
  <2>1. offered' = offered /\ future'[o] = future[o]
    BY <1>3, <1>r
       DEF AcceptOffer, RejectOffer, RequestStep, Validate, ReleaseFailed, AbandonAccept,
           EnterCall, ReleaseRejected, LeaveReadyPool, DeliverAccept, DeliverFailure,
           DeliverReject, Deliver
  <2>2. \E from \in HttpStates \ {"won"}, to \in HttpStates : Step(p, t, from, to)
    BY <1>3
       DEF AcceptOffer, RejectOffer, RequestStep, Validate, ReleaseFailed, AbandonAccept,
           EnterCall, ReleaseRejected, LeaveReadyPool, DeliverAccept, DeliverFailure,
           DeliverReject, HttpStates, Step
  <2>3. http'[o][future[o]] = http[o][future[o]]
    BY <2>2, <1>t DEF Step
  <2> QED BY <2>1, <2>3
<1>4. CASE \/ \E a \in Agents : LeaseExpires(a) \/ PollStep(a)
           \/ \E a \in Agents, v \in {"ready", "break"} : ChooseStatus(a, v)
  BY <1>4 DEF LeaseExpires, PollStep, PollReads, PollReleases, ChooseStatus
<1>5. CASE UNCHANGED vars
  BY <1>5 DEF vars
<1> QED BY <1>1, <1>2, <1>3, <1>4, <1>5 DEF Next

\* The accept puts its own agent in the call of its own offer, or finds him in
\* a call and leaves him there.
LEMMA EnterCallHash ==
  ASSUME HashInv, NEW o \in Offers, NEW t \in Tabs, EnterCall(o, t), NEW b \in Agents
  PROVE  \/ Loosens(res[b], res'[b])
         \/ /\ b = offered[o] /\ http'[o][t] = "won"
            /\ res'[b].call = CallOf[o] /\ res'[b].offer = NoOffer /\ Lively(res'[b])
<1> DEFINE a == offered[o]
           g == MarkInCall(res[a], CallOf[o], "inbound")
<1>t. res \in [Agents -> GoodHash] /\ http \in [Offers -> [Tabs -> HttpStates]]
  BY DEF HashInv, TypeRest
<1>1. CASE res' = res
  BY <1>1 DEF Loosens
<1>2. CASE res' # res
  <2>1. /\ res' = [res EXCEPT ![a] = g] /\ http'[o][t] = "won"
        /\ CanMarkInCall(res[a], o)
    BY <1>2, <1>t DEF EnterCall, Step
  <2>2. CASE a # b
    BY <2>1, <2>2, <1>t DEF Loosens
  <2>3. CASE a = b /\ res[b].state = "in_call"
    <3>1. res[b] \in Hash
      BY <1>t DEF GoodHash
    <3>2. /\ g.call = res[b].call /\ g.offer = res[b].offer /\ g.state = "in_call"
          /\ res[b].lease # "behind" => g.lease # "behind"
          /\ Expired(res[b]) => g.lease = res[b].lease
      BY <2>3, <3>1 DEF MarkInCall, Hash, Expired
    <3>3. res'[b] = g
      BY <2>1, <2>3, <1>t
    <3> HIDE DEF g
    <3> QED BY <2>3, <3>2, <3>3 DEF Loosens, Lively, Expired, Occupied, ActiveStates
  <2>4. CASE a = b /\ res[b].state # "in_call"
    <3>1. g.call = CallOf[o] /\ g.offer = NoOffer /\ Lively(g)
      BY <2>4 DEF MarkInCall, Occupy, Lively
    <3>2. res'[b] = g
      BY <2>1, <2>4, <1>t
    <3> HIDE DEF g
    <3> QED BY <2>1, <2>4, <3>1, <3>2
  <2> QED BY <2>2, <2>3, <2>4
<1> QED BY <1>1, <1>2

\* The reservation offers the agent the call of the workflow that picked him.
LEMMA PickAgentHash ==
  ASSUME HashInv, NEW c \in Calls, NEW a \in Agents, PickAgent(c, a), NEW b \in Agents
  PROVE  \/ Loosens(res[b], res'[b])
         \/ /\ b = a /\ res'[b].state = "reserved"
            /\ res'[b].call = c /\ res'[b].offer = wf[c].offer
            /\ wf[c].offer # NoOffer => Lively(res'[b])
<1>t. res \in [Agents -> GoodHash]
  BY DEF HashInv
<1> DEFINE g == Reserve(res[a], "inbound", c, wf[c].offer)
<1>1. res' = [res EXCEPT ![a] = g]
  BY DEF PickAgent
<1>2. CASE a # b
  BY <1>1, <1>2, <1>t DEF Loosens
<1>3. CASE a = b
  <2>1. /\ g.state = "reserved" /\ g.call = c /\ g.offer = wf[c].offer
        /\ wf[c].offer # NoOffer => Lively(g)
    BY DEF Reserve, Occupy, Lively
  <2>2. res'[b] = g
    BY <1>1, <1>3, <1>t
  <2> HIDE DEF g
  <2> QED BY <1>3, <2>1, <2>2
<1> QED BY <1>2, <1>3

\* Every step but the accept and the reservation loosens every hash.
LEMMA StepLoosens ==
  ASSUME HashInv, [Next]_vars,
         \A o \in Offers, t \in Tabs : ~EnterCall(o, t),
         \A c \in Calls, a \in Agents : ~PickAgent(c, a)
  PROVE  \A b \in Agents : Loosens(res[b], res'[b])
<1>1. CASE Next
  BY <1>1, WorkflowLoosens, HangupLoosens, RequestLoosens, AgentLoosens DEF Next
<1>2. CASE UNCHANGED vars
  BY <1>2, SameLoosens DEF vars
<1> QED BY <1>1, <1>2

\* At the start nobody is in a call.
LEMMA InitTalkInv == Init => TalkInv
<1> SUFFICES ASSUME Init PROVE TalkersWon
  BY InitWinInv DEF TalkInv
<1>1. \A a \in Agents : res[a].state = "idle"
  BY DEF Init, Free, Unoccupied, ResourceForVisible
<1> QED BY <1>1 DEF TalkersWon

\* Who is in a call was in it before, or has just accepted it.
LEMMA NextTalkInv == TalkInv /\ [Next]_vars => TalkInv'
<1> SUFFICES ASSUME TalkInv, [Next]_vars, NEW b \in Agents, res'[b].state = "in_call"
             PROVE  \E o \in Offers :
                      /\ CallOf[o] = res'[b].call /\ offered'[o] = b
                      /\ future'[o] \in Tabs /\ http'[o][future'[o]] = "won"
  BY NextWinInv DEF TalkInv, TalkersWon
<1>i. WinInv /\ HashInv
  BY DEF TalkInv, WinInv
<1>1. CASE Loosens(res[b], res'[b])
  <2>1. res[b].state = "in_call" /\ res'[b].call = res[b].call
    BY <1>1 DEF Loosens
  <2>2. PICK o \in Offers : /\ CallOf[o] = res[b].call /\ offered[o] = b
                            /\ future[o] \in Tabs /\ http[o][future[o]] = "won"
    BY <2>1 DEF TalkInv, TalkersWon
  <2>3. /\ offered'[o] = offered[o] /\ future'[o] = future[o]
        /\ http'[o][future'[o]] = "won"
    BY <2>2, <1>i, WonIsKept
  <2> QED BY <2>1, <2>2, <2>3
<1>2. CASE ~Loosens(res[b], res'[b])
  <2>1. ASSUME NEW c \in Calls, NEW a \in Agents, PickAgent(c, a) PROVE FALSE
    BY <2>1, <1>2, <1>i, PickAgentHash
  <2>2. PICK o \in Offers, t \in Tabs : EnterCall(o, t)
    BY <2>1, <1>2, <1>i, StepLoosens
  <2>3. b = offered[o] /\ http'[o][t] = "won" /\ res'[b].call = CallOf[o]
    BY <2>2, <1>2, <1>i, EnterCallHash
  <2>4. http[o][t] = "resolved" /\ future' = future /\ offered' = offered
    BY <2>2 DEF EnterCall, Step
  <2>5. future[o] = t
    BY <2>4, <1>i DEF WinInv, OneTabWins
  <2> QED BY <2>3, <2>4, <2>5
<1> QED BY <1>1, <1>2

\* No other process moves a workflow on.
LEMMA OthersKeepFlow ==
  ASSUME WinInv, [Next]_vars, \A c \in Calls : ~WorkflowStep(c), NEW c \in Calls
  PROVE  wf'[c].offer = wf[c].offer /\ wf'[c].agent = wf[c].agent /\ wf'[c].pc = wf[c].pc
<1>t. wf \in [Calls -> Flow]
  BY DEF WinInv, HashInv, TypeRest
<1>1. ASSUME NEW d \in Calls, CaptureWorkflow(d)
      PROVE  wf'[c].offer = wf[c].offer /\ wf'[c].agent = wf[c].agent /\ wf'[c].pc = wf[c].pc
  BY <1>1, <1>t DEF CaptureWorkflow, Flow
<1>2. CASE \A d \in Calls : ~CaptureWorkflow(d)
  <2>1. wf' = wf
    BY <1>2 DEF Next, vars, HangupStep, CallEnds, WithdrawOffer, ReleaseWithdrawn, SettleAgent,
       AcceptOffer, RejectOffer, RequestStep, Validate, ReleaseFailed, AbandonAccept,
       EnterCall, ReleaseRejected, LeaveReadyPool, DeliverAccept, DeliverFailure,
       DeliverReject, LeaseExpires, PollStep, PollReads, PollReleases, ChooseStatus
  <2> QED BY <2>1
<1> QED BY <1>1, <1>2

\* A decision that has been made is awaited no longer, and an offer that has not
\* been pushed cannot have been won.
LEMMA WonIsLetGoWhenPushed ==
  ASSUME WinInv, [Next]_vars, NEW c \in Calls, NEW o \in Offers,
         wf[c].offer = o, future[o] \in Tabs, LetsGo(c)
  PROVE  wf[c].pc = "pushed"
<1>t. /\ wf \in [Calls -> Flow] /\ o # NoOffer
      /\ future[o] \notin {"issued", "pending", "refused"}
  BY NoOfferAssumption, TabsAssumption DEF WinInv, HashInv, TypeRest
<1>f. wf[c].pc \notin {"queue", "picking", "holding", "picked"}
  BY <1>t DEF WinInv, OfferIsFresh
<1>1. CASE \A d \in Calls : ~WorkflowStep(d)
  BY <1>1, OthersKeepFlow DEF LetsGo
<1>3. ASSUME NEW d \in Calls \ {c}, WorkflowStep(d) PROVE FALSE
  <2>1. wf'[c] = wf[c]
    BY <1>3, <1>t
       DEF WorkflowStep, EnterAssignQueue, PickAgent, NoAgentFound, HoldCaller, StopHolding,
           PushOffer, PushFails, RingAgent, StartWaiting, Decided, OfferTimesOut, GiveUp,
           EndWorkflow, SetBridgedAgent, Bridge, AbortBridge, Goto
  <2> QED BY <2>1 DEF LetsGo
<1>2. CASE WorkflowStep(c)
  <2>1. CASE Decided(c) \/ OfferTimesOut(c) \/ GiveUp(c)
    BY <2>1, <1>t DEF Decided, OfferTimesOut, GiveUp, LetsGo, Flow
  <2>2. CASE StartWaiting(c) \/ EndWorkflow(c) \/ SetBridgedAgent(c) \/ Bridge(c)
             \/ AbortBridge(c)
    BY <2>2, <1>t DEF StartWaiting, EndWorkflow, SetBridgedAgent, Bridge, AbortBridge, Goto,
                      LetsGo, Flow
  <2> QED
    BY <1>2, <1>f, <2>1, <2>2
       DEF WorkflowStep, EnterAssignQueue, PickAgent, NoAgentFound, HoldCaller, StopHolding,
           PushOffer, PushFails, RingAgent
<1> QED BY <1>1, <1>2, <1>3

\* However accepts, rejects, withdrawals, leases and polls interleave, an agent is
\* in a call only if he won an offer of it, and a workflow lets a won offer go only
\* in mark_ringing, where an accept that was faster than it makes it fail.
THEOREM TalkingAgentAccepted == Spec => TalkingWasAccepted
<1>1. TalkInv => TalkersWon
  BY DEF TalkInv
<1>2. ASSUME TalkInv, [Next]_vars
      PROVE  [\A c \in Calls, o \in Offers :
                wf[c].offer = o /\ future[o] \in Tabs /\ LetsGo(c) => wf[c].pc = "pushed"]_vars
  BY <1>2, WonIsLetGoWhenPushed DEF TalkInv
<1> QED BY InitTalkInv, NextTalkInv, <1>1, <1>2, PTL DEF Spec, TalkingWasAccepted

-----------------------------------------------------------------------------
(* A ringing agent has a workflow: the two are undone by the same steps.    *)
(* It rests on the wrap-up: with none, an aborted bridge asks for "ready",  *)
(* which an agent who still rings is refused.                               *)

HeldInv == WinInv /\ HeldOfferIsLive

\* At the start nobody rings.
LEMMA InitHeldInv == Init => HeldInv
<1> SUFFICES ASSUME Init PROVE HeldOfferIsLive
  BY InitWinInv DEF HeldInv
<1>1. \A a \in Agents : res[a].offer = NoOffer
  BY DEF Init, Free, Unoccupied
<1> QED BY <1>1, NoOfferAssumption DEF HeldOfferIsLive

\* While the agent holds its offer a workflow stands by it, or takes it back.
LEMMA WorkflowStandsBy ==
  ASSUME HasWrapUp, HeldInv, NEW c \in Calls, WorkflowStep(c), NEW b \in Agents, NEW o \in Offers,
         res[b].offer = o, res'[b].offer = o
  PROVE  /\ wf'[CallOf[o]].offer = o /\ wf'[CallOf[o]].agent = b
         /\ wf'[CallOf[o]].pc \notin {"queue", "picking", "holding", "over"}
<1> DEFINE f == wf[CallOf[o]]
<1>t. /\ wf \in [Calls -> Flow] /\ res \in [Agents -> GoodHash]
      /\ CallOf[o] \in Calls
  BY CallOfAssumption DEF HeldInv, WinInv, HashInv, TypeRest
<1>h. /\ res[b].call = CallOf[o] /\ f.offer = o /\ f.agent = b
      /\ f.pc \notin {"queue", "picking", "holding", "over"}
  BY DEF HeldInv, HeldOfferIsLive
<1>f. o # NoOffer /\ res[b].state \in {"reserved", "ringing"}
  BY <1>t, NoOfferAssumption DEF GoodHash, WellFormed
<1>1. CASE c # CallOf[o]
  <2>1. wf'[CallOf[o]] = wf[CallOf[o]]
    BY <1>1, <1>t
       DEF WorkflowStep, EnterAssignQueue, PickAgent, NoAgentFound, HoldCaller, StopHolding,
           PushOffer, PushFails, RingAgent, StartWaiting, Decided, OfferTimesOut, GiveUp,
           EndWorkflow, SetBridgedAgent, Bridge, AbortBridge, Goto
  <2> QED BY <2>1, <1>h
<1>2. CASE c = CallOf[o]
  <2>1. CASE GiveUp(c)
    <3>1. Release(res[b], o, NoCall, FALSE).offer = NoOffer
      BY <1>f DEF Release, CanRelease, Free, Unoccupied
    <3>2. res'[b] = Release(res[b], o, NoCall, FALSE)
      BY <1>2, <2>1, <1>h, <1>t DEF GiveUp, ReleaseOffer
    <3> QED BY <3>1, <3>2, <1>f
  <2>2. CASE AbortBridge(c)
    <3>1. PostCall(res[b], c, HasWrapUp).offer = NoOffer
      BY <1>f, <1>h, <1>2
         DEF PostCall, CanMarkAfterCallWork, MarkAfterCallWork, Unoccupied
    <3>2. res'[b] = PostCall(res[b], c, HasWrapUp)
      BY <1>2, <2>2, <1>h, <1>t DEF AbortBridge
    <3> QED BY <3>1, <3>2, <1>f
  <2>3. CASE PushOffer(c) \/ PushFails(c) \/ RingAgent(c) \/ StartWaiting(c) \/ Decided(c)
             \/ OfferTimesOut(c) \/ SetBridgedAgent(c) \/ Bridge(c)
    <3>1. /\ wf'[c].offer = wf[c].offer /\ wf'[c].agent = wf[c].agent
          /\ wf'[c].pc \in {"pushed", "failing", "ringing", "waiting", "accepted",
                            "bridging", "bridged", "aborting"}
      BY <2>3, <1>t DEF PushOffer, PushFails, RingAgent, StartWaiting, Decided, OfferTimesOut,
                        SetBridgedAgent, Bridge, Goto, Flow
    <3> QED BY <3>1, <1>2, <1>h
  <2>4. ~(\/ \E p \in Offers : EnterAssignQueue(c, p)
          \/ \E a \in Agents : PickAgent(c, a)
          \/ NoAgentFound(c) \/ HoldCaller(c) \/ StopHolding(c) \/ EndWorkflow(c))
    BY <1>2, <1>h DEF EnterAssignQueue, PickAgent, NoAgentFound, HoldCaller, StopHolding,
                      EndWorkflow
  <2> QED BY <2>1, <2>2, <2>3, <2>4 DEF WorkflowStep
<1> QED BY <1>1, <1>2

\* One step, by whoever.
LEMMA NextHeldInv == HasWrapUp /\ HeldInv /\ [Next]_vars => HeldInv'
<1> SUFFICES ASSUME HasWrapUp, HeldInv, [Next]_vars,
                    NEW b \in Agents, NEW o \in Offers, res'[b].offer = o
             PROVE  /\ res'[b].call = CallOf[o]
                    /\ wf'[CallOf[o]].offer = o /\ wf'[CallOf[o]].agent = b
                    /\ wf'[CallOf[o]].pc \notin {"queue", "picking", "holding", "over"}
  BY NextWinInv DEF HeldInv, HeldOfferIsLive
<1>i. WinInv /\ HashInv /\ o # NoOffer /\ CallOf[o] \in Calls /\ wf \in [Calls -> Flow]
  BY NoOfferAssumption, CallOfAssumption DEF HeldInv, WinInv, HashInv, TypeRest
<1>1. CASE Loosens(res[b], res'[b])
  <2>1. res[b].offer = o /\ res'[b].call = res[b].call
    BY <1>1, <1>i DEF Loosens
  <2>2. /\ res[b].call = CallOf[o] /\ wf[CallOf[o]].offer = o /\ wf[CallOf[o]].agent = b
        /\ wf[CallOf[o]].pc \notin {"queue", "picking", "holding", "over"}
    BY <2>1 DEF HeldInv, HeldOfferIsLive
  <2>3. CASE \E c \in Calls : WorkflowStep(c)
    BY <2>1, <2>2, <2>3, WorkflowStandsBy
  <2>4. CASE \A c \in Calls : ~WorkflowStep(c)
    BY <2>1, <2>2, <2>4, <1>i, OthersKeepFlow
  <2> QED BY <2>3, <2>4
<1>2. CASE ~Loosens(res[b], res'[b])
  <2>1. ASSUME NEW p \in Offers, NEW t \in Tabs, EnterCall(p, t) PROVE FALSE
    BY <2>1, <1>2, <1>i, EnterCallHash
  <2>2. PICK c \in Calls, a \in Agents : PickAgent(c, a)
    BY <2>1, <1>2, <1>i, StepLoosens
  <2>3. b = a /\ res'[b].call = c /\ o = wf[c].offer
    BY <2>2, <1>2, <1>i, PickAgentHash
  <2>4. CallOf[o] = c
    BY <2>2, <2>3, <1>i DEF PickAgent, WinInv, OfferIsFresh
  <2>5. wf'[c].offer = wf[c].offer /\ wf'[c].agent = a /\ wf'[c].pc = "picked"
    BY <2>2, <1>i DEF PickAgent, Flow
  <2> QED BY <2>3, <2>4, <2>5
<1> QED BY <1>1, <1>2

\* In a tenant with a wrap-up no agent rings for a call nobody stands behind:
\* the workflow that offered it is still there to free him.
THEOREM RingingAgentHasWorkflow == ASSUME HasWrapUp PROVE Spec => []HeldOfferIsLive
<1>1. HeldInv => HeldOfferIsLive
  BY DEF HeldInv
<1>2. HeldInv /\ [Next]_vars => HeldInv'
  BY NextHeldInv
<1> QED BY InitHeldInv, <1>2, <1>1, PTL DEF Spec

-----------------------------------------------------------------------------
(* Whose step it is.  An offer is taken from its agent by its own workflow, *)
(* requests and hangup alone, because each of these names its own offer and *)
(* the poll, which names an offer it read earlier, read one that had run    *)
(* out and that nobody offers a second time.                                *)

\* An offer that has been made will not be offered to an agent again.
Spent(o) ==
  /\ future[o] # "none"
  /\ wf[CallOf[o]].offer = o => wf[CallOf[o]].pc \notin {"picking", "holding"}

\* A workflow and the hangup of its call work on an offer of that call.
OwnOffers ==
  \A c \in Calls :
    /\ wf[c].pc \notin {"queue", "over"} =>
         wf[c].offer \in Offers /\ CallOf[wf[c].offer] = c
    /\ wf[c].pending => wf[c].pc = "waiting"
    /\ hang[c].pc \in {"captured", "withdrawing"} =>
         hang[c].offer \in Offers /\ CallOf[hang[c].offer] = c

\* An agent is held for an offer of the call his hash names.
HeldOffers ==
  \A a \in Agents, o \in Offers :
    res[a].offer = o => res[a].call = CallOf[o] /\ Spent(o)

HashesLively == \A a \in Agents : Lively(res[a])

\* What a poll has read and not yet released can only be what has run out.
PollsAreLate ==
  \A a \in Agents :
    poll[a].due =>
      /\ poll[a].offer \in Offers
      /\ \A o \in Offers : poll[a].offer = o =>
           Spent(o) /\ (res[a].offer = o => Expired(res[a]))

OwnInv == WinInv /\ OwnOffers /\ HeldOffers /\ HashesLively /\ PollsAreLate

\* At the start nobody is held and no poll has read anything.
LEMMA InitOwnInv == Init => OwnInv
<1> SUFFICES ASSUME Init PROVE OwnInv
  OBVIOUS
<1>1. \A a \in Agents : res[a].offer = NoOffer /\ res[a].state = "idle"
  BY DEF Init, Free, Unoccupied, ResourceForVisible
<1>2. HeldOffers /\ HashesLively
  BY <1>1, NoOfferAssumption DEF HeldOffers, HashesLively, Lively
<1>3. OwnOffers /\ PollsAreLate
  BY DEF Init, OwnOffers, PollsAreLate, NoHangup, NoPoll
<1> QED BY <1>2, <1>3, InitWinInv DEF OwnInv

\* What a step of its workflow does to an offer that has been made.
LEMMA WorkflowKeepsSpent ==
  ASSUME WinInv, NEW c \in Calls, WorkflowStep(c), NEW o \in Offers, Spent(o)
  PROVE  Spent(o)'
<1>t. /\ wf \in [Calls -> Flow] /\ future \in [Offers -> FutureStates]
      /\ CallOf[o] \in Calls
  BY CallOfAssumption DEF WinInv, HashInv, TypeRest
<1>1. ASSUME NEW p \in Offers, EnterAssignQueue(c, p) PROVE Spent(o)'
  <2>1. p # o /\ future'[o] = future[o]
    BY <1>1, <1>t DEF EnterAssignQueue, Spent
  <2>2. wf'[c].offer = p /\ (c # CallOf[o] => wf'[CallOf[o]] = wf[CallOf[o]])
    BY <1>1, <1>t DEF EnterAssignQueue, Flow
  <2> QED BY <2>1, <2>2 DEF Spent
<1>2. ASSUME NEW a \in Agents, PickAgent(c, a) PROVE Spent(o)'
  BY <1>2, <1>t DEF PickAgent, Spent, Flow
<1>3. CASE NoAgentFound(c) \/ HoldCaller(c) \/ StopHolding(c)
  BY <1>3, <1>t DEF NoAgentFound, HoldCaller, StopHolding, Goto, Spent, Flow
<1>4. CASE PushOffer(c) \/ PushFails(c) \/ StartWaiting(c) \/ Decided(c) \/ SetBridgedAgent(c)
           \/ Bridge(c) \/ EndWorkflow(c) \/ AbortBridge(c)
  BY <1>4, <1>t DEF PushOffer, PushFails, StartWaiting, Decided, SetBridgedAgent, Bridge,
                    EndWorkflow, AbortBridge, Goto, Spent, Flow
<1>5. CASE RingAgent(c) \/ OfferTimesOut(c)
  <2>1. future'[o] # "none"
    BY <1>5, <1>t DEF RingAgent, OfferTimesOut, CancelOffer, Resolve, Spent
  <2>2. wf'[CallOf[o]].offer = o => wf'[CallOf[o]].pc \notin {"picking", "holding"}
    BY <1>5, <1>t DEF RingAgent, OfferTimesOut, Goto, Spent, Flow
  <2> QED BY <2>1, <2>2 DEF Spent
<1>6. CASE GiveUp(c)
  BY <1>6, <1>t DEF GiveUp, Spent, Flow
<1> QED BY <1>1, <1>2, <1>3, <1>4, <1>5, <1>6 DEF WorkflowStep

\* Nor do the others make it anew.
LEMMA SpentStays ==
  ASSUME WinInv, [Next]_vars, NEW o \in Offers, Spent(o)
  PROVE  Spent(o)'
<1>t. /\ future \in [Offers -> FutureStates] /\ CallOf[o] \in Calls
  BY CallOfAssumption DEF WinInv, HashInv, TypeRest
<1>1. CASE \E c \in Calls : WorkflowStep(c)
  BY <1>1, WorkflowKeepsSpent
<1>2. CASE \A c \in Calls : ~WorkflowStep(c)
  <2>1. /\ wf'[CallOf[o]].offer = wf[CallOf[o]].offer
        /\ wf'[CallOf[o]].pc = wf[CallOf[o]].pc
    BY <1>2, <1>t, OthersKeepFlow
  <2>r. ASSUME NEW p, NEW d, d # "none", Resolve(p, d) PROVE future'[o] # "none"
    BY <2>r, <1>t DEF Resolve, Spent
  <2>2. ASSUME NEW c \in Calls, HangupStep(c) \/ CallEnds(c) PROVE future'[o] # "none"
    BY <2>2, <2>r DEF HangupStep, CallEnds, CaptureWorkflow, WithdrawOffer, ReleaseWithdrawn,
                      SettleAgent, Spent
  <2>3. ASSUME NEW p \in Offers, NEW t \in Tabs,
               AcceptOffer(p, t) \/ RejectOffer(p, t) \/ RequestStep(p, t)
        PROVE  future'[o] # "none"
    <3>1. t # "none"
      BY TabsAssumption
    <3> QED
      BY <2>3, <2>r, <3>1
         DEF AcceptOffer, RejectOffer, RequestStep, Validate, ReleaseFailed, AbandonAccept,
             EnterCall, ReleaseRejected, LeaveReadyPool, DeliverAccept, DeliverFailure,
             DeliverReject, Deliver, Spent
  <2>4. CASE \/ \E a \in Agents : LeaseExpires(a) \/ PollStep(a)
             \/ \E a \in Agents, v \in {"ready", "break"} : ChooseStatus(a, v)
    BY <2>4 DEF LeaseExpires, PollStep, PollReads, PollReleases, ChooseStatus, Spent
  <2>5. CASE UNCHANGED vars
    BY <2>5 DEF vars, Spent
  <2>6. future'[o] # "none"
    BY <1>2, <2>2, <2>3, <2>4, <2>5 DEF Next, Spent
  <2> QED BY <2>1, <2>6 DEF Spent
<1> QED BY <1>1, <1>2

\* A workflow takes an offer of its own call, and keeps it as long as it works.
LEMMA NextOwnOffers == OwnInv /\ [Next]_vars => OwnOffers'
<1> SUFFICES ASSUME OwnInv, [Next]_vars, NEW d \in Calls
             PROVE  /\ wf'[d].pc \notin {"queue", "over"} =>
                          wf'[d].offer \in Offers /\ CallOf[wf'[d].offer] = d
                    /\ wf'[d].pending => wf'[d].pc = "waiting"
                    /\ hang'[d].pc \in {"captured", "withdrawing"} =>
                          hang'[d].offer \in Offers /\ CallOf[hang'[d].offer] = d
  BY DEF OwnOffers
<1> DEFINE FlowOwn == /\ wf'[d].pc \notin {"queue", "over"} =>
                           wf'[d].offer \in Offers /\ CallOf[wf'[d].offer] = d
                      /\ wf'[d].pending => wf'[d].pc = "waiting"
           HangOwn == hang'[d].pc \in {"captured", "withdrawing"} =>
                        hang'[d].offer \in Offers /\ CallOf[hang'[d].offer] = d
<1>t. wf \in [Calls -> Flow] /\ hang \in [Calls -> Hangup]
  BY DEF OwnInv, WinInv, HashInv, TypeRest
<1>o. /\ wf[d].pc \notin {"queue", "over"} => wf[d].offer \in Offers /\ CallOf[wf[d].offer] = d
      /\ wf[d].pending => wf[d].pc = "waiting"
      /\ hang[d].pc \in {"captured", "withdrawing"} =>
           hang[d].offer \in Offers /\ CallOf[hang[d].offer] = d
  BY DEF OwnInv, OwnOffers
<1>1. ASSUME NEW c \in Calls, WorkflowStep(c) PROVE FlowOwn /\ HangOwn
  <2>1. hang' = hang
    BY <1>1 DEF WorkflowStep, EnterAssignQueue, PickAgent, NoAgentFound, HoldCaller,
       StopHolding, PushOffer, PushFails, RingAgent, StartWaiting, Decided, OfferTimesOut,
       GiveUp, EndWorkflow, SetBridgedAgent, Bridge, AbortBridge
  <2>2. CASE c # d
    <3>1. wf'[d] = wf[d]
      BY <1>1, <2>2, <1>t
         DEF WorkflowStep, EnterAssignQueue, PickAgent, NoAgentFound, HoldCaller, StopHolding,
             PushOffer, PushFails, RingAgent, StartWaiting, Decided, OfferTimesOut, GiveUp,
             EndWorkflow, SetBridgedAgent, Bridge, AbortBridge, Goto
    <3> QED BY <2>1, <3>1, <1>o
  <2>3. CASE c = d
    <3>1. ASSUME NEW p \in Offers, EnterAssignQueue(c, p) PROVE FlowOwn
      BY <3>1, <2>3, <1>t, <1>o DEF EnterAssignQueue, Flow
    <3>2. ASSUME NEW a \in Agents, PickAgent(c, a) PROVE FlowOwn
      BY <3>2, <2>3, <1>t, <1>o DEF PickAgent, Flow
    <3>3. CASE NoAgentFound(c) \/ HoldCaller(c) \/ StopHolding(c) \/ EndWorkflow(c)
      BY <3>3, <2>3, <1>t, <1>o
         DEF NoAgentFound, HoldCaller, StopHolding, EndWorkflow, Goto, Flow
    <3>4. CASE PushOffer(c) \/ PushFails(c) \/ RingAgent(c) \/ StartWaiting(c)
      BY <3>4, <2>3, <1>t, <1>o DEF PushOffer, PushFails, RingAgent, StartWaiting, Goto, Flow
    <3>5. CASE Decided(c) \/ OfferTimesOut(c) \/ GiveUp(c)
      BY <3>5, <2>3, <1>t, <1>o DEF Decided, OfferTimesOut, GiveUp, Flow
    <3>6. CASE SetBridgedAgent(c) \/ Bridge(c) \/ AbortBridge(c)
      BY <3>6, <2>3, <1>t, <1>o DEF SetBridgedAgent, Bridge, AbortBridge, Goto, Flow
    <3> QED BY <1>1, <2>1, <1>o, <3>1, <3>2, <3>3, <3>4, <3>5, <3>6 DEF WorkflowStep
  <2> QED BY <2>2, <2>3
<1>2. ASSUME NEW c \in Calls, CaptureWorkflow(c) PROVE FlowOwn /\ HangOwn
  <2>1. CASE c # d
    <3>1. wf'[d] = wf[d] /\ hang'[d] = hang[d]
      BY <1>2, <2>1, <1>t DEF CaptureWorkflow
    <3> QED BY <3>1, <1>o
  <2>2. CASE c = d
    <3>1. FlowOwn
      BY <1>2, <2>2, <1>t, <1>o DEF CaptureWorkflow, Flow
    <3>2. HangOwn
      BY <1>2, <2>2, <1>t, <1>o DEF CaptureWorkflow, Hangup
    <3> QED BY <3>1, <3>2
  <2> QED BY <2>1, <2>2
<1>3. ASSUME NEW c \in Calls, WithdrawOffer(c) \/ ReleaseWithdrawn(c) \/ SettleAgent(c)
      PROVE  FlowOwn /\ HangOwn
  BY <1>3, <1>t, <1>o DEF WithdrawOffer, ReleaseWithdrawn, SettleAgent, NoHangup, Hangup
<1>4. CASE \A c \in Calls : ~WorkflowStep(c) /\ ~HangupStep(c)
  <2>1. wf' = wf /\ hang' = hang
    BY <1>4
       DEF Next, vars, CallEnds, AcceptOffer, RejectOffer, RequestStep, Validate,
           ReleaseFailed, AbandonAccept, EnterCall, ReleaseRejected, LeaveReadyPool,
           DeliverAccept, DeliverFailure, DeliverReject, LeaseExpires, PollStep, PollReads,
           PollReleases, ChooseStatus
  <2> QED BY <2>1, <1>o
<1> QED BY <1>1, <1>2, <1>3, <1>4 DEF HangupStep

\* A write keeps the offer it found or offers one that has just been taken.
LEMMA NextHeldOffers ==
  OwnInv /\ [Next]_vars => HeldOffers' /\ HashesLively'
<1> SUFFICES ASSUME OwnInv, [Next]_vars, NEW b \in Agents
             PROVE  /\ \A o \in Offers : res'[b].offer = o =>
                                          res'[b].call = CallOf[o] /\ Spent(o)'
                    /\ Lively(res'[b])
  BY DEF HeldOffers, HashesLively
<1>i. /\ WinInv /\ HashInv /\ wf \in [Calls -> Flow] /\ future \in [Offers -> FutureStates]
      /\ Lively(res[b])
  BY DEF OwnInv, WinInv, HashInv, TypeRest, HashesLively
<1>1. CASE Loosens(res[b], res'[b])
  <2>1. Lively(res'[b])
    BY <1>1, <1>i DEF Loosens
  <2>2. ASSUME NEW o \in Offers, res'[b].offer = o
        PROVE  res'[b].call = CallOf[o] /\ Spent(o)'
    <3>1. res[b].offer = o /\ res'[b].call = res[b].call
      BY <1>1, <2>2, NoOfferAssumption DEF Loosens
    <3>2. res[b].call = CallOf[o] /\ Spent(o)
      BY <3>1 DEF OwnInv, HeldOffers
    <3> QED BY <3>1, <3>2, <1>i, SpentStays
  <2> QED BY <2>1, <2>2
<1>2. ASSUME NEW p \in Offers, NEW t \in Tabs, EnterCall(p, t), ~Loosens(res[b], res'[b])
      PROVE  /\ \A o \in Offers : res'[b].offer # o
             /\ Lively(res'[b])
  BY <1>2, <1>i, EnterCallHash, NoOfferAssumption
<1>3. ASSUME NEW c \in Calls, NEW a \in Agents, PickAgent(c, a), ~Loosens(res[b], res'[b])
      PROVE  /\ \A o \in Offers : res'[b].offer = o =>
                                   res'[b].call = CallOf[o] /\ Spent(o)'
             /\ Lively(res'[b])
  <2>1. /\ res'[b].call = c /\ res'[b].offer = wf[c].offer
        /\ wf[c].offer # NoOffer => Lively(res'[b])
    BY <1>3, <1>i, PickAgentHash
  <2>2. /\ wf[c].offer \in Offers /\ CallOf[wf[c].offer] = c
        /\ future[wf[c].offer] = "issued"
    BY <1>3, <1>i DEF PickAgent, WinInv, OfferIsFresh
  <2>3. wf'[c].pc = "picked" /\ future' = future
    BY <1>3, <1>i DEF PickAgent, Flow
  <2>4. \A o \in Offers : o = wf[c].offer => Spent(o)'
    BY <2>2, <2>3 DEF Spent
  <2> QED BY <2>1, <2>2, <2>4, NoOfferAssumption
<1> QED BY <1>1, <1>2, <1>3, <1>i, StepLoosens

\* An offer a poll has read is not offered again, and not given more time.
LEMMA NextPollsAreLate == OwnInv /\ [Next]_vars => PollsAreLate'
<1> SUFFICES ASSUME OwnInv, [Next]_vars, NEW b \in Agents, poll'[b].due
             PROVE  /\ poll'[b].offer \in Offers
                    /\ \A o \in Offers : poll'[b].offer = o =>
                         Spent(o)' /\ (res'[b].offer = o => Expired(res'[b]))
  BY DEF PollsAreLate
<1>i. /\ WinInv /\ HashInv /\ wf \in [Calls -> Flow] /\ res \in [Agents -> GoodHash]
      /\ poll \in [Agents -> [offer : Offers \cup {NoOffer}, due : BOOLEAN]]
  BY DEF OwnInv, WinInv, HashInv, TypeRest
<1>1. CASE PollReads(b)
  <2>1. Expired(res[b]) /\ res' = res /\ poll'[b].offer = res[b].offer
    BY <1>1, <1>i DEF PollReads
  <2>2. res[b].offer \in Offers
    BY <2>1, <1>i
       DEF OwnInv, HashesLively, Lively, Expired, Occupied, ActiveStates, GoodHash, Hash
  <2>3. \A o \in Offers : o = res[b].offer => Spent(o)'
    BY <1>i, SpentStays DEF OwnInv, HeldOffers
  <2> QED BY <2>1, <2>2, <2>3
<1>2. CASE ~PollReads(b)
  <2>1. poll'[b] = poll[b]
    <3>1. \A a \in Agents : PollStep(a) => poll'[b] = poll[b]
      BY <1>2, <1>i DEF PollStep, PollReads, PollReleases, NoPoll
    <3>2. ASSUME NEW c \in Calls, WorkflowStep(c) PROVE poll' = poll
      BY <3>2 DEF WorkflowStep, EnterAssignQueue, PickAgent, NoAgentFound, HoldCaller,
         StopHolding, PushOffer, PushFails, RingAgent, StartWaiting, Decided, OfferTimesOut,
         GiveUp, EndWorkflow, SetBridgedAgent, Bridge, AbortBridge
    <3>3. ASSUME NEW p \in Offers, NEW t \in Tabs,
                 AcceptOffer(p, t) \/ RejectOffer(p, t) \/ RequestStep(p, t)
          PROVE  poll' = poll
      BY <3>3 DEF AcceptOffer, RejectOffer, RequestStep, Validate, ReleaseFailed,
         AbandonAccept, EnterCall, ReleaseRejected, LeaveReadyPool, DeliverAccept,
         DeliverFailure, DeliverReject
    <3>4. CASE \/ \E c \in Calls : HangupStep(c) \/ CallEnds(c)
               \/ \E a \in Agents : LeaseExpires(a)
               \/ \E a \in Agents, v \in {"ready", "break"} : ChooseStatus(a, v)
               \/ UNCHANGED vars
      BY <3>4 DEF HangupStep, CallEnds, CaptureWorkflow, WithdrawOffer, ReleaseWithdrawn,
         SettleAgent, LeaseExpires, ChooseStatus, vars
    <3> QED BY <3>1, <3>2, <3>3, <3>4 DEF Next
  <2> SUFFICES ASSUME NEW o \in Offers, poll[b].offer = o
               PROVE  Spent(o)' /\ (res'[b].offer = o => Expired(res'[b]))
    BY <2>1 DEF OwnInv, PollsAreLate
  <2>2. Spent(o) /\ (res[b].offer = o => Expired(res[b]))
    BY <2>1 DEF OwnInv, PollsAreLate
  <2>3. Spent(o)'
    BY <2>2, <1>i, SpentStays
  <2>4. ASSUME res'[b].offer = o PROVE Expired(res'[b])
    <3>1. CASE Loosens(res[b], res'[b])
      BY <3>1, <2>2, <2>4, NoOfferAssumption DEF Loosens
    <3>2. ASSUME NEW p \in Offers, NEW t \in Tabs, EnterCall(p, t), ~Loosens(res[b], res'[b])
          PROVE  FALSE
      BY <3>2, <2>2, <2>4, <1>i, EnterCallHash, NoOfferAssumption
    <3>3. ASSUME NEW c \in Calls, NEW a \in Agents, PickAgent(c, a), ~Loosens(res[b], res'[b])
          PROVE  FALSE
      <4>1. o = wf[c].offer
        BY <3>3, <2>4, <1>i, PickAgentHash
      <4>2. CallOf[o] = c /\ wf[c].pc = "picking"
        BY <3>3, <4>1, <1>i DEF PickAgent, WinInv, OfferIsFresh
      <4> QED BY <4>1, <4>2, <2>2 DEF Spent
    <3> QED BY <3>1, <3>2, <3>3, <1>i, StepLoosens
  <2> QED BY <2>3, <2>4
<1> QED BY <1>1, <1>2

\* OwnInv is inductive.
LEMMA NextOwnInv == OwnInv /\ [Next]_vars => OwnInv'
<1>1. OwnInv => WinInv
  BY DEF OwnInv
<1> QED BY <1>1, NextWinInv, NextOwnOffers, NextHeldOffers, NextPollsAreLate DEF OwnInv

LEMMA AlwaysOwnInv == Spec => []OwnInv
BY InitOwnInv, NextOwnInv, PTL DEF Spec

\* The release an offer is named in ends that offer and no other.
LEMMA ReleaseEndsItsOwn ==
  ASSUME res \in [Agents -> GoodHash], NEW a, NEW p \in Offers, ReleaseOffer(a, p),
         NEW b \in Agents, res'[b] # res[b]
  PROVE  b = a /\ res[b].offer = p /\ res[b].state # "in_call"
<1>1. b = a /\ res'[b] = Release(res[b], p, NoCall, FALSE)
  BY DEF ReleaseOffer
<1> QED BY <1>1, NoOfferAssumption DEF Release, CanRelease

\* An agent held for an offer that has not run out cannot choose a status.
LEMMA HeldKeepsStatus ==
  ASSUME NEW h \in GoodHash, h.offer # NoOffer, ~Expired(h), NEW v
  PROVE  ~CanSetVisible(h, v) /\ ~CanReserve(h, "inbound")
BY DEF GoodHash, WellFormed, CanSetVisible, CanReserve, Occupied, ActiveStates

\* After a call only an agent of that call, or of none, is settled.
LEMMA HeldIsSettledByItsOwn ==
  ASSUME NEW h \in GoodHash, h.offer # NoOffer, ~Expired(h), NEW c, h.call # c, NEW w
  PROVE  PostCall(h, c, w) = h
<1>1. h.call # NoCall
  BY DEF GoodHash, WellFormed, Occupied, ActiveStates
<1> QED BY <1>1, HeldKeepsStatus DEF PostCall, CanMarkAfterCallWork

\* A workflow that ends the offer an agent is held for is the offer's own.
LEMMA WorkflowEndsItsOwn ==
  ASSUME OwnInv, NEW c \in Calls, WorkflowStep(c), NEW b \in Agents, NEW o \in Offers,
         res[b].offer = o, ~Expired(res[b]), res'[b].offer # o
  PROVE  c = CallOf[o]
<1>t. /\ res \in [Agents -> GoodHash] /\ res[b] \in GoodHash /\ res[b].offer # NoOffer
      /\ res'[b] # res[b] /\ res[b].call = CallOf[o]
  BY NoOfferAssumption DEF OwnInv, WinInv, HashInv, HeldOffers
<1>1. ASSUME NEW a \in Agents, PickAgent(c, a) PROVE FALSE
  <2>1. a = b /\ CanReserve(res[b], "inbound")
    BY <1>1, <1>t DEF PickAgent
  <2> QED BY <2>1, <1>t, HeldKeepsStatus
<1>2. CASE RingAgent(c)
  <2>1. res'[b] = MarkRinging(res[b])
    BY <1>2, <1>t DEF RingAgent
  <2> QED BY <2>1 DEF MarkRinging, Occupy
<1>3. CASE GiveUp(c)
  <2>1. wf[c].offer \in Offers /\ CallOf[wf[c].offer] = c
    BY <1>3 DEF GiveUp, OwnInv, OwnOffers
  <2> QED BY <2>1, <1>3, <1>t, ReleaseEndsItsOwn DEF GiveUp
<1>4. CASE AbortBridge(c)
  <2>1. res'[b] = PostCall(res[b], c, HasWrapUp)
    BY <1>4, <1>t DEF AbortBridge
  <2> QED BY <2>1, <1>t, HeldIsSettledByItsOwn
<1>5. CASE ~(\/ RingAgent(c) \/ GiveUp(c) \/ AbortBridge(c)
             \/ \E a \in Agents : PickAgent(c, a))
  BY <1>5, <1>t
     DEF WorkflowStep, EnterAssignQueue, NoAgentFound, HoldCaller, StopHolding, PushOffer,
         PushFails, StartWaiting, Decided, OfferTimesOut, EndWorkflow, SetBridgedAgent, Bridge
<1> QED BY <1>1, <1>2, <1>3, <1>4, <1>5

\* So is a hangup.
LEMMA HangupEndsItsOwn ==
  ASSUME OwnInv, NEW c \in Calls, HangupStep(c) \/ CallEnds(c), NEW b \in Agents,
         NEW o \in Offers, res[b].offer = o, ~Expired(res[b]), res'[b].offer # o
  PROVE  HangupStep(CallOf[o])
<1>t. /\ res \in [Agents -> GoodHash] /\ res[b] \in GoodHash /\ res[b].offer # NoOffer
      /\ res'[b] # res[b] /\ res[b].call = CallOf[o]
  BY NoOfferAssumption DEF OwnInv, WinInv, HashInv, HeldOffers
<1>1. CASE ReleaseWithdrawn(c)
  <2>1. hang[c].offer \in Offers /\ CallOf[hang[c].offer] = c
    BY <1>1 DEF ReleaseWithdrawn, OwnInv, OwnOffers
  <2>2. CallOf[o] = c
    BY <2>1, <1>1, <1>t, ReleaseEndsItsOwn DEF ReleaseWithdrawn
  <2> QED BY <1>1, <2>2 DEF HangupStep
<1>2. CASE SettleAgent(c)
  <2>1. res'[b] = PostCall(res[b], c, HasWrapUp)
    BY <1>2, <1>t DEF SettleAgent
  <2>2. CallOf[o] = c
    BY <2>1, <1>t, HeldIsSettledByItsOwn
  <2> QED BY <1>2, <2>2 DEF HangupStep
<1>3. CASE CaptureWorkflow(c) \/ WithdrawOffer(c) \/ CallEnds(c)
  BY <1>3, <1>t DEF CaptureWorkflow, WithdrawOffer, CallEnds
<1> QED BY <1>1, <1>2, <1>3 DEF HangupStep

\* And a request: an accept, a refusal or a failure names its own offer.
LEMMA RequestEndsItsOwn ==
  ASSUME OwnInv, NEW p \in Offers, NEW t \in Tabs,
         AcceptOffer(p, t) \/ RejectOffer(p, t) \/ RequestStep(p, t), NEW b \in Agents,
         NEW o \in Offers, res[b].offer = o, ~Expired(res[b]), res'[b].offer # o
  PROVE  RequestStep(o, t)
<1>t. /\ res \in [Agents -> GoodHash] /\ res[b] \in GoodHash /\ res[b].offer # NoOffer
      /\ res'[b] # res[b]
  BY NoOfferAssumption DEF OwnInv, WinInv, HashInv
<1>1. CASE ReleaseFailed(p, t) \/ AbandonAccept(p, t) \/ ReleaseRejected(p, t)
  <2>1. p = o
    BY <1>1, <1>t, ReleaseEndsItsOwn DEF ReleaseFailed, AbandonAccept, ReleaseRejected
  <2> QED BY <1>1, <2>1 DEF RequestStep
<1>2. CASE EnterCall(p, t)
  <2>1. CanMarkInCall(res[b], p)
    BY <1>2, <1>t DEF EnterCall
  <2>2. p = o
    BY <2>1, <1>t, NoOfferAssumption DEF CanMarkInCall, GoodHash, WellFormed
  <2> QED BY <1>2, <2>2 DEF RequestStep
<1>3. CASE LeaveReadyPool(p, t)
  <2>1. CanSetVisible(res[b], "busy")
    BY <1>3, <1>t DEF LeaveReadyPool
  <2> QED BY <2>1, <1>t, HeldKeepsStatus
<1>4. CASE AcceptOffer(p, t) \/ RejectOffer(p, t) \/ DeliverFailure(p, t)
           \/ DeliverAccept(p, t) \/ DeliverReject(p, t)
  BY <1>4, <1>t
     DEF AcceptOffer, RejectOffer, Validate, DeliverFailure, DeliverAccept, DeliverReject
<1> QED BY <1>1, <1>2, <1>3, <1>4 DEF RequestStep

\* The lease, the poll and the agent himself end no offer that still runs.
LEMMA AgentEndsNone ==
  ASSUME OwnInv, NEW a \in Agents,
         \/ LeaseExpires(a) \/ PollStep(a)
         \/ \E v \in {"ready", "break"} : ChooseStatus(a, v),
         NEW b \in Agents, NEW o \in Offers, res[b].offer = o, ~Expired(res[b])
  PROVE  res'[b].offer = o
<1>t. /\ res \in [Agents -> GoodHash] /\ res[b] \in GoodHash /\ res[b].offer # NoOffer
      /\ res[b] \in Hash
  BY NoOfferAssumption DEF OwnInv, WinInv, HashInv, GoodHash
<1>1. CASE LeaseExpires(a)
  <2>1. res'[b] \in {res[b], [res[b] EXCEPT !.lease = "behind"]}
    BY <1>1, <1>t DEF LeaseExpires
  <2> QED BY <2>1, <1>t DEF Hash
<1>2. CASE PollReads(a)
  BY <1>2 DEF PollReads
<1>3. CASE PollReleases(a)
  <2>1. /\ poll[a].offer \in Offers /\ (poll[a].offer = o => a # b \/ Expired(res[b]))
    BY <1>3 DEF PollReleases, OwnInv, PollsAreLate
  <2>2. res'[b] = res[b]
    BY <2>1, <1>3, <1>t, ReleaseEndsItsOwn DEF PollReleases
  <2> QED BY <2>2
<1>4. ASSUME NEW v \in {"ready", "break"}, ChooseStatus(a, v) PROVE res'[b].offer = o
  <2>1. a # b
    BY <1>4, <1>t, HeldKeepsStatus DEF ChooseStatus
  <2>2. res'[b] = res[b]
    BY <2>1, <1>4, <1>t DEF ChooseStatus
  <2> QED BY <2>2
<1> QED BY <1>1, <1>2, <1>3, <1>4 DEF PollStep

\* However old the hash a poll has read, and whatever other calls, tabs and
\* status changes do meanwhile, an offer that still runs is taken from its agent
\* only by its workflow, its requests or the hangup of its call.
THEOREM OffersEndByTheirOwn == Spec => LiveOfferEndsByItsOwn
<1>1. ASSUME OwnInv, [Next]_vars
      PROVE  [\A a \in Agents, o \in Offers :
                /\ res[a].offer = o /\ ~Expired(res[a]) /\ res'[a].offer # o
                => \/ WorkflowStep(CallOf[o]) \/ HangupStep(CallOf[o])
                   \/ \E t \in Tabs : RequestStep(o, t)]_vars
  <2> SUFFICES ASSUME Next, NEW a \in Agents, NEW o \in Offers,
                      res[a].offer = o, ~Expired(res[a]), res'[a].offer # o
               PROVE  \/ WorkflowStep(CallOf[o]) \/ HangupStep(CallOf[o])
                      \/ \E t \in Tabs : RequestStep(o, t)
    BY <1>1
  <2>1. ASSUME NEW c \in Calls, WorkflowStep(c) PROVE WorkflowStep(CallOf[o])
    BY <1>1, <2>1, WorkflowEndsItsOwn
  <2>2. ASSUME NEW c \in Calls, HangupStep(c) \/ CallEnds(c) PROVE HangupStep(CallOf[o])
    BY <1>1, <2>2, HangupEndsItsOwn
  <2>3. ASSUME NEW p \in Offers, NEW t \in Tabs,
               AcceptOffer(p, t) \/ RejectOffer(p, t) \/ RequestStep(p, t)
        PROVE  RequestStep(o, t)
    BY <1>1, <2>3, RequestEndsItsOwn
  <2>4. ASSUME NEW b \in Agents,
               \/ LeaseExpires(b) \/ PollStep(b)
               \/ \E v \in {"ready", "break"} : ChooseStatus(b, v)
        PROVE  FALSE
    BY <1>1, <2>4, AgentEndsNone
  <2> QED BY <2>1, <2>2, <2>3, <2>4 DEF Next
<1> QED BY <1>1, AlwaysOwnInv, PTL DEF Spec, LiveOfferEndsByItsOwn

\* In a tenant with a wrap-up an agent who works on another call is left alone
\* by a late hangup and by an aborted bridge: both name their own call or offer.
THEOREM SettlingTouchesOwnCall == ASSUME HasWrapUp PROVE Spec => SettlesOwnCallOnly
<1>1. ASSUME OwnInv, [Next]_vars
      PROVE  [\A a \in Agents :
                Occupied(res[a]) /\ res'[a] # res[a] =>
                  \A c \in Calls \ {res[a].call} : ~HangupStep(c) /\ ~AbortBridge(c)]_vars
  <2> SUFFICES ASSUME NEW a \in Agents, Occupied(res[a]), res'[a] # res[a],
                      NEW c \in Calls, c # res[a].call, HangupStep(c) \/ AbortBridge(c)
               PROVE  FALSE
    OBVIOUS
  <2>t. /\ res \in [Agents -> GoodHash] /\ res[a] \in GoodHash /\ res[a].call # NoCall
    BY <1>1 DEF OwnInv, WinInv, HashInv, GoodHash, WellFormed
  <2>1. PostCall(res[a], c, HasWrapUp) = res[a]
    BY <2>t DEF PostCall, CanMarkAfterCallWork
  <2>2. CASE ReleaseWithdrawn(c)
    <3>1. hang[c].offer \in Offers /\ CallOf[hang[c].offer] = c
      BY <1>1, <2>2 DEF ReleaseWithdrawn, OwnInv, OwnOffers
    <3>2. res[a].offer = hang[c].offer
      BY <2>2, <2>t, <3>1, ReleaseEndsItsOwn DEF ReleaseWithdrawn
    <3> QED BY <1>1, <3>1, <3>2 DEF OwnInv, HeldOffers
  <2>3. CASE SettleAgent(c)
    BY <2>1, <2>3, <2>t DEF SettleAgent
  <2>4. CASE AbortBridge(c)
    BY <2>1, <2>4, <2>t DEF AbortBridge
  <2>5. CASE CaptureWorkflow(c) \/ WithdrawOffer(c)
    BY <2>5 DEF CaptureWorkflow, WithdrawOffer
  <2> QED BY <2>2, <2>3, <2>4, <2>5 DEF HangupStep
<1> QED BY <1>1, AlwaysOwnInv, PTL DEF Spec, SettlesOwnCallOnly
=============================================================================
