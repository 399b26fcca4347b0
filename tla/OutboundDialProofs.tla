------------------------- MODULE OutboundDialProofs -------------------------
(***************************************************************************)
(* Theorems about OutboundDial for every number of dials, with or without   *)
(* wrap-up and under all disturbances: types and the form of the hash, the  *)
(* records of calls that are over, and the reservations.                    *)
(***************************************************************************)
EXTENDS OutboundDial, AgentResourceProofs

CdrType == [state : {"none", "active", "ended"}, connected : BOOLEAN]
HangupType == [pc : HandlerStates, ours : BOOLEAN, answered : BOOLEAN]
PollType ==
  [pc : {"idle", "expired", "checking", "ghost"}, seen : ResourceStates \cup {"none"}]
ReconcileType ==
  [pc : {"idle", "asking", "scanning", "renewing", "freeing", "closing"},
   live : SUBSET Dials, complete : BOOLEAN, call : Calls \cup {NoCall}]

\* The types of the variables other than res.
CallTypes ==
  /\ dial \in [Dials -> DialStates]
  /\ kernel \in [Dials -> KernelStates]
  /\ cdr \in [Dials -> CdrType]
  /\ endMark \in [Dials -> BOOLEAN]
  /\ answer \in [Dials -> HandlerStates]
  /\ hangup \in [Dials -> HangupType]

HealerTypes ==
  /\ link \in BOOLEAN /\ session \in BOOLEAN
  /\ poll \in PollType
  /\ reconcile \in ReconcileType
  /\ sweep \in BOOLEAN /\ reset \in BOOLEAN

\* The hash keeps its form, and with it its type.
GoodRes == res \in GoodHash

HashInv == GoodRes /\ CallTypes /\ HealerTypes

\* HashInv is the type invariant together with HashWellFormed.
LEMMA HashInvIsBoth == HashInv <=> TypeOK /\ HashWellFormed
BY DEF HashInv, GoodRes, CallTypes, HealerTypes, CdrType, HangupType, PollType,
       ReconcileType, TypeOK, HashWellFormed, GoodHash

\* The disjuncts of a step, one by one.
LEMMA Steps ==
  ASSUME Next
  PROVE  \/ \E d \in Dials :
              \/ ReserveAgent(d) \/ Register(d) \/ OriginateFails(d) \/ BindCall(d)
              \/ CreateRecord(d) \/ FinalizeRecord(d)
              \/ KernelDials(d) \/ KernelAnswers(d) \/ KernelEnds(d)
              \/ AnswerSeen(d) \/ AgentInCall(d) \/ MarkAnswered(d)
              \/ HangupSeen(d) \/ CompleteRecord(d) \/ FreeDialer(d)
         \/ LinkBreaks \/ LinkReturns
         \/ PollReads \/ PollExpires \/ PollChecks \/ PollFrees
         \/ ListCalls \/ Scan \/ Renew \/ FreeStranded \/ CloseRecord
         \/ SweepLists \/ SweepFrees \/ ResetCloses \/ ResetFrees
         \/ LeaseExpires \/ WrapUpEnds \/ SessionChanges
         \/ \E v \in Choices : ChooseStatus(v)
BY DEF Next, DialStep, EventStep, PollStep, ReconcileStep, SweepStep

-----------------------------------------------------------------------------
(* The hash.                                                               *)

\* The steps of a dial and of its events.
LEMMA DialGoodRes ==
  ASSUME HashInv, NEW d \in Dials,
         \/ ReserveAgent(d) \/ OriginateFails(d) \/ BindCall(d)
         \/ AgentInCall(d) \/ FreeDialer(d)
  PROVE  GoodRes'
<1>1. /\ res \in GoodHash /\ ReservationOf[d] \in Calls /\ CallIdOf[d] \in Calls
  BY DialAssumption DEF HashInv, GoodRes
<1>2. CASE ReserveAgent(d)
  BY <1>1, <1>2, ReserveOutboundIsGood DEF ReserveAgent, GoodRes
<1>3. CASE OriginateFails(d)
  BY <1>1, <1>3, ReleaseIsGood DEF OriginateFails, GoodRes
<1>4. CASE BindCall(d)
  BY <1>1, <1>4, BindOutboundIsGood DEF BindCall, GoodRes
<1>5. CASE AgentInCall(d)
  <2>1. "outbound" \in Directions
    BY DEF Directions
  <2> QED BY <1>1, <1>5, <2>1, MarkInCallIsGood DEF AgentInCall, GoodRes
<1>6. CASE FreeDialer(d)
  <2>1. PostCall(res, CallIdOf[d], HasWrapUp) \in GoodHash
    BY <1>1, PostCallIsGood, WrapUpAssumption
  <2>2. Release(res, NoOffer, CallIdOf[d], FALSE) \in GoodHash
    BY <1>1, ReleaseIsGood
  <2> QED BY <1>1, <1>6, <2>1, <2>2 DEF FreeDialer, GoodRes
<1> QED BY <1>2, <1>3, <1>4, <1>5, <1>6

\* The poll, the reconcile, the sweep, the reset, the clocks and the agent.
LEMMA HealerGoodRes ==
  ASSUME HashInv,
         \/ PollExpires \/ PollFrees \/ Renew \/ FreeStranded \/ SweepFrees
         \/ ResetFrees \/ LeaseExpires \/ WrapUpEnds
         \/ \E v \in Choices : ChooseStatus(v)
  PROVE  GoodRes'
<1>1. res \in GoodHash /\ WellFormed(res)
  BY DEF HashInv, GoodRes, GoodHash
<1>2. CASE PollExpires
  BY <1>1, <1>2, ReleaseIsGood DEF PollExpires, GoodRes
<1>3. CASE PollFrees \/ ResetFrees \/ FreeStranded
  <2>1. res' = Release(res, NoOffer, NoCall, TRUE)
    BY <1>3 DEF PollFrees, ResetFrees, FreeStranded, ForceRelease
  <2> QED BY <1>1, <2>1, ReleaseIsGood DEF GoodRes
<1>4. CASE Renew
  BY <1>1, <1>4, RenewInCallIsGood DEF Renew, GoodRes
<1>5. CASE SweepFrees
  <2>1. SetVisible(res, "ready") \in GoodHash
    BY <1>1, SetVisibleIsGood DEF VisibleStatuses
  <2> QED BY <1>1, <1>5, <2>1 DEF SweepFrees, GoodRes
<1>6. CASE LeaseExpires
  <2>1. Occupied(res)
    BY <1>1, <1>6 DEF LeaseExpires, WellFormed
  <2> QED BY <1>1, <1>6, <2>1, LeaseEndIsGood DEF LeaseExpires, GoodRes
<1>7. CASE WrapUpEnds
  BY <1>1, <1>7, WrapEndIsGood DEF WrapUpEnds, GoodRes
<1>8. ASSUME NEW v \in Choices, ChooseStatus(v) PROVE GoodRes'
  <2>1. v \in VisibleStatuses
    BY ChoicesAssumption DEF VisibleStatuses
  <2> QED BY <1>1, <1>8, <2>1, SetVisibleIsGood DEF ChooseStatus, GoodRes
<1> QED BY <1>2, <1>3, <1>4, <1>5, <1>6, <1>7, <1>8

\* Every step leaves a good hash; most do not touch it.
LEMMA NextGoodRes ==
  ASSUME HashInv, [Next]_vars
  PROVE  GoodRes'
<1>1. ASSUME res' = res PROVE GoodRes'
  BY <1>1 DEF HashInv, GoodRes
<1>2. ASSUME NEW d \in Dials,
             \/ Register(d) \/ CreateRecord(d) \/ FinalizeRecord(d)
             \/ KernelDials(d) \/ KernelAnswers(d) \/ KernelEnds(d)
             \/ AnswerSeen(d) \/ MarkAnswered(d) \/ HangupSeen(d) \/ CompleteRecord(d)
      PROVE res' = res
  BY <1>2 DEF Register, CreateRecord, FinalizeRecord, KernelDials, KernelAnswers, KernelEnds,
              AnswerSeen, MarkAnswered, HangupSeen, CompleteRecord
<1>3. ASSUME \/ LinkBreaks \/ LinkReturns \/ PollReads \/ PollChecks \/ ListCalls \/ Scan
             \/ CloseRecord \/ SweepLists \/ ResetCloses \/ SessionChanges \/ UNCHANGED vars
      PROVE res' = res
  BY <1>3 DEF LinkBreaks, LinkReturns, PollReads, PollChecks, ListCalls, Scan, CloseRecord,
              SweepLists, ResetCloses, SessionChanges, vars
<1> QED BY <1>1, <1>2, <1>3, Steps, DialGoodRes, HealerGoodRes

-----------------------------------------------------------------------------
(* The other variables.                                                    *)

\* A dial request that moves on keeps its type.
LEMMA DialToTyped ==
  ASSUME CallTypes, NEW d \in Dials, NEW from, NEW to \in DialStates, DialTo(d, from, to)
  PROVE  dial' \in [Dials -> DialStates]
BY DEF DialTo, CallTypes

\* The steps of a dial and of its events.
LEMMA DialCallTypes ==
  ASSUME CallTypes, NEW d \in Dials,
         \/ ReserveAgent(d) \/ Register(d) \/ OriginateFails(d) \/ BindCall(d)
         \/ CreateRecord(d) \/ FinalizeRecord(d)
         \/ KernelDials(d) \/ KernelAnswers(d) \/ KernelEnds(d)
  PROVE  CallTypes'
<1>0. {"idle", "reserved", "failed", "placed", "bound", "recorded", "stored", "conflict"}
        \subseteq DialStates
  BY DEF DialStates, Registered
<1>1. cdr[d] \in CdrType /\ hangup[d] \in HangupType
  BY DEF CallTypes
<1>2. CASE ReserveAgent(d) \/ Register(d) \/ OriginateFails(d) \/ BindCall(d)
  <2>1. dial' \in [Dials -> DialStates]
    BY <1>0, <1>2, DialToTyped DEF ReserveAgent, Register, OriginateFails, BindCall
  <2>2. UNCHANGED <<kernel, cdr, endMark, answer, hangup>>
    BY <1>2 DEF ReserveAgent, Register, OriginateFails, BindCall
  <2> QED BY <2>1, <2>2 DEF CallTypes
<1>3. CASE CreateRecord(d)
  <2>1. dial' \in [Dials -> DialStates]
    BY <1>0, <1>3, DialToTyped DEF CreateRecord
  <2>2. [cdr[d] EXCEPT !.state = "active"] \in CdrType
    BY <1>1 DEF CdrType
  <2> QED BY <1>3, <2>1, <2>2 DEF CreateRecord, CallTypes
<1>4. CASE FinalizeRecord(d)
  <2>1. dial' \in [Dials -> DialStates]
    BY <1>0, <1>4, DialToTyped DEF FinalizeRecord
  <2>2. [cdr[d] EXCEPT !.state = "ended"] \in CdrType
    BY <1>1 DEF CdrType
  <2> QED BY <1>4, <2>1, <2>2 DEF FinalizeRecord, CallTypes
<1>5. CASE KernelDials(d) \/ KernelAnswers(d)
  BY <1>5 DEF KernelDials, KernelAnswers, CallTypes, KernelStates, HandlerStates
<1>6. CASE KernelEnds(d)
  <2>1. [hangup[d] EXCEPT !.pc = IF link THEN "event" ELSE "lost"] \in HangupType
    BY <1>1 DEF HangupType, HandlerStates
  <2> QED BY <1>6, <2>1 DEF KernelEnds, CallTypes, KernelStates
<1> QED BY <1>2, <1>3, <1>4, <1>5, <1>6

LEMMA EventCallTypes ==
  ASSUME CallTypes, NEW d \in Dials,
         \/ AnswerSeen(d) \/ AgentInCall(d) \/ MarkAnswered(d)
         \/ HangupSeen(d) \/ CompleteRecord(d) \/ FreeDialer(d)
  PROVE  CallTypes'
<1>1. cdr[d] \in CdrType /\ hangup[d] \in HangupType
  BY DEF CallTypes
<1>2. /\ [cdr[d] EXCEPT !.connected = TRUE] \in CdrType
      /\ [cdr[d] EXCEPT !.state = "ended"] \in CdrType
  BY <1>1 DEF CdrType
<1>3. CASE AnswerSeen(d) \/ AgentInCall(d) \/ MarkAnswered(d)
  <2>1. answer' \in [Dials -> HandlerStates]
    BY <1>3 DEF AnswerSeen, AgentInCall, MarkAnswered, Answering, CallTypes, HandlerStates
  <2>2. cdr' \in [Dials -> CdrType]
    BY <1>2, <1>3 DEF AnswerSeen, AgentInCall, MarkAnswered, Connect, CallTypes
  <2>3. UNCHANGED <<dial, kernel, endMark, hangup>>
    BY <1>3 DEF AnswerSeen, AgentInCall, MarkAnswered
  <2> QED BY <2>1, <2>2, <2>3 DEF CallTypes
<1>4. CASE HangupSeen(d)
  <2>1. \A b \in BOOLEAN : [hangup[d] EXCEPT !.pc = "read", !.ours = b] \in HangupType
    BY <1>1 DEF HangupType, HandlerStates
  <2>2. hangup' = [hangup EXCEPT ![d] =
            [hangup[d] EXCEPT !.pc = "read", !.ours = dial[d] \in Registered]]
    BY <1>4 DEF HangupSeen, CallTypes
  <2>3. (dial[d] \in Registered) = TRUE \/ (dial[d] \in Registered) = FALSE
    OBVIOUS
  <2>4. hangup' \in [Dials -> HangupType]
    BY <2>1, <2>2, <2>3 DEF CallTypes
  <2> QED BY <1>4, <2>4 DEF HangupSeen, CallTypes
<1>5. CASE CompleteRecord(d)
  <2>1. \A b \in BOOLEAN :
          [hangup[d] EXCEPT !.pc = "marked", !.answered = b] \in HangupType
    BY <1>1 DEF HangupType, HandlerStates
  <2>2. (cdr[d].state # "none" /\ cdr[d].connected) \in BOOLEAN
    OBVIOUS
  <2>3. [hangup[d] EXCEPT !.pc = "marked",
           !.answered = cdr[d].state # "none" /\ cdr[d].connected] \in HangupType
    BY <2>1, <2>2, Zenon
  <2> QED BY <1>2, <1>5, <2>3 DEF CompleteRecord, CallTypes
<1>6. CASE FreeDialer(d)
  <2>1. [hangup[d] EXCEPT !.pc = "done"] \in HangupType
    BY <1>1 DEF HangupType, HandlerStates
  <2> QED BY <1>6, <2>1 DEF FreeDialer, CallTypes
<1> QED BY <1>3, <1>4, <1>5, <1>6

\* Two healers close records; the others leave the calls alone.
LEMMA HealerCallTypes ==
  ASSUME CallTypes, CloseRecord \/ ResetCloses
  PROVE  CallTypes'
<1>1. \A d \in Dials : cdr[d] \in CdrType /\ [cdr[d] EXCEPT !.state = "ended"] \in CdrType
  BY DEF CallTypes, CdrType
<1> QED BY <1>1 DEF CloseRecord, ResetCloses, CallTypes

LEMMA NextHealerTypes ==
  ASSUME HashInv, Next
  PROVE  HealerTypes'
<1>1. HealerTypes /\ res \in Hash
  BY DEF HashInv, GoodRes, GoodHash
<1>2. CASE \E d \in Dials :
             \/ ReserveAgent(d) \/ Register(d) \/ OriginateFails(d) \/ BindCall(d)
             \/ CreateRecord(d) \/ FinalizeRecord(d)
             \/ KernelDials(d) \/ KernelAnswers(d) \/ KernelEnds(d)
             \/ AnswerSeen(d) \/ AgentInCall(d) \/ MarkAnswered(d)
             \/ HangupSeen(d) \/ CompleteRecord(d) \/ FreeDialer(d)
  <2>1. UNCHANGED <<link, session, poll, reconcile, sweep, reset>>
    BY <1>2 DEF healers, ReserveAgent, Register, OriginateFails, BindCall, CreateRecord,
                FinalizeRecord, KernelDials, KernelAnswers, KernelEnds, AnswerSeen,
                AgentInCall, MarkAnswered, HangupSeen, CompleteRecord, FreeDialer
  <2> QED BY <1>1, <2>1 DEF HealerTypes
<1>3. CASE LinkBreaks \/ LinkReturns \/ CloseRecord \/ Renew \/ FreeStranded
  <2>1. NoReconcile \in ReconcileType
    BY DEF NoReconcile, ReconcileType
  <2>2. /\ [reconcile EXCEPT !.pc = "asking"] \in ReconcileType
        /\ [reconcile EXCEPT !.pc = "closing"] \in ReconcileType
    BY <1>1 DEF HealerTypes, ReconcileType
  <2> QED BY <1>1, <1>3, <2>1, <2>2
          DEF LinkBreaks, LinkReturns, CloseRecord, Renew, FreeStranded, HealerTypes, healers
<1>4. CASE PollReads \/ PollExpires \/ PollChecks \/ PollFrees
  BY <1>1, <1>4 DEF PollReads, PollExpires, PollChecks, PollFrees, HealerTypes, PollType,
                    NoPoll, Hash
<1>5. CASE ListCalls
  BY <1>1, <1>5 DEF ListCalls, HealerTypes, ReconcileType
<1>6. CASE Scan
  <2>1. \A pc \in {"renewing", "freeing"} :
          [reconcile EXCEPT !.pc = pc, !.call = res.call] \in ReconcileType
    BY <1>1 DEF HealerTypes, ReconcileType, Hash
  <2>2. NoReconcile \in ReconcileType
    BY DEF NoReconcile, ReconcileType
  <2>3. \/ \E pc \in {"renewing", "freeing"} :
             reconcile' = [reconcile EXCEPT !.pc = pc, !.call = res.call]
        \/ reconcile' = NoReconcile
    BY <1>6 DEF Scan
  <2>4. reconcile' \in ReconcileType
    BY <2>1, <2>2, <2>3
  <2> QED BY <1>1, <1>6, <2>4 DEF Scan, HealerTypes
<1>7. CASE SweepLists \/ SweepFrees \/ ResetCloses \/ ResetFrees
  BY <1>1, <1>7 DEF SweepLists, SweepFrees, ResetCloses, ResetFrees, HealerTypes
<1>8. CASE LeaseExpires \/ WrapUpEnds \/ SessionChanges \/ \E v \in Choices : ChooseStatus(v)
  BY <1>1, <1>8 DEF LeaseExpires, WrapUpEnds, SessionChanges, ChooseStatus, HealerTypes, healers
<1> QED BY <1>2, <1>3, <1>4, <1>5, <1>6, <1>7, <1>8, Steps

LEMMA NextCallTypes ==
  ASSUME CallTypes, Next
  PROVE  CallTypes'
<1>1. CASE \/ LinkBreaks \/ LinkReturns
           \/ PollReads \/ PollExpires \/ PollChecks \/ PollFrees
           \/ ListCalls \/ Scan \/ Renew \/ FreeStranded
           \/ SweepLists \/ SweepFrees \/ ResetFrees
           \/ LeaseExpires \/ WrapUpEnds \/ SessionChanges
           \/ \E v \in Choices : ChooseStatus(v)
  <2>1. UNCHANGED calls
    BY <1>1 DEF LinkBreaks, LinkReturns, PollReads, PollExpires, PollChecks, PollFrees,
                ListCalls, Scan, Renew, FreeStranded, SweepLists, SweepFrees, ResetFrees,
                LeaseExpires, WrapUpEnds, SessionChanges, ChooseStatus
  <2> QED BY <2>1 DEF calls, CallTypes
<1> QED BY <1>1, Steps, DialCallTypes, EventCallTypes, HealerCallTypes

-----------------------------------------------------------------------------
(* Types and the form of the hash, for ever.                                *)

LEMMA InitHashInv == Init => HashInv
<1> SUFFICES ASSUME Init PROVE HashInv
  OBVIOUS
<1>1. GoodRes
  BY FreeIsGood DEF Init, GoodRes, VisibleStatuses
<1>2. CallTypes
  BY DEF Init, CallTypes, CdrType, HangupType, DialStates, KernelStates, HandlerStates
<1>3. HealerTypes
  BY DEF Init, HealerTypes, PollType, ReconcileType, NoPoll, NoReconcile
<1> QED BY <1>1, <1>2, <1>3 DEF HashInv

LEMMA NextHashInv == HashInv /\ [Next]_vars => HashInv'
<1> SUFFICES ASSUME HashInv, [Next]_vars PROVE HashInv'
  OBVIOUS
<1>1. GoodRes'
  BY NextGoodRes
<1>2. CASE Next
  BY <1>1, <1>2, NextCallTypes, NextHealerTypes DEF HashInv
<1>3. CASE UNCHANGED vars
  BY <1>1, <1>3 DEF HashInv, CallTypes, HealerTypes, vars, calls, healers
<1> QED BY <1>2, <1>3

LEMMA HashInvHolds == Spec => []HashInv
BY InitHashInv, NextHashInv, PTL DEF Spec

\* Every variable keeps its type under any interleaving of the dial requests,
\* the event handlers and the healers.
THEOREM TypeCorrect == Spec => []TypeOK
BY HashInvHolds, HashInvIsBoth, PTL

\* Whoever writes last, a dial, an event, the poll, the reconcile, the sweep or
\* the reset, the hash reads consistently.
THEOREM HashStaysWellFormed == Spec => []HashWellFormed
BY HashInvHolds, HashInvIsBoth, PTL

-----------------------------------------------------------------------------
(* Call records.                                                           *)

\* A record is written by the dial's background task only.
RecordHasWriter ==
  \A d \in Dials : dial[d] \notin {"recorded", "stored"} => cdr[d].state = "none"

\* The hangup handler remembers the end before it looks for the record,
HangupIsRemembered ==
  \A d \in Dials : hangup[d].pc \in {"read", "marked", "done"} => endMark[d]

\* so that whichever of the two comes second finds what the first one left.
SeenHangupCloses ==
  \A d \in Dials :
    dial[d] = "stored" /\ hangup[d].pc \in {"marked", "done"} => cdr[d].state # "active"

RecordInv == RecordHasWriter /\ HangupIsRemembered /\ SeenHangupCloses

LEMMA RecordInvGivesNoZombie == RecordInv => NoZombieRecord
BY DEF RecordInv, RecordHasWriter, SeenHangupCloses, NoZombieRecord

\* A step that leaves the dials, the marks and the handlers alone and closes
\* at most some records.
LEMMA ClosingKeepsRecordInv ==
  ASSUME CallTypes, RecordInv, UNCHANGED <<dial, endMark, hangup>>,
         \A d \in Dials : cdr'[d].state \in {cdr[d].state, "ended"},
         \A d \in Dials : cdr[d].state = "none" => cdr'[d].state = "none"
  PROVE  RecordInv'
BY DEF RecordInv, RecordHasWriter, HangupIsRemembered, SeenHangupCloses

LEMMA NextRecordInv == HashInv /\ RecordInv /\ [Next]_vars => RecordInv'
<1> SUFFICES ASSUME HashInv, RecordInv, [Next]_vars PROVE RecordInv'
  OBVIOUS
<1> USE DEF RecordInv, RecordHasWriter, HangupIsRemembered, SeenHangupCloses
<1>t. CallTypes
  BY DEF HashInv
<1>1. ASSUME UNCHANGED <<dial, cdr, endMark, hangup>> PROVE RecordInv'
  BY <1>1
<1>2. CASE \E d \in Dials : KernelDials(d) \/ KernelAnswers(d) \/ AgentInCall(d)
  BY <1>1, <1>2 DEF KernelDials, KernelAnswers, AgentInCall
<1>3. CASE \/ LinkBreaks \/ LinkReturns
           \/ PollReads \/ PollExpires \/ PollChecks \/ PollFrees
           \/ ListCalls \/ Scan \/ Renew \/ FreeStranded
           \/ SweepLists \/ SweepFrees \/ ResetFrees
           \/ LeaseExpires \/ WrapUpEnds \/ SessionChanges
           \/ \E v \in Choices : ChooseStatus(v)
  BY <1>1, <1>3 DEF LinkBreaks, LinkReturns, PollReads, PollExpires, PollChecks, PollFrees,
                    ListCalls, Scan, Renew, FreeStranded, SweepLists, SweepFrees, ResetFrees,
                    LeaseExpires, WrapUpEnds, SessionChanges, ChooseStatus, calls
<1>4. ASSUME NEW d \in Dials,
             ReserveAgent(d) \/ Register(d) \/ OriginateFails(d) \/ BindCall(d)
      PROVE RecordInv'
  <2>1. UNCHANGED <<cdr, endMark, hangup>>
    BY <1>4 DEF ReserveAgent, Register, OriginateFails, BindCall
  <2>2. PICK to \in {"reserved", "placed", "failed", "bound", "conflict"} :
          dial' = [dial EXCEPT ![d] = to] /\ dial[d] \notin {"recorded", "stored"}
    BY <1>4 DEF ReserveAgent, Register, OriginateFails, BindCall, DialTo
  <2> QED BY <1>t, <2>1, <2>2 DEF CallTypes
<1>5. ASSUME NEW d \in Dials, CreateRecord(d) PROVE RecordInv'
  BY <1>t, <1>5 DEF CreateRecord, DialTo, CallTypes, CdrType
<1>6. ASSUME NEW d \in Dials, FinalizeRecord(d) PROVE RecordInv'
  BY <1>t, <1>6 DEF FinalizeRecord, DialTo, CallTypes, CdrType
<1>7. ASSUME NEW d \in Dials, AnswerSeen(d) \/ MarkAnswered(d) PROVE RecordInv'
  <2>1. \A e \in Dials : cdr'[e].state = cdr[e].state
    <3>1. [cdr[d] EXCEPT !.connected = TRUE].state = cdr[d].state
      BY <1>t DEF CallTypes, CdrType
    <3>2. cdr' = cdr \/ cdr' = [cdr EXCEPT ![d] = [cdr[d] EXCEPT !.connected = TRUE]]
      BY <1>t, <1>7 DEF AnswerSeen, MarkAnswered, Connect, CallTypes
    <3> QED BY <1>t, <3>1, <3>2 DEF CallTypes
  <2>2. UNCHANGED <<dial, endMark, hangup>>
    BY <1>7 DEF AnswerSeen, MarkAnswered
  <2> QED BY <1>t, <2>1, <2>2, ClosingKeepsRecordInv
<1>8. ASSUME NEW d \in Dials, KernelEnds(d) \/ HangupSeen(d) PROVE RecordInv'
  <2>1. CASE KernelEnds(d)
    <3>1. hangup'[d].pc \in {"event", "lost"}
      BY <1>t, <2>1 DEF KernelEnds, CallTypes, HangupType
    <3>2. \A e \in Dials \ {d} : hangup'[e] = hangup[e]
      BY <1>t, <2>1 DEF KernelEnds, CallTypes
    <3> QED BY <2>1, <3>1, <3>2 DEF KernelEnds
  <2>2. CASE HangupSeen(d)
    <3>1. hangup'[d].pc = "read" /\ endMark'[d]
      BY <1>t, <2>2 DEF HangupSeen, CallTypes, HangupType
    <3>2. \A e \in Dials \ {d} : hangup'[e] = hangup[e] /\ endMark'[e] = endMark[e]
      BY <1>t, <2>2 DEF HangupSeen, CallTypes
    <3> QED BY <2>2, <3>1, <3>2 DEF HangupSeen
  <2> QED BY <1>8, <2>1, <2>2
<1>9. ASSUME NEW d \in Dials, CompleteRecord(d) PROVE RecordInv'
  BY <1>t, <1>9 DEF CompleteRecord, CallTypes, CdrType, HangupType
<1>10. ASSUME NEW d \in Dials, FreeDialer(d) PROVE RecordInv'
  BY <1>t, <1>10 DEF FreeDialer, CallTypes, HangupType
<1>11. CASE CloseRecord \/ ResetCloses
  <2>1. /\ \A d \in Dials : cdr'[d].state \in {cdr[d].state, "ended"}
        /\ \A d \in Dials : cdr[d].state = "none" => cdr'[d].state = "none"
    BY <1>t, <1>11 DEF CloseRecord, ResetCloses, CallTypes, CdrType
  <2>2. UNCHANGED <<dial, endMark, hangup>>
    BY <1>11 DEF CloseRecord, ResetCloses
  <2> QED BY <1>t, <2>1, <2>2, ClosingKeepsRecordInv
<1>12. CASE UNCHANGED vars
  BY <1>1, <1>12 DEF vars, calls
<1> QED BY <1>2, <1>3, <1>4, <1>5, <1>6, <1>7, <1>8, <1>9, <1>10, <1>11, <1>12, Steps

\* Whether the background write or the hangup comes first, and whatever heals
\* in between, the record of a call that is over does not stay active.
THEOREM NoRecordOutlivesItsCall == Spec => []NoZombieRecord
<1>1. Init => RecordInv
  BY DEF Init, RecordInv, RecordHasWriter, HangupIsRemembered, SeenHangupCloses
<1> QED BY <1>1, HashInvHolds, NextRecordInv, RecordInvGivesNoZombie, PTL DEF Spec

-----------------------------------------------------------------------------
(* Reservations.                                                           *)

\* A reservation is still only that: what takes the agent further, an answer
\* or the binding, writes the call's own id.
ReservationInv ==
  \A d \in Dials :
    res.call = ReservationOf[d] =>
      res.state = "reserved" /\ dial[d] \in {"reserved", "placed"}

\* What every write but a new reservation does to the call in the hash.
Settles(h, g) ==
  \/ g.call = NoCall
  \/ \E d \in Dials : g.call = CallIdOf[d]
  \/ g.call = h.call /\ g.state = h.state

LEMMA ReleaseSettles ==
  ASSUME NEW h, NEW o, NEW c, NEW allow
  PROVE  Settles(h, Release(h, o, c, allow))
BY DEF Settles, Release, Free, Unoccupied

LEMMA SetVisibleSettles ==
  ASSUME NEW h, NEW v, CanSetVisible(h, v)
  PROVE  Settles(h, SetVisible(h, v))
<1>1. CASE Occupied(h) /\ ~Expired(h)
  <2>1. h.state = "in_call"
    BY <1>1 DEF CanSetVisible
  <2>2. SetVisible(h, v).call = h.call /\ SetVisible(h, v).state = "in_call"
    BY <1>1 DEF SetVisible, Occupy
  <2> QED BY <2>1, <2>2 DEF Settles
<1>2. CASE ~(Occupied(h) /\ ~Expired(h))
  BY <1>2 DEF SetVisible, Settles, Free, Unoccupied
<1> QED BY <1>1, <1>2

LEMMA PostCallSettles ==
  ASSUME NEW h, NEW c
  PROVE  Settles(h, PostCall(h, c, HasWrapUp))
<1>1. Settles(h, h)
  BY DEF Settles
<1>2. Settles(h, MarkAfterCallWork(h, c))
  BY <1>1 DEF MarkAfterCallWork, Unoccupied, Settles
<1> QED BY <1>1, <1>2, SetVisibleSettles DEF PostCall

LEMMA MarkInCallSettles ==
  ASSUME NEW h \in Hash, NEW d \in Dials
  PROVE  Settles(h, MarkInCall(h, CallIdOf[d], "outbound"))
<1>1. CASE h.state = "in_call"
  <2>1. /\ MarkInCall(h, CallIdOf[d], "outbound").call = h.call
        /\ MarkInCall(h, CallIdOf[d], "outbound").state = h.state
    BY <1>1 DEF MarkInCall, Hash
  <2> QED BY <2>1 DEF Settles
<1>2. CASE h.state # "in_call"
  BY <1>2 DEF MarkInCall, Occupy, Settles
<1> QED BY <1>1, <1>2

\* A write of one of these kinds by a step that moves no dial.
LEMMA SettlingKeepsReservationInv ==
  ASSUME ReservationInv, Settles(res, res'), UNCHANGED dial
  PROVE  ReservationInv'
BY DialAssumption, NoCallAssumption DEF ReservationInv, Settles

LEMMA NextReservationInv == HashInv /\ ReservationInv /\ [Next]_vars => ReservationInv'
<1> SUFFICES ASSUME HashInv, ReservationInv, [Next]_vars PROVE ReservationInv'
  OBVIOUS
<1>t. CallTypes /\ res \in Hash
  BY DEF HashInv, GoodRes, GoodHash
<1>1. ASSUME UNCHANGED <<res, dial>> PROVE ReservationInv'
  BY <1>1 DEF ReservationInv
<1>2. ASSUME NEW d \in Dials, ReserveAgent(d) PROVE ReservationInv'
  <2>1. res'.call = ReservationOf[d] /\ res'.state = "reserved"
    BY <1>2 DEF ReserveAgent, Reserve, Occupy
  <2>2. dial'[d] = "reserved"
    BY <1>2, <1>t DEF ReserveAgent, DialTo, CallTypes
  <2> QED BY <2>1, <2>2, DialAssumption DEF ReservationInv
<1>3. ASSUME NEW d \in Dials, OriginateFails(d) PROVE ReservationInv'
  <2>1. \A e \in Dials \ {d} : dial'[e] = dial[e]
    BY <1>3, <1>t DEF OriginateFails, DialTo, CallTypes
  <2>2. res' = Release(res, NoOffer, ReservationOf[d], FALSE)
    BY <1>3 DEF OriginateFails
  <2>3. CASE res.call = ReservationOf[d]
    <3>1. CanRelease(res, NoOffer, ReservationOf[d], FALSE)
      BY <2>3 DEF CanRelease, ReservationInv
    <3>2. res'.call = NoCall
      BY <2>2, <3>1 DEF Release, Free, Unoccupied
    <3> QED BY <3>2, DialAssumption, NoCallAssumption DEF ReservationInv
  <2>4. CASE res.call # ReservationOf[d]
    <3>1. Settles(res, res')
      BY <2>2, ReleaseSettles
    <3> QED BY <2>1, <2>4, <3>1, DialAssumption, NoCallAssumption DEF ReservationInv, Settles
  <2> QED BY <2>3, <2>4
<1>4. ASSUME NEW d \in Dials, BindCall(d) PROVE ReservationInv'
  <2>1. \A e \in Dials \ {d} : dial'[e] = dial[e]
    BY <1>4, <1>t DEF BindCall, DialTo, CallTypes
  <2>2. res'.call = CallIdOf[d] \/ (res' = res /\ res.call # ReservationOf[d])
    BY <1>4 DEF BindCall, CanBindOutbound, BindOutbound, Occupy
  <2> QED BY <2>1, <2>2, DialAssumption DEF ReservationInv
<1>5. ASSUME NEW d \in Dials, Register(d) \/ CreateRecord(d) \/ FinalizeRecord(d)
      PROVE ReservationInv'
  <2>1. /\ res' = res
        /\ \A e \in Dials \ {d} : dial'[e] = dial[e]
        /\ dial[d] \in {"reserved", "placed"} => dial'[d] = "placed"
    BY <1>5, <1>t DEF Register, CreateRecord, FinalizeRecord, DialTo, CallTypes
  <2> QED BY <2>1 DEF ReservationInv
<1>6. ASSUME NEW d \in Dials, AgentInCall(d) \/ FreeDialer(d) PROVE ReservationInv'
  <2>1. Settles(res, res)
    BY DEF Settles
  <2>2. CASE AgentInCall(d)
    <3>1. Settles(res, res')
      BY <1>t, <2>1, <2>2, MarkInCallSettles DEF AgentInCall
    <3> QED BY <2>2, <3>1, SettlingKeepsReservationInv DEF AgentInCall
  <2>3. CASE FreeDialer(d)
    <3>1. Settles(res, res')
      BY <2>1, <2>3, PostCallSettles, ReleaseSettles DEF FreeDialer
    <3> QED BY <2>3, <3>1, SettlingKeepsReservationInv DEF FreeDialer
  <2> QED BY <1>6, <2>2, <2>3
<1>7. CASE PollExpires \/ PollFrees \/ FreeStranded \/ ResetFrees
  <2>1. Settles(res, res')
    BY <1>7, ReleaseSettles DEF PollExpires, PollFrees, FreeStranded, ResetFrees, ForceRelease
  <2>2. UNCHANGED dial
    BY <1>7 DEF PollExpires, PollFrees, FreeStranded, ResetFrees, calls
  <2> QED BY <2>1, <2>2, SettlingKeepsReservationInv
<1>8. CASE SweepFrees \/ \E v \in Choices : ChooseStatus(v)
  <2>1. Settles(res, res)
    BY DEF Settles
  <2>2. Settles(res, res')
    BY <1>8, <2>1, SetVisibleSettles DEF SweepFrees, ChooseStatus
  <2>3. UNCHANGED dial
    BY <1>8 DEF SweepFrees, ChooseStatus, calls
  <2> QED BY <2>2, <2>3, SettlingKeepsReservationInv
<1>9. CASE Renew \/ LeaseExpires \/ WrapUpEnds
  <2>1. res'.call = res.call /\ res'.state = res.state
    BY <1>9, <1>t DEF Renew, RenewInCall, LeaseExpires, WrapUpEnds, Hash
  <2>2. UNCHANGED dial
    BY <1>9 DEF Renew, LeaseExpires, WrapUpEnds, calls
  <2> QED BY <2>1, <2>2, SettlingKeepsReservationInv DEF Settles
<1>10. CASE \E d \in Dials :
              \/ KernelDials(d) \/ KernelAnswers(d) \/ KernelEnds(d) \/ AnswerSeen(d)
              \/ MarkAnswered(d) \/ HangupSeen(d) \/ CompleteRecord(d)
  BY <1>1, <1>10 DEF KernelDials, KernelAnswers, KernelEnds, AnswerSeen, MarkAnswered,
                     HangupSeen, CompleteRecord
<1>11. CASE \/ LinkBreaks \/ LinkReturns \/ PollReads \/ PollChecks \/ ListCalls \/ Scan
            \/ CloseRecord \/ SweepLists \/ ResetCloses \/ SessionChanges \/ UNCHANGED vars
  BY <1>1, <1>11 DEF LinkBreaks, LinkReturns, PollReads, PollChecks, ListCalls, Scan,
                     CloseRecord, SweepLists, ResetCloses, SessionChanges, vars, calls
<1> QED BY <1>2, <1>3, <1>4, <1>5, <1>6, <1>7, <1>8, <1>9, <1>10, <1>11, Steps

\* An agent reserved for a dial has that dial's request at work, which will bind
\* the reservation or give it back; no path through the request forgets it.
THEOREM ReservationsAreAnswered == Spec => []ReservationHasRequest
<1>1. Init => ReservationInv
  BY DialAssumption, NoCallAssumption DEF Init, Free, Unoccupied, ReservationInv
<1>2. ReservationInv => ReservationHasRequest
  BY DEF ReservationInv, ReservationHasRequest
<1> QED BY <1>1, <1>2, HashInvHolds, NextReservationInv, PTL DEF Spec

-----------------------------------------------------------------------------
(* Wrap-ups.  The hangup handler decides by the record whether the call was *)
(* answered, and the record knows it from the handlers of the answer.       *)

AnsweredHandled ==
  \A d \in Dials :
    /\ hangup[d].pc # "none" => kernel[d] = "gone"
    /\ cdr[d].connected \/ hangup[d].answered => answer[d] # "none"

WrapUpInv == AnsweredHandled /\ WrapUpFollowsCall

\* A write that starts no wrap-up.
KeepsWrapUp(h, g) == g.wrapCall = NoCall \/ g.wrapCall = h.wrapCall

LEMMA ReleaseKeepsWrapUp ==
  ASSUME NEW h, NEW o, NEW c, NEW allow
  PROVE  KeepsWrapUp(h, Release(h, o, c, allow))
BY DEF KeepsWrapUp, Release, Free, Unoccupied

LEMMA SetVisibleKeepsWrapUp ==
  ASSUME NEW h, NEW v
  PROVE  KeepsWrapUp(h, SetVisible(h, v))
<1>1. CASE Occupied(h) /\ ~Expired(h)
  <2>1. SetVisible(h, v).wrapCall = NoCall
    BY <1>1 DEF SetVisible, Occupy
  <2> QED BY <2>1 DEF KeepsWrapUp
<1>2. CASE ~(Occupied(h) /\ ~Expired(h))
  BY <1>2 DEF SetVisible, KeepsWrapUp, Free, Unoccupied
<1> QED BY <1>1, <1>2

\* The after-call status starts a wrap-up of the call it is called for.
LEMMA PostCallWrapsOwn ==
  ASSUME NEW h, NEW c
  PROVE  LET g == PostCall(h, c, HasWrapUp) IN KeepsWrapUp(h, g) \/ g.wrapCall = c
<1>1. KeepsWrapUp(h, h)
  BY DEF KeepsWrapUp
<1>2. MarkAfterCallWork(h, c).wrapCall = c
  BY DEF MarkAfterCallWork, Unoccupied
<1> QED BY <1>1, <1>2, SetVisibleKeepsWrapUp DEF PostCall

LEMMA MarkInCallKeepsWrapUp ==
  ASSUME NEW h \in Hash, NEW c
  PROVE  KeepsWrapUp(h, MarkInCall(h, c, "outbound"))
BY DEF KeepsWrapUp, MarkInCall, Occupy, Hash

\* Every write but the after-call status.
LEMMA NextKeepsWrapUp ==
  ASSUME HashInv, [Next]_vars, \A d \in Dials : ~FreeDialer(d)
  PROVE  KeepsWrapUp(res, res')
<1>t. res \in Hash
  BY DEF HashInv, GoodRes, GoodHash
<1>0. KeepsWrapUp(res, res)
  BY DEF KeepsWrapUp
<1>1. ASSUME NEW d \in Dials, ReserveAgent(d) \/ BindCall(d) PROVE KeepsWrapUp(res, res')
  BY <1>0, <1>1 DEF ReserveAgent, Reserve, BindCall, BindOutbound, Occupy, KeepsWrapUp
<1>2. ASSUME \/ \E d \in Dials : OriginateFails(d)
             \/ PollExpires \/ PollFrees \/ FreeStranded \/ ResetFrees
      PROVE  KeepsWrapUp(res, res')
  BY <1>2, ReleaseKeepsWrapUp
     DEF OriginateFails, PollExpires, PollFrees, FreeStranded, ResetFrees, ForceRelease
<1>3. ASSUME NEW d \in Dials, AgentInCall(d) PROVE KeepsWrapUp(res, res')
  BY <1>0, <1>3, <1>t, MarkInCallKeepsWrapUp DEF AgentInCall
<1>4. CASE SweepFrees \/ \E v \in Choices : ChooseStatus(v)
  BY <1>0, <1>4, SetVisibleKeepsWrapUp DEF SweepFrees, ChooseStatus
<1>5. CASE Renew \/ LeaseExpires \/ WrapUpEnds
  BY <1>5, <1>t DEF Renew, RenewInCall, LeaseExpires, WrapUpEnds, Hash, KeepsWrapUp
<1>6. ASSUME \/ \E d \in Dials :
                  \/ Register(d) \/ CreateRecord(d) \/ FinalizeRecord(d)
                  \/ KernelDials(d) \/ KernelAnswers(d) \/ KernelEnds(d)
                  \/ AnswerSeen(d) \/ MarkAnswered(d) \/ HangupSeen(d) \/ CompleteRecord(d)
             \/ LinkBreaks \/ LinkReturns \/ PollReads \/ PollChecks \/ ListCalls \/ Scan
             \/ CloseRecord \/ SweepLists \/ ResetCloses \/ SessionChanges \/ UNCHANGED vars
      PROVE  KeepsWrapUp(res, res')
  <2>1. res' = res
    BY <1>6 DEF Register, CreateRecord, FinalizeRecord, KernelDials, KernelAnswers,
                KernelEnds, AnswerSeen, MarkAnswered, HangupSeen, CompleteRecord, LinkBreaks,
                LinkReturns, PollReads, PollChecks, ListCalls, Scan, CloseRecord, SweepLists,
                ResetCloses, SessionChanges, vars
  <2> QED BY <2>1, <1>0
<1> QED BY <1>1, <1>2, <1>3, <1>4, <1>5, <1>6, Steps

\* A call that is gone stays gone, and an answer that came has come.
LEMMA EndAndAnswerStay ==
  ASSUME CallTypes, [Next]_vars, NEW d \in Dials
  PROVE  /\ kernel[d] = "gone" => kernel'[d] = "gone"
         /\ answer[d] # "none" => answer'[d] # "none"
<1>1. ASSUME NEW e \in Dials, KernelDials(e) \/ KernelAnswers(e) \/ KernelEnds(e)
      PROVE  /\ kernel[d] = "gone" => kernel'[d] = "gone"
             /\ answer[d] # "none" => answer'[d] # "none"
  BY <1>1 DEF KernelDials, KernelAnswers, KernelEnds, Up, CallTypes
<1>2. ASSUME NEW e \in Dials, AnswerSeen(e) \/ AgentInCall(e) \/ MarkAnswered(e)
      PROVE  kernel' = kernel /\ (answer[d] # "none" => answer'[d] # "none")
  BY <1>2 DEF AnswerSeen, AgentInCall, MarkAnswered, Answering, CallTypes
<1>3. CASE ~(\E e \in Dials : \/ KernelDials(e) \/ KernelAnswers(e) \/ KernelEnds(e)
                              \/ AnswerSeen(e) \/ AgentInCall(e) \/ MarkAnswered(e))
  <2>1. kernel' = kernel /\ answer' = answer
    BY <1>3, Steps
       DEF vars, calls, ReserveAgent, Register, OriginateFails, BindCall, CreateRecord,
           FinalizeRecord, HangupSeen, CompleteRecord, FreeDialer, LinkBreaks, LinkReturns,
           PollReads, PollExpires, PollChecks, PollFrees, ListCalls, Scan, Renew,
           FreeStranded, CloseRecord, SweepLists, SweepFrees, ResetCloses, ResetFrees,
           LeaseExpires, WrapUpEnds, SessionChanges, ChooseStatus
  <2> QED BY <2>1
<1> QED BY <1>1, <1>2, <1>3

\* Who marks a record connected handles an answer, and who handles a hangup
\* handles that of a call that is gone.
LEMMA NextAnsweredHandled ==
  ASSUME CallTypes, AnsweredHandled, [Next]_vars
  PROVE  AnsweredHandled'
<1> SUFFICES ASSUME NEW d \in Dials
             PROVE  /\ hangup'[d].pc # "none" => kernel'[d] = "gone"
                    /\ cdr'[d].connected \/ hangup'[d].answered => answer'[d] # "none"
  BY DEF AnsweredHandled
<1>t. /\ hangup \in [Dials -> HangupType] /\ cdr \in [Dials -> CdrType]
      /\ kernel \in [Dials -> KernelStates] /\ answer \in [Dials -> HandlerStates]
  BY DEF CallTypes
<1>h. /\ hangup[d].pc # "none" => kernel[d] = "gone"
      /\ cdr[d].connected \/ hangup[d].answered => answer[d] # "none"
  BY DEF AnsweredHandled
<1>m. /\ kernel[d] = "gone" => kernel'[d] = "gone"
      /\ answer[d] # "none" => answer'[d] # "none"
  BY EndAndAnswerStay
<1>1. CASE \E e \in Dials : KernelEnds(e)
  BY <1>1, <1>t, <1>h, <1>m DEF KernelEnds, HangupType
<1>2. CASE \E e \in Dials : HangupSeen(e)
  <2>1. PICK e \in Dials : HangupSeen(e)
    BY <1>2
  <2>2. hangup'[d].pc # "none" => hangup[d].pc # "none"
    BY <2>1, <1>t DEF HangupSeen, HangupType
  <2>3. hangup'[d].answered = hangup[d].answered
    BY <2>1, <1>t DEF HangupSeen, HangupType
  <2>4. cdr' = cdr
    BY <2>1 DEF HangupSeen
  <2> QED BY <2>2, <2>3, <2>4, <1>h, <1>m
<1>3. ASSUME NEW e \in Dials, CompleteRecord(e)
      PROVE  /\ hangup'[d].pc # "none" => hangup[d].pc # "none"
             /\ cdr'[d].connected = cdr[d].connected
             /\ hangup'[d].answered => cdr[d].connected \/ hangup[d].answered
  <2>1. hangup'[d].pc # "none" => hangup[d].pc # "none"
    BY <1>3, <1>t DEF CompleteRecord, HangupType
  <2>2. cdr'[d].connected = cdr[d].connected
    BY <1>3, <1>t DEF CompleteRecord, CdrType
  <2>3. hangup'[d].answered => cdr[d].connected \/ hangup[d].answered
    BY <1>3, <1>t DEF CompleteRecord, HangupType
  <2> QED BY <2>1, <2>2, <2>3
<1>4. ASSUME NEW e \in Dials, FreeDialer(e)
      PROVE  /\ hangup'[d].pc # "none" => hangup[d].pc # "none"
             /\ hangup'[d].answered = hangup[d].answered /\ cdr' = cdr
  BY <1>4, <1>t DEF FreeDialer, HangupType
<1>5. ASSUME NEW e \in Dials, AnswerSeen(e) \/ MarkAnswered(e)
      PROVE  /\ hangup' = hangup
             /\ cdr'[d].connected => cdr[d].connected \/ answer[d] # "none"
  <2>1. answer[e] # "none" /\ hangup' = hangup
    BY <1>5 DEF AnswerSeen, MarkAnswered, Answering
  <2>2. d # e => cdr'[d] = cdr[d]
    BY <1>5, <1>t DEF AnswerSeen, MarkAnswered, Connect
  <2> QED BY <2>1, <2>2
<1>6. ASSUME \/ CloseRecord \/ ResetCloses
             \/ \E e \in Dials : CreateRecord(e) \/ FinalizeRecord(e)
      PROVE  hangup' = hangup /\ cdr'[d].connected = cdr[d].connected
  <2>1. hangup' = hangup
    BY <1>6 DEF CloseRecord, ResetCloses, CreateRecord, FinalizeRecord
  <2>2. cdr'[d].connected = cdr[d].connected
    BY <1>6, <1>t DEF CloseRecord, ResetCloses, CreateRecord, FinalizeRecord, CdrType
  <2> QED BY <2>1, <2>2
<1>7. CASE ~(\/ CloseRecord \/ ResetCloses
             \/ \E e \in Dials :
                  \/ KernelEnds(e) \/ HangupSeen(e) \/ CompleteRecord(e) \/ FreeDialer(e)
                  \/ AnswerSeen(e) \/ MarkAnswered(e) \/ CreateRecord(e) \/ FinalizeRecord(e))
  <2>1. hangup' = hangup /\ cdr' = cdr
    BY <1>7, Steps
       DEF vars, calls, ReserveAgent, Register, OriginateFails, BindCall, KernelDials,
           KernelAnswers, AgentInCall, LinkBreaks, LinkReturns, PollReads, PollExpires,
           PollChecks, PollFrees, ListCalls, Scan, Renew, FreeStranded, SweepLists,
           SweepFrees, ResetFrees, LeaseExpires, WrapUpEnds, SessionChanges, ChooseStatus
  <2> QED BY <2>1, <1>h, <1>m
<1> QED BY <1>h, <1>m, <1>1, <1>2, <1>3, <1>4, <1>5, <1>6, <1>7

LEMMA NextWrapUpInv == HashInv /\ WrapUpInv /\ [Next]_vars => WrapUpInv'
<1> SUFFICES ASSUME HashInv, WrapUpInv, [Next]_vars,
                    NEW d \in Dials, res'.wrapCall = CallIdOf[d]
             PROVE  kernel'[d] = "gone" /\ answer'[d] # "none"
  BY NextAnsweredHandled DEF WrapUpInv, WrapUpFollowsCall, HashInv
<1>t. CallTypes /\ CallIdOf[d] # NoCall
  BY DialAssumption, NoCallAssumption DEF HashInv
<1>1. CASE KeepsWrapUp(res, res')
  <2>1. res.wrapCall = CallIdOf[d]
    BY <1>1, <1>t DEF KeepsWrapUp
  <2> QED BY <2>1, <1>t, EndAndAnswerStay DEF WrapUpInv, WrapUpFollowsCall
<1>2. CASE ~KeepsWrapUp(res, res')
  <2>1. PICK e \in Dials : FreeDialer(e)
    BY <1>2, NextKeepsWrapUp
  <2>2. hangup[e].pc = "marked" /\ hangup[e].answered /\ res'.wrapCall = CallIdOf[e]
    <3>1. KeepsWrapUp(res, res)
      BY DEF KeepsWrapUp
    <3>2. hangup[e].ours \in BOOLEAN /\ hangup[e].answered \in BOOLEAN
      BY <1>t DEF CallTypes, HangupType
    <3>3. \/ res' = res
          \/ res' = Release(res, NoOffer, CallIdOf[e], FALSE)
          \/ (hangup[e].answered /\ res' = PostCall(res, CallIdOf[e], HasWrapUp))
      <4>1. CASE hangup[e].answered
        BY <2>1, <4>1 DEF FreeDialer
      <4>2. CASE ~hangup[e].answered
        BY <2>1, <4>2 DEF FreeDialer
      <4> QED BY <4>1, <4>2
    <3>4. hangup[e].pc = "marked"
      BY <2>1 DEF FreeDialer
    <3>5. KeepsWrapUp(res, Release(res, NoOffer, CallIdOf[e], FALSE))
      BY ReleaseKeepsWrapUp
    <3>6. \/ KeepsWrapUp(res, PostCall(res, CallIdOf[e], HasWrapUp))
          \/ PostCall(res, CallIdOf[e], HasWrapUp).wrapCall = CallIdOf[e]
      BY PostCallWrapsOwn
    <3> QED BY <1>2, <3>1, <3>3, <3>4, <3>5, <3>6
  <2>3. e = d
    BY <2>2, DialAssumption
  <2>4. kernel[d] = "gone" /\ answer[d] # "none"
    BY <2>2, <2>3 DEF WrapUpInv, AnsweredHandled
  <2> QED BY <2>4, <1>t, EndAndAnswerStay
<1> QED BY <1>1, <1>2

\* The agent wraps up only calls that were answered and are over, whatever
\* order their answer, their hangup and the record's own write were handled in.
THEOREM WrapUpsFollowCalls == Spec => []WrapUpFollowsCall
<1>1. Init => WrapUpInv
  <2> SUFFICES ASSUME Init PROVE WrapUpInv
    OBVIOUS
  <2>1. AnsweredHandled
    BY DEF Init, AnsweredHandled
  <2>2. WrapUpFollowsCall
    BY DialAssumption, NoCallAssumption DEF Init, Free, Unoccupied, WrapUpFollowsCall
  <2> QED BY <2>1, <2>2 DEF WrapUpInv
<1>2. WrapUpInv => WrapUpFollowsCall
  BY DEF WrapUpInv
<1> QED BY <1>1, <1>2, HashInvHolds, NextWrapUpInv, PTL DEF Spec

-----------------------------------------------------------------------------
(* The hangup handler knows its call only by the id in the hash.            *)

\* In a tenant with a wrap-up the hangup of a call, however late it is handled,
\* leaves an agent who is occupied by another call as he is.  (With none it asks
\* for "ready", which also ends a hold of another call that has run out.)
THEOREM LateHangupsAreHarmless == ASSUME HasWrapUp PROVE Spec => HangupSettlesOwnCall
<1>1. ASSUME HasWrapUp, HashInv, NEW d \in Dials, Occupied(res), FreeDialer(d), res' # res
      PROVE  res.call = CallIdOf[d]
  <2>1. res.call # NoCall /\ CallIdOf[d] # NoCall
    BY <1>1, DialAssumption, NoCallAssumption DEF HashInv, GoodRes, GoodHash, WellFormed
  <2>2. PostCall(res, CallIdOf[d], HasWrapUp) # res => res.call = CallIdOf[d]
    BY <1>1, <2>1 DEF PostCall, CanMarkAfterCallWork
  <2>3. Release(res, NoOffer, CallIdOf[d], FALSE) # res => res.call = CallIdOf[d]
    BY <2>1 DEF Release, CanRelease
  <2> QED BY <1>1, <2>2, <2>3 DEF FreeDialer
<1>2. ASSUME HasWrapUp
      PROVE  HashInv /\ [Next]_vars =>
        [\A d \in Dials :
           Occupied(res) /\ FreeDialer(d) /\ res' # res => res.call = CallIdOf[d]]_vars
  BY <1>1, <1>2
<1> QED BY <1>2, HashInvHolds, PTL DEF Spec, HangupSettlesOwnCall
=============================================================================
