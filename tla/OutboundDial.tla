---------------------------- MODULE OutboundDial ----------------------------
(***************************************************************************)
(* One agent's outbound calls and everything that heals the agent's hash    *)
(* when a call's end is missed: dial requests reserve, originate, bind and  *)
(* write the call record in the background; call.answered and call.hangup   *)
(* are handled in tasks of their own, which interleave, and are lost while  *)
(* the socket to the kernel is down; the status poll, the reconcile after a *)
(* reconnect, the wrap-up sweep and the manual reset repair.  Each action   *)
(* is what one of them does between two awaits.                             *)
(*                                                                         *)
(* Not modelled: what the agent's own hangup writes when the call is gone    *)
(* already (hangup_agent_current_call, finalize_agent_call: it may begin a  *)
(* wrap-up without asking whether the call was answered), and the cancel of *)
(* a dial (cancel_outbound, which releases by the call's id).               *)
(*                                                                         *)
(* External: the kernel, which answers a call only after it has returned    *)
(* the call's id, and the agent's WebRTC session.                           *)
(***************************************************************************)
EXTENDS AgentResource, FiniteSets

CONSTANTS
  Dials,
  ReservationOf,   \* the id a dial reserves the agent under
  CallIdOf,        \* the id of the kernel's call
  HasWrapUp,       \* call_wrapup_seconds > 0
  Choices,         \* the statuses the agent chooses
  Disturbances     \* what else happens: "link", "session", "reset"

ASSUME DialAssumption ==
  /\ ReservationOf \in [Dials -> Calls] /\ CallIdOf \in [Dials -> Calls]
  /\ \A d, e \in Dials :
       /\ ReservationOf[d] # CallIdOf[e]
       /\ d # e => ReservationOf[d] # ReservationOf[e] /\ CallIdOf[d] # CallIdOf[e]
ASSUME WrapUpAssumption == HasWrapUp \in BOOLEAN
ASSUME ChoicesAssumption == Choices \subseteq {"ready", "busy", "break"}

VARIABLES
  res,        \* the agent's Redis hash
  dial,       \* the dial requests and the background write of the call record
  kernel,     \* the kernel's calls
  cdr,        \* the call records
  endMark,    \* _outbound_ended: the hangup of the call was seen
  answer,     \* the call.answered handlers
  hangup,     \* the call.hangup handlers
  link,       \* the socket to the kernel is up
  session,    \* the agent has a WebRTC session that is not disconnected
  poll,       \* the status poll
  reconcile,  \* the reconcile after a reconnect
  sweep,      \* the wrap-up sweep has listed this agent
  reset       \* the manual reset has closed session and records

vars == <<res, dial, kernel, cdr, endMark, answer, hangup, link, session, poll,
          reconcile, sweep, reset>>

calls   == <<dial, kernel, cdr, endMark, answer, hangup>>
healers == <<poll, reconcile, sweep, reset>>

\* "placed" to "stored": register_outbound_call has been called.
Registered == {"placed", "bound", "recorded", "stored", "conflict"}
DialStates == {"idle", "reserved", "failed"} \cup Registered
KernelStates == {"none", "ringing", "answered", "gone"}
HandlerStates == {"none", "lost", "event", "read", "marked", "done"}

TypeOK ==
  /\ res \in Hash
  /\ dial \in [Dials -> DialStates]
  /\ kernel \in [Dials -> KernelStates]
  /\ cdr \in [Dials -> [state : {"none", "active", "ended"}, connected : BOOLEAN]]
  /\ endMark \in [Dials -> BOOLEAN]
  /\ answer \in [Dials -> HandlerStates]
  /\ hangup \in [Dials -> [pc : HandlerStates, ours : BOOLEAN, answered : BOOLEAN]]
  /\ link \in BOOLEAN /\ session \in BOOLEAN
  /\ poll \in [pc : {"idle", "expired", "checking", "ghost"},
               seen : ResourceStates \cup {"none"}]
  /\ reconcile \in [pc : {"idle", "asking", "scanning", "renewing", "freeing", "closing"},
                    live : SUBSET Dials, complete : BOOLEAN, call : Calls \cup {NoCall}]
  /\ sweep \in BOOLEAN /\ reset \in BOOLEAN

NoReconcile == [pc |-> "idle", live |-> {}, complete |-> FALSE, call |-> NoCall]
NoPoll == [pc |-> "idle", seen |-> "none"]

Init ==
  /\ res = Free("ready")
  /\ dial = [d \in Dials |-> "idle"]
  /\ kernel = [d \in Dials |-> "none"]
  /\ cdr = [d \in Dials |-> [state |-> "none", connected |-> FALSE]]
  /\ endMark = [d \in Dials |-> FALSE]
  /\ answer = [d \in Dials |-> "none"]
  /\ hangup = [d \in Dials |-> [pc |-> "none", ours |-> FALSE, answered |-> FALSE]]
  /\ link = TRUE /\ session = TRUE
  /\ poll = NoPoll
  /\ reconcile = NoReconcile
  /\ sweep = FALSE /\ reset = FALSE

Up(d) == kernel[d] \in {"ringing", "answered"}

-----------------------------------------------------------------------------
(* A dial request: _originate_webrtc and _persist_webrtc_outbound.          *)

DialTo(d, from, to) == dial[d] = from /\ dial' = [dial EXCEPT ![d] = to]

ReserveAgent(d) ==
  /\ CanReserve(res, "outbound")
  /\ res' = Reserve(res, "outbound", ReservationOf[d], NoOffer)
  /\ DialTo(d, "idle", "reserved")
  /\ UNCHANGED <<kernel, cdr, endMark, answer, hangup, link, session, healers>>

\* The kernel's answer to call.originate: the originator is registered before
\* anything else is awaited.
Register(d) ==
  /\ kernel[d] # "none"
  /\ DialTo(d, "reserved", "placed")
  /\ UNCHANGED <<res, kernel, cdr, endMark, answer, hangup, link, session, healers>>

\* Mutant: the failed request keeps its reservation.
OriginateFailsKeeping(d) ==
  /\ DialTo(d, "reserved", "failed")
  /\ UNCHANGED <<res, kernel, cdr, endMark, answer, hangup, link, session, healers>>

\* A refusal, or a time-out of the request although the call was placed.
OriginateFails(d) ==
  /\ DialTo(d, "reserved", "failed")
  /\ res' = Release(res, NoOffer, ReservationOf[d], FALSE)
  /\ UNCHANGED <<kernel, cdr, endMark, answer, hangup, link, session, healers>>

\* A lost reservation fails the request, and no record is written then.
BindCall(d) ==
  /\ IF CanBindOutbound(res, ReservationOf[d])
       THEN DialTo(d, "placed", "bound") /\ res' = BindOutbound(res, CallIdOf[d])
       ELSE DialTo(d, "placed", "conflict") /\ UNCHANGED res
  /\ UNCHANGED <<kernel, cdr, endMark, answer, hangup, link, session, healers>>

CreateRecord(d) ==
  /\ DialTo(d, "bound", "recorded")
  /\ cdr' = [cdr EXCEPT ![d].state = "active"]
  /\ UNCHANGED <<res, kernel, endMark, answer, hangup, link, session, healers>>

\* Mutant: the record is not compared with the hangups seen before it.
FinalizeRecordBlindly(d) ==
  /\ DialTo(d, "recorded", "stored")
  /\ UNCHANGED <<res, kernel, cdr, endMark, answer, hangup, link, session, healers>>

\* finalize_outbound_cdr_if_already_ended
FinalizeRecord(d) ==
  /\ DialTo(d, "recorded", "stored")
  /\ cdr' = IF endMark[d] THEN [cdr EXCEPT ![d].state = "ended"] ELSE cdr
  /\ UNCHANGED <<res, kernel, endMark, answer, hangup, link, session, healers>>

-----------------------------------------------------------------------------
(* The kernel's calls.                                                     *)

KernelDials(d) ==
  /\ dial[d] = "reserved" /\ kernel[d] = "none"
  /\ kernel' = [kernel EXCEPT ![d] = "ringing"]
  /\ UNCHANGED <<res, dial, cdr, endMark, answer, hangup, link, session, healers>>

KernelAnswers(d) ==
  /\ dial[d] # "reserved" /\ kernel[d] = "ringing"
  /\ kernel' = [kernel EXCEPT ![d] = "answered"]
  /\ answer' = [answer EXCEPT ![d] = IF link THEN "event" ELSE "lost"]
  /\ UNCHANGED <<res, dial, cdr, endMark, hangup, link, session, healers>>

KernelEnds(d) ==
  /\ Up(d)
  /\ kernel' = [kernel EXCEPT ![d] = "gone"]
  /\ hangup' = [hangup EXCEPT ![d].pc = IF link THEN "event" ELSE "lost"]
  /\ UNCHANGED <<res, dial, cdr, endMark, answer, link, session, healers>>

LinkBreaks ==
  /\ "link" \in Disturbances
  /\ link /\ link' = FALSE
  /\ UNCHANGED <<res, calls, session, healers>>

\* The reconnect handlers run in a task of their own.
LinkReturns ==
  /\ ~link /\ link' = TRUE
  /\ reconcile.pc = "idle"
  /\ reconcile' = [reconcile EXCEPT !.pc = "asking"]
  /\ UNCHANGED <<res, calls, session, poll, sweep, reset>>

-----------------------------------------------------------------------------
(* call.answered: _on_outbound_answered.                                    *)

Answering(d, from, to) == answer[d] = from /\ answer' = [answer EXCEPT ![d] = to]

\* A call without a record is not marked connected.
Connect(d) ==
  cdr' = IF cdr[d].state = "none" THEN cdr ELSE [cdr EXCEPT ![d].connected = TRUE]

\* record_outbound_customer_connected, then the originator is looked up.
AnswerSeen(d) ==
  /\ Answering(d, "event", IF dial[d] \in Registered THEN "read" ELSE "done")
  /\ Connect(d)
  /\ UNCHANGED <<res, dial, kernel, endMark, hangup, link, session, healers>>

AgentInCall(d) ==
  /\ Answering(d, "read", "marked")
  /\ res' = IF CanMarkInCall(res, NoOffer)
              THEN MarkInCall(res, CallIdOf[d], "outbound") ELSE res
  /\ UNCHANGED <<dial, kernel, cdr, endMark, hangup, link, session, healers>>

MarkAnswered(d) ==
  /\ Answering(d, "marked", "done")
  /\ Connect(d)
  /\ UNCHANGED <<res, dial, kernel, endMark, hangup, link, session, healers>>

-----------------------------------------------------------------------------
(* call.hangup: the outbound part of _on_hangup.                            *)

\* The originator is looked up.  A call that ended before it was registered
\* ended with a final SIP response, which is remembered as well.
HangupSeen(d) ==
  /\ hangup[d].pc = "event"
  /\ hangup' = [hangup EXCEPT ![d].pc = "read", ![d].ours = dial[d] \in Registered]
  /\ endMark' = [endMark EXCEPT ![d] = TRUE]
  /\ UNCHANGED <<res, dial, kernel, cdr, answer, link, session, healers>>

\* The row is read and completed, if there is one.
CompleteRecord(d) ==
  /\ hangup[d].pc = "read"
  /\ hangup' = [hangup EXCEPT ![d].pc = "marked",
                  ![d].answered = cdr[d].state # "none" /\ cdr[d].connected]
  /\ cdr' = IF cdr[d].state = "none" THEN cdr ELSE [cdr EXCEPT ![d].state = "ended"]
  /\ UNCHANGED <<res, dial, kernel, endMark, answer, link, session, healers>>

\* Mutant: an unanswered call gets a wrap-up as well.
FreeDialerAlwaysWraps(d) ==
  LET h == hangup[d] IN
  /\ h.pc = "marked"
  /\ hangup' = [hangup EXCEPT ![d].pc = "done"]
  /\ res' = IF h.ours THEN PostCall(res, CallIdOf[d], HasWrapUp) ELSE res
  /\ UNCHANGED <<dial, kernel, cdr, endMark, answer, link, session, healers>>

\* Mutant: the release does not name the call.
FreeDialerOfAny(d) ==
  LET h == hangup[d] IN
  /\ h.pc = "marked"
  /\ hangup' = [hangup EXCEPT ![d].pc = "done"]
  /\ res' = CASE h.ours /\ h.answered  -> PostCall(res, CallIdOf[d], HasWrapUp)
              [] h.ours /\ ~h.answered -> Release(res, NoOffer, NoCall, FALSE)
              [] ~h.ours               -> res
  /\ UNCHANGED <<dial, kernel, cdr, endMark, answer, link, session, healers>>

FreeDialer(d) ==
  LET h == hangup[d] IN
  /\ h.pc = "marked"
  /\ hangup' = [hangup EXCEPT ![d].pc = "done"]
  /\ res' = CASE h.ours /\ h.answered  -> PostCall(res, CallIdOf[d], HasWrapUp)
              [] h.ours /\ ~h.answered -> Release(res, NoOffer, CallIdOf[d], FALSE)
              [] ~h.ours               -> res
  /\ UNCHANGED <<dial, kernel, cdr, endMark, answer, link, session, healers>>

-----------------------------------------------------------------------------
(* The status poll: get_for_employee, get_snapshot and reconcile_agent.     *)
(* set_status runs the same reconcile before it tries a second time.        *)

PollReads ==
  /\ poll.pc = "idle"
  /\ \/ Expired(res) /\ poll' = [pc |-> "expired", seen |-> res.state]
     \/ ~Expired(res) /\ res.state = "in_call"
        /\ poll' = [pc |-> "checking", seen |-> res.state]
  /\ UNCHANGED <<res, calls, link, session, reconcile, sweep, reset>>

\* An outbound hash has no offer the release could ask for.
PollExpires ==
  /\ poll.pc = "expired"
  /\ res' = Release(res, NoOffer, NoCall, poll.seen = "in_call")
  /\ poll' = NoPoll
  /\ UNCHANGED <<calls, link, session, reconcile, sweep, reset>>

Backed == session \/ \E d \in Dials : cdr[d].state = "active"

PollChecks ==
  /\ poll.pc = "checking"
  /\ poll' = IF Backed THEN NoPoll ELSE [poll EXCEPT !.pc = "ghost"]
  /\ UNCHANGED <<res, calls, link, session, reconcile, sweep, reset>>

PollFrees ==
  /\ poll.pc = "ghost"
  /\ res' = ForceRelease(res)
  /\ poll' = NoPoll
  /\ UNCHANGED <<calls, link, session, reconcile, sweep, reset>>

-----------------------------------------------------------------------------
(* After a reconnect: _on_reconnect and reconcile_in_call.                  *)

\* An endpoint that does not answer makes the list incomplete.
ListCalls ==
  /\ reconcile.pc = "asking"
  /\ \E complete \in BOOLEAN, live \in SUBSET {d \in Dials : Up(d)} :
       /\ complete => live = {d \in Dials : Up(d)}
       /\ reconcile' = [pc |-> "scanning", live |-> live, complete |-> complete,
                        call |-> NoCall]
  /\ UNCHANGED <<res, calls, link, session, poll, sweep, reset>>

Scan ==
  LET next(pc) == reconcile' = [reconcile EXCEPT !.pc = pc, !.call = res.call]
      listed == \E d \in reconcile.live : CallIdOf[d] = res.call
  IN
  /\ reconcile.pc = "scanning"
  /\ CASE res.state = "in_call" /\ listed -> next("renewing")
       [] res.state = "in_call" /\ ~listed /\ reconcile.complete -> next("freeing")
       [] OTHER -> reconcile' = NoReconcile
  /\ UNCHANGED <<res, calls, link, session, poll, sweep, reset>>

Renew ==
  /\ reconcile.pc = "renewing"
  /\ res' = RenewInCall(res, reconcile.call)
  /\ reconcile' = NoReconcile
  /\ UNCHANGED <<calls, link, session, poll, sweep, reset>>

FreeStranded ==
  /\ reconcile.pc = "freeing"
  /\ res' = Release(res, NoOffer, NoCall, TRUE)
  /\ reconcile' = [reconcile EXCEPT !.pc = "closing"]
  /\ UNCHANGED <<calls, link, session, poll, sweep, reset>>

CloseRecord ==
  /\ reconcile.pc = "closing"
  /\ cdr' = [d \in Dials |->
               IF CallIdOf[d] = reconcile.call /\ cdr[d].state # "none"
                 THEN [cdr[d] EXCEPT !.state = "ended"] ELSE cdr[d]]
  /\ reconcile' = NoReconcile
  /\ UNCHANGED <<res, dial, kernel, endMark, answer, hangup, link, session, poll, sweep,
                 reset>>

-----------------------------------------------------------------------------
(* The wrap-up sweep, the manual reset, time and the agent.                 *)

SweepLists ==
  /\ ~sweep /\ res.state = "after_call_work" /\ res.wrap = "behind"
  /\ sweep' = TRUE
  /\ UNCHANGED <<res, calls, link, session, poll, reconcile, reset>>

SweepFrees ==
  /\ sweep /\ sweep' = FALSE
  /\ res' = IF CanSetVisible(res, "ready") THEN SetVisible(res, "ready") ELSE res
  /\ UNCHANGED <<calls, link, session, poll, reconcile, reset>>

ResetCloses ==
  /\ "reset" \in Disturbances
  /\ ~reset /\ reset' = TRUE
  /\ session' = FALSE
  /\ cdr' = [d \in Dials |->
               IF cdr[d].state = "active" THEN [cdr[d] EXCEPT !.state = "ended"] ELSE cdr[d]]
  /\ UNCHANGED <<res, dial, kernel, endMark, answer, hangup, link, poll, reconcile, sweep>>

ResetFrees ==
  /\ reset /\ reset' = FALSE
  /\ res' = ForceRelease(res)
  /\ UNCHANGED <<calls, link, session, poll, reconcile, sweep>>

\* The lease of a call is four hours, longer than any call.
LeaseExpires ==
  /\ res.lease = "ahead"
  /\ res.state = "in_call" => \A d \in Dials : Up(d) => CallIdOf[d] # res.call
  /\ res' = [res EXCEPT !.lease = "behind"]
  /\ UNCHANGED <<calls, link, session, healers>>

WrapUpEnds ==
  /\ res.wrap = "ahead"
  /\ res' = [res EXCEPT !.wrap = "behind"]
  /\ UNCHANGED <<calls, link, session, healers>>

ChooseStatus(v) ==
  /\ CanSetVisible(res, v)
  /\ res' = SetVisible(res, v)
  /\ UNCHANGED <<calls, link, session, healers>>

SessionChanges ==
  /\ "session" \in Disturbances
  /\ session' = ~session
  /\ UNCHANGED <<res, calls, link, healers>>

-----------------------------------------------------------------------------
DialStep(d) ==
  \/ Register(d) \/ OriginateFails(d) \/ BindCall(d)
  \/ CreateRecord(d) \/ FinalizeRecord(d)

EventStep(d) ==
  \/ AnswerSeen(d) \/ AgentInCall(d) \/ MarkAnswered(d)
  \/ HangupSeen(d) \/ CompleteRecord(d) \/ FreeDialer(d)

PollStep == PollReads \/ PollExpires \/ PollChecks \/ PollFrees
ReconcileStep == ListCalls \/ Scan \/ Renew \/ FreeStranded \/ CloseRecord
SweepStep == SweepLists \/ SweepFrees

Next ==
  \/ \E d \in Dials :
       \/ ReserveAgent(d) \/ DialStep(d) \/ EventStep(d)
       \/ KernelDials(d) \/ KernelAnswers(d) \/ KernelEnds(d)
  \/ LinkBreaks \/ LinkReturns \/ PollStep \/ ReconcileStep \/ SweepStep
  \/ ResetCloses \/ ResetFrees \/ LeaseExpires \/ WrapUpEnds \/ SessionChanges
  \/ \E v \in Choices : ChooseStatus(v)

Spec == Init /\ [][Next]_vars

\* A lease is a clock and the workspace polls.  Nothing else need ever happen:
\* a request may die, events may be lost, handlers may hang.
Fairness == WF_vars(PollStep) /\ WF_vars(LeaseExpires)

FairSpec == Spec /\ Fairness

-----------------------------------------------------------------------------
(* Safety.                                                                 *)

\* Whatever healed or settled the agent last, the hash reads consistently.
HashWellFormed == WellFormed(res)

\* No call record stays active when its call is over: whether the background
\* write or the hangup comes first, one of them closes the record.
NoZombieRecord ==
  \A d \in Dials :
    hangup[d].pc = "done" /\ dial[d] \in {"stored", "conflict"} => cdr[d].state # "active"

\* A wrap-up that an event or a healer begins belongs to a call that was answered
\* and is over.
WrapUpFollowsCall ==
  \A d \in Dials :
    res.wrapCall = CallIdOf[d] => kernel[d] = "gone" /\ answer[d] # "none"

\* A reservation has a request behind it, which binds it, gives it back or finds it gone.
ReservationHasRequest ==
  \A d \in Dials : res.call = ReservationOf[d] => dial[d] \in {"reserved", "placed"}

\* A hangup that is handled late never touches what the agent does by then.
HangupSettlesOwnCall ==
  [][\A d \in Dials :
       Occupied(res) /\ FreeDialer(d) /\ res' # res => res.call = CallIdOf[d]]_vars

-----------------------------------------------------------------------------
(* Liveness.                                                               *)

\* Neither a reservation nor a ringing outbound call occupies the agent for
\* ever, whatever is lost.
RingingEnds ==
  \A d \in Dials :
    /\ res.call = ReservationOf[d] ~> res.call # ReservationOf[d]
    /\ (res.call = CallIdOf[d] /\ res.state = "ringing")
         ~> ~(res.call = CallIdOf[d] /\ res.state = "ringing")

\* Once no record and no session stands behind a call state, it does not last.
GhostIsHealed ==
  <>[]~Backed => []<>(res.state # "in_call")

-----------------------------------------------------------------------------
(* What the code's own comments say and the code does not do.              *)

\* call_wrapup_timeout_service.py:3-7: "a closed tab or lost connection still
\* has to free the agent for new calls."  The sweep lists only an agent whose
\* hash carries a deadline.
WrapUpHasDeadline == res.state = "after_call_work" => res.wrap # "none"

\* events.py:819-821: "notifying first leaves the agent stuck on busy until the
\* next 30s poll."  Once the hangup and the answer of a call are handled, the
\* agent is no longer in that call.
HangupFreesDialer ==
  \A d \in Dials :
    hangup[d].pc = "done" /\ answer[d] \in {"lost", "done"} =>
      ~(res.state = "in_call" /\ res.call = CallIdOf[d])
=============================================================================
