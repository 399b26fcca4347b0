----------------------------- MODULE CallSession -----------------------------
(***************************************************************************)
(* The session reducer of the agent's desk: what the browser believes about *)
(* the call at hand, and what each event makes of it.  Socket events and    *)
(* the agent's clicks may change a live session; the status poll may only   *)
(* fill an idle one, and three reconcilers may end or upgrade one on a      *)
(* snapshot that is provably newer than the call.                          *)
(*                                                                         *)
(* A media rebuild replaces call_id by the id of the new leg and keeps the   *)
(* business id in source_call_id: a session names the business call and     *)
(* says whether it was re-keyed.  Times are positions in the order of the   *)
(* writes of the agent's hash; 0 is a time that is not set.                 *)
(***************************************************************************)
EXTENDS AgentResource, Integers

Phases == {"mic_check", "idle", "incoming", "outbound_ringing", "on_call", "wrap_up"}

Session ==
  [ phase     : Phases,
    call      : Calls \cup {NoCall},   \* incoming; NoCall is a null incoming
    rekeyed   : BOOLEAN,
    offer     : Offers \cup {NoOffer},
    startedAt : Nat,
    callStart : Nat,
    ended     : SUBSET Calls,          \* lastEndedCallIds
    lastOut   : Calls \cup {NoCall} ]  \* lastEndedOutboundCallId

\* What an event says of a call, in the fields a session takes over.
Incoming(c, o, at) == [call |-> c, rekeyed |-> FALSE, offer |-> o, startedAt |-> at]

InitialSession ==
  [ phase |-> "mic_check", call |-> NoCall, rekeyed |-> FALSE, offer |-> NoOffer,
    startedAt |-> 0, callStart |-> 0, ended |-> {}, lastOut |-> NoCall ]

With(s, inc) ==
  [s EXCEPT !.call = inc.call, !.rekeyed = inc.rekeyed, !.offer = inc.offer,
            !.startedAt = inc.startedAt]

NoIncoming == Incoming(NoCall, NoOffer, 0)

Earlier(prev, next) ==
  IF next = 0 \/ (prev # 0 /\ prev <= next) THEN prev ELSE next

\* Mutant: a session without a call remembers null.
EndedIdsWithNull(s, c) == {c, s.call}

EndedIds(s, c) == {c, s.call} \ {NoCall}

-----------------------------------------------------------------------------
(* The events.                                                             *)

\* USER_ACCEPT_FAIL, USER_REJECT, USER_OUTBOUND_FAIL: whatever the session is.
Cleared(s) == [With(s, NoIncoming) EXCEPT !.phase = "idle", !.callStart = 0]

MicReadyIn(s) == IF s.phase = "mic_check" THEN [s EXCEPT !.phase = "idle"] ELSE s

PollHydrate(s, phase, inc, start) ==
  IF s.phase # "idle" \/ inc.call \in s.ended THEN s
  ELSE [With(s, inc) EXCEPT !.phase = phase, !.callStart = start, !.ended = {}]

\* A call's start before the session's is not told from it: a snapshot is measured
\* against the later of the two.
CdrAnswered(s, start) ==
  LET first == Earlier(s.callStart, start) IN
  IF s.phase \in {"on_call", "outbound_ringing", "incoming"}
    THEN [s EXCEPT !.phase = "on_call",
                   !.callStart = IF first < s.startedAt THEN s.startedAt ELSE first]
    ELSE s

\* Mutant: a replayed push revives a call that has ended.
SocketIncomingRevives(s, inc, onCall, start) ==
  [With(s, inc) EXCEPT
     !.phase = IF onCall \/ s.phase = "on_call" THEN "on_call" ELSE "incoming",
     !.callStart = Earlier(s.callStart, start), !.ended = {}]

\* A later startedAt of the session at hand is kept: a restored call brings
\* the time at which the customer was answered, which may lie before this
\* desk got the call.
SocketIncoming(s, inc, onCall, start) ==
  LET live == s.phase \in {"incoming", "on_call"} /\ s.startedAt > inc.startedAt IN
  IF inc.call \in s.ended THEN s
  ELSE [With(s, inc) EXCEPT
          !.phase     = IF onCall \/ s.phase = "on_call" THEN "on_call" ELSE "incoming",
          !.startedAt = IF live THEN s.startedAt ELSE @,
          !.callStart = Earlier(s.callStart, start),
          !.ended     = {}]

SocketAnswered(s) ==
  IF s.phase \in {"incoming", "on_call"} THEN [s EXCEPT !.phase = "on_call"] ELSE s

\* The event names the call at hand.  An outbound call that ends is remembered
\* so that a late answer to the dial request cannot revive it.
SocketHangup(s, c) ==
  LET last == IF c # NoCall THEN c ELSE s.lastOut IN
  CASE s.phase \in {"incoming", "outbound_ringing"} ->
         [Cleared(s) EXCEPT !.ended = EndedIds(s, c), !.lastOut = last]
    [] s.phase = "on_call" ->
         [s EXCEPT !.phase = "wrap_up", !.ended = EndedIds(s, c), !.lastOut = last]
    [] OTHER -> s

OutboundAnswered(s) ==
  IF s.phase = "outbound_ringing" THEN [s EXCEPT !.phase = "on_call"] ELSE s

OutboundHangup(s, c) ==
  LET same == s.call \in {NoCall, c} IN
  CASE same /\ s.phase \in {"outbound_ringing", "idle", "mic_check"} ->
         [Cleared(s) EXCEPT !.ended = EndedIds(s, c), !.lastOut = c]
    [] same /\ s.phase = "on_call" ->
         [s EXCEPT !.phase = "wrap_up", !.ended = EndedIds(s, c), !.lastOut = c]
    [] ~same /\ s.phase \in {"idle", "mic_check"} ->
         [s EXCEPT !.phase = "idle", !.ended = EndedIds(s, c), !.lastOut = c]
    [] OTHER -> s

AcceptOk(s, start) == [s EXCEPT !.phase = "on_call", !.callStart = start]

\* USER_WRAP_UP_DONE, USER_STATUS_ENDS_WRAP_UP
WrapUpDone(s) == [Cleared(s) EXCEPT !.ended = EndedIds(s, NoCall)]

DialStarted(s, c, start) ==
  IF s.lastOut = c \/ c \in s.ended THEN s
  ELSE [With(s, Incoming(c, NoOffer, start)) EXCEPT
          !.phase = "outbound_ringing", !.callStart = start, !.lastOut = NoCall, !.ended = {}]

MediaLegUpdated(s) == IF s.call = NoCall THEN s ELSE [s EXCEPT !.rekeyed = TRUE]

-----------------------------------------------------------------------------
(* What a status snapshot p may do to a session: p.at is the write of the   *)
(* hash it shows, resource_updated_at.  The clocks of browser and server    *)
(* are taken to agree; statusFetchedAtMs, which guards against a browser    *)
(* that runs behind, then adds nothing.                                    *)

SnapshotAfterStart(s, p) ==
  LET start  == IF s.callStart # 0 THEN s.callStart ELSE s.startedAt
      anchor == IF s.startedAt > start THEN s.startedAt ELSE start
  IN  start # 0 /\ p.at >= anchor

ShouldUpgradeRinging(s, p) ==
  s.phase = "outbound_ringing" /\ p.state = "in_call" /\ p.call = s.call

\* Mutant: any free snapshot that does not name the call ends the ringing.
ShouldLeaveRingingUndated(s, p) ==
  /\ s.phase = "outbound_ringing" /\ s.call # NoCall /\ p.call # s.call
  /\ p.state \notin ActiveStates

ShouldLeaveRinging(s, p) ==
  /\ s.phase = "outbound_ringing" /\ s.call # NoCall /\ p.call # s.call
  /\ SnapshotAfterStart(s, p)
  /\ p.state \notin ActiveStates

ShouldLeaveOnCall(s, p) ==
  /\ s.phase = "on_call"
  /\ SnapshotAfterStart(s, p)
  /\ p.state \in {"idle", "after_call_work"}

\* A re-keyed call still answers to its business id.
Names(s, legCall, c) == c \in {legCall, s.call} \ {NoCall}
=============================================================================
