-------------------------- MODULE AgentDeskProofs --------------------------
(***************************************************************************)
(* The desk's safety properties, for every number of calls, offers and      *)
(* faults.  The inductive invariant says what the hash, the calls, the last *)
(* snapshot, the socket, the session and the leg know of each other; its    *)
(* last part relates the time a snapshot was taken to the time the desk     *)
(* gives its call.                                                          *)
(*                                                                         *)
(* The session reducer is used through one lemma for each event, the hash   *)
(* through the lemmas of AgentResourceProofs.                               *)
(***************************************************************************)
EXTENDS AgentDesk, AgentResourceProofs, SequenceTheorems

-----------------------------------------------------------------------------
(* The inductive invariant.                                                 *)

Rings(o) == h.state = "ringing" /\ h.offer = o
Shows(p, c) == p.call = c /\ p.state \in ActiveStates
Dated == cache.at >= s.startedAt

\* The hash is as the service leaves it, and what it says of a call is so.
HashInv ==
  /\ h \in GoodHash /\ h.lease # "behind" /\ clock # 0
  /\ h.offer # NoOffer =>
       h.offer \in rung /\ h.call = CallOf[h.offer] /\ life[h.call] = "new"
  /\ h.state = "in_call" => life[h.call] = "answered"
  /\ h.wrapCall # NoCall => life[h.wrapCall] = "over"

\* A call that is live for this agent has the hash.
LifeInv ==
  \A c \in Calls :
    /\ life[c] = "ringing" =>
         c \in Outbound /\ h.state = "ringing" /\ h.call = c /\ h.offer = NoOffer
    /\ life[c] = "answered" => h.state = "in_call" /\ h.call = c
    /\ life[c] = "answered" => answered[c] # 0
    /\ answered[c] # 0 => life[c] \in {"answered", "over"}
    /\ answered[c] <= clock

\* A snapshot is no newer than the hash, and one taken since a call was
\* answered shows the call as long as it lasts.
CacheInv ==
  /\ cache.at <= clock
  /\ cache.offer # NoOffer => cache.offer \in rung /\ cache.call = CallOf[cache.offer]
  /\ cache.wrapCall # NoCall => life[cache.wrapCall] = "over"
  /\ \A c \in Calls :
       life[c] = "answered" /\ cache.at >= answered[c] =>
         cache.call = c /\ cache.state = "in_call"

\* What an event on the socket says of its call and its offer.
Known ==
  { e \in Event :
      /\ e.name = "incoming" => e.call \in Calls /\ e.offer \in rung
      /\ e.name = "restore" => e.call \in Calls /\ answered[e.call] # 0
      /\ e.name \in {"hangup", "wrap_up_started"} => e.call \in Calls
      /\ e.name \in {"outbound_answered", "outbound_hangup"} => e.call \in Outbound }
WireInv == push \in Seq(Known)

\* Offers reach the desk through the server.
OfferInv ==
  /\ s.offer \in rung \cup {NoOffer}
  /\ \A o \in Offers : setup[o] # "none" => o \in rung

\* A call that this desk has ended is on it only as a wrap-up, with no accept
\* on the leg that could answer it again.
SessionInv ==
  /\ s.phase \in {"mic_check", "idle"} => s.call = NoCall
  /\ s.call \in s.ended => s.phase = "wrap_up" /\ leg.pc \notin Offers

\* The leg outlives the desk's call only where a reply has cleared it.
LegInv ==
  /\ leg.pc = "rebuild" => s.phase = "on_call" \/ leg.orphan
  /\ leg.pc \in Offers =>
       s.phase = "on_call" \/ setup[leg.pc] \in {"sent", "ok", "refused"} \/ leg.orphan
  /\ s.phase = "outbound_ringing" => leg.pc \in Outbound \cup {NoFlow}

\* A snapshot dated after the desk's call shows it: while the call is live,
\* while an accept of it may still succeed, and while its offer rings.
DatedInv ==
  Dated =>
    /\ s.call # NoCall /\ life[s.call] \in {"ringing", "answered"} => Shows(cache, s.call)
    /\ \A o \in Offers :
         Rings(o) /\ setup[o] = "sent" /\ s.call = CallOf[o] => Shows(cache, s.call)
    /\ \A o \in Offers :
         Rings(o) /\ s.phase = "incoming" /\ s.offer = o =>
           cache.state = "ringing" /\ cache.offer = o

IInv ==
  /\ TypeOK /\ HashInv /\ LifeInv /\ CacheInv /\ WireInv
  /\ OfferInv /\ SessionInv /\ LegInv /\ DatedInv
-----------------------------------------------------------------------------
(* The reducer.                                                             *)

Keeps(x, r) ==
  r.call = x.call /\ r.offer = x.offer /\ r.startedAt = x.startedAt

Clears(r) == r.phase = "idle" /\ r.call = NoCall /\ r.offer = NoOffer

\* USER_REJECT and the failures of an accept or a dial.
LEMMA ClearedFields ==
  ASSUME NEW x \in Session
  PROVE  Cleared(x) \in Session /\ Clears(Cleared(x)) /\ Cleared(x).ended = x.ended
BY DEF Cleared, With, NoIncoming, Incoming, Session, Phases, Clears

\* MIC_READY
LEMMA MicReadyFields ==
  ASSUME NEW x \in Session, x.phase = "mic_check"
  PROVE  LET r == MicReadyIn(x) IN
         r \in Session /\ r.phase = "idle" /\ Keeps(x, r) /\ r.ended = x.ended
BY DEF MicReadyIn, Session, Phases, Keeps

\* POLL_HYDRATE
LEMMA PollHydrateFields ==
  ASSUME NEW x \in Session, NEW p \in Phases, NEW c \in Calls, NEW o \in Offers \cup {NoOffer},
         NEW start \in Nat, x.phase = "idle", c \notin x.ended
  PROVE  LET r == PollHydrate(x, p, Incoming(c, o, start), start) IN
         /\ r \in Session /\ r.phase = p /\ r.call = c /\ r.offer = o /\ r.ended = {}
BY DEF PollHydrate, With, Incoming, Session

\* CDR_ANSWERED
LEMMA CdrAnsweredFields ==
  ASSUME NEW x \in Session, NEW start \in Nat,
         x.phase \in {"on_call", "outbound_ringing", "incoming"}
  PROVE  LET r == CdrAnswered(x, start) IN
         r \in Session /\ r.phase = "on_call" /\ Keeps(x, r) /\ r.ended = x.ended
BY DEF CdrAnswered, Earlier, Session, Phases, Keeps

\* SOCKET_INCOMING: an ended call is refused.
LEMMA SocketIncomingFields ==
  ASSUME NEW x \in Session, NEW c \in Calls, NEW o \in Offers \cup {NoOffer},
         NEW at \in Nat, NEW onCall \in BOOLEAN, NEW start \in Nat
  PROVE  LET r == SocketIncoming(x, Incoming(c, o, at), onCall, start) IN
         /\ r \in Session
         /\ \/ r = x
            \/ /\ c \notin x.ended
               /\ r.phase \in {"on_call", "incoming"}
               /\ x.phase = "on_call" => r.phase = "on_call"
               /\ r.call = c /\ r.offer = o /\ r.startedAt >= at /\ r.ended = {}
<1> DEFINE w == With(x, Incoming(c, o, at))
           r == SocketIncoming(x, Incoming(c, o, at), onCall, start)
<1>1. CASE c \in x.ended
  BY <1>1 DEF SocketIncoming, Incoming
<1>2. CASE c \notin x.ended
  <2>5. Earlier(x.callStart, start) \in Nat
    BY DEF Earlier, Session
  <2>1. w \in Session /\ w.call = c /\ w.offer = o /\ w.startedAt = at
    BY DEF With, Incoming, Session
  <2>2. PICK t \in Nat, p \in {"on_call", "incoming"} :
          /\ t >= at /\ (x.phase = "on_call" => p = "on_call")
          /\ r = [w EXCEPT !.phase = p, !.startedAt = t,
                           !.callStart = Earlier(x.callStart, start), !.ended = {}]
    <3>1. at >= at /\ x.startedAt \in Nat
      BY DEF Session
    <3>2. (x.startedAt > at) => x.startedAt >= at
      BY <3>1
    <3> QED BY <1>2, <2>1, <3>1, <3>2 DEF SocketIncoming, Incoming
  <2> HIDE DEF w, r
  <2>3. r \in Session
    BY <2>1, <2>2, <2>5 DEF Session, Phases
  <2>4. r.phase = p /\ r.call = c /\ r.offer = o /\ r.startedAt = t /\ r.ended = {}
    BY <2>1, <2>2, <2>5 DEF Session
  <2>6. r \in Session /\ c \notin x.ended /\ r.phase \in {"on_call", "incoming"}
        /\ (x.phase = "on_call" => r.phase = "on_call")
        /\ r.call = c /\ r.offer = o /\ r.startedAt >= at /\ r.ended = {}
    BY <1>2, <2>2, <2>3, <2>4
  <2> QED BY <2>6 DEF r
<1> QED BY <1>1, <1>2

\* SOCKET_INCOMING for a call that is restored.
Restored(x, c, at) == SocketIncoming(x, Incoming(c, NoOffer, at), TRUE, at)

LEMMA SocketRestoreFields ==
  ASSUME NEW x \in Session, NEW c \in Calls, NEW at \in Nat
  PROVE  LET r == Restored(x, c, at) IN
         /\ r \in Session
         /\ \/ r = x
            \/ /\ c \notin x.ended
               /\ r.phase \in {"on_call", "incoming"}
               /\ x.phase = "on_call" => r.phase = "on_call"
               /\ r.call = c /\ r.offer = NoOffer /\ r.startedAt >= at /\ r.ended = {}
<1>1. \A b \in BOOLEAN, o \in Offers \cup {NoOffer} :
        LET r == SocketIncoming(x, Incoming(c, o, at), b, at) IN
        /\ r \in Session
        /\ \/ r = x
           \/ /\ c \notin x.ended
              /\ r.phase \in {"on_call", "incoming"}
              /\ x.phase = "on_call" => r.phase = "on_call"
              /\ r.call = c /\ r.offer = o /\ r.startedAt >= at /\ r.ended = {}
  BY SocketIncomingFields
<1>2. TRUE \in BOOLEAN /\ NoOffer \in Offers \cup {NoOffer}
  OBVIOUS
<1> QED BY <1>1, <1>2, Zenon DEF Restored

\* SOCKET_ANSWERED
LEMMA SocketAnsweredFields ==
  ASSUME NEW x \in Session
  PROVE  LET r == SocketAnswered(x) IN
         r = x \/ ( /\ x.phase = "incoming"
                    /\ r \in Session /\ r.phase = "on_call" /\ Keeps(x, r)
                    /\ r.ended = x.ended )
BY DEF SocketAnswered, Session, Phases, Keeps

\* SOCKET_HANGUP
LEMMA SocketHangupFields ==
  ASSUME NEW x \in Session, NEW c \in Calls \cup {NoCall}
  PROVE  LET r == SocketHangup(x, c) IN
         /\ r \in Session
         /\ \/ r = x /\ x.phase \notin {"incoming", "outbound_ringing", "on_call"}
            \/ Clears(r)
            \/ x.phase = "on_call" /\ r.phase = "wrap_up" /\ Keeps(x, r)
BY DEF SocketHangup, Cleared, With, NoIncoming, Incoming, EndedIds, Session, Phases,
       Keeps, Clears

\* OUTBOUND_ANSWERED
LEMMA OutboundAnsweredFields ==
  ASSUME NEW x \in Session
  PROVE  LET r == OutboundAnswered(x) IN
         r = x \/ ( /\ x.phase = "outbound_ringing"
                    /\ r \in Session /\ r.phase = "on_call" /\ Keeps(x, r)
                    /\ r.ended = x.ended )
BY DEF OutboundAnswered, Session, Phases, Keeps

\* OUTBOUND_HANGUP, on a session that has no call unless its phase shows one.
LEMMA OutboundHangupFields ==
  ASSUME NEW x \in Session, NEW c \in Calls,
         x.phase \in {"mic_check", "idle"} => x.call = NoCall
  PROVE  LET r == OutboundHangup(x, c) IN
         /\ r \in Session
         /\ \/ r = x /\ (x.phase \notin {"outbound_ringing", "on_call"} \/ x.call \notin {NoCall, c})
            \/ Clears(r)
            \/ x.phase = "on_call" /\ r.phase = "wrap_up" /\ Keeps(x, r)
<1> DEFINE r == OutboundHangup(x, c)
           same == x.call \in {NoCall, c}
<1>1. EndedIds(x, c) \in SUBSET Calls
  BY DEF EndedIds, Session
<1>2. CASE ~same /\ x.phase \in {"outbound_ringing", "on_call"}
  BY <1>2 DEF OutboundHangup
<1>3. CASE same /\ x.phase = "on_call"
  <2>1. r = [x EXCEPT !.phase = "wrap_up", !.ended = EndedIds(x, c), !.lastOut = c]
    BY <1>3 DEF OutboundHangup
  <2> QED BY <1>1, <1>3, <2>1 DEF Session, Phases, Keeps
<1>4. CASE same /\ x.phase \in {"outbound_ringing", "idle", "mic_check"}
  <2>1. r = [Cleared(x) EXCEPT !.ended = EndedIds(x, c), !.lastOut = c]
    BY <1>4 DEF OutboundHangup
  <2>2. r \in Session /\ Clears(r)
    BY <1>1, <2>1, ClearedFields DEF Session, Phases, Clears
  <2> QED BY <2>2
<1>5. CASE x.phase \in {"incoming", "wrap_up"}
  BY <1>5 DEF OutboundHangup
<1>6. x.phase \in {"incoming", "wrap_up", "on_call", "outbound_ringing", "idle", "mic_check"}
  BY DEF Session, Phases
<1>7. x.phase \in {"idle", "mic_check"} => same
  OBVIOUS
<1> HIDE DEF same, r
<1> QED BY <1>2, <1>3, <1>4, <1>5, <1>6, <1>7

\* USER_ACCEPT
LEMMA AcceptOkFields ==
  ASSUME NEW x \in Session, NEW start \in Nat
  PROVE  LET r == AcceptOk(x, start) IN
         r \in Session /\ r.phase = "on_call" /\ Keeps(x, r) /\ r.ended = x.ended
BY DEF AcceptOk, Session, Phases, Keeps

\* USER_WRAP_UP_DONE
LEMMA WrapUpDoneFields ==
  ASSUME NEW x \in Session
  PROVE  WrapUpDone(x) \in Session /\ Clears(WrapUpDone(x))
BY DEF WrapUpDone, Cleared, With, NoIncoming, Incoming, EndedIds, Session, Phases, Clears

\* OUTBOUND_STARTED: an ended call is refused.
LEMMA DialStartedFields ==
  ASSUME NEW x \in Session, NEW c \in Calls, NEW start \in Nat
  PROVE  LET r == DialStarted(x, c, start) IN
         /\ r \in Session
         /\ \/ r = x
            \/ /\ c \notin x.ended
               /\ r.phase = "outbound_ringing" /\ r.call = c /\ r.offer = NoOffer
               /\ r.startedAt = start /\ r.callStart = start /\ r.ended = {}
BY DEF DialStarted, With, Incoming, Session, Phases

\* MEDIA_LEG_UPDATED
LEMMA MediaLegUpdatedFields ==
  ASSUME NEW x \in Session
  PROVE  LET r == MediaLegUpdated(x) IN
         r \in Session /\ r.phase = x.phase /\ Keeps(x, r) /\ r.ended = x.ended
BY DEF MediaLegUpdated, Session, Keeps

-----------------------------------------------------------------------------
(* What a change of the hash does to what is known of it.                    *)

Vacant(x) ==
  x \in GoodHash /\ x.lease = "none" /\ x.state \notin ActiveStates /\ x.offer = NoOffer

LEMMA FreeIsVacant ==
  ASSUME NEW v \in VisibleStatuses
  PROVE  Vacant(Free(v)) /\ Free(v).wrapCall = NoCall
<1>1. /\ Free(v).lease = "none" /\ Free(v).offer = NoOffer /\ Free(v).wrapCall = NoCall
      /\ Free(v).state = ResourceForVisible(v)
  BY DEF Free, Unoccupied
<1>2. ResourceForVisible(v) \notin ActiveStates
  BY DEF ResourceForVisible, ActiveStates, VisibleStatuses
<1> QED BY <1>1, <1>2, FreeIsGood DEF Vacant

LEMMA ReleaseIsVacant ==
  ASSUME NEW x \in GoodHash, NEW o, NEW c, NEW allow, CanRelease(x, o, c, allow)
  PROVE  Vacant(Release(x, o, c, allow)) /\ Release(x, o, c, allow).wrapCall = NoCall
<1>1. ReleaseVisible(x) \in VisibleStatuses
  BY DEF ReleaseVisible, GoodHash, Hash, VisibleStatuses
<1> QED BY <1>1, FreeIsVacant DEF Release

\* A call that ends leaves the agent in after-call work for it.
LEMMA PostCallIsVacant ==
  ASSUME NEW x \in GoodHash, NEW c \in Calls, x.call = c
  PROVE  Vacant(PostCall(x, c, TRUE)) /\ PostCall(x, c, TRUE).wrapCall = c
<1>1. x.state # "after_call_work"
  BY NoCallAssumption DEF GoodHash, WellFormed, Occupied, ActiveStates
<1>2. PostCall(x, c, TRUE) = Unoccupied("after_call_work", "ahead", c)
  BY <1>1 DEF PostCall, CanMarkAfterCallWork, MarkAfterCallWork
<1>3. PostCall(x, c, TRUE) \in GoodHash
  BY <1>1, PostCallIsGood
<1>4. ResourceForVisible("after_call_work") = "after_call_work"
  BY DEF ResourceForVisible
<1>5. LET u == Unoccupied("after_call_work", "ahead", c) IN
      /\ u.lease = "none" /\ u.offer = NoOffer /\ u.wrapCall = c
      /\ u.state = "after_call_work"
  BY <1>4 DEF Unoccupied
<1> QED BY <1>2, <1>3, <1>5 DEF Vacant, ActiveStates

\* A hash is written with the time of the write, unless nothing changes.
LEMMA WriteAdvances ==
  ASSUME NEW new, Write(new), clock \in Nat
  PROVE  /\ h' = new /\ clock' \in Nat /\ clock' >= clock
         /\ new # h => clock' = clock + 1
         /\ clock # 0 => clock' # 0
BY DEF Write

Live(c) == life[c] \in {"ringing", "answered"}

\* Whoever takes the agent out of a call or an offer takes it out of the only
\* one there was.
LEMMA HashVacated ==
  ASSUME TypeOK, HashInv, LifeInv, CacheInv,
         NEW new, Write(new), Vacant(new),
         new.wrapCall # NoCall => new.wrapCall \in Calls /\ life'[new.wrapCall] = "over",
         \A c \in Calls : ~Live(c)',
         \A c \in Calls : life'[c] \in {life[c], "over"},
         UNCHANGED <<answered, rung, cache>>
  PROVE  HashInv' /\ LifeInv' /\ CacheInv' /\ h' \in Hash /\ clock' \in Nat
<1> USE WriteAdvances
<1>1. clock \in Nat /\ clock' \in Nat /\ clock' >= clock /\ clock' # 0 /\ h' = new
  BY DEF TypeOK, HashInv
<1>2. HashInv'
  BY <1>1 DEF HashInv, Vacant, ActiveStates
<1>3. \A c \in Calls : answered[c] \in Nat
  BY DEF TypeOK
<1>4. LifeInv'
  BY <1>1, <1>3 DEF LifeInv, Live
<1>5. cache \in Snapshot
  BY DEF TypeOK
<1>6. cache.at \in Nat /\ cache.wrapCall \in Calls \cup {NoCall}
  BY <1>5 DEF Snapshot
<1>7. CacheInv'
  BY <1>1, <1>6 DEF CacheInv, Live
<1>8. h' \in Hash
  BY <1>1 DEF Vacant, GoodHash
<1> QED BY <1>1, <1>2, <1>4, <1>7, <1>8

-----------------------------------------------------------------------------
(* Snapshots and the session.                                              *)

\* A session dated after every snapshot is safe from the one at hand.
LEMMA DatedFuture ==
  ASSUME s' \in Session, cache'.at \in Nat, s'.startedAt > cache'.at
  PROVE  DatedInv'
BY DEF DatedInv, Dated, Session

\* So is one that has no call.
LEMMA DatedCleared ==
  ASSUME s'.call = NoCall, s'.phase # "incoming"
  PROVE  DatedInv'
<1>1. \A o \in Offers : CallOf[o] # NoCall
  BY CallOfAssumption, CallsAssumption, NoCallAssumption
<1> QED BY <1>1 DEF DatedInv

\* A step that changes neither the start of the session nor the snapshot, and makes
\* no call live and no offer ring.
LEMMA DatedKept ==
  ASSUME DatedInv, CacheInv, cache' = cache, Keeps(s, s'),
         s'.phase = "incoming" => s.phase = "incoming",
         s.call # NoCall /\ Live(s.call)' => Live(s.call) \/ \E o \in Offers :
            Rings(o) /\ setup[o] = "sent" /\ s.call = CallOf[o],
         \A o \in Offers : Rings(o)' => Rings(o),
         \A o \in Offers : setup'[o] = "sent" =>
            setup[o] = "sent" \/ (s.phase = "incoming" /\ s.offer = o)
  PROVE  DatedInv'
<1>1. Dated' = Dated
  BY DEF Dated, Keeps
<1> SUFFICES ASSUME Dated
             PROVE  DatedInv'
  BY <1>1 DEF DatedInv
<1>2. /\ s'.call = s.call /\ s'.offer = s.offer
  BY DEF Keeps
<1>3. s.call # NoCall /\ Live(s.call) => Shows(cache, s.call)
  BY DEF DatedInv, Live
<1>4. \A o \in Offers :
        Rings(o) /\ setup[o] = "sent" /\ s.call = CallOf[o] => Shows(cache, s.call)
  BY DEF DatedInv
<1>5. \A o \in Offers :
        Rings(o) /\ s.phase = "incoming" /\ s.offer = o =>
          cache.state = "ringing" /\ cache.offer = o
  BY DEF DatedInv
<1>6. \A o \in Offers :
        cache.state = "ringing" /\ cache.offer = o => Shows(cache, CallOf[o])
  BY NoOfferAssumption DEF CacheInv, Shows, ActiveStates
<1>7. s.call # NoCall /\ Live(s.call)' => Shows(cache, s.call)
  BY <1>3, <1>4
<1>8. ASSUME NEW o \in Offers, Rings(o)', setup'[o] = "sent", s.call = CallOf[o]
      PROVE  Shows(cache, s.call)
  BY <1>4, <1>5, <1>6, <1>8
<1> QED
  BY <1>2, <1>5, <1>7, <1>8 DEF DatedInv, Live, Shows

-----------------------------------------------------------------------------
(* The socket.                                                             *)

\* Offers stay made and calls stay answered.
LEMMA KnownStays ==
  ASSUME rung \subseteq rung', \A c \in Calls : answered[c] # 0 => answered'[c] # 0
  PROVE  Known \subseteq Known'
BY DEF Known

LEMMA KnownIsTyped ==
  ASSUME push' \in Seq(Known')
  PROVE  WireInv' /\ push' \in Seq(Event)
<1>1. Known' \subseteq Event
  BY DEF Known
<1>2. push' \in Seq(Event)
  BY <1>1, SeqMonotonic
<1> QED BY <1>2 DEF WireInv

LEMMA Pushed ==
  ASSUME WireInv, Known \subseteq Known', NEW ev \in Seq(Known'), Push(ev)
  PROVE  WireInv' /\ push' \in Seq(Event)
<1>1. push \in Seq(Known')
  BY SeqMonotonic DEF WireInv
<1>2. push \o ev \in Seq(Known')
  BY <1>1, ConcatProperties
<1>3. push' \in Seq(Known')
  BY <1>1, <1>2 DEF Push
<1> QED BY <1>3, KnownIsTyped

LEMMA NothingPushed ==
  ASSUME WireInv, Known \subseteq Known', push' = push
  PROVE  WireInv' /\ push' \in Seq(Event)
<1>1. push' \in Seq(Known')
  BY SeqMonotonic DEF WireInv
<1> QED BY <1>1, KnownIsTyped

\* An event leaves the socket when it is handled.
LEMMA Delivered ==
  ASSUME WireInv, NEW name, Deliver(name)
  PROVE  /\ Head(push) \in Known /\ Head(push).name = name
         /\ WireInv' /\ push' \in Seq(Event)
<1>1. Head(push) \in Known /\ Tail(push) \in Seq(Known)
  BY HeadTailProperties DEF WireInv, Deliver
<1>2. Known' = Known
  BY DEF Deliver, server, Known
<1>3. push' \in Seq(Known')
  BY <1>1, <1>2 DEF Deliver
<1> QED BY <1>1, <1>3, KnownIsTyped DEF Deliver

-----------------------------------------------------------------------------
(* The server's steps.                                                     *)

\* What the server changes: nothing of the desk but the requests it answers.
LEMMA ServerRest ==
  ASSUME OfferInv, SessionInv, LegInv, UNCHANGED <<s, leg>>, rung \subseteq rung',
         \A o \in Offers : \/ setup'[o] = setup[o]
                           \/ setup[o] = "sent" /\ setup'[o] \in {"ok", "refused"}
  PROVE  OfferInv' /\ SessionInv' /\ LegInv'
<1>1. OfferInv'
  BY DEF OfferInv
<1>2. SessionInv'
  BY DEF SessionInv
<1>3. LegInv'
  BY DEF LegInv
<1> QED BY <1>1, <1>2, <1>3

LEMMA CallsAndFlows ==
  /\ Inbound \subseteq Calls /\ Outbound \subseteq Calls /\ NoCall \notin Calls
  /\ Inbound \cap Outbound = {} /\ \A o \in Offers : CallOf[o] \in Inbound
  /\ NoOffer \notin Offers /\ Offers \cap Outbound = {}
  /\ NoFlow \notin Flows /\ "rebuild" \notin Flows /\ NoFlow # "rebuild"
  /\ Offers \subseteq Flows /\ Outbound \subseteq Flows
BY CallsAssumption, CallOfAssumption, NoCallAssumption, NoOfferAssumption, FlowsAssumption
   DEF NoFlow, Flows

LEMMA EventIsKnown ==
  ASSUME NEW c \in Calls
  PROVE  /\ Ev("hangup", c) \in Known' /\ Ev("wrap_up_started", c) \in Known'
         /\ c \in Outbound => Ev("outbound_hangup", c) \in Known'
         /\ c \in Outbound => Ev("outbound_answered", c) \in Known'
BY DEF Ev, Known, Event, EventNames

\* The end of a call, in the handlers and for a request of the agent's.
LEMMA EndsPreserves ==
  ASSUME IInv, NEW c \in Calls, Ends(c), UNCHANGED <<rung, answered, cache, conn>>
  PROVE  /\ HashInv' /\ LifeInv' /\ CacheInv' /\ WireInv'
         /\ h' \in Hash /\ clock' \in Nat /\ push' \in Seq(Event)
         /\ life' = [life EXCEPT ![c] = "over"]
         /\ \A o \in Offers : Rings(o)' => Rings(o)
<1> USE DEF IInv
<1>1. /\ life \in [Calls -> {"new", "ringing", "answered", "over"}]
      /\ h \in GoodHash /\ h \in Hash /\ h.call \in Calls \cup {NoCall} /\ clock \in Nat
  BY DEF TypeOK, HashInv, Hash
<1>2. life' = [life EXCEPT ![c] = "over"]
  BY DEF Ends
<1>3. Known \subseteq Known'
  BY KnownStays
<1>4. life'[c] = "over" /\ \A d \in Calls : life'[d] \in {life[d], "over"}
  BY <1>1, <1>2
<1>a. ASSUME NEW new, Write(new), Vacant(new), new.wrapCall \in {NoCall, c}, h.call = c,
             NEW ev \in Seq(Known'), Push(ev)
      PROVE  /\ HashInv' /\ LifeInv' /\ CacheInv' /\ WireInv'
             /\ h' \in Hash /\ clock' \in Nat /\ push' \in Seq(Event)
             /\ \A o \in Offers : Rings(o)' => Rings(o)
  <2>1. \A d \in Calls : ~Live(d)'
    BY <1>1, <1>2, <1>a DEF LifeInv, Live
  <2>2. HashInv' /\ LifeInv' /\ CacheInv' /\ h' \in Hash /\ clock' \in Nat
    BY <1>4, <1>a, <2>1, HashVacated
  <2>3. \A o \in Offers : ~Rings(o)'
    BY <1>a DEF Write, Vacant, Rings, ActiveStates
  <2> QED BY <1>3, <1>a, <2>2, <2>3, Pushed
<1>5. CASE life[c] = "answered"
  <2>1. h.state = "in_call" /\ h.call = c
    BY <1>5 DEF LifeInv
  <2> DEFINE ev == <<Ev("wrap_up_started", c),
                     Ev(IF c \in Outbound THEN "outbound_hangup" ELSE "hangup", c)>>
  <2>2. Write(PostCall(h, c, TRUE)) /\ Push(ev)
    BY <1>5 DEF Ends
  <2>3. ev \in Seq(Known')
    <3>1. ev[1] \in Known' /\ ev[2] \in Known'
      BY EventIsKnown
    <3> QED BY <3>1
  <2>4. Vacant(PostCall(h, c, TRUE)) /\ PostCall(h, c, TRUE).wrapCall = c
    BY <1>1, <2>1, PostCallIsVacant
  <2> HIDE DEF ev
  <2> QED BY <1>2, <1>a, <2>1, <2>2, <2>3, <2>4
<1>6. CASE life[c] = "ringing"
  <2>1. c \in Outbound /\ h.state = "ringing" /\ h.call = c
    BY <1>6 DEF LifeInv
  <2>2. Write(Release(h, NoOffer, c, FALSE)) /\ Push(<<Ev("outbound_hangup", c)>>)
    BY <1>6 DEF Ends
  <2>3. <<Ev("outbound_hangup", c)>> \in Seq(Known')
    BY <2>1, EventIsKnown
  <2>4. CanRelease(h, NoOffer, c, FALSE)
    BY <2>1 DEF CanRelease
  <2>5. Vacant(Release(h, NoOffer, c, FALSE)) /\ Release(h, NoOffer, c, FALSE).wrapCall = NoCall
    BY <1>1, <2>4, ReleaseIsVacant
  <2> QED BY <1>2, <1>a, <2>1, <2>2, <2>3, <2>5
<1>7. CASE life[c] = "new" /\ h.call = c
  <2>1. h.state # "in_call"
    BY <1>7 DEF HashInv
  <2>2. Write(Release(h, h.offer, NoCall, FALSE)) /\ Push(<<Ev("hangup", c)>>)
    BY <1>7 DEF Ends
  <2>3. <<Ev("hangup", c)>> \in Seq(Known')
    BY EventIsKnown
  <2>4. CanRelease(h, h.offer, NoCall, FALSE)
    BY <2>1 DEF CanRelease
  <2>5. /\ Vacant(Release(h, h.offer, NoCall, FALSE))
        /\ Release(h, h.offer, NoCall, FALSE).wrapCall = NoCall
    BY <1>1, <2>4, ReleaseIsVacant
  <2> QED BY <1>2, <1>7, <1>a, <2>2, <2>3, <2>5
<1>8. CASE life[c] = "over" \/ (life[c] = "new" /\ h.call # c)
  <2>1. UNCHANGED <<h, clock, push>>
    BY <1>8 DEF Ends
  <2>2. HashInv'
    BY <1>1, <1>2, <1>8, <2>1 DEF HashInv
  <2>3. LifeInv'
    BY <1>1, <1>2, <2>1 DEF LifeInv
  <2>4. cache.wrapCall \in Calls \cup {NoCall}
    BY DEF TypeOK, Snapshot
  <2>5. CacheInv'
    BY <1>1, <1>2, <2>1, <2>4 DEF CacheInv
  <2> QED BY <1>1, <1>2, <1>3, <2>1, <2>2, <2>3, <2>5, NothingPushed DEF Rings
<1> QED BY <1>1, <1>5, <1>6, <1>7, <1>8

\* The type invariant, part by part.
WireTyped == conn \in BOOLEAN /\ resync \in BOOLEAN /\ faults \in 0..MaxFaults
DeskTyped ==
  /\ s \in Session
  /\ wrapLocal \in Calls \cup {NoCall}
  /\ ending \in BOOLEAN
  /\ accepting \in Offers \cup {NoOffer}
  /\ early \in [answered : SUBSET Outbound, ended : SUBSET Outbound]
LegTyped ==
  leg \in [state : {"idle", "connecting", "ready", "failed", "closed"},
           call : Calls \cup {NoCall}, pc : Flows \cup {NoFlow, "rebuild"},
           orphan : BOOLEAN, lost : BOOLEAN]
SetupTyped == setup \in [Flows -> {"none", "dialing", "sent", "ok", "refused", "check"}]
RebuildTyped == rebuild \in {"none", "sent", "stale"}
ReqTyped ==
  req \in [ hangup : BOOLEAN,
            cancel : Calls \cup {NoCall}, cancelled : BOOLEAN,
            reject : Offers \cup {NoOffer}, rejected : BOOLEAN,
            ready  : BOOLEAN ]

LEMMA Types ==
  TypeOK => WireTyped /\ DeskTyped /\ LegTyped /\ SetupTyped /\ RebuildTyped /\ ReqTyped
BY DEF TypeOK, WireTyped, DeskTyped, LegTyped, SetupTyped, RebuildTyped, ReqTyped

\* What the ends of calls, and the steps below, leave to be checked.
LEMMA ServerPreserves ==
  ASSUME IInv, HashInv', LifeInv', CacheInv', WireInv',
         h' \in Hash, clock' \in Nat, push' \in Seq(Event), cache' = cache,
         life' \in [Calls -> {"new", "ringing", "answered", "over"}],
         answered' \in [Calls -> Nat], deadline' \in [Calls -> Nat],
         rung' \subseteq Offers, rung \subseteq rung',
         conn' \in BOOLEAN, resync' \in BOOLEAN, faults' \in 0..MaxFaults,
         UNCHANGED <<desk, leg, rebuild>>,
         setup' \in [Flows -> {"none", "dialing", "sent", "ok", "refused", "check"}],
         \A o \in Offers : \/ setup'[o] = setup[o]
                           \/ setup[o] = "sent" /\ setup'[o] \in {"ok", "refused"},
         req' \in [ hangup : BOOLEAN,
                    cancel : Calls \cup {NoCall}, cancelled : BOOLEAN,
                    reject : Offers \cup {NoOffer}, rejected : BOOLEAN,
                    ready  : BOOLEAN ],
         s.call # NoCall /\ Live(s.call)' => Live(s.call) \/ \E o \in Offers :
            Rings(o) /\ setup[o] = "sent" /\ s.call = CallOf[o],
         \A o \in Offers : Rings(o)' => Rings(o) \/ o \notin rung
  PROVE  IInv'
<1> USE DEF desk
<1>1. TypeOK'
  <2>1. cache \in Snapshot /\ DeskTyped /\ LegTyped /\ RebuildTyped
    BY Types DEF IInv, TypeOK
  <2>2. cache' \in Snapshot /\ DeskTyped' /\ LegTyped' /\ RebuildTyped'
    BY <2>1 DEF DeskTyped, LegTyped, RebuildTyped
  <2> QED BY <2>2 DEF TypeOK, DeskTyped, LegTyped, RebuildTyped
<1>2. OfferInv' /\ SessionInv' /\ LegInv'
  BY ServerRest DEF IInv
<1>3. DatedInv'
  <2>1. \A o \in Offers : setup'[o] = "sent" => setup[o] = "sent" /\ o \in rung
    BY DEF IInv, OfferInv
  <2>2. Dated' = Dated
    BY DEF Dated
  <2>3. s.offer \in rung \cup {NoOffer}
    BY DEF IInv, OfferInv
  <2> QED
    BY <2>1, <2>2, <2>3, NoOfferAssumption DEF IInv, DatedInv, Live, Shows
<1> QED BY <1>1, <1>2, <1>3 DEF IInv

\* The server offers a call.
LEMMA RingPreserves ==
  ASSUME IInv, NEW o \in Offers, Ring(o)
  PROVE  IInv'
<1> USE DEF IInv
<1> DEFINE c  == CallOf[o]
           r  == Reserve(h, "inbound", c, o)
           n  == MarkRinging(r)
           ev == [Ev("incoming", c) EXCEPT !.offer = o]
<1>1. /\ c \in Calls /\ o # NoOffer /\ c # NoCall /\ h \in GoodHash /\ clock \in Nat
  BY CallsAndFlows DEF HashInv, TypeOK
<1>2. CanReserve(h, "inbound") /\ Write(n) /\ Push(<<ev>>) /\ life[c] = "new" /\ o \notin rung
  BY DEF Ring
<1>3. /\ r \in GoodHash /\ r.state = "reserved" /\ r.offer = o /\ r.call = c /\ r.lease = "ahead"
      /\ r.wrapCall = NoCall
  BY <1>1, <1>2, ReserveInboundIsGood DEF Reserve, Occupy
<1>4. n \in GoodHash
  BY <1>3, MarkRingingIsGood DEF CanMarkRinging, Expired
<1>5. /\ n.state = "ringing" /\ n.offer = o /\ n.call = c /\ n.lease = "ahead"
      /\ n.wrapCall = NoCall
  BY <1>3 DEF MarkRinging, Occupy
<1>6. h.state \notin ActiveStates
  BY <1>2 DEF CanReserve, Occupied, Expired, HashInv
<1>7. \A d \in Calls : ~Live(d)
  BY <1>6 DEF LifeInv, Live, ActiveStates
<1> HIDE DEF n
<1>8. h' = n /\ clock' \in Nat /\ clock' >= clock /\ clock' # 0
  BY <1>1, <1>2, WriteAdvances DEF HashInv
<1>9. UNCHANGED <<life, answered, deadline, conn, resync, faults, cache, desk, media, req>>
      /\ rung' = rung \cup {o}
  BY DEF Ring
<1>10. HashInv'
  BY <1>1, <1>2, <1>4, <1>5, <1>8, <1>9 DEF HashInv
<1>11. LifeInv'
  <2>1. \A d \in Calls : answered[d] \in Nat
    BY DEF TypeOK
  <2> QED BY <1>1, <1>7, <1>8, <1>9, <2>1 DEF LifeInv, Live
<1>12. CacheInv'
  <2>1. cache.at \in Nat
    BY DEF TypeOK, Snapshot
  <2> QED BY <1>1, <1>8, <1>9, <2>1 DEF CacheInv
<1>13. WireInv' /\ push' \in Seq(Event)
  <2>1. Known \subseteq Known'
    BY <1>9, KnownStays
  <2>2. ev.name = "incoming" /\ ev.call = c /\ ev.offer = o /\ ev \in Event
    BY <1>1 DEF Ev, Event, EventNames
  <2> HIDE DEF ev
  <2>3. ev \in Known'
    BY <1>1, <1>9, <2>2 DEF Known
  <2>4. <<ev>> \in Seq(Known')
    BY <2>3
  <2> QED BY <1>2, <2>1, <2>4, Pushed
<1>14. h' \in Hash
  BY <1>4, <1>8 DEF GoodHash
<1>15. \A p \in Offers : Rings(p)' => p \notin rung
  BY <1>2, <1>5, <1>8 DEF Rings
<1>16. /\ life' \in [Calls -> {"new", "ringing", "answered", "over"}]
       /\ answered' \in [Calls -> Nat] /\ deadline' \in [Calls -> Nat]
       /\ rung' \subseteq Offers
       /\ conn' \in BOOLEAN /\ resync' \in BOOLEAN /\ faults' \in 0..MaxFaults
       /\ setup' \in [Flows -> {"none", "dialing", "sent", "ok", "refused", "check"}]
       /\ req' \in [ hangup : BOOLEAN,
                    cancel : Calls \cup {NoCall}, cancelled : BOOLEAN,
                    reject : Offers \cup {NoOffer}, rejected : BOOLEAN,
                    ready  : BOOLEAN ]
       /\ UNCHANGED <<leg, rebuild, setup>>
  BY <1>9 DEF TypeOK, media
<1>17. Live(s.call)' = Live(s.call)
  BY <1>9 DEF Live, desk
<1> QED
  BY <1>8, <1>9, <1>10, <1>11, <1>12, <1>13, <1>14, <1>15, <1>16, <1>17, ServerPreserves

\* The server takes the agent out of the offer, or the agent's status changes
\* while it has no call.
LEMMA VacatePreserves ==
  ASSUME IInv, NEW new, Write(new), Vacant(new), new.wrapCall = NoCall,
         \A c \in Calls : ~Live(c),
         UNCHANGED <<life, answered, rung, cache>>
  PROVE  /\ HashInv' /\ LifeInv' /\ CacheInv' /\ h' \in Hash /\ clock' \in Nat
         /\ \A o \in Offers : ~Rings(o)'
<1>1. \A c \in Calls : ~Live(c)'
  BY DEF Live
<1>2. HashInv' /\ LifeInv' /\ CacheInv' /\ h' \in Hash /\ clock' \in Nat
  BY <1>1, HashVacated DEF IInv
<1>3. \A o \in Offers : ~Rings(o)'
  BY DEF Write, Vacant, Rings, ActiveStates
<1> QED BY <1>2, <1>3

\* An agent without a call, or with an offer, has no live call.
LEMMA NobodyIsLive ==
  ASSUME IInv, h.state \notin {"ringing", "in_call"} \/ h.offer # NoOffer
  PROVE  \A c \in Calls : ~Live(c)
BY DEF IInv, HashInv, LifeInv, Live, GoodHash, WellFormed

\* The decision timer.
LEMMA OfferTimesOutPreserves ==
  ASSUME IInv, NEW o \in Offers, OfferTimesOut(o)
  PROVE  IInv'
<1> DEFINE n == Release(h, o, NoCall, FALSE)
<1>1. /\ h.state = "ringing" /\ h.offer = o /\ o # NoOffer /\ Write(n)
      /\ UNCHANGED <<life, rung, answered, deadline, wire, cache, desk, media, req>>
  BY CallsAndFlows DEF OfferTimesOut
<1>2. h \in GoodHash
  BY DEF IInv, HashInv
<1>3. Vacant(n) /\ n.wrapCall = NoCall
  BY <1>1, <1>2, ReleaseIsVacant DEF CanRelease
<1>4. \A c \in Calls : ~Live(c)
  BY <1>1, NobodyIsLive
<1>5. /\ HashInv' /\ LifeInv' /\ CacheInv' /\ h' \in Hash /\ clock' \in Nat
      /\ \A p \in Offers : ~Rings(p)'
  BY <1>1, <1>3, <1>4, VacatePreserves
<1>6. WireInv' /\ push' \in Seq(Event)
  BY <1>1, KnownStays, NothingPushed DEF IInv, wire
<1> QED BY <1>1, <1>5, <1>6, ServerPreserves DEF IInv, TypeOK, wire, media, Live, desk

\* The caller, the customer or the agent's hangup ends a call; a request to
\* cancel or to hang up may find it ended.
LEMMA EndPreserves ==
  ASSUME IInv,
         (\E c \in Calls : Ends(c)) \/ UNCHANGED <<life, h, clock, push>>,
         UNCHANGED <<rung, answered, deadline, conn, resync, faults, cache, desk, media>>,
         req' \in [ hangup : BOOLEAN,
                    cancel : Calls \cup {NoCall}, cancelled : BOOLEAN,
                    reject : Offers \cup {NoOffer}, rejected : BOOLEAN,
                    ready  : BOOLEAN ]
  PROVE  IInv'
<1>1. CASE \E c \in Calls : Ends(c)
  <2> PICK c \in Calls : Ends(c)
    BY <1>1
  <2>1. /\ HashInv' /\ LifeInv' /\ CacheInv' /\ WireInv'
        /\ h' \in Hash /\ clock' \in Nat /\ push' \in Seq(Event)
        /\ life' = [life EXCEPT ![c] = "over"]
        /\ \A o \in Offers : Rings(o)' => Rings(o)
    BY EndsPreserves
  <2>2. /\ life' \in [Calls -> {"new", "ringing", "answered", "over"}]
        /\ \A d \in Calls : Live(d)' => Live(d)
    BY <2>1 DEF IInv, TypeOK, Live
  <2>3. s.call \in Calls \cup {NoCall} /\ s' = s
    BY DEF IInv, TypeOK, Session, desk
  <2> QED BY <2>1, <2>2, <2>3, ServerPreserves DEF IInv, TypeOK, media, Live
<1>2. CASE UNCHANGED <<life, h, clock, push>>
  <2>1. WireInv' /\ push' \in Seq(Event)
    BY <1>2, KnownStays, NothingPushed DEF IInv
  <2>2. HashInv' /\ LifeInv' /\ CacheInv'
    BY <1>2 DEF IInv, HashInv, LifeInv, CacheInv
  <2> QED BY <1>2, <2>1, <2>2, ServerPreserves DEF IInv, TypeOK, media, Live, Rings, desk
<1> QED BY <1>1, <1>2

LEMMA CallEndsPreserves ==
  ASSUME IInv, NEW c \in Calls, CallEnds(c)
  PROVE  IInv'
BY EndPreserves DEF CallEnds, IInv, TypeOK

LEMMA ServeCancelPreserves ==
  ASSUME IInv, ServeCancel
  PROVE  IInv'
<1>1. req.cancel \in Calls /\ req' = [req EXCEPT !.cancelled = TRUE]
  BY DEF ServeCancel, IInv, TypeOK
<1> QED BY <1>1, EndPreserves DEF ServeCancel, IInv, TypeOK

LEMMA ServeHangupPreserves ==
  ASSUME IInv, ServeHangup
  PROVE  IInv'
<1>1. h.state = "in_call" => h.call \in Calls
  BY DEF IInv, HashInv, GoodHash, Hash, WellFormed, Occupied, ActiveStates
<1> QED BY <1>1, EndPreserves DEF ServeHangup, IInv, TypeOK

\* A call is connected: the first the hash tells of it.
LEMMA ConnectPreserves ==
  ASSUME IInv, NEW c \in Calls, NEW dir \in {"inbound", "outbound"},
         h.state = "ringing", h.call = c, \A d \in Calls \ {c} : ~Live(d),
         answered[c] = 0, life[c] # "over",
         Write(MarkInCall(h, c, dir)),
         life' = [life EXCEPT ![c] = "answered"],
         answered' = [answered EXCEPT ![c] = clock'],
         UNCHANGED <<rung, cache>>
  PROVE  /\ HashInv' /\ LifeInv' /\ CacheInv' /\ h' \in Hash /\ clock' \in Nat
         /\ \A o \in Offers : ~Rings(o)'
<1> USE DEF IInv
<1> DEFINE n == MarkInCall(h, c, dir)
<1>1. h \in GoodHash /\ clock \in Nat /\ clock # 0
  BY DEF HashInv, TypeOK
<1>2. n \in GoodHash
  BY <1>1, MarkInCallIsGood DEF CanMarkInCall, Directions
<1>3. /\ n.state = "in_call" /\ n.call = c /\ n.offer = NoOffer /\ n.lease = "ahead"
      /\ n.wrapCall = NoCall
  BY DEF MarkInCall, Occupy
<1>4. Write(n) /\ n # h
  BY <1>3
<1> HIDE DEF n
<1>5. h' = n /\ clock' = clock + 1
  BY <1>1, <1>4, WriteAdvances
<1>6. /\ life'[c] = "answered" /\ answered'[c] = clock + 1
      /\ \A d \in Calls \ {c} : life'[d] = life[d] /\ answered'[d] = answered[d]
      /\ \A d \in Calls : answered[d] \in Nat
  BY <1>5 DEF TypeOK
<1>7. HashInv'
  BY <1>1, <1>2, <1>3, <1>5, <1>6 DEF HashInv
<1>8. LifeInv'
  BY <1>1, <1>3, <1>5, <1>6 DEF LifeInv, Live
<1>9. CacheInv'
  <2>1. cache.at \in Nat /\ cache.wrapCall \in Calls \cup {NoCall}
    BY DEF TypeOK, Snapshot
  <2>2. cache.wrapCall # NoCall => life'[cache.wrapCall] = "over"
    <3>1. SUFFICES ASSUME cache.wrapCall # NoCall
                   PROVE  life'[cache.wrapCall] = "over"
      OBVIOUS
    <3>2. life[cache.wrapCall] = "over"
      BY <3>1 DEF CacheInv
    <3> QED BY <1>6, <2>1, <3>1, <3>2
  <2>3. \A d \in Calls : life'[d] = "answered" /\ cache.at >= answered'[d] =>
                           cache.call = d /\ cache.state = "in_call"
    BY <1>1, <1>6, <2>1 DEF CacheInv
  <2> QED BY <1>1, <1>5, <2>1, <2>2, <2>3 DEF CacheInv
<1>10. h' \in Hash /\ \A o \in Offers : ~Rings(o)'
  BY <1>2, <1>3, <1>5 DEF GoodHash, Rings
<1> QED BY <1>1, <1>5, <1>7, <1>8, <1>9, <1>10

\* The customer answers a dial.
LEMMA OutboundAnswersPreserves ==
  ASSUME IInv, NEW c \in Outbound, OutboundAnswers(c)
  PROVE  IInv'
<1>1. /\ c \in Calls /\ life[c] = "ringing" /\ h.state = "ringing" /\ h.call = c
      /\ answered[c] = 0 /\ clock \in Nat
  BY CallsAndFlows DEF OutboundAnswers, IInv, LifeInv, TypeOK
<1>2. \A d \in Calls \ {c} : ~Live(d)
  BY <1>1 DEF IInv, LifeInv, Live
<1>3. CanMarkInCall(h, NoOffer)
  BY <1>1 DEF CanMarkInCall
<1>4. /\ Write(MarkInCall(h, c, "outbound")) /\ Push(<<Ev("outbound_answered", c)>>)
      /\ life' = [life EXCEPT ![c] = "answered"]
      /\ answered' = [answered EXCEPT ![c] = clock']
      /\ UNCHANGED <<rung, deadline, conn, resync, faults, cache, desk, media, req>>
  BY <1>3 DEF OutboundAnswers
<1>5. /\ HashInv' /\ LifeInv' /\ CacheInv' /\ h' \in Hash /\ clock' \in Nat
      /\ \A o \in Offers : ~Rings(o)'
  BY <1>1, <1>2, <1>4, ConnectPreserves
<1>6. WireInv' /\ push' \in Seq(Event)
  <2>1. \A d \in Calls : answered[d] # 0 => answered'[d] # 0
    BY <1>1, <1>4 DEF IInv, TypeOK
  <2>2. Known \subseteq Known'
    BY <1>4, <2>1, KnownStays
  <2>3. <<Ev("outbound_answered", c)>> \in Seq(Known')
    BY <1>1, EventIsKnown
  <2> QED BY <1>4, <2>2, <2>3, Pushed DEF IInv
<1>7. /\ life' \in [Calls -> {"new", "ringing", "answered", "over"}]
      /\ answered' \in [Calls -> Nat]
  BY <1>1, <1>4, <1>5 DEF IInv, TypeOK
<1>8. s.call # NoCall /\ Live(s.call)' => Live(s.call)
  <2>1. s.call \in Calls \cup {NoCall} /\ life \in [Calls -> {"new", "ringing", "answered", "over"}]
        /\ s' = s
    BY <1>4 DEF IInv, TypeOK, Session, desk
  <2> QED BY <1>1, <1>4, <2>1 DEF Live
<1>9. UNCHANGED <<rung, deadline, conn, resync, faults, cache, desk, leg, setup, rebuild, req>>
  BY <1>4 DEF media
<1>10. /\ deadline' \in [Calls -> Nat] /\ rung' \subseteq Offers /\ rung \subseteq rung'
       /\ conn' \in BOOLEAN /\ resync' \in BOOLEAN /\ faults' \in 0..MaxFaults
       /\ setup' \in [Flows -> {"none", "dialing", "sent", "ok", "refused", "check"}]
       /\ \A o \in Offers : setup'[o] = setup[o]
  BY <1>9 DEF IInv, TypeOK
<1>11. req' \in [ hangup : BOOLEAN,
                   cancel : Calls \cup {NoCall}, cancelled : BOOLEAN,
                   reject : Offers \cup {NoOffer}, rejected : BOOLEAN,
                   ready  : BOOLEAN ]
  BY <1>9 DEF IInv, TypeOK
<1> QED BY <1>5, <1>6, <1>7, <1>8, <1>9, <1>10, <1>11, ServerPreserves

\* The sweep ends a wrap-up.
LEMMA SweepPreserves ==
  ASSUME IInv, Sweep
  PROVE  IInv'
<1>1. /\ h.state = "after_call_work" /\ Write(Free("ready"))
      /\ deadline' = [deadline EXCEPT ![h.wrapCall] = clock']
      /\ Push(<<Ev("wrap_up_timeout", NoCall)>>)
      /\ UNCHANGED <<life, rung, answered, conn, resync, faults, cache, desk, media, req>>
  BY DEF Sweep
<1>2. Vacant(Free("ready")) /\ Free("ready").wrapCall = NoCall
  BY FreeIsVacant DEF VisibleStatuses
<1>3. \A c \in Calls : ~Live(c)
  BY <1>1, NobodyIsLive
<1>4. /\ HashInv' /\ LifeInv' /\ CacheInv' /\ h' \in Hash /\ clock' \in Nat
      /\ \A p \in Offers : ~Rings(p)'
  BY <1>1, <1>2, <1>3, VacatePreserves
<1>5. WireInv' /\ push' \in Seq(Event)
  <2>1. Known \subseteq Known'
    BY <1>1, KnownStays
  <2>2. Ev("wrap_up_timeout", NoCall) \in Known'
    BY DEF Ev, Known, Event, EventNames
  <2>3. <<Ev("wrap_up_timeout", NoCall)>> \in Seq(Known')
    BY <2>2
  <2> QED BY <1>1, <2>1, <2>3, Pushed DEF IInv
<1>6. deadline' \in [Calls -> Nat]
  BY <1>1, <1>4 DEF IInv, TypeOK
<1> QED BY <1>1, <1>4, <1>5, <1>6, ServerPreserves DEF IInv, TypeOK, media, Live, desk

\* The server serves the request to accept.
LEMMA ServeAcceptPreserves ==
  ASSUME IInv, NEW o \in Offers, ServeAccept(o)
  PROVE  IInv'
<1> DEFINE c == CallOf[o]
<1>1. /\ setup[o] = "sent" /\ c \in Calls /\ o # NoOffer /\ o \in Flows
      /\ UNCHANGED <<rung, deadline, wire, cache, desk, leg, rebuild, req>>
  BY CallsAndFlows DEF ServeAccept
<1>2. /\ \A p \in Offers : \/ setup'[p] = setup[p]
                           \/ setup[p] = "sent" /\ setup'[p] \in {"ok", "refused"}
      /\ setup' \in [Flows -> {"none", "dialing", "sent", "ok", "refused", "check"}]
  <2>1. PICK v \in {"ok", "refused"} : setup' = [setup EXCEPT ![o] = v]
    BY DEF ServeAccept
  <2>2. setup \in [Flows -> {"none", "dialing", "sent", "ok", "refused", "check"}]
    BY DEF IInv, TypeOK
  <2> QED BY <1>1, <2>1, <2>2, CallsAndFlows
<1>3. CASE Rings(o)
  <2>1. /\ Write(MarkInCall(h, c, "inbound"))
        /\ life' = [life EXCEPT ![c] = "answered"]
        /\ answered' = [answered EXCEPT ![c] = clock']
    BY <1>3 DEF ServeAccept, Rings
  <2>2. h.state = "ringing" /\ h.call = c /\ life[c] = "new" /\ answered[c] = 0
    BY <1>1, <1>3 DEF Rings, IInv, HashInv, LifeInv
  <2>3. \A d \in Calls : ~Live(d)
    BY <1>1, <1>3, NobodyIsLive DEF Rings
  <2>4. /\ HashInv' /\ LifeInv' /\ CacheInv' /\ h' \in Hash /\ clock' \in Nat
        /\ \A p \in Offers : ~Rings(p)'
    BY <1>1, <2>1, <2>2, <2>3, ConnectPreserves
  <2>5. WireInv' /\ push' \in Seq(Event)
    <3>1. \A d \in Calls : answered[d] # 0 => answered'[d] # 0
      BY <2>1, <2>2 DEF IInv, TypeOK
    <3> QED BY <1>1, <3>1, KnownStays, NothingPushed DEF IInv, wire
  <2>6. /\ life' \in [Calls -> {"new", "ringing", "answered", "over"}]
        /\ answered' \in [Calls -> Nat]
    BY <1>1, <2>1, <2>4 DEF IInv, TypeOK
  <2>7. s.call # NoCall /\ Live(s.call)' =>
          Live(s.call) \/ (Rings(o) /\ setup[o] = "sent" /\ s.call = c)
    <3>1. s.call \in Calls \cup {NoCall} /\ s' = s
          /\ life \in [Calls -> {"new", "ringing", "answered", "over"}]
      BY <1>1 DEF IInv, TypeOK, Session, desk
    <3> QED BY <1>1, <1>3, <2>1, <3>1 DEF Live
  <2>8. s.call # NoCall /\ Live(s.call)' => Live(s.call) \/ \E p \in Offers :
          Rings(p) /\ setup[p] = "sent" /\ s.call = CallOf[p]
    BY <2>7
  <2>9. /\ cache' = cache /\ deadline' \in [Calls -> Nat] /\ rung' = rung /\ rung \subseteq Offers
        /\ conn' \in BOOLEAN /\ resync' \in BOOLEAN /\ faults' \in 0..MaxFaults
        /\ req' = req /\ UNCHANGED <<desk, leg, rebuild>>
    BY <1>1 DEF IInv, TypeOK, wire
  <2> QED BY <1>2, <2>4, <2>5, <2>6, <2>8, <2>9, ServerPreserves DEF IInv, TypeOK
<1>4. CASE ~Rings(o)
  <2>1. UNCHANGED <<h, clock, life, answered>>
    BY <1>4 DEF ServeAccept, Rings
  <2>2. WireInv' /\ push' \in Seq(Event)
    BY <1>1, <2>1, KnownStays, NothingPushed DEF IInv, wire
  <2>3. HashInv' /\ LifeInv' /\ CacheInv'
    BY <1>1, <2>1 DEF IInv, HashInv, LifeInv, CacheInv
  <2> QED
    BY <1>1, <1>2, <2>1, <2>2, <2>3, ServerPreserves DEF IInv, TypeOK, wire, Live, Rings, desk
<1> QED BY <1>3, <1>4

\* The server serves the request to reject.
LEMMA ServeRejectPreserves ==
  ASSUME IInv, ServeReject
  PROVE  IInv'
<1> DEFINE free == Release(h, req.reject, NoCall, FALSE)
<1>1. /\ req.reject \in Offers /\ req.reject # NoOffer /\ req' = [req EXCEPT !.rejected = TRUE]
      /\ UNCHANGED <<life, rung, answered, deadline, wire, cache, desk, media>>
  BY CallsAndFlows DEF ServeReject, IInv, TypeOK
<1>2. req' \in [ hangup : BOOLEAN,
                 cancel : Calls \cup {NoCall}, cancelled : BOOLEAN,
                 reject : Offers \cup {NoOffer}, rejected : BOOLEAN,
                 ready  : BOOLEAN ]
  BY <1>1 DEF IInv, TypeOK
<1>3. WireInv' /\ push' \in Seq(Event)
  BY <1>1, KnownStays, NothingPushed DEF IInv, wire
<1>4. h \in GoodHash
  BY DEF IInv, HashInv
<1>5. CASE Rings(req.reject)
  <2>1. Write(SetVisible(free, "busy"))
    BY <1>5 DEF ServeReject, Rings
  <2>2. CanRelease(h, req.reject, NoCall, FALSE)
    BY <1>5 DEF CanRelease, Rings
  <2>3. Vacant(free)
    BY <1>4, <2>2, ReleaseIsVacant
  <2>4. SetVisible(free, "busy") = Free("busy")
    BY <2>3 DEF SetVisible, Vacant, Occupied
  <2>5. Vacant(Free("busy")) /\ Free("busy").wrapCall = NoCall
    BY FreeIsVacant DEF VisibleStatuses
  <2>6. \A c \in Calls : ~Live(c)
    BY <1>1, <1>5, NobodyIsLive DEF Rings
  <2>7. /\ HashInv' /\ LifeInv' /\ CacheInv' /\ h' \in Hash /\ clock' \in Nat
        /\ \A p \in Offers : ~Rings(p)'
    BY <1>1, <2>1, <2>4, <2>5, <2>6, VacatePreserves
  <2> QED BY <1>1, <1>2, <1>3, <2>7, ServerPreserves DEF IInv, TypeOK, wire, media, Live, desk
<1>6. CASE ~Rings(req.reject)
  <2>1. h' = h /\ clock' = clock
    BY <1>6 DEF ServeReject, Rings, Write
  <2>2. HashInv' /\ LifeInv' /\ CacheInv'
    BY <1>1, <2>1 DEF IInv, HashInv, LifeInv, CacheInv
  <2> QED
    BY <1>1, <1>2, <1>3, <2>1, <2>2, ServerPreserves
       DEF IInv, TypeOK, wire, media, Live, Rings, desk
<1> QED BY <1>5, <1>6

\* A status the agent may set: it has no call then.
LEMMA ReadyIsVacant ==
  ASSUME IInv, CanSetVisible(h, "ready")
  PROVE  /\ SetVisible(h, "ready") = Free("ready") /\ Vacant(Free("ready"))
         /\ Free("ready").wrapCall = NoCall
         /\ \A c \in Calls : ~Live(c)
<1>1. ~Occupied(h)
  BY DEF CanSetVisible, Expired, IInv, HashInv
<1>2. \A c \in Calls : ~Live(c)
  BY <1>1, NobodyIsLive DEF Occupied, ActiveStates
<1>3. Vacant(Free("ready")) /\ Free("ready").wrapCall = NoCall
  BY FreeIsVacant DEF VisibleStatuses
<1> QED BY <1>1, <1>2, <1>3 DEF SetVisible

LEMMA ServeReadyPreserves ==
  ASSUME IInv, ServeReady
  PROVE  IInv'
<1>1. /\ req' = [req EXCEPT !.ready = FALSE]
      /\ UNCHANGED <<life, rung, answered, deadline, wire, cache, desk, media>>
  BY DEF ServeReady
<1>2. req' \in [ hangup : BOOLEAN,
                 cancel : Calls \cup {NoCall}, cancelled : BOOLEAN,
                 reject : Offers \cup {NoOffer}, rejected : BOOLEAN,
                 ready  : BOOLEAN ]
  BY <1>1 DEF IInv, TypeOK
<1>3. WireInv' /\ push' \in Seq(Event)
  BY <1>1, KnownStays, NothingPushed DEF IInv, wire
<1>4. CASE CanSetVisible(h, "ready")
  <2>1. Write(Free("ready"))
    BY <1>4, ReadyIsVacant DEF ServeReady
  <2>2. /\ HashInv' /\ LifeInv' /\ CacheInv' /\ h' \in Hash /\ clock' \in Nat
        /\ \A p \in Offers : ~Rings(p)'
    BY <1>1, <1>4, <2>1, ReadyIsVacant, VacatePreserves
  <2> QED BY <1>1, <1>2, <1>3, <2>2, ServerPreserves DEF IInv, TypeOK, wire, media, Live, desk
<1>5. CASE ~CanSetVisible(h, "ready")
  <2>1. h' = h /\ clock' = clock
    BY <1>5 DEF ServeReady, Write
  <2>2. HashInv' /\ LifeInv' /\ CacheInv'
    BY <1>1, <2>1 DEF IInv, HashInv, LifeInv, CacheInv
  <2> QED
    BY <1>1, <1>2, <1>3, <2>1, <2>2, ServerPreserves
       DEF IInv, TypeOK, wire, media, Live, Rings, desk
<1> QED BY <1>4, <1>5

\* The agent dials: the server has the call before the desk shows it.
LEMMA DialPreserves ==
  ASSUME IInv, NEW c \in Outbound, Dial(c)
  PROVE  IInv'
<1> USE DEF IInv
<1> DEFINE r == Reserve(h, "outbound", c, NoOffer)
           n == BindOutbound(r, c)
<1>1. /\ c \in Calls /\ c # NoCall /\ c \in Flows /\ c \notin Offers
      /\ h \in GoodHash /\ clock \in Nat /\ clock # 0 /\ cache \in Snapshot
      /\ life \in [Calls -> {"new", "ringing", "answered", "over"}]
  BY CallsAndFlows DEF HashInv, TypeOK
<1>2. /\ s.phase = "idle" /\ life[c] = "new" /\ CanReserve(h, "outbound") /\ Write(n)
      /\ setup' = [setup EXCEPT ![c] = "dialing"] /\ life' = [life EXCEPT ![c] = "ringing"]
      /\ UNCHANGED <<rung, answered, deadline, wire, cache, desk, leg, rebuild, req>>
  BY DEF Dial
<1>3. /\ r \in GoodHash /\ r.state = "reserved" /\ r.call = c
  BY <1>1, <1>2, ReserveOutboundIsGood DEF Reserve, Occupy
<1>4. n \in GoodHash
  BY <1>1, <1>3, BindOutboundIsGood
<1>5. /\ n.state = "ringing" /\ n.offer = NoOffer /\ n.call = c /\ n.lease = "ahead"
      /\ n.wrapCall = NoCall
  BY DEF BindOutbound, Occupy
<1>6. h.state \notin ActiveStates
  BY <1>2 DEF CanReserve, Occupied, Expired, HashInv
<1>7. \A d \in Calls : ~Live(d)
  BY <1>6 DEF LifeInv, Live, ActiveStates
<1> HIDE DEF n
<1>8. h' = n /\ clock' \in Nat /\ clock' >= clock /\ clock' # 0
  BY <1>1, <1>2, WriteAdvances
<1>9. life'[c] = "ringing" /\ \A d \in Calls \ {c} : life'[d] = life[d]
  BY <1>1, <1>2
<1>10. HashInv'
  BY <1>1, <1>4, <1>5, <1>8 DEF HashInv
<1>11. LifeInv'
  <2>1. \A d \in Calls : answered[d] \in Nat
    BY DEF TypeOK
  <2>2. answered[c] = 0
    BY <1>1, <1>2 DEF LifeInv
  <2> QED BY <1>1, <1>2, <1>5, <1>7, <1>8, <1>9, <2>1, <2>2 DEF LifeInv, Live
<1>12. CacheInv'
  <2>1. cache.at \in Nat /\ cache.wrapCall \in Calls \cup {NoCall}
    BY <1>1 DEF Snapshot
  <2>2. cache.wrapCall # NoCall => life'[cache.wrapCall] = "over"
    BY <1>2, <1>9, <2>1 DEF CacheInv
  <2>3. \A d \in Calls : life'[d] # "answered"
    BY <1>7, <1>9 DEF Live
  <2> QED BY <1>1, <1>2, <1>8, <2>1, <2>2, <2>3 DEF CacheInv
<1>13. WireInv' /\ push' \in Seq(Event)
  BY <1>2, KnownStays, NothingPushed DEF wire
<1>14. h' \in Hash /\ \A o \in Offers : ~Rings(o)'
  BY <1>4, <1>5, <1>8, CallsAndFlows DEF GoodHash, Rings
<1>15. /\ setup' \in [Flows -> {"none", "dialing", "sent", "ok", "refused", "check"}]
       /\ \A o \in Offers : setup'[o] = setup[o]
       /\ life' \in [Calls -> {"new", "ringing", "answered", "over"}]
  BY <1>1, <1>2, CallsAndFlows DEF TypeOK
<1>16. s.call = NoCall
  BY <1>2 DEF SessionInv
<1> QED
  BY <1>2, <1>8, <1>10, <1>11, <1>12, <1>13, <1>14, <1>15, <1>16, ServerPreserves
     DEF TypeOK, wire

-----------------------------------------------------------------------------
(* The steps of the desk and of its socket.                                 *)

\* A snapshot read now.
LEMMA SnapIsSound ==
  ASSUME IInv
  PROVE  /\ Snap \in Snapshot /\ Snap.at = clock
         /\ \A c \in Calls : Live(c) => Shows(Snap, c)
         /\ \A o \in Offers : Rings(o) =>
              Snap.state = "ringing" /\ Snap.offer = o /\ Shows(Snap, CallOf[o])
<1> USE DEF IInv
<1>1. Snap \in Snapshot /\ Snap.at = clock
  BY DEF Snap, Snapshot, TypeOK, Hash
<1>2. \A c \in Calls : Live(c) => Shows(Snap, c)
  BY DEF LifeInv, Live, Shows, Snap, ActiveStates
<1>3. \A o \in Offers : Rings(o) =>
        Snap.state = "ringing" /\ Snap.offer = o /\ Shows(Snap, CallOf[o])
  BY CallsAndFlows DEF Rings, HashInv, Shows, Snap, ActiveStates
<1> QED BY <1>1, <1>2, <1>3

\* Every snapshot a step leaves with the desk is sound: the one it had, one
\* read now, or none.
LEMMA CacheStaysSound ==
  ASSUME IInv, UNCHANGED server, cache' \in {cache, Snap, NoSnapshot}
  PROVE  HashInv' /\ LifeInv' /\ CacheInv' /\ cache' \in Snapshot
<1> USE DEF IInv, server
<1>1. HashInv' /\ LifeInv'
  BY DEF HashInv, LifeInv
<1>2. CASE cache' = cache
  BY <1>1, <1>2 DEF CacheInv, TypeOK
<1>3. CASE cache' = Snap
  <2>1. Snap \in Snapshot
    BY SnapIsSound
  <2>2. CacheInv'
    BY <1>3 DEF CacheInv, Snap, HashInv, LifeInv, TypeOK
  <2> QED BY <1>1, <1>3, <2>1, <2>2
<1>4. CASE cache' = NoSnapshot
  <2>1. NoSnapshot \in Snapshot
    BY DEF NoSnapshot, Snapshot, VisibleStatuses, ResourceStates
  <2>2. CacheInv'
    BY <1>4 DEF CacheInv, NoSnapshot, LifeInv, TypeOK
  <2> QED BY <1>1, <1>4, <2>1, <2>2
<1> QED BY <1>2, <1>3, <1>4

LEMMA DeskPreserves ==
  ASSUME IInv, UNCHANGED server, cache' \in {cache, Snap, NoSnapshot},
         WireInv', push' \in Seq(Event),
         WireTyped', DeskTyped', LegTyped', SetupTyped', RebuildTyped', ReqTyped',
         s'.offer \in rung \cup {NoOffer},
         \A o \in Offers : setup'[o] # "none" => o \in rung,
         SessionInv', LegInv', DatedInv'
  PROVE  IInv'
<1>1. HashInv' /\ LifeInv' /\ CacheInv' /\ cache' \in Snapshot
  BY CacheStaysSound
<1>2. OfferInv'
  BY DEF OfferInv, server
<1>3. TypeOK'
  BY <1>1 DEF IInv, TypeOK, server, WireTyped, DeskTyped, LegTyped, SetupTyped,
              RebuildTyped, ReqTyped
<1> QED BY <1>1, <1>2, <1>3 DEF IInv

\* A step that touches the socket only, and leaves the events known.
LEMMA SocketPreserves ==
  ASSUME IInv, UNCHANGED <<server, cache, desk, media, req>>, WireTyped',
         WireInv' /\ push' \in Seq(Event)
  PROVE  IInv'
<1>1. HashInv' /\ LifeInv' /\ CacheInv'
  BY DEF IInv, HashInv, LifeInv, CacheInv, server
<1>2. OfferInv' /\ SessionInv' /\ LegInv'
  BY DEF IInv, OfferInv, SessionInv, LegInv, server, desk, media
<1>3. DatedInv'
  BY DEF IInv, DatedInv, Dated, Rings, server, desk, media
<1>4. TypeOK'
  BY DEF IInv, TypeOK, server, desk, media, WireTyped
<1> QED BY <1>1, <1>2, <1>3, <1>4 DEF IInv

LEMMA SocketBreaksPreserves ==
  ASSUME IInv, SocketBreaks
  PROVE  IInv'
<1>1. WireTyped'
  <2>1. faults \in 0..MaxFaults /\ faults < MaxFaults /\ faults' = faults + 1
    BY Types DEF IInv, WireTyped, SocketBreaks
  <2>2. faults' \in 0..MaxFaults
    BY <2>1, BoundsAssumption
  <2> QED BY <2>2 DEF WireTyped, SocketBreaks
<1>2. WireInv' /\ push' \in Seq(Event)
  BY KnownIsTyped DEF SocketBreaks
<1> QED BY <1>1, <1>2, SocketPreserves DEF SocketBreaks

LEMMA SocketConnectsPreserves ==
  ASSUME IInv, SocketConnects
  PROVE  IInv'
<1>1. WireTyped'
  BY Types DEF IInv, SocketConnects, WireTyped
<1>2. WireInv' /\ push' \in Seq(Event)
  BY KnownStays, NothingPushed DEF IInv, SocketConnects, server
<1> QED BY <1>1, <1>2, SocketPreserves DEF SocketConnects

\* The server's connect handler shows the desk what the hash shows.
LEMMA RepublishPreserves ==
  ASSUME IInv, Republish
  PROVE  IInv'
<1>1. UNCHANGED <<server, conn, faults, cache, desk, media, req>> /\ resync' = FALSE
  BY DEF Republish
<1>2. WireTyped'
  BY <1>1, Types DEF IInv, WireTyped
<1>3. Known \subseteq Known'
  BY <1>1, KnownStays DEF server
<1>4. CASE h.state = "ringing" /\ h.offer # NoOffer
  <2> DEFINE ev == [Ev("incoming", h.call) EXCEPT !.offer = h.offer]
  <2>1. h.call \in Calls /\ h.offer \in rung /\ h.offer \in Offers
    BY <1>4, CallsAndFlows DEF IInv, HashInv, TypeOK
  <2>2. ev.name = "incoming" /\ ev.call = h.call /\ ev.offer = h.offer /\ ev \in Event
    BY <2>1 DEF Ev, Event, EventNames
  <2>3. Push(<<ev>>)
    BY <1>4 DEF Republish
  <2> HIDE DEF ev
  <2>4. ev \in Known'
    BY <1>1, <2>1, <2>2 DEF Known, server
  <2>5. <<ev>> \in Seq(Known')
    BY <2>4
  <2>6. WireInv' /\ push' \in Seq(Event)
    BY <1>3, <2>3, <2>5, Pushed DEF IInv
  <2> QED BY <1>1, <1>2, <2>6, SocketPreserves
<1>5. CASE h.state = "in_call"
  <2> DEFINE e1 == Ev("restore", h.call)
             e2 == Ev("answered", h.call)
  <2>1. h.call \in Calls /\ answered[h.call] # 0
    BY <1>5 DEF IInv, HashInv, LifeInv, GoodHash, Hash, WellFormed, Occupied, ActiveStates
  <2>2. /\ e1 \in Event /\ e1.name = "restore" /\ e1.call = h.call
        /\ e2 \in Event /\ e2.name = "answered"
    BY <2>1 DEF Ev, Event, EventNames
  <2>3. Push(<<e1, e2>>)
    BY <1>5 DEF Republish
  <2> HIDE DEF e1, e2
  <2>4. e1 \in Known' /\ e2 \in Known'
    BY <1>1, <2>1, <2>2 DEF Known, server
  <2>5. <<e1, e2>> \in Seq(Known')
    BY <2>4
  <2>6. WireInv' /\ push' \in Seq(Event)
    BY <1>3, <2>3, <2>5, Pushed DEF IInv
  <2> QED BY <1>1, <1>2, <2>6, SocketPreserves
<1>6. CASE h.state # "in_call" /\ ~(h.state = "ringing" /\ h.offer # NoOffer)
  <2>1. push' = push
    BY <1>6 DEF Republish
  <2>2. WireInv' /\ push' \in Seq(Event)
    BY <1>3, <2>1, NothingPushed DEF IInv
  <2> QED BY <1>1, <1>2, <2>2, SocketPreserves
<1> QED BY <1>4, <1>5, <1>6

\* A page that starts anew.
LEMMA FreshTyped ==
  ASSUME FreshDesk
  PROVE  /\ DeskTyped' /\ LegTyped' /\ SetupTyped' /\ RebuildTyped' /\ ReqTyped'
         /\ cache' = NoSnapshot /\ s'.offer = NoOffer
         /\ \A o \in Offers : setup'[o] = "none"
         /\ SessionInv' /\ LegInv' /\ DatedInv'
<1>1. InitialSession \in Session
  BY DEF InitialSession, Session, Phases
<1>2. /\ s' = InitialSession /\ s'.offer = NoOffer /\ s'.call = NoCall /\ s'.ended = {}
      /\ s'.phase = "mic_check" /\ s'.startedAt = 0 /\ s'.callStart = 0
      /\ leg' = NoLeg /\ leg'.pc = NoFlow
  BY DEF FreshDesk, InitialSession, NoLeg
<1>3. DeskTyped'
  BY <1>1, <1>2 DEF FreshDesk, DeskTyped
<1>4. LegTyped' /\ SetupTyped' /\ RebuildTyped' /\ ReqTyped'
  BY DEF FreshDesk, LegTyped, SetupTyped, RebuildTyped, ReqTyped, NoLeg
<1>5. SessionInv' /\ LegInv' /\ DatedInv'
  BY <1>2, CallsAndFlows, DatedCleared DEF SessionInv, LegInv
<1>6. \A o \in Offers : setup'[o] = "none"
  BY CallsAndFlows DEF FreshDesk
<1> QED BY <1>2, <1>3, <1>4, <1>5, <1>6 DEF FreshDesk

LEMMA ReloadPreserves ==
  ASSUME IInv, Reload
  PROVE  IInv'
<1>1. WireTyped'
  <2>1. faults \in 0..MaxFaults /\ faults < MaxFaults /\ faults' = faults + 1
    BY Types DEF IInv, WireTyped, Reload
  <2>2. faults' \in 0..MaxFaults
    BY <2>1, BoundsAssumption
  <2> QED BY <2>2 DEF WireTyped, Reload
<1>2. WireInv' /\ push' \in Seq(Event)
  BY KnownIsTyped DEF Reload
<1>3. FreshDesk /\ UNCHANGED server
  BY DEF Reload
<1> QED BY <1>1, <1>2, <1>3, FreshTyped, DeskPreserves

-----------------------------------------------------------------------------
(* The desk's events.                                                      *)

LEMMA BecomesTyped ==
  ASSUME IInv, NEW new \in Session, NEW end \in BOOLEAN, Becomes(new, end),
         UNCHANGED accepting,
         early' \in [answered : SUBSET Outbound, ended : SUBSET Outbound]
  PROVE  s' = new /\ DeskTyped'
<1>1. DeskTyped
  BY Types DEF IInv
<1> QED BY <1>1 DEF Becomes, DeskTyped

LEMMA NoCallEnds ==
  ASSUME NEW x \in Session
  PROVE  NoCall \notin x.ended /\ x.call \in Calls \cup {NoCall} /\ x.startedAt \in Nat
         /\ x.callStart \in Nat /\ x.phase \in Phases /\ x.offer \in Offers \cup {NoOffer}
BY NoCallAssumption DEF Session

\* The leg goes down with the session.
LEMMA OfflineIsSound ==
  ASSUME GoOffline, LegTyped, RebuildTyped
  PROVE  /\ leg'.pc = NoFlow /\ LegTyped' /\ RebuildTyped' /\ LegInv'
BY CallsAndFlows DEF GoOffline, Closed, NoLeg, LegTyped, RebuildTyped, LegInv

\* A session that is cleared, or becomes a wrap-up, when the leg goes down.
LEMMA HangsUp ==
  ASSUME IInv, NEW new \in Session, s' = new, leg'.pc = NoFlow,
         UNCHANGED <<server, cache, setup>>,
         \/ new = s
         \/ Clears(new)
         \/ s.phase = "on_call" /\ new.phase = "wrap_up" /\ Keeps(s, new)
  PROVE  SessionInv' /\ DatedInv' /\ s'.offer \in rung \cup {NoOffer}
<1> USE DEF IInv
<1>1. SessionInv'
  BY CallsAndFlows, NoCallEnds DEF SessionInv, Clears, Keeps
<1>2. s'.offer \in rung \cup {NoOffer}
  BY DEF OfferInv, Clears, Keeps
<1>3. DatedInv'
  <2>1. CASE Clears(new)
    BY <2>1, DatedCleared DEF Clears
  <2>2. CASE new = s \/ (new.phase = "wrap_up" /\ Keeps(s, new))
    BY <2>2, DatedKept DEF Keeps, Live, Rings, server
  <2> QED BY <2>1, <2>2
<1> QED BY <1>1, <1>2, <1>3

\* A session that moves on with the same call, and keeps its leg.
LEMMA MovesOn ==
  ASSUME IInv, NEW new \in Session, s' = new, leg'.pc = leg.pc, leg'.orphan = leg.orphan,
         UNCHANGED <<server, cache, setup>>,
         Keeps(s, new), new.ended = s.ended,
         \/ new.phase = s.phase
         \/ s.phase \in {"incoming", "outbound_ringing"} /\ new.phase = "on_call"
         \/ s.phase = "mic_check" /\ new.phase = "idle"
  PROVE  SessionInv' /\ LegInv' /\ DatedInv' /\ s'.offer \in rung \cup {NoOffer}
<1> USE DEF IInv
<1>1. SessionInv'
  BY DEF SessionInv, Keeps
<1>2. LegInv'
  BY DEF LegInv
<1>3. DatedInv'
  BY DatedKept DEF Keeps, Live, Rings, server
<1>4. s'.offer \in rung \cup {NoOffer}
  BY DEF OfferInv, Keeps
<1> QED BY <1>1, <1>2, <1>3, <1>4

\* A session that takes up a call from an event, and keeps its leg.
LEMMA TakesUp ==
  ASSUME IInv, NEW new \in Session, s' = new, leg' = leg,
         UNCHANGED <<server, cache, setup>>,
         new.ended = {}, new.phase \in {"on_call", "incoming"},
         s.phase = "on_call" => new.phase = "on_call",
         new.offer \in rung \cup {NoOffer}
  PROVE  SessionInv' /\ LegInv'
BY DEF IInv, SessionInv, LegInv

LEMMA OnIncomingPreserves ==
  ASSUME IInv, OnIncoming
  PROVE  IInv'
<1> DEFINE e == Head(push)
<1>1. /\ e \in Known /\ e.name = "incoming" /\ e.call \in Calls
      /\ e.offer \in rung /\ e.offer \in Offers
      /\ WireInv' /\ push' \in Seq(Event)
  BY Delivered DEF OnIncoming, IInv, Known, TypeOK
<1>2. UNCHANGED <<server, conn, resync, faults, cache, accepting, early, media, req>>
  BY DEF OnIncoming, Deliver
<1>3. PICK seen \in BOOLEAN : Keep(SocketIncoming(s, Incoming(e.call, e.offer, Now), seen, Now))
  BY DEF OnIncoming
<1> DEFINE new == SocketIncoming(s, Incoming(e.call, e.offer, Now), seen, Now)
<1>4. Now \in Nat /\ Now > cache.at /\ cache.at \in Nat
  BY DEF Now, IInv, CacheInv, TypeOK, Snapshot
<1>5. s \in Session /\ ending \in BOOLEAN
  BY DEF IInv, TypeOK
<1>6. /\ new \in Session
      /\ \/ new = s
         \/ /\ e.call \notin s.ended /\ new.phase \in {"on_call", "incoming"}
            /\ s.phase = "on_call" => new.phase = "on_call"
            /\ new.call = e.call /\ new.offer = e.offer /\ new.startedAt >= Now /\ new.ended = {}
  BY <1>1, <1>4, <1>5, SocketIncomingFields
<1>7. Becomes(new, ending)
  BY <1>3 DEF Keep
<1> HIDE DEF new, e
<1>8. s' = new /\ DeskTyped'
  BY <1>2, <1>5, <1>6, <1>7, BecomesTyped, Types DEF IInv, DeskTyped
<1>9. /\ WireTyped' /\ LegTyped' /\ SetupTyped' /\ RebuildTyped' /\ ReqTyped'
  BY <1>2, Types DEF IInv, media, WireTyped, LegTyped, SetupTyped, RebuildTyped, ReqTyped
<1>10. SessionInv' /\ LegInv' /\ DatedInv' /\ s'.offer \in rung \cup {NoOffer}
  <2>1. CASE new = s
    BY <1>2, <1>5, <1>8, <2>1, MovesOn DEF Keeps, media
  <2>2. CASE new # s
    <3>1. SessionInv' /\ LegInv' /\ s'.offer \in rung \cup {NoOffer}
      BY <1>1, <1>2, <1>6, <1>8, <2>2, TakesUp DEF media
    <3>2. s'.startedAt > cache'.at /\ cache'.at \in Nat
      BY <1>2, <1>4, <1>6, <1>8, <2>2, NoCallEnds
    <3> QED BY <1>6, <1>8, <3>1, <3>2, DatedFuture
  <2> QED BY <2>1, <2>2
<1>11. \A o \in Offers : setup'[o] # "none" => o \in rung
  BY <1>2 DEF IInv, OfferInv, media
<1> QED BY <1>1, <1>2, <1>8, <1>9, <1>10, <1>11, DeskPreserves

\* A restored call brings the time it was answered, since when every snapshot
\* shows it.
LEMMA OnRestorePreserves ==
  ASSUME IInv, OnRestore
  PROVE  IInv'
<1> DEFINE e  == Head(push)
           at == answered[e.call]
<1>1. /\ e \in Known /\ e.name = "restore" /\ e.call \in Calls /\ at # 0
      /\ WireInv' /\ push' \in Seq(Event)
  BY Delivered DEF OnRestore, IInv, Known
<1>2. UNCHANGED <<server, conn, resync, faults, cache, accepting, early, media, req>>
  BY DEF OnRestore, Deliver
<1> DEFINE new == Restored(s, e.call, at)
<1>3. Becomes(new, ending)
  BY DEF OnRestore, Keep, Restored
<1>4. at \in Nat /\ cache.at \in Nat
  BY <1>1 DEF IInv, TypeOK, Snapshot
<1>5. s \in Session /\ ending \in BOOLEAN
  BY DEF IInv, TypeOK
<1>7. life[e.call] \in {"answered", "over"}
  BY <1>1 DEF IInv, LifeInv
<1>14. life[e.call] = "answered" /\ cache.at >= at => Shows(cache, e.call)
  BY <1>1 DEF IInv, CacheInv, Shows, ActiveStates
<1> HIDE DEF e, at
<1>6. /\ new \in Session
      /\ \/ new = s
         \/ /\ e.call \notin s.ended /\ new.phase \in {"on_call", "incoming"}
            /\ s.phase = "on_call" => new.phase = "on_call"
            /\ new.call = e.call /\ new.offer = NoOffer /\ new.startedAt >= at /\ new.ended = {}
  BY <1>1, <1>4, <1>5, SocketRestoreFields
<1> HIDE DEF new
<1>8. s' = new /\ DeskTyped'
  BY <1>2, <1>5, <1>6, <1>3, BecomesTyped, Types DEF IInv, DeskTyped
<1>9. /\ WireTyped' /\ LegTyped' /\ SetupTyped' /\ RebuildTyped' /\ ReqTyped'
  BY <1>2, Types DEF IInv, media, WireTyped, LegTyped, SetupTyped, RebuildTyped, ReqTyped
<1>10. SessionInv' /\ LegInv' /\ DatedInv' /\ s'.offer \in rung \cup {NoOffer}
  <2>1. CASE new = s
    BY <1>2, <1>5, <1>8, <2>1, MovesOn DEF Keeps, media
  <2>2. CASE new # s
    <3>1. SessionInv' /\ LegInv' /\ s'.offer \in rung \cup {NoOffer}
      BY <1>1, <1>2, <1>6, <1>8, <2>2, TakesUp DEF media
    <3>2. Dated' => cache.at >= at
      <4>1. new.startedAt \in Nat /\ new.startedAt >= at
        BY <1>6, <2>2, NoCallEnds
      <4> QED BY <1>2, <1>4, <1>8, <4>1 DEF Dated
    <3>3. \A o \in Offers : Rings(o) => CallOf[o] # e.call
      BY <1>7, CallsAndFlows DEF Rings, IInv, HashInv
    <3> QED BY <1>2, <1>6, <1>7, <1>8, <1>14, <2>2, <3>1, <3>2, <3>3, CallsAndFlows
            DEF DatedInv, Rings, server, media
  <2> QED BY <2>1, <2>2
<1>11. \A o \in Offers : setup'[o] # "none" => o \in rung
  BY <1>2 DEF IInv, OfferInv, media
<1> QED BY <1>1, <1>2, <1>8, <1>9, <1>10, <1>11, DeskPreserves

\* What remains of a step that changes the session and not the leg.
LEMMA SessionOnly ==
  ASSUME IInv, UNCHANGED <<server, cache, media>>, WireTyped',
         WireInv' /\ push' \in Seq(Event), DeskTyped', ReqTyped',
         SessionInv' /\ LegInv' /\ DatedInv' /\ s'.offer \in rung \cup {NoOffer}
  PROVE  IInv'
<1>1. LegTyped' /\ SetupTyped' /\ RebuildTyped'
  BY Types DEF IInv, media, LegTyped, SetupTyped, RebuildTyped
<1>2. \A o \in Offers : setup'[o] # "none" => o \in rung
  BY DEF IInv, OfferInv, media
<1> QED BY <1>1, <1>2, DeskPreserves

\* A session that moves on, or stays.
LEMMA MoveOnly ==
  ASSUME IInv, UNCHANGED <<server, cache, media, accepting>>, WireTyped',
         WireInv' /\ push' \in Seq(Event), ReqTyped',
         early' \in [answered : SUBSET Outbound, ended : SUBSET Outbound],
         NEW new \in Session, Becomes(new, ending) \/ (new = s /\ UNCHANGED <<s, ending, wrapLocal>>),
         new = s \/ ( /\ Keeps(s, new) /\ new.ended = s.ended
                      /\ \/ new.phase = s.phase
                         \/ s.phase \in {"incoming", "outbound_ringing"} /\ new.phase = "on_call"
                         \/ s.phase = "mic_check" /\ new.phase = "idle" )
  PROVE  IInv'
<1>1. DeskTyped
  BY Types DEF IInv
<1>2. s' = new /\ DeskTyped'
  <2>1. CASE Becomes(new, ending)
    <3>1. ending \in BOOLEAN
      BY <1>1 DEF DeskTyped
    <3> QED BY <2>1, <3>1, BecomesTyped
  <2>2. CASE new = s /\ UNCHANGED <<s, ending, wrapLocal>>
    BY <1>1, <2>2 DEF DeskTyped
  <2> QED BY <2>1, <2>2
<1>3. SessionInv' /\ LegInv' /\ DatedInv' /\ s'.offer \in rung \cup {NoOffer}
  <2>1. Keeps(s, s)
    BY DEF Keeps
  <2> QED BY <1>2, <2>1, MovesOn DEF media
<1> QED BY <1>2, <1>3, SessionOnly

\* A session that is cleared while its leg stays: a wrap-up, or by a reply that
\* finds another call and makes its leg an orphan.
LEMMA ClearedIsSound ==
  ASSUME IInv, NEW new \in Session, Clears(new), s' = new,
         \/ s.phase = "wrap_up" /\ leg' = leg
         \/ Bereaved,
         \A o \in Offers : setup'[o] = setup[o] \/ setup[o] \notin {"sent", "ok", "refused"}
  PROVE  SessionInv' /\ LegInv' /\ DatedInv' /\ s'.offer \in rung \cup {NoOffer} /\ LegTyped'
<1>1. LegTyped
  BY Types DEF IInv
<1>2. /\ LegTyped' /\ leg'.pc = leg.pc
      /\ leg.orphan \/ (s.phase = "on_call" /\ leg.pc # NoFlow) => leg'.orphan
  BY <1>1 DEF Bereaved, LegTyped
<1>3. SessionInv'
  BY NoCallEnds DEF SessionInv, Clears
<1>4. LegInv'
  BY <1>2, CallsAndFlows DEF IInv, LegInv, Clears
<1>5. s'.offer \in rung \cup {NoOffer}
  BY DEF Clears
<1> QED BY <1>2, <1>3, <1>4, <1>5, DatedCleared DEF Clears

LEMMA EventStep ==
  ASSUME IInv, NEW name, Deliver(name)
  PROVE  /\ UNCHANGED <<server, cache>> /\ WireTyped'
         /\ WireInv' /\ push' \in Seq(Event)
         /\ Head(push) \in Known /\ Head(push).name = name
BY Delivered, Types DEF IInv, Deliver, WireTyped

LEMMA OnAnsweredPreserves ==
  ASSUME IInv, OnAnswered
  PROVE  IInv'
<1>1. /\ UNCHANGED <<server, cache, media, accepting, early, req>> /\ WireTyped'
      /\ WireInv' /\ push' \in Seq(Event) /\ Becomes(SocketAnswered(s), ending)
  BY EventStep DEF OnAnswered, Keep
<1>2. DeskTyped /\ ReqTyped'
  BY <1>1, Types DEF IInv, ReqTyped
<1> DEFINE new == SocketAnswered(s)
<1>3. new = s \/ ( /\ s.phase = "incoming" /\ new \in Session /\ new.phase = "on_call"
                   /\ Keeps(s, new) /\ new.ended = s.ended )
  BY <1>2, SocketAnsweredFields DEF DeskTyped
<1> HIDE DEF new
<1>4. new \in Session
  BY <1>2, <1>3 DEF DeskTyped
<1> QED BY <1>1, <1>2, <1>3, <1>4, MoveOnly DEF DeskTyped, new

LEMMA OnHangupPreserves ==
  ASSUME IInv, OnHangup
  PROVE  IInv'
<1> DEFINE c == Head(push).call
           new == SocketHangup(s, c)
<1>1. /\ UNCHANGED <<server, cache, accepting, early, setup, req>> /\ WireTyped'
      /\ WireInv' /\ push' \in Seq(Event) /\ c \in Calls
  BY EventStep DEF OnHangup, Known
<1>2. DeskTyped /\ LegTyped /\ RebuildTyped /\ ReqTyped' /\ SetupTyped'
  BY <1>1, Types DEF IInv, ReqTyped, SetupTyped
<1>3. CASE Names(s, leg.call, c)
  <2>1. GoOffline /\ Becomes(new, TRUE)
    BY <1>3 DEF OnHangup
  <2>2. /\ new \in Session
        /\ \/ new = s /\ s.phase \notin {"incoming", "outbound_ringing", "on_call"}
           \/ Clears(new)
           \/ s.phase = "on_call" /\ new.phase = "wrap_up" /\ Keeps(s, new)
    BY <1>1, <1>2, SocketHangupFields DEF DeskTyped
  <2> HIDE DEF new
  <2>3. s' = new /\ DeskTyped'
    BY <1>1, <1>2, <2>1, <2>2, BecomesTyped DEF DeskTyped
  <2>4. leg'.pc = NoFlow /\ LegTyped' /\ RebuildTyped' /\ LegInv'
    BY <1>2, <2>1, OfflineIsSound
  <2>5. SessionInv' /\ DatedInv' /\ s'.offer \in rung \cup {NoOffer}
    BY <1>1, <2>2, <2>3, <2>4, HangsUp
  <2>6. \A o \in Offers : setup'[o] # "none" => o \in rung
    BY <1>1 DEF IInv, OfferInv
  <2> QED BY <1>1, <1>2, <2>3, <2>4, <2>5, <2>6, DeskPreserves
<1>4. CASE ~Names(s, leg.call, c)
  <2>1. UNCHANGED <<leg, rebuild, s, ending, wrapLocal>>
    BY <1>4 DEF OnHangup
  <2> QED BY <1>1, <1>2, <2>1, MoveOnly DEF DeskTyped, media
<1> QED BY <1>3, <1>4

LEMMA OnOutboundAnsweredPreserves ==
  ASSUME IInv, OnOutboundAnswered
  PROVE  IInv'
<1> DEFINE c == Head(push).call
           new == OutboundAnswered(s)
<1>1. /\ UNCHANGED <<server, cache, media, accepting, req>> /\ WireTyped'
      /\ WireInv' /\ push' \in Seq(Event) /\ c \in Outbound
  BY EventStep DEF OnOutboundAnswered, Known
<1>2. DeskTyped /\ ReqTyped'
  BY <1>1, Types DEF IInv, ReqTyped
<1>3. CASE RingingOut(c)
  <2>1. Becomes(new, ending) /\ early' = early
    BY <1>3 DEF OnOutboundAnswered, Keep
  <2>2. new = s \/ ( /\ s.phase = "outbound_ringing" /\ new \in Session /\ new.phase = "on_call"
                     /\ Keeps(s, new) /\ new.ended = s.ended )
    BY <1>2, OutboundAnsweredFields DEF DeskTyped
  <2> HIDE DEF new
  <2>3. new \in Session
    BY <1>2, <2>2 DEF DeskTyped
  <2> QED BY <1>1, <1>2, <2>1, <2>2, <2>3, MoveOnly DEF DeskTyped
<1>4. CASE ~RingingOut(c)
  <2>1. early' = [early EXCEPT !.answered = @ \cup {c}] /\ UNCHANGED <<s, ending, wrapLocal>>
    BY <1>4 DEF OnOutboundAnswered
  <2>2. early' \in [answered : SUBSET Outbound, ended : SUBSET Outbound]
    BY <1>1, <1>2, <2>1 DEF DeskTyped
  <2> QED BY <1>1, <1>2, <2>1, <2>2, MoveOnly DEF DeskTyped
<1> QED BY <1>3, <1>4

LEMMA OnOutboundHangupPreserves ==
  ASSUME IInv, OnOutboundHangup
  PROVE  IInv'
<1> DEFINE c == Head(push).call
           new == OutboundHangup(s, c)
<1>1. /\ UNCHANGED <<server, cache, accepting, setup, req>> /\ WireTyped'
      /\ WireInv' /\ push' \in Seq(Event) /\ c \in Outbound /\ c \in Calls
  BY EventStep, CallsAndFlows DEF OnOutboundHangup, Known
<1>2. DeskTyped /\ LegTyped /\ RebuildTyped /\ ReqTyped' /\ SetupTyped'
  BY <1>1, Types DEF IInv, ReqTyped, SetupTyped
<1>3. CASE s.call \in {NoCall, c}
  <2>1. /\ GoOffline /\ Becomes(new, TRUE)
        /\ early' = [ answered |-> early.answered \ {c},
                      ended |-> early.ended \cup IF RingingOut(c) THEN {} ELSE {c} ]
    BY <1>3 DEF OnOutboundHangup
  <2>2. early' \in [answered : SUBSET Outbound, ended : SUBSET Outbound]
    BY <1>1, <1>2, <2>1 DEF DeskTyped
  <2>3. s.phase \in {"mic_check", "idle"} => s.call = NoCall
    BY DEF IInv, SessionInv
  <2>4. /\ new \in Session
        /\ \/ new = s /\ (s.phase \notin {"outbound_ringing", "on_call"} \/ s.call \notin {NoCall, c})
           \/ Clears(new)
           \/ s.phase = "on_call" /\ new.phase = "wrap_up" /\ Keeps(s, new)
    BY <1>1, <1>2, <2>3, OutboundHangupFields DEF DeskTyped
  <2> HIDE DEF new
  <2>5. s' = new /\ DeskTyped'
    BY <1>1, <1>2, <2>1, <2>2, <2>4, BecomesTyped
  <2>6. leg'.pc = NoFlow /\ LegTyped' /\ RebuildTyped' /\ LegInv'
    BY <1>2, <2>1, OfflineIsSound
  <2>7. SessionInv' /\ DatedInv' /\ s'.offer \in rung \cup {NoOffer}
    BY <1>1, <1>3, <2>4, <2>5, <2>6, HangsUp
  <2>8. \A o \in Offers : setup'[o] # "none" => o \in rung
    BY <1>1 DEF IInv, OfferInv
  <2> QED BY <1>1, <1>2, <2>5, <2>6, <2>7, <2>8, DeskPreserves
<1>4. CASE s.call \notin {NoCall, c}
  <2>1. UNCHANGED <<early, leg, rebuild, s, ending, wrapLocal>>
    BY <1>4 DEF OnOutboundHangup
  <2> QED BY <1>1, <1>2, <2>1, MoveOnly DEF DeskTyped, media
<1> QED BY <1>3, <1>4

LEMMA OnWrapUpStartedPreserves ==
  ASSUME IInv, OnWrapUpStarted
  PROVE  IInv'
<1>1. /\ UNCHANGED <<server, cache, s, ending, accepting, early, media, req>> /\ WireTyped'
      /\ WireInv' /\ push' \in Seq(Event) /\ Head(push).call \in Calls
      /\ wrapLocal' \in {Head(push).call, wrapLocal}
  BY EventStep DEF OnWrapUpStarted, Known
<1>2. DeskTyped' /\ ReqTyped'
  BY <1>1, Types DEF IInv, ReqTyped, DeskTyped
<1>3. s \in Session /\ Keeps(s, s)
  BY Types DEF IInv, DeskTyped, Keeps
<1>4. SessionInv' /\ LegInv' /\ DatedInv' /\ s'.offer \in rung \cup {NoOffer}
  BY <1>1, <1>3, MovesOn DEF media
<1> QED BY <1>1, <1>2, <1>4, SessionOnly

\* The end of a wrap-up on the desk, however it comes.
LEMMA WrapUpEnds ==
  ASSUME IInv, s.phase = "wrap_up", Keep(WrapUpDone(s)),
         UNCHANGED <<server, cache, media, accepting, early>>, WireTyped',
         WireInv' /\ push' \in Seq(Event), ReqTyped'
  PROVE  IInv'
<1>1. DeskTyped
  BY Types DEF IInv
<1>2. WrapUpDone(s) \in Session /\ Clears(WrapUpDone(s))
  BY <1>1, WrapUpDoneFields DEF DeskTyped
<1>3. s' = WrapUpDone(s) /\ DeskTyped'
  BY <1>1, <1>2, BecomesTyped DEF Keep, DeskTyped
<1>4. SessionInv' /\ LegInv' /\ DatedInv' /\ s'.offer \in rung \cup {NoOffer}
  BY <1>2, <1>3, ClearedIsSound DEF media
<1> QED BY <1>3, <1>4, SessionOnly

LEMMA OnWrapUpTimeoutPreserves ==
  ASSUME IInv, OnWrapUpTimeout
  PROVE  IInv'
<1>1. /\ UNCHANGED <<server, cache, accepting, early, media, req>> /\ WireTyped'
      /\ WireInv' /\ push' \in Seq(Event)
  BY EventStep DEF OnWrapUpTimeout
<1>2. DeskTyped /\ ReqTyped'
  BY <1>1, Types DEF IInv, ReqTyped
<1>3. CASE s.phase = "wrap_up"
  BY <1>1, <1>2, <1>3, WrapUpEnds DEF OnWrapUpTimeout
<1>4. CASE s.phase # "wrap_up"
  BY <1>1, <1>2, <1>4, MoveOnly DEF OnWrapUpTimeout, DeskTyped
<1> QED BY <1>3, <1>4

-----------------------------------------------------------------------------
(* Snapshots and their effects.                                            *)

\* A new snapshot shows what the hash shows; the session stays.
LEMMA PollPreserves ==
  ASSUME IInv, Poll
  PROVE  IInv'
<1>1. UNCHANGED <<server, wire, desk, media, req>> /\ cache' = Snap
  BY DEF Poll
<1>2. WireInv' /\ push' \in Seq(Event)
  BY <1>1, KnownStays, NothingPushed DEF IInv, server, wire
<1>3. /\ WireTyped' /\ DeskTyped' /\ LegTyped' /\ SetupTyped' /\ RebuildTyped' /\ ReqTyped'
  BY <1>1, Types DEF IInv, wire, desk, media, WireTyped, DeskTyped, LegTyped, SetupTyped,
                     RebuildTyped, ReqTyped
<1>4. SessionInv' /\ LegInv' /\ s'.offer \in rung \cup {NoOffer}
  BY <1>1 DEF IInv, OfferInv, SessionInv, LegInv, desk, media
<1>5. \A o \in Offers : setup'[o] # "none" => o \in rung
  BY <1>1 DEF IInv, OfferInv, media
<1>6. DatedInv'
  <2>1. s.call \in Calls \cup {NoCall}
    BY Types, NoCallEnds DEF IInv, DeskTyped
  <2> QED BY <1>1, <2>1, SnapIsSound DEF DatedInv, Live, Shows, Rings, server, desk, media
<1> QED BY <1>1, <1>2, <1>3, <1>4, <1>5, <1>6, DeskPreserves

\* What an effect leaves alone.
LEMMA EffectStep ==
  ASSUME IInv, UNCHANGED <<server, wire>>
  PROVE  WireTyped' /\ WireInv' /\ push' \in Seq(Event)
<1>1. WireTyped'
  BY Types DEF IInv, wire, WireTyped
<1> QED BY <1>1, KnownStays, NothingPushed DEF IInv, server, wire

LEMMA MicReadyPreserves ==
  ASSUME IInv, MicReady
  PROVE  IInv'
<1>1. DeskTyped /\ ReqTyped
  BY Types DEF IInv
<1>2. /\ s.phase = "mic_check" /\ Becomes(MicReadyIn(s), ending)
      /\ UNCHANGED <<server, wire, cache, accepting, early, media, req>>
  BY DEF MicReady, Keep
<1>3. LET r == MicReadyIn(s) IN
      r \in Session /\ r.phase = "idle" /\ Keeps(s, r) /\ r.ended = s.ended
  BY <1>1, <1>2, MicReadyFields DEF DeskTyped
<1> QED BY <1>1, <1>2, <1>3, EffectStep, MoveOnly DEF DeskTyped, ReqTyped

\* An idle desk takes up the call a snapshot shows, with the start it knows.
LEMMA HydrateTakes ==
  ASSUME IInv, Hydrate
  PROVE  \E p \in {"wrap_up", "incoming", "on_call"}, c \in Calls, o \in Offers \cup {NoOffer},
            start \in Nat :
        /\ s.phase = "idle" /\ c \notin s.ended
        /\ Becomes(PollHydrate(s, p, Incoming(c, o, start), start), ending)
        /\ \/ p = "wrap_up" /\ c = cache.wrapCall /\ o = NoOffer
           \/ p = "incoming" /\ c = cache.call /\ o = cache.offer /\ o # NoOffer
              /\ cache.state = "ringing"
           \/ p = "on_call" /\ c = cache.call /\ o = NoOffer /\ cache.state = "in_call"
<1> DEFINE Takes(p, c, o, start) ==
             /\ s.phase = "idle" /\ c \in Calls /\ c \notin s.ended
             /\ Becomes(PollHydrate(s, p, Incoming(c, o, start), start), ending)
<1>1. /\ cache.at \in Nat /\ cache.call \in Calls \cup {NoCall}
      /\ cache.wrapCall \in Calls \cup {NoCall} /\ cache.offer \in Offers \cup {NoOffer}
  BY DEF IInv, TypeOK, Snapshot
<1>2. \A c \in Calls : StartOf(c) \cup {Now} \subseteq Nat
  BY DEF StartOf, Began, Now, IInv, TypeOK
<1>3. ASSUME NEW p, NEW c \in Calls \cup {NoCall}, NEW o, NEW start, Hydrates(p, c, o, start)
      PROVE  Takes(p, c, o, start)
  BY <1>3 DEF Hydrates, Keep
<1>4. CASE \E start \in StartOf(cache.wrapCall) \cup {Now} :
             Hydrates("wrap_up", cache.wrapCall, NoOffer, start)
  <2>1. PICK start \in StartOf(cache.wrapCall) \cup {Now} :
          Takes("wrap_up", cache.wrapCall, NoOffer, start)
    BY <1>1, <1>3, <1>4
  <2>2. start \in Nat
    BY <1>2, <2>1
  <2> QED BY <2>1, <2>2
<1>5. CASE /\ cache.state = "ringing" /\ cache.offer # NoOffer
           /\ Hydrates("incoming", cache.call, cache.offer, cache.at)
  <2>1. Takes("incoming", cache.call, cache.offer, cache.at)
    BY <1>1, <1>3, <1>5
  <2> QED BY <1>1, <1>5, <2>1
<1>6. CASE /\ cache.state = "in_call"
           /\ \E start \in StartOf(cache.call) :
                Hydrates("on_call", cache.call, NoOffer, start)
  <2>1. PICK start \in StartOf(cache.call) : Takes("on_call", cache.call, NoOffer, start)
    BY <1>1, <1>3, <1>6
  <2>2. start \in Nat
    BY <1>2, <2>1
  <2> QED BY <1>6, <2>1, <2>2
<1> QED BY <1>4, <1>5, <1>6 DEF Hydrate

LEMMA HydratePreserves ==
  ASSUME IInv, Hydrate
  PROVE  IInv'
<1>1. UNCHANGED <<server, wire, cache, accepting, early, media, req>>
  BY DEF Hydrate
<1>2. cache \in Snapshot /\ DeskTyped /\ ReqTyped'
  BY <1>1, Types DEF IInv, TypeOK, ReqTyped
<1>3. PICK p \in {"wrap_up", "incoming", "on_call"}, c \in Calls, o \in Offers \cup {NoOffer},
           start \in Nat :
        /\ s.phase = "idle" /\ c \notin s.ended
        /\ Becomes(PollHydrate(s, p, Incoming(c, o, start), start), ending)
        /\ \/ p = "wrap_up" /\ c = cache.wrapCall /\ o = NoOffer
           \/ p = "incoming" /\ c = cache.call /\ o = cache.offer /\ o # NoOffer
              /\ cache.state = "ringing"
           \/ p = "on_call" /\ c = cache.call /\ o = NoOffer /\ cache.state = "in_call"
  BY HydrateTakes
<1> DEFINE new == PollHydrate(s, p, Incoming(c, o, start), start)
<1>4. /\ new \in Session /\ new.phase = p /\ new.call = c /\ new.offer = o /\ new.ended = {}
  <2>1. p \in Phases /\ s \in Session
    BY <1>2 DEF DeskTyped, Phases
  <2> QED BY <1>3, <2>1, PollHydrateFields
<1> HIDE DEF new
<1>5. s' = new /\ DeskTyped'
  BY <1>1, <1>2, <1>3, <1>4, BecomesTyped DEF DeskTyped, new
<1>6. s'.offer \in rung \cup {NoOffer}
  BY <1>3, <1>4, <1>5 DEF IInv, CacheInv
<1>7. SessionInv' /\ LegInv'
  BY <1>1, <1>3, <1>4, <1>5 DEF IInv, SessionInv, LegInv, media
<1>8. DatedInv'
  <2>1. CASE p = "wrap_up"
    <3>1. life[c] = "over"
      BY <1>3, <2>1, CallsAndFlows DEF IInv, CacheInv
    <3>2. \A q \in Offers : Rings(q) => CallOf[q] # c
      BY <3>1, CallsAndFlows DEF Rings, IInv, HashInv
    <3> QED BY <1>1, <1>4, <1>5, <2>1, <3>1, <3>2, CallsAndFlows
            DEF DatedInv, Rings, server, media
  <2>2. CASE p \in {"incoming", "on_call"}
    <3>1. Shows(cache, c) /\ (p = "incoming" => cache.state = "ringing" /\ cache.offer = o)
      BY <1>3, <2>2 DEF Shows, ActiveStates
    <3> QED BY <1>1, <1>4, <1>5, <2>2, <3>1 DEF DatedInv, Shows
  <2> QED BY <1>3, <2>1, <2>2
<1> QED BY <1>1, <1>2, <1>5, <1>6, <1>7, <1>8, EffectStep, SessionOnly

LEMMA UpgradeRingingPreserves ==
  ASSUME IInv, UpgradeRinging
  PROVE  IInv'
<1> DEFINE new == OutboundAnswered(s)
<1>1. DeskTyped /\ ReqTyped
  BY Types DEF IInv
<1>2. /\ Becomes(new, ending)
      /\ UNCHANGED <<server, wire, cache, accepting, early, media, req>>
  BY DEF UpgradeRinging, Keep
<1>3. new = s \/ ( /\ s.phase = "outbound_ringing" /\ new \in Session /\ new.phase = "on_call"
                   /\ Keeps(s, new) /\ new.ended = s.ended )
  BY <1>1, OutboundAnsweredFields DEF DeskTyped
<1> HIDE DEF new
<1>4. new \in Session
  BY <1>1, <1>3 DEF DeskTyped
<1> QED BY <1>1, <1>2, <1>3, <1>4, EffectStep, MoveOnly DEF DeskTyped, ReqTyped

\* The call record brings an earlier start of the call, but not of the session:
\* the time a snapshot is measured against does not fall.
LEMMA RecordShowsAnswerPreserves ==
  ASSUME IInv, RecordShowsAnswer
  PROVE  IInv'
<1>1. DeskTyped /\ ReqTyped' /\ s \in Session
  BY Types DEF IInv, RecordShowsAnswer, ReqTyped, DeskTyped
<1>2. PICK start \in StartOf(s.call) : Keep(CdrAnswered(s, start))
  BY DEF RecordShowsAnswer
<1>3. /\ s.call \in Calls /\ s.phase \in {"on_call", "outbound_ringing", "incoming"}
      /\ UNCHANGED <<server, wire, cache, accepting, early, media, req>>
  BY <1>1, NoCallEnds DEF RecordShowsAnswer
<1>4. start \in Nat
  BY <1>2, <1>3 DEF StartOf, Began, IInv, TypeOK
<1> DEFINE new == CdrAnswered(s, start)
<1>5. new \in Session /\ new.phase = "on_call" /\ Keeps(s, new) /\ new.ended = s.ended
  BY <1>1, <1>3, <1>4, CdrAnsweredFields
<1>6. Becomes(new, ending)
  BY <1>2 DEF Keep
<1> HIDE DEF new
<1>7. s' = new /\ DeskTyped'
  BY <1>1, <1>3, <1>5, <1>6, BecomesTyped DEF DeskTyped
<1>8. SessionInv' /\ LegInv' /\ DatedInv' /\ s'.offer \in rung \cup {NoOffer}
  BY <1>3, <1>5, <1>7, MovesOn DEF media
<1> QED BY <1>1, <1>3, <1>7, <1>8, EffectStep, SessionOnly

\* A snapshot, a late hangup or a click takes the desk out of its call.
LEMMA HangupStep ==
  ASSUME IInv, GoOffline, NEW new \in Session, NEW end \in BOOLEAN, Becomes(new, end),
         UNCHANGED <<server, wire, cache, accepting, early, setup>>, ReqTyped',
         \/ new = s
         \/ Clears(new)
         \/ s.phase = "on_call" /\ new.phase = "wrap_up" /\ Keeps(s, new)
  PROVE  IInv'
<1>1. DeskTyped /\ LegTyped /\ RebuildTyped /\ SetupTyped'
  BY Types DEF IInv, SetupTyped
<1>2. s' = new /\ DeskTyped'
  BY <1>1, BecomesTyped DEF DeskTyped
<1>3. leg'.pc = NoFlow /\ LegTyped' /\ RebuildTyped' /\ LegInv'
  BY <1>1, OfflineIsSound
<1>4. SessionInv' /\ DatedInv' /\ s'.offer \in rung \cup {NoOffer}
  BY <1>2, <1>3, HangsUp
<1>5. \A o \in Offers : setup'[o] # "none" => o \in rung
  BY DEF IInv, OfferInv
<1> QED BY <1>1, <1>2, <1>3, <1>4, <1>5, EffectStep, DeskPreserves

LEMMA LeaveRingingPreserves ==
  ASSUME IInv, LeaveRinging
  PROVE  IInv'
<1>1. DeskTyped /\ ReqTyped
  BY Types DEF IInv
<1>2. s \in Session /\ s.call \in Calls
  BY <1>1, NoCallEnds DEF DeskTyped, LeaveRinging, ShouldLeaveRinging
<1>3. s.phase \in {"mic_check", "idle"} => s.call = NoCall
  BY DEF IInv, SessionInv
<1> DEFINE new == OutboundHangup(s, s.call)
<1>4. /\ new \in Session
      /\ new = s \/ Clears(new) \/ (s.phase = "on_call" /\ new.phase = "wrap_up" /\ Keeps(s, new))
  BY <1>2, <1>3, OutboundHangupFields
<1>5. /\ GoOffline /\ Becomes(new, TRUE)
      /\ UNCHANGED <<server, wire, cache, accepting, early, setup, req>>
  BY DEF LeaveRinging
<1> HIDE DEF new
<1> QED BY <1>1, <1>4, <1>5, HangupStep DEF ReqTyped

LEMMA LeaveOnCallPreserves ==
  ASSUME IInv, LeaveOnCall
  PROVE  IInv'
<1>1. DeskTyped /\ ReqTyped
  BY Types DEF IInv
<1>2. s \in Session /\ s.call \in Calls \cup {NoCall}
  BY <1>1, NoCallEnds DEF DeskTyped
<1> DEFINE new == SocketHangup(s, s.call)
<1>3. /\ new \in Session
      /\ new = s \/ Clears(new) \/ (s.phase = "on_call" /\ new.phase = "wrap_up" /\ Keeps(s, new))
  BY <1>2, SocketHangupFields
<1>4. /\ GoOffline /\ Becomes(new, TRUE)
      /\ UNCHANGED <<server, wire, cache, accepting, early, setup, req>>
  BY DEF LeaveOnCall
<1> HIDE DEF new
<1> QED BY <1>1, <1>3, <1>4, HangupStep DEF ReqTyped

LEMMA WrapUpFallbackPreserves ==
  ASSUME IInv, WrapUpFallback
  PROVE  IInv'
<1>1. ReqTyped'
  BY Types DEF IInv, WrapUpFallback, ReqTyped
<1> QED BY <1>1, EffectStep, WrapUpEnds DEF WrapUpFallback

-----------------------------------------------------------------------------
(* The agent's clicks and the replies they wait for.                         *)

\* The times the desk takes from its own clock lie after every snapshot.
LEMMA NowIsLater ==
  ASSUME IInv
  PROVE  Now \in Nat /\ cache.at \in Nat /\ Now > cache.at
BY DEF Now, IInv, CacheInv, TypeOK, Snapshot

LEMMA AcceptPreserves ==
  ASSUME IInv, NEW o \in Offers, Accept(o)
  PROVE  IInv'
<1>1. /\ s.phase = "incoming" /\ s.offer = o /\ o \in Flows /\ accepting' = o
      /\ UNCHANGED <<server, wire, cache, early, rebuild, req>>
  BY CallsAndFlows DEF Accept, CanDecide
<1>2. DeskTyped /\ LegTyped /\ SetupTyped /\ RebuildTyped' /\ ReqTyped'
  BY <1>1, Types DEF IInv, RebuildTyped, ReqTyped
<1>3. o \in rung
  BY <1>1, CallsAndFlows DEF IInv, OfferInv
<1>4. CASE leg.state = "ready"
  <2> DEFINE new == AcceptOk(s, Now)
  <2>1. Becomes(new, ending) /\ UNCHANGED <<leg, setup>>
    BY <1>4 DEF Accept, Keep
  <2>2. new \in Session /\ new.phase = "on_call" /\ Keeps(s, new) /\ new.ended = s.ended
    BY <1>2, NowIsLater, AcceptOkFields DEF DeskTyped
  <2> HIDE DEF new
  <2>3. s' = new /\ DeskTyped'
    BY <1>1, <1>2, <2>1, <2>2 DEF DeskTyped, Becomes
  <2>4. DatedInv'
    BY <1>1, <2>1, <2>2, <2>3, DatedKept DEF IInv, Keeps, Live, Rings, server
  <2>5. SessionInv' /\ LegInv' /\ s'.offer \in rung \cup {NoOffer}
    BY <1>1, <2>1, <2>2, <2>3 DEF IInv, OfferInv, SessionInv, LegInv, Keeps
  <2>6. LegTyped' /\ SetupTyped' /\ \A p \in Offers : setup'[p] # "none" => p \in rung
    BY <1>2, <2>1 DEF LegTyped, SetupTyped, IInv, OfferInv
  <2> QED BY <1>1, <1>2, <2>3, <2>4, <2>5, <2>6, EffectStep, DeskPreserves
<1>5. CASE leg.state # "ready"
  <2>1. /\ Connecting(o) /\ setup' = [setup EXCEPT ![o] = "sent"]
        /\ UNCHANGED <<s, ending, wrapLocal>>
    BY <1>5 DEF Accept
  <2>2. LegTyped' /\ leg'.pc = o
    BY <1>1, <2>1 DEF Connecting, NoLeg, LegTyped
  <2>3. /\ SetupTyped' /\ setup'[o] = "sent" /\ \A p \in Offers \ {o} : setup'[p] = setup[p]
    BY <1>1, <1>2, <2>1, CallsAndFlows DEF SetupTyped
  <2>4. DeskTyped'
    BY <1>1, <1>2, <2>1 DEF DeskTyped
  <2>5. SessionInv' /\ LegInv' /\ s'.offer \in rung \cup {NoOffer}
    BY <1>1, <1>3, <2>1, <2>2, <2>3, CallsAndFlows DEF IInv, SessionInv, LegInv
  <2>6. DatedInv'
    BY <1>1, <2>1, <2>3, DatedKept DEF IInv, Keeps, Live, Rings, server
  <2>7. \A p \in Offers : setup'[p] # "none" => p \in rung
    BY <1>3, <2>3 DEF IInv, OfferInv
  <2> QED BY <1>1, <1>2, <2>2, <2>3, <2>4, <2>5, <2>6, <2>7, EffectStep, DeskPreserves
<1> QED BY <1>4, <1>5

LEMMA AcceptReplyPreserves ==
  ASSUME IInv, NEW o \in Offers, AcceptReply(o)
  PROVE  IInv'
<1>1. /\ setup[o] \in {"ok", "refused"} /\ o \in Flows /\ CallOf[o] \in Calls
      /\ UNCHANGED <<server, wire, cache, early, rebuild, req>>
  BY CallsAndFlows DEF AcceptReply
<1>2. DeskTyped /\ LegTyped /\ SetupTyped /\ RebuildTyped' /\ ReqTyped'
  BY <1>1, Types DEF IInv, RebuildTyped, ReqTyped
<1>3. CASE setup[o] = "ok" /\ leg.pc = o
  <2> DEFINE new == AcceptOk(s, Now)
  <2>1. /\ leg' = [leg EXCEPT !.state = "ready", !.call = CallOf[o]]
        /\ setup' = [setup EXCEPT ![o] = "none"]
        /\ Becomes(new, ending) /\ UNCHANGED accepting
    BY <1>3 DEF AcceptReply, Keep
  <2>2. new \in Session /\ new.phase = "on_call" /\ Keeps(s, new) /\ new.ended = s.ended
    BY <1>2, NowIsLater, AcceptOkFields DEF DeskTyped
  <2> HIDE DEF new
  <2>3. s' = new /\ DeskTyped'
    BY <1>1, <1>2, <2>1, <2>2, BecomesTyped DEF DeskTyped
  <2>8. \A p \in Offers : setup'[p] = "sent" => setup[p] = "sent"
    BY <1>1, <1>2, <2>1, CallsAndFlows DEF SetupTyped
  <2>4. DatedInv'
    BY <1>1, <2>2, <2>3, <2>8, DatedKept DEF IInv, Keeps, Live, Rings, server
  <2>5. LegTyped' /\ leg'.pc = o
    BY <1>1, <1>2, <1>3, <2>1 DEF LegTyped
  <2>6. SessionInv' /\ LegInv' /\ s'.offer \in rung \cup {NoOffer}
    BY <1>3, <2>2, <2>3, <2>5 DEF IInv, OfferInv, SessionInv, LegInv, Keeps
  <2>7. SetupTyped' /\ \A p \in Offers : setup'[p] # "none" => p \in rung
    BY <1>1, <1>2, <2>1, CallsAndFlows DEF SetupTyped, IInv, OfferInv
  <2> QED BY <1>1, <1>2, <2>3, <2>4, <2>5, <2>6, <2>7, EffectStep, DeskPreserves
<1>4. CASE ~(setup[o] = "ok" /\ leg.pc = o)
  <2>1. /\ Failed /\ setup' = [setup EXCEPT ![o] = "check"] /\ accepting' = NoOffer
        /\ UNCHANGED <<s, ending, wrapLocal>>
    BY <1>4 DEF AcceptReply
  <2>2. LegTyped' /\ leg'.pc = NoFlow
    BY <1>2, <2>1 DEF Failed, Broken, LegTyped
  <2>3. /\ SetupTyped' /\ setup'[o] = "check" /\ \A p \in Offers \ {o} : setup'[p] = setup[p]
    BY <1>1, <1>2, <2>1, CallsAndFlows DEF SetupTyped
  <2>4. DeskTyped'
    BY <1>1, <1>2, <2>1 DEF DeskTyped
  <2>5. SessionInv' /\ LegInv' /\ s'.offer \in rung \cup {NoOffer}
    BY <1>1, <2>1, <2>2, CallsAndFlows DEF IInv, OfferInv, SessionInv, LegInv
  <2>6. DatedInv'
    BY <1>1, <2>1, <2>3, DatedKept DEF IInv, Keeps, Live, Rings, server
  <2>7. \A p \in Offers : setup'[p] # "none" => p \in rung
    BY <1>1, <2>3 DEF IInv, OfferInv
  <2> QED BY <1>1, <1>2, <2>2, <2>3, <2>4, <2>5, <2>6, <2>7, EffectStep, DeskPreserves
<1> QED BY <1>3, <1>4

\* The session is cleared and what remains of the leg is closed or an orphan.
LEMMA ClearsSession ==
  ASSUME IInv, Keep(Cleared(s)), UNCHANGED <<server, wire, accepting, early>>,
         cache' \in {cache, Snap, NoSnapshot},
         (GoOffline \/ (Bereaved /\ UNCHANGED rebuild)),
         SetupTyped', ReqTyped',
         \A p \in Offers : \/ setup'[p] = setup[p]
                           \/ setup[p] = "check" /\ setup'[p] = "none"
  PROVE  IInv'
<1>1. DeskTyped /\ LegTyped /\ RebuildTyped
  BY Types DEF IInv
<1> DEFINE new == Cleared(s)
<1>2. new \in Session /\ Clears(new) /\ new.ended = s.ended
  BY <1>1, ClearedFields DEF DeskTyped
<1>3. Becomes(new, ending)
  BY DEF Keep
<1> HIDE DEF new
<1>4. s' = new /\ DeskTyped'
  BY <1>1, <1>2, <1>3, BecomesTyped DEF DeskTyped
<1>5. \A p \in Offers : setup'[p] # "none" => p \in rung
  BY DEF IInv, OfferInv
<1>6. CASE GoOffline
  <2>1. leg'.pc = NoFlow /\ LegTyped' /\ RebuildTyped' /\ LegInv'
    BY <1>1, <1>6, OfflineIsSound
  <2>2. SessionInv' /\ DatedInv' /\ s'.offer \in rung \cup {NoOffer}
    BY <1>2, <1>4, NoCallEnds, DatedCleared DEF SessionInv, Clears
  <2> QED BY <1>4, <1>5, <2>1, <2>2, EffectStep, DeskPreserves
<1>7. CASE Bereaved /\ UNCHANGED rebuild
  <2>1. SessionInv' /\ LegInv' /\ DatedInv' /\ s'.offer \in rung \cup {NoOffer} /\ LegTyped'
    BY <1>2, <1>4, <1>7, ClearedIsSound
  <2>2. RebuildTyped'
    BY <1>1, <1>7 DEF RebuildTyped
  <2> QED BY <1>4, <1>5, <2>1, <2>2, EffectStep, DeskPreserves
<1> QED BY <1>6, <1>7

LEMMA AcceptCheckedPreserves ==
  ASSUME IInv, NEW o \in Offers, AcceptChecked(o)
  PROVE  IInv'
<1>1. /\ setup[o] = "check" /\ setup' = [setup EXCEPT ![o] = "none"] /\ cache' = Snap
      /\ GoOffline \/ (Bereaved /\ UNCHANGED rebuild)
      /\ Keep(Cleared(s)) /\ UNCHANGED <<server, wire, accepting, early, req>>
  BY DEF AcceptChecked
<1>2. SetupTyped /\ ReqTyped'
  BY <1>1, Types DEF IInv, ReqTyped
<1>3. SetupTyped' /\ setup'[o] = "none" /\ \A p \in Offers \ {o} : setup'[p] = setup[p]
  BY <1>1, <1>2, CallsAndFlows DEF SetupTyped
<1> QED BY <1>1, <1>2, <1>3, ClearsSession

LEMMA RejectPreserves ==
  ASSUME IInv, NEW o \in Offers, Reject(o)
  PROVE  IInv'
<1>1. req' = [req EXCEPT !.reject = o] /\ UNCHANGED <<server, wire, cache, desk, media>>
  BY DEF Reject
<1>2. ReqTyped'
  BY <1>1, Types DEF IInv, ReqTyped
<1>3. s \in Session
  BY Types DEF IInv, DeskTyped
<1> QED BY <1>1, <1>2, <1>3, EffectStep, Types, MoveOnly DEF IInv, DeskTyped, desk

LEMMA RejectReplyPreserves ==
  ASSUME IInv, RejectReply
  PROVE  IInv'
<1>1. /\ req' = [req EXCEPT !.reject = NoOffer, !.rejected = FALSE]
      /\ Keep(Cleared(s)) /\ Bereaved
      /\ UNCHANGED <<server, wire, cache, accepting, early, setup, rebuild>>
  BY DEF RejectReply
<1>2. SetupTyped' /\ ReqTyped
  BY <1>1, Types DEF IInv, SetupTyped
<1>3. ReqTyped'
  BY <1>1, <1>2 DEF ReqTyped
<1> QED BY <1>1, <1>2, <1>3, ClearsSession

\* The reply to a dial starts the desk's session for the call, unless the call
\* has ended before.
LEMMA DialReplyPreserves ==
  ASSUME IInv, NEW c \in Outbound, DialReply(c)
  PROVE  IInv'
<1> DEFINE started == DialStarted(s, c, Now)
           new     == IF c \in early.answered THEN OutboundAnswered(started) ELSE started
<1>1. /\ c \in Calls /\ c \in Flows /\ c \notin Offers
      /\ UNCHANGED <<server, wire, cache, accepting, rebuild, req>>
  BY CallsAndFlows DEF DialReply
<1>2. DeskTyped /\ LegTyped /\ SetupTyped /\ RebuildTyped' /\ ReqTyped'
  BY <1>1, Types DEF IInv, RebuildTyped, ReqTyped
<1>3. ASSUME NEW v \in {"none", "sent"}, setup' = [setup EXCEPT ![c] = v]
      PROVE  /\ SetupTyped' /\ \A p \in Offers : setup'[p] = setup[p]
             /\ \A p \in Offers : setup'[p] # "none" => p \in rung
  BY <1>1, <1>2, <1>3 DEF SetupTyped, IInv, OfferInv
<1>4. CASE c \in early.ended
  <2>1. /\ setup' = [setup EXCEPT ![c] = "none"]
        /\ early' = [early EXCEPT !.ended = @ \ {c}]
        /\ UNCHANGED <<s, ending, wrapLocal, leg>>
    BY <1>4 DEF DialReply
  <2>2. SetupTyped' /\ \A p \in Offers : setup'[p] = setup[p]
    BY <1>3, <2>1
  <2>3. DeskTyped' /\ LegTyped'
    BY <1>1, <1>2, <2>1 DEF DeskTyped, LegTyped
  <2>4. SessionInv' /\ LegInv' /\ s'.offer \in rung \cup {NoOffer}
    BY <2>1, <2>2 DEF IInv, OfferInv, SessionInv, LegInv
  <2>5. DatedInv'
    BY <1>1, <2>1, <2>2, DatedKept DEF IInv, Keeps, Live, Rings, server
  <2>6. \A p \in Offers : setup'[p] # "none" => p \in rung
    BY <1>3, <2>1
  <2> QED BY <1>1, <1>2, <2>2, <2>3, <2>4, <2>5, <2>6, EffectStep, DeskPreserves
<1>5. CASE c \notin early.ended
  <2>1. /\ setup' = [setup EXCEPT ![c] = "sent"]
        /\ early' = [early EXCEPT !.answered = @ \ {c}]
        /\ Becomes(new, ending) /\ Connecting(c)
    BY <1>5 DEF DialReply, Keep
  <2>2. SetupTyped' /\ \A p \in Offers : setup'[p] = setup[p]
    BY <1>3, <2>1
  <2>3. early' \in [answered : SUBSET Outbound, ended : SUBSET Outbound] /\ s \in Session
    BY <1>2, <2>1 DEF DeskTyped
  <2>4. LegTyped' /\ leg'.pc = c
    BY <1>1, <2>1 DEF Connecting, NoLeg, LegTyped
  <2>5. /\ started \in Session
        /\ \/ started = s
           \/ /\ c \notin s.ended
              /\ started.phase = "outbound_ringing" /\ started.call = c
              /\ started.offer = NoOffer
              /\ started.startedAt = Now /\ started.callStart = Now /\ started.ended = {}
    BY <1>1, <2>3, NowIsLater, DialStartedFields
  <2> HIDE DEF started
  <2>6. /\ new \in Session /\ Keeps(started, new) /\ new.ended = started.ended
        /\ \/ new.phase = started.phase
           \/ started.phase = "outbound_ringing" /\ new.phase = "on_call"
    BY <2>5, OutboundAnsweredFields DEF Keeps
  <2> HIDE DEF new
  <2>7. s' = new /\ DeskTyped'
    BY <1>1, <1>2, <2>1, <2>3, <2>6, BecomesTyped DEF DeskTyped
  <2>8. LegInv'
    BY <1>1, <2>4, CallsAndFlows DEF LegInv
  <2>9. CASE started = s
    <3>1. SessionInv' /\ s'.offer \in rung \cup {NoOffer}
      BY <1>1, <2>4, <2>6, <2>7, <2>9 DEF IInv, OfferInv, SessionInv, Keeps
    <3>2. DatedInv'
      BY <1>1, <2>2, <2>6, <2>7, <2>9, DatedKept DEF IInv, Keeps, Live, Rings, server
    <3>3. \A p \in Offers : setup'[p] # "none" => p \in rung
      BY <1>3, <2>1
    <3> QED
      BY <1>1, <1>2, <2>2, <2>4, <2>7, <2>8, <3>1, <3>2, <3>3, EffectStep, DeskPreserves
  <2>10. CASE started # s
    <3>1. SessionInv' /\ s'.offer \in rung \cup {NoOffer}
      BY <2>5, <2>6, <2>7, <2>10 DEF SessionInv, Keeps
    <3>2. DatedInv'
      BY <1>1, <2>5, <2>6, <2>7, <2>10, NowIsLater, DatedFuture DEF Keeps
    <3>3. \A p \in Offers : setup'[p] # "none" => p \in rung
      BY <1>3, <2>1
    <3> QED
      BY <1>1, <1>2, <2>2, <2>4, <2>7, <2>8, <3>1, <3>2, <3>3, EffectStep, DeskPreserves
  <2> QED BY <2>9, <2>10
<1> QED BY <1>4, <1>5

LEMMA OriginateReplyPreserves ==
  ASSUME IInv, NEW c \in Outbound, OriginateReply(c)
  PROVE  IInv'
<1>1. /\ c \in Calls /\ c \in Flows /\ c \notin Offers
      /\ setup' = [setup EXCEPT ![c] = "none"]
      /\ early' = [early EXCEPT !.ended = @ \ {c}]
      /\ UNCHANGED <<server, wire, cache, accepting, req>>
  BY CallsAndFlows DEF OriginateReply
<1>2. DeskTyped /\ LegTyped /\ SetupTyped /\ RebuildTyped /\ ReqTyped'
  BY <1>1, Types DEF IInv, ReqTyped
<1>3. /\ SetupTyped' /\ \A p \in Offers : setup'[p] = setup[p]
      /\ \A p \in Offers : setup'[p] # "none" => p \in rung
  BY <1>1, <1>2 DEF SetupTyped, IInv, OfferInv
<1>4. early' \in [answered : SUBSET Outbound, ended : SUBSET Outbound]
  BY <1>1, <1>2 DEF DeskTyped
<1>5. CASE GoOffline /\ Keep(Cleared(s))
  <2>1. leg'.pc = NoFlow /\ LegTyped' /\ RebuildTyped' /\ LegInv'
    BY <1>2, <1>5, OfflineIsSound
  <2>2. Cleared(s) \in Session /\ Clears(Cleared(s))
    BY <1>2, ClearedFields DEF DeskTyped
  <2>3. s' = Cleared(s) /\ DeskTyped'
    BY <1>1, <1>2, <1>4, <1>5, <2>2, BecomesTyped DEF Keep, DeskTyped
  <2>4. SessionInv' /\ DatedInv' /\ s'.offer \in rung \cup {NoOffer}
    BY <2>2, <2>3, NoCallEnds, DatedCleared DEF SessionInv, Clears
  <2> QED BY <1>1, <1>2, <1>3, <2>1, <2>3, <2>4, EffectStep, DeskPreserves
<1>6. CASE /\ leg.pc = c /\ leg' = [leg EXCEPT !.state = "ready", !.call = c]
           /\ UNCHANGED <<rebuild, s, ending, wrapLocal>>
  <2>1. LegTyped' /\ leg'.pc = c /\ DeskTyped' /\ RebuildTyped'
    BY <1>1, <1>2, <1>4, <1>6 DEF LegTyped, DeskTyped, RebuildTyped
  <2>2. SessionInv' /\ LegInv' /\ s'.offer \in rung \cup {NoOffer}
    BY <1>1, <1>6, <2>1, CallsAndFlows DEF IInv, OfferInv, SessionInv, LegInv
  <2>3. DatedInv'
    BY <1>1, <1>3, <1>6, DatedKept DEF IInv, Keeps, Live, Rings, server
  <2> QED BY <1>1, <1>2, <1>3, <2>1, <2>2, <2>3, EffectStep, DeskPreserves
<1> QED BY <1>5, <1>6 DEF OriginateReply

LEMMA HangupPreserves ==
  ASSUME IInv, Hangup
  PROVE  IInv'
<1>1. DeskTyped /\ ReqTyped
  BY Types DEF IInv
<1>2. s \in Session /\ s.call \in Calls \cup {NoCall}
  BY <1>1, NoCallEnds DEF DeskTyped
<1> DEFINE new == SocketHangup(s, s.call)
<1>3. /\ new \in Session
      /\ new = s \/ Clears(new) \/ (s.phase = "on_call" /\ new.phase = "wrap_up" /\ Keeps(s, new))
  BY <1>2, SocketHangupFields
<1>4. /\ GoOffline /\ Becomes(new, TRUE) /\ req' = [req EXCEPT !.hangup = TRUE]
      /\ UNCHANGED <<server, wire, cache, accepting, early, setup>>
  BY DEF Hangup
<1> HIDE DEF new
<1>5. ReqTyped'
  BY <1>1, <1>4 DEF ReqTyped
<1> QED BY <1>3, <1>4, <1>5, HangupStep

LEMMA CancelDialPreserves ==
  ASSUME IInv, CancelDial
  PROVE  IInv'
<1>1. /\ req' = [req EXCEPT !.cancel = s.call] /\ ending' = TRUE
      /\ UNCHANGED <<server, wire, cache, s, wrapLocal, accepting, early, media>>
  BY DEF CancelDial
<1>2. DeskTyped /\ ReqTyped
  BY Types DEF IInv
<1>3. s \in Session /\ s.call \in Calls \cup {NoCall} /\ Keeps(s, s)
  BY <1>2, NoCallEnds DEF DeskTyped, Keeps
<1>4. DeskTyped' /\ ReqTyped'
  BY <1>1, <1>2, <1>3 DEF DeskTyped, ReqTyped
<1>5. SessionInv' /\ LegInv' /\ DatedInv' /\ s'.offer \in rung \cup {NoOffer}
  BY <1>1, <1>3, MovesOn DEF media
<1> QED BY <1>1, <1>4, <1>5, EffectStep, SessionOnly

LEMMA CancelReplyPreserves ==
  ASSUME IInv, CancelReply
  PROVE  IInv'
<1>1. /\ req' = [req EXCEPT !.cancel = NoCall, !.cancelled = FALSE]
      /\ GoOffline /\ Keep(Cleared(s))
      /\ UNCHANGED <<server, wire, cache, accepting, early, setup>>
  BY DEF CancelReply
<1>2. SetupTyped' /\ ReqTyped
  BY <1>1, Types DEF IInv, SetupTyped
<1>3. ReqTyped'
  BY <1>1, <1>2 DEF ReqTyped
<1> QED BY <1>1, <1>2, <1>3, ClearsSession

LEMMA FinishWrapUpPreserves ==
  ASSUME IInv, FinishWrapUp
  PROVE  IInv'
<1>1. /\ s.phase = "wrap_up" /\ Keep(WrapUpDone(s)) /\ req' = [req EXCEPT !.ready = TRUE]
      /\ UNCHANGED <<server, wire, cache, accepting, early, media>>
  BY DEF FinishWrapUp
<1>2. ReqTyped'
  BY <1>1, Types DEF IInv, ReqTyped
<1> QED BY <1>1, <1>2, EffectStep, WrapUpEnds

\* A status the server accepts: both sides change.
LEMMA PickReadyPreserves ==
  ASSUME IInv, PickReady
  PROVE  IInv'
<1>1. /\ CanSetVisible(h, "ready") /\ Write(SetVisible(h, "ready"))
      /\ UNCHANGED <<life, rung, answered, deadline, wire, cache, accepting, early, media, req>>
      /\ \/ s.phase = "wrap_up" /\ Keep(WrapUpDone(s))
         \/ UNCHANGED <<s, ending, wrapLocal>>
  BY DEF PickReady
<1>2. Write(Free("ready")) /\ Vacant(Free("ready")) /\ Free("ready").wrapCall = NoCall
      /\ \A c \in Calls : ~Live(c)
  BY <1>1, ReadyIsVacant
<1>3. /\ HashInv' /\ LifeInv' /\ CacheInv' /\ h' \in Hash /\ clock' \in Nat
      /\ \A p \in Offers : ~Rings(p)'
  BY <1>1, <1>2, VacatePreserves
<1>4. WireInv' /\ push' \in Seq(Event)
  BY <1>1, KnownStays, NothingPushed DEF IInv, wire
<1>5. CASE s.phase = "wrap_up" /\ Keep(WrapUpDone(s))
  <2>1. DeskTyped /\ LegTyped
    BY Types DEF IInv
  <2>2. WrapUpDone(s) \in Session /\ Clears(WrapUpDone(s))
    BY <2>1, WrapUpDoneFields DEF DeskTyped
  <2>3. s' = WrapUpDone(s) /\ DeskTyped'
    BY <1>1, <1>5, <2>1, <2>2, BecomesTyped DEF Keep, DeskTyped
  <2>4. SessionInv' /\ LegInv' /\ DatedInv' /\ s'.offer \in rung \cup {NoOffer}
    BY <1>1, <1>5, <2>2, <2>3, ClearedIsSound DEF media
  <2>5. OfferInv'
    BY <1>1, <2>4 DEF IInv, OfferInv, media
  <2>6. TypeOK'
    BY <1>1, <1>3, <1>4, <2>3 DEF IInv, TypeOK, DeskTyped, wire, media
  <2> QED BY <1>3, <1>4, <2>4, <2>5, <2>6 DEF IInv
<1>6. CASE UNCHANGED <<s, ending, wrapLocal>>
  BY <1>1, <1>2, <1>3, <1>4, <1>6, ServerPreserves DEF IInv, TypeOK, wire, media, Live, desk
<1> QED BY <1>1, <1>5, <1>6

LEMMA StartRebuildPreserves ==
  ASSUME IInv, StartRebuild
  PROVE  IInv'
<1>1. /\ s.phase = "on_call" /\ Connecting("rebuild") /\ rebuild' = "sent"
      /\ UNCHANGED <<server, wire, cache, desk, setup, req>>
  BY DEF StartRebuild
<1>2. /\ DeskTyped' /\ SetupTyped' /\ ReqTyped' /\ RebuildTyped'
  BY <1>1, Types DEF IInv, DeskTyped, SetupTyped, ReqTyped, RebuildTyped, desk
<1>3. LegTyped' /\ leg'.pc = "rebuild"
  BY <1>1 DEF Connecting, NoLeg, LegTyped
<1>4. SessionInv' /\ LegInv' /\ s'.offer \in rung \cup {NoOffer}
  BY <1>1, <1>3, CallsAndFlows DEF IInv, OfferInv, SessionInv, LegInv, desk
<1>5. DatedInv'
  BY <1>1, DatedKept DEF IInv, Keeps, Live, Rings, server, desk
<1>6. \A p \in Offers : setup'[p] # "none" => p \in rung
  BY <1>1 DEF IInv, OfferInv
<1> QED BY <1>1, <1>2, <1>3, <1>4, <1>5, <1>6, EffectStep, DeskPreserves

LEMMA RebuildReplyPreserves ==
  ASSUME IInv, RebuildReply
  PROVE  IInv'
<1>1. /\ rebuild' = "none" /\ UNCHANGED <<server, wire, cache, accepting, early, setup, req>>
  BY DEF RebuildReply
<1>2. DeskTyped /\ LegTyped /\ SetupTyped' /\ ReqTyped' /\ RebuildTyped'
  BY <1>1, Types DEF IInv, SetupTyped, ReqTyped, RebuildTyped
<1>3. \A p \in Offers : setup'[p] # "none" => p \in rung
  BY <1>1 DEF IInv, OfferInv
<1>4. CASE rebuild = "sent" /\ h.state = "in_call"
  <2> DEFINE new == MediaLegUpdated(s)
  <2>1. leg' = [leg EXCEPT !.state = "ready", !.call = h.call] /\ Becomes(new, ending)
    BY <1>4 DEF RebuildReply, Keep
  <2>2. new \in Session /\ new.phase = s.phase /\ Keeps(s, new) /\ new.ended = s.ended
    BY <1>2, MediaLegUpdatedFields DEF DeskTyped
  <2> HIDE DEF new
  <2>3. s' = new /\ DeskTyped'
    BY <1>1, <1>2, <2>1, <2>2, BecomesTyped DEF DeskTyped
  <2>4. h.call \in Calls \cup {NoCall}
    BY DEF IInv, TypeOK, Hash
  <2>5. LegTyped' /\ leg'.pc = leg.pc /\ leg'.orphan = leg.orphan
    BY <1>2, <2>1, <2>4 DEF LegTyped
  <2>6. SessionInv' /\ LegInv' /\ DatedInv' /\ s'.offer \in rung \cup {NoOffer}
    BY <1>1, <2>2, <2>3, <2>5, MovesOn
  <2> QED BY <1>1, <1>2, <1>3, <2>3, <2>5, <2>6, EffectStep, DeskPreserves
<1>5. CASE ~(rebuild = "sent" /\ h.state = "in_call")
  <2>1. /\ leg' = [leg EXCEPT !.state = "closed", !.pc = NoFlow,
                              !.orphan = FALSE, !.lost = FALSE]
        /\ UNCHANGED <<s, ending, wrapLocal>>
    BY <1>5 DEF RebuildReply
  <2>2. LegTyped' /\ leg'.pc = NoFlow /\ DeskTyped'
    BY <1>1, <1>2, <2>1 DEF LegTyped, DeskTyped
  <2>3. SessionInv' /\ LegInv' /\ s'.offer \in rung \cup {NoOffer}
    BY <2>1, <2>2, CallsAndFlows DEF IInv, OfferInv, SessionInv, LegInv
  <2>4. DatedInv'
    BY <1>1, <2>1, DatedKept DEF IInv, Keeps, Live, Rings, server
  <2> QED BY <1>1, <1>2, <1>3, <2>2, <2>3, <2>4, EffectStep, DeskPreserves
<1> QED BY <1>4, <1>5

LEMMA MediaFailsPreserves ==
  ASSUME IInv, MediaFails
  PROVE  IInv'
<1>1. /\ Broken(TRUE) /\ rebuild' \in {"none", rebuild}
      /\ faults < MaxFaults /\ faults' = faults + 1
      /\ UNCHANGED <<server, push, conn, resync, cache, desk, setup, req>>
  BY DEF MediaFails
<1>2. /\ DeskTyped' /\ LegTyped /\ SetupTyped' /\ ReqTyped' /\ RebuildTyped'
  BY <1>1, Types DEF IInv, DeskTyped, SetupTyped, ReqTyped, RebuildTyped, desk
<1>3. WireTyped'
  <2>1. faults' \in 0..MaxFaults
    BY <1>1, BoundsAssumption, Types DEF IInv, WireTyped
  <2> QED BY <1>1, <2>1, Types DEF IInv, WireTyped
<1>4. WireInv' /\ push' \in Seq(Event)
  BY <1>1, KnownStays, NothingPushed DEF IInv, server
<1>5. LegTyped' /\ leg'.pc = NoFlow
  BY <1>1, <1>2 DEF Broken, LegTyped
<1>6. SessionInv' /\ LegInv' /\ s'.offer \in rung \cup {NoOffer}
  BY <1>1, <1>5, CallsAndFlows DEF IInv, OfferInv, SessionInv, LegInv, desk
<1>7. DatedInv'
  BY <1>1, DatedKept DEF IInv, Keeps, Live, Rings, server, desk
<1>8. \A p \in Offers : setup'[p] # "none" => p \in rung
  BY <1>1 DEF IInv, OfferInv
<1> QED BY <1>1, <1>2, <1>3, <1>4, <1>5, <1>6, <1>7, <1>8, DeskPreserves

-----------------------------------------------------------------------------
(* The invariant.                                                           *)

LEMMA InitEstablishes ==
  ASSUME Init
  PROVE  IInv
<1>1. /\ h = Free("ready") /\ clock = 1 /\ rung = {} /\ push = <<>> /\ cache = NoSnapshot
      /\ life = [c \in Calls |-> "new"] /\ answered = [c \in Calls |-> 0]
      /\ s = InitialSession /\ leg = NoLeg /\ setup = [k \in Flows |-> "none"]
  BY DEF Init
<1>2. Free("ready") \in GoodHash /\ Vacant(Free("ready")) /\ Free("ready").wrapCall = NoCall
  BY FreeIsGood, FreeIsVacant DEF VisibleStatuses
<1>3. InitialSession \in Session /\ NoSnapshot \in Snapshot
  BY DEF InitialSession, Session, Phases, NoSnapshot, Snapshot, VisibleStatuses, ResourceStates
<1>4. TypeOK
  <2>1. h \in Hash
    BY <1>1, <1>2 DEF GoodHash
  <2>2. faults \in 0..MaxFaults
    BY BoundsAssumption DEF Init
  <2>3. push \in Seq(Event)
    BY <1>1
  <2>4. leg \in [state : {"idle", "connecting", "ready", "failed", "closed"},
                 call : Calls \cup {NoCall}, pc : Flows \cup {NoFlow, "rebuild"},
                 orphan : BOOLEAN, lost : BOOLEAN]
    BY <1>1 DEF NoLeg
  <2>5. /\ clock \in Nat /\ rung \subseteq Offers
        /\ life \in [Calls -> {"new", "ringing", "answered", "over"}]
        /\ answered \in [Calls -> Nat] /\ deadline \in [Calls -> Nat]
        /\ cache \in Snapshot
    BY <1>1, <1>3 DEF Init
  <2>6. /\ conn \in BOOLEAN /\ resync \in BOOLEAN /\ ending \in BOOLEAN
        /\ wrapLocal \in Calls \cup {NoCall} /\ accepting \in Offers \cup {NoOffer}
        /\ early \in [answered : SUBSET Outbound, ended : SUBSET Outbound]
        /\ s \in Session
    BY <1>1, <1>3 DEF Init
  <2>7. /\ setup \in [Flows -> {"none", "dialing", "sent", "ok", "refused", "check"}]
        /\ rebuild \in {"none", "sent", "stale"}
        /\ req \in [ hangup : BOOLEAN,
                     cancel : Calls \cup {NoCall}, cancelled : BOOLEAN,
                     reject : Offers \cup {NoOffer}, rejected : BOOLEAN,
                     ready  : BOOLEAN ]
    BY DEF Init
  <2> QED BY <2>1, <2>2, <2>3, <2>4, <2>5, <2>6, <2>7 DEF TypeOK
<1>5. HashInv /\ LifeInv
  <2>1. h \in GoodHash /\ h.state \notin {"ringing", "in_call"} /\ h.offer = NoOffer
        /\ h.wrapCall = NoCall /\ h.lease # "behind"
    BY <1>1, <1>2 DEF Vacant, ActiveStates
  <2> QED BY <1>1, <2>1 DEF HashInv, LifeInv
<1>6. CacheInv /\ WireInv
  BY <1>1 DEF CacheInv, WireInv, NoSnapshot
<1>7. OfferInv /\ SessionInv /\ LegInv
  BY <1>1, CallsAndFlows
     DEF OfferInv, SessionInv, LegInv, InitialSession, NoLeg, Flows
<1>8. DatedInv
  BY <1>1, CallsAndFlows DEF DatedInv, InitialSession
<1> QED BY <1>4, <1>5, <1>6, <1>7, <1>8 DEF IInv

LEMMA StutterPreserves ==
  ASSUME IInv, UNCHANGED vars
  PROVE  IInv'
BY DEF vars, server, wire, desk, media, IInv, TypeOK, HashInv, LifeInv, CacheInv, WireInv,
       Known, OfferInv, SessionInv, LegInv, DatedInv, Dated, Rings

LEMMA NextPreserves == IInv /\ [Next]_vars => IInv'
<1> SUFFICES ASSUME IInv, [Next]_vars PROVE IInv'
  OBVIOUS
<1>1. CASE World
  BY <1>1, RingPreserves, CallEndsPreserves, OutboundAnswersPreserves,
     SocketBreaksPreserves, ReloadPreserves, MediaFailsPreserves DEF World
<1>2. CASE Serve
  BY <1>2, OfferTimesOutPreserves, ServeAcceptPreserves, ServeRejectPreserves,
     ServeCancelPreserves, ServeHangupPreserves, ServeReadyPreserves, SweepPreserves DEF Serve
<1>3. CASE SocketConnects \/ Republish \/ Poll
  BY <1>3, SocketConnectsPreserves, RepublishPreserves, PollPreserves
<1>4. CASE Events
  BY <1>4, OnIncomingPreserves, OnRestorePreserves, OnAnsweredPreserves, OnHangupPreserves,
     OnOutboundAnsweredPreserves, OnOutboundHangupPreserves, OnWrapUpStartedPreserves,
     OnWrapUpTimeoutPreserves DEF Events
<1>5. CASE Effects
  BY <1>5, MicReadyPreserves, HydratePreserves, UpgradeRingingPreserves,
     LeaveRingingPreserves, LeaveOnCallPreserves, WrapUpFallbackPreserves DEF Effects
<1>6. CASE RecordShowsAnswer \/ StartRebuild
  BY <1>6, RecordShowsAnswerPreserves, StartRebuildPreserves
<1>7. CASE Replies
  BY <1>7, AcceptReplyPreserves, AcceptCheckedPreserves, DialReplyPreserves,
     OriginateReplyPreserves, RejectReplyPreserves, CancelReplyPreserves,
     RebuildReplyPreserves DEF Replies
<1>8. CASE Clicks
  BY <1>8, AcceptPreserves, RejectPreserves, DialPreserves, HangupPreserves,
     CancelDialPreserves, FinishWrapUpPreserves, PickReadyPreserves DEF Clicks
<1>9. CASE UNCHANGED vars
  BY <1>9, StutterPreserves
<1> HIDE DEF World
<1> QED BY <1>1, <1>2, <1>3, <1>4, <1>5, <1>6, <1>7, <1>8, <1>9 DEF Next

LEMMA Inductive == Spec => []IInv
<1>1. Init => IInv
  BY InitEstablishes
<1> QED BY <1>1, NextPreserves, PTL DEF Spec

\* Whatever events are lost and however old a snapshot is, the hash, the
\* session, the socket and the leg keep their types.
THEOREM DeskTypeCorrect == Spec => []TypeOK
<1>1. IInv => TypeOK
  BY DEF IInv
<1> QED BY <1>1, Inductive, PTL

\* The microphone is live only for the call on the desk or an accept under way,
\* unless a reply about another offer has cleared the session under it.
THEOREM MicrophoneIsReleased == Spec => []MicIsReleased
<1>1. IInv => MicIsReleased
  <2> SUFFICES ASSUME IInv PROVE MicIsReleased
    OBVIOUS
  <2>1. leg.pc \in Offers \cup Outbound \cup {NoFlow, "rebuild"}
    BY Types DEF IInv, LegTyped, Flows
  <2> QED BY <2>1 DEF IInv, LegInv, MicIsReleased
<1> QED BY <1>1, Inductive, PTL

\* No status snapshot ends a call on the desk that the agent dials or is
\* connected in: one that is dated after the call shows it.
THEOREM LiveCallsAreKept == Spec => LiveCallIsKept
<1> DEFINE Kept == LeaveRinging \/ LeaveOnCall => life[s.call] \notin {"ringing", "answered"}
<1>1. IInv /\ [Next]_vars => [Kept]_vars
  <2> SUFFICES ASSUME IInv, LeaveRinging \/ LeaveOnCall
               PROVE  life[s.call] \notin {"ringing", "answered"}
    OBVIOUS
  <2>1. /\ s.call # NoCall /\ SnapshotAfterStart(s, cache)
        /\ cache.call # s.call \/ cache.state \notin ActiveStates
    BY DEF LeaveRinging, LeaveOnCall, ShouldLeaveRinging, ShouldLeaveOnCall, ActiveStates
  <2>2. Dated
    <3>1. s.startedAt \in Nat /\ s.callStart \in Nat /\ cache.at \in Nat
      BY DEF IInv, TypeOK, Session, Snapshot
    <3> QED BY <2>1, <3>1 DEF SnapshotAfterStart, Dated
  <2> QED BY <2>1, <2>2 DEF IInv, DatedInv, Shows
<1> QED BY <1>1, Inductive, PTL DEF Spec, LiveCallIsKept

-----------------------------------------------------------------------------
(* Ended calls.                                                             *)

\* What a session may become without taking up a call it has ended.
Respects(new) ==
  \A c \in s.ended :
    new.call = c /\ new.phase # s.phase => new.phase \in {"idle", "wrap_up"}

LEMMA EventsRespect ==
  ASSUME IInv, Events
  PROVE  Respects(s')
<1>1. s \in Session /\ (s.phase \in {"mic_check", "idle"} => s.call = NoCall)
      /\ (s.call \in s.ended => s.phase = "wrap_up")
  BY Types DEF IInv, DeskTyped, SessionInv
<1>2. CASE OnIncoming
  <2> DEFINE e == Head(push)
  <2>1. e \in Known /\ e.name = "incoming" /\ e.call \in Calls /\ e.offer \in Offers
    BY <1>2, EventStep DEF OnIncoming, IInv, Known, TypeOK
  <2>2. PICK seen \in BOOLEAN : Keep(SocketIncoming(s, Incoming(e.call, e.offer, Now), seen, Now))
    BY <1>2 DEF OnIncoming
  <2>3. Now \in Nat
    BY NowIsLater
  <2> DEFINE new == SocketIncoming(s, Incoming(e.call, e.offer, Now), seen, Now)
  <2>4. s' = new
    BY <2>2 DEF Keep, Becomes
  <2>5. new = s \/ (new.call = e.call /\ e.call \notin s.ended)
    BY <1>1, <2>1, <2>3, SocketIncomingFields
  <2> HIDE DEF new, e
  <2> QED BY <2>4, <2>5 DEF Respects
<1>3. CASE OnRestore
  <2> DEFINE c  == Head(push).call
             at == answered[c]
  <2>1. c \in Calls
    BY <1>3, EventStep DEF OnRestore, Known
  <2>2. at \in Nat
    BY <2>1 DEF IInv, TypeOK
  <2>3. s' = Restored(s, c, at)
    BY <1>3 DEF OnRestore, Keep, Becomes, Restored
  <2> HIDE DEF c, at
  <2>4. Restored(s, c, at) = s \/ (Restored(s, c, at).call = c /\ c \notin s.ended)
    BY <1>1, <2>1, <2>2, SocketRestoreFields
  <2> QED BY <2>3, <2>4 DEF Respects
<1>4. CASE OnAnswered
  <2>1. s' = SocketAnswered(s)
    BY <1>4 DEF OnAnswered, Keep, Becomes
  <2> QED BY <1>1, <2>1, SocketAnsweredFields DEF Respects, Keeps
<1>5. CASE OnHangup
  <2> DEFINE c == Head(push).call
  <2>1. c \in Calls
    BY <1>5, EventStep DEF OnHangup, Known
  <2>2. s' = s \/ s' = SocketHangup(s, c)
    BY <1>5 DEF OnHangup, Becomes
  <2> HIDE DEF c
  <2> QED BY <1>1, <2>1, <2>2, SocketHangupFields DEF Respects, Clears
<1>6. CASE OnOutboundAnswered
  <2>1. s' = s \/ s' = OutboundAnswered(s)
    BY <1>6 DEF OnOutboundAnswered, Keep, Becomes
  <2> QED BY <1>1, <2>1, OutboundAnsweredFields DEF Respects, Keeps
<1>7. CASE OnOutboundHangup
  <2> DEFINE c == Head(push).call
  <2>1. c \in Calls
    BY <1>7, EventStep, CallsAndFlows DEF OnOutboundHangup, Known
  <2>2. s' = s \/ s' = OutboundHangup(s, c)
    BY <1>7 DEF OnOutboundHangup, Becomes
  <2> HIDE DEF c
  <2> QED BY <1>1, <2>1, <2>2, OutboundHangupFields DEF Respects, Clears
<1>8. CASE OnWrapUpStarted
  BY <1>8 DEF OnWrapUpStarted, Respects
<1>9. CASE OnWrapUpTimeout
  <2>1. s' = s \/ s' = WrapUpDone(s)
    BY <1>9 DEF OnWrapUpTimeout, Keep, Becomes
  <2> QED BY <1>1, <2>1, WrapUpDoneFields DEF Respects, Clears
<1> QED BY <1>2, <1>3, <1>4, <1>5, <1>6, <1>7, <1>8, <1>9 DEF Events

LEMMA EffectsRespect ==
  ASSUME IInv, Effects \/ RecordShowsAnswer \/ StartRebuild
  PROVE  Respects(s')
<1>1. /\ s \in Session /\ s.call \in Calls \cup {NoCall}
      /\ s.phase \in {"mic_check", "idle"} => s.call = NoCall
      /\ s.call \in s.ended => s.phase = "wrap_up"
  BY Types, NoCallEnds DEF IInv, DeskTyped, SessionInv
<1>2. CASE MicReady
  <2>1. s' = MicReadyIn(s) /\ s.phase = "mic_check"
    BY <1>2 DEF MicReady, Keep, Becomes
  <2> QED BY <1>1, <2>1, MicReadyFields DEF Respects
<1>3. CASE Hydrate
  <2>1. PICK p \in {"wrap_up", "incoming", "on_call"}, c \in Calls, o \in Offers \cup {NoOffer},
             start \in Nat :
          /\ s.phase = "idle" /\ c \notin s.ended
          /\ s' = PollHydrate(s, p, Incoming(c, o, start), start)
    <3>1. PICK p \in {"wrap_up", "incoming", "on_call"}, c \in Calls, o \in Offers \cup {NoOffer},
               start \in Nat :
            /\ s.phase = "idle" /\ c \notin s.ended
            /\ Becomes(PollHydrate(s, p, Incoming(c, o, start), start), ending)
      BY <1>3, HydrateTakes
    <3> QED BY <3>1 DEF Becomes
  <2>2. p \in Phases
    BY DEF Phases
  <2>3. s'.call = c
    BY <1>1, <2>1, <2>2, PollHydrateFields
  <2> QED BY <2>1, <2>3 DEF Respects
<1>4. CASE UpgradeRinging
  <2>1. s' = OutboundAnswered(s)
    BY <1>4 DEF UpgradeRinging, Keep, Becomes
  <2> QED BY <1>1, <2>1, OutboundAnsweredFields DEF Respects, Keeps
<1>5. CASE LeaveRinging
  <2>1. s' = OutboundHangup(s, s.call) /\ s.call \in Calls
    BY <1>1, <1>5 DEF LeaveRinging, ShouldLeaveRinging, Becomes
  <2> QED BY <1>1, <2>1, OutboundHangupFields DEF Respects, Clears
<1>6. CASE LeaveOnCall
  <2>1. s' = SocketHangup(s, s.call)
    BY <1>6 DEF LeaveOnCall, Becomes
  <2> QED BY <1>1, <2>1, SocketHangupFields DEF Respects, Clears
<1>7. CASE WrapUpFallback
  <2>1. s' = WrapUpDone(s)
    BY <1>7 DEF WrapUpFallback, Keep, Becomes
  <2> QED BY <1>1, <2>1, WrapUpDoneFields DEF Respects, Clears
<1>8. CASE RecordShowsAnswer
  <2>1. /\ s.call \in Calls /\ s.phase \in {"on_call", "outbound_ringing", "incoming"}
    BY <1>1, <1>8 DEF RecordShowsAnswer
  <2>2. PICK start \in StartOf(s.call) : s' = CdrAnswered(s, start)
    BY <1>8 DEF RecordShowsAnswer, Keep, Becomes
  <2>4. start \in Nat
    BY <2>1, <2>2 DEF StartOf, Began, IInv, TypeOK
  <2>3. s'.call = s.call
    BY <1>1, <2>1, <2>2, <2>4, CdrAnsweredFields DEF Keeps
  <2> QED BY <1>1, <2>1, <2>3 DEF Respects
<1>9. CASE StartRebuild
  BY <1>9 DEF StartRebuild, desk, Respects
<1> QED BY <1>2, <1>3, <1>4, <1>5, <1>6, <1>7, <1>8, <1>9 DEF Effects

LEMMA RepliesRespect ==
  ASSUME IInv, Replies
  PROVE  Respects(s')
<1>1. /\ s \in Session
      /\ s.phase \in {"mic_check", "idle"} => s.call = NoCall
      /\ s.call \in s.ended => s.phase = "wrap_up" /\ leg.pc \notin Offers
  BY Types DEF IInv, DeskTyped, SessionInv
<1>2. CASE s' = s \/ s' = Cleared(s)
  BY <1>1, <1>2, ClearedFields DEF Respects, Clears
<1>3. ASSUME NEW o \in Offers, AcceptReply(o) PROVE Respects(s')
  <2>1. s' = s \/ (leg.pc = o /\ s' = AcceptOk(s, Now))
    BY <1>3 DEF AcceptReply, Keep, Becomes
  <2>2. AcceptOk(s, Now).call = s.call
    BY <1>1, NowIsLater, AcceptOkFields DEF Keeps
  <2> QED BY <1>1, <2>1, <2>2 DEF Respects
<1>4. ASSUME NEW o \in Offers, AcceptChecked(o) PROVE Respects(s')
  BY <1>2, <1>4 DEF AcceptChecked, Keep, Becomes
<1>5. ASSUME NEW c \in Outbound, DialReply(c) PROVE Respects(s')
  <2> DEFINE started == DialStarted(s, c, Now)
             new     == IF c \in early.answered THEN OutboundAnswered(started) ELSE started
  <2>1. s' = s \/ s' = new
    BY <1>5 DEF DialReply, Keep, Becomes
  <2>2. /\ started \in Session
        /\ started = s \/ (started.call = c /\ c \notin s.ended)
    BY <1>1, NowIsLater, CallsAndFlows, DialStartedFields
  <2> HIDE DEF started
  <2>3. \/ new = started
        \/ started.phase = "outbound_ringing" /\ new.call = started.call
    BY <2>2, OutboundAnsweredFields DEF Keeps
  <2> HIDE DEF new
  <2> QED BY <1>1, <2>1, <2>2, <2>3 DEF Respects
<1>6. ASSUME NEW c \in Outbound, OriginateReply(c) PROVE Respects(s')
  BY <1>2, <1>6 DEF OriginateReply, Keep, Becomes
<1>7. CASE RejectReply \/ CancelReply
  BY <1>2, <1>7 DEF RejectReply, CancelReply, Keep, Becomes
<1>8. CASE RebuildReply
  <2>1. s' = s \/ s' = MediaLegUpdated(s)
    BY <1>8 DEF RebuildReply, Keep, Becomes
  <2> QED BY <1>1, <2>1, MediaLegUpdatedFields DEF Respects
<1> QED BY <1>3, <1>4, <1>5, <1>6, <1>7, <1>8 DEF Replies

LEMMA ClicksRespect ==
  ASSUME IInv, Clicks
  PROVE  Respects(s')
<1>1. /\ s \in Session /\ s.call \in Calls \cup {NoCall}
      /\ s.call \in s.ended => s.phase = "wrap_up"
  BY Types, NoCallEnds DEF IInv, DeskTyped, SessionInv
<1>2. CASE s' = s
  BY <1>2 DEF Respects
<1>3. ASSUME NEW o \in Offers, Accept(o) PROVE Respects(s')
  <2>1. s.phase = "incoming" /\ (s' = s \/ s' = AcceptOk(s, Now))
    BY <1>3 DEF Accept, CanDecide, Keep, Becomes
  <2>2. AcceptOk(s, Now).call = s.call
    BY <1>1, NowIsLater, AcceptOkFields DEF Keeps
  <2> QED BY <1>1, <2>1, <2>2 DEF Respects
<1>4. CASE (\E o \in Offers : Reject(o)) \/ (\E c \in Outbound : Dial(c)) \/ CancelDial
  BY <1>2, <1>4 DEF Reject, Dial, CancelDial, desk
<1>5. CASE Hangup
  <2>1. s' = SocketHangup(s, s.call)
    BY <1>5 DEF Hangup, Becomes
  <2> QED BY <1>1, <2>1, SocketHangupFields DEF Respects, Clears
<1>6. CASE FinishWrapUp \/ PickReady
  <2>1. s' = s \/ s' = WrapUpDone(s)
    BY <1>6 DEF FinishWrapUp, PickReady, Keep, Becomes
  <2> QED BY <1>1, <2>1, WrapUpDoneFields DEF Respects, Clears
<1> QED BY <1>3, <1>4, <1>5, <1>6 DEF Clicks

\* A call this desk has ended does not come back on it: an old snapshot and a
\* replayed push are refused by the reducer, and a late answer to an accept
\* finds its connection closed.
THEOREM EndedCallsStayEnded == Spec => EndedCallStaysEnded
<1>1. IInv /\ [Next]_vars => [Respects(s')]_vars
  <2> SUFFICES ASSUME IInv, Next PROVE Respects(s')
    OBVIOUS
  <2>1. CASE World
    <3>1. s' = s \/ s' = InitialSession
      BY <2>1 DEF World, Ring, CallEnds, OutboundAnswers, SocketBreaks, Reload, FreshDesk,
                  MediaFails, desk
    <3> QED BY <3>1, Types, NoCallEnds DEF InitialSession, Respects, IInv, DeskTyped
  <2>2. CASE Serve \/ SocketConnects \/ Republish \/ Poll
    <3>1. s' = s
      BY <2>2 DEF Serve, OfferTimesOut, ServeAccept, ServeReject, ServeCancel, ServeHangup,
                  ServeReady, Sweep, SocketConnects, Republish, Poll, desk
    <3> QED BY <3>1 DEF Respects
  <2> QED BY <2>1, <2>2, EventsRespect, EffectsRespect, RepliesRespect, ClicksRespect DEF Next
<1> QED BY <1>1, Inductive, PTL DEF Spec, EndedCallStaysEnded, Respects
=============================================================================
