------------------------------ MODULE AgentDesk ------------------------------
(***************************************************************************)
(* One agent's web phone and the server as the browser sees it: the session *)
(* of CallSession, the WebRTC leg, the flows that set a leg up, the status   *)
(* snapshots the browser polls, and the socket over which the server pushes *)
(* events that a broken connection loses for good.                          *)
(*                                                                         *)
(* Each action is what the browser, or the server for one request or event, *)
(* does between two awaits.  The server's own interleavings are the subject *)
(* of InboundOffer and OutboundDial; here each of its handlers is one step,  *)
(* and a step of the desk's effects follows the render that caused it at     *)
(* any later time.  A status request and its reply are one step as well: a   *)
(* snapshot that is read at once but takes effect later is as old as one     *)
(* that was long on its way.  The end of a wrap-up's time is one step with   *)
(* the sweep that finds it.  The microphone is granted and answers at once.  *)
(*                                                                         *)
(* Not modelled: the SIP phone, automatic answer, transfer, consult and      *)
(* conference, the server's request to rebuild the media, a microphone that  *)
(* is refused, and clocks that disagree.                                    *)
(***************************************************************************)
EXTENDS CallSession, FiniteSets, Sequences

CONSTANTS
  Inbound,    \* the calls offered to the agent
  Outbound,   \* the calls the agent may dial
  CallOf,     \* the inbound call an offer is made for
  MaxCalls,   \* bound: how many of the calls reach the agent
  MaxFaults   \* bound: how often the socket breaks, the page is reloaded or media fail

ASSUME CallsAssumption == Calls = Inbound \cup Outbound /\ Inbound \cap Outbound = {}
ASSUME CallOfAssumption == CallOf \in [Offers -> Inbound]
ASSUME FlowsAssumption ==
  Offers \cap Outbound = {} /\ {"no flow", "rebuild"} \cap (Offers \cup Outbound) = {}
ASSUME BoundsAssumption == MaxCalls \in Nat /\ MaxFaults \in Nat

VARIABLES
  h,         \* the agent's hash
  clock,     \* the writes of the hash so far
  life,      \* the kernel's calls
  rung,      \* the offers made
  answered,  \* when this agent was connected, in the call record; 0 before
  deadline,  \* when the wrap-up of a call ran out; 0 before
  push,      \* events on the socket
  conn,      \* the socket is connected
  resync,    \* the server's connect handler has yet to run
  faults,
  cache,     \* the last status snapshot; its effects may still be to come
  s,         \* the session
  wrapLocal, \* the call whose deadline cc.wrap_up_started has brought
  ending,    \* endingCallRef
  accepting, \* acceptingOfferRef
  early,     \* the outbound events that came before the answer to the dial
  leg,       \* the WebRTC leg: its state, its call, and whose connection it is;
             \* orphan (history): a reply about another offer has cleared its session;
             \* lost (history): its media, or the attempt to rebuild them, failed
  setup,     \* the flows that set a leg up, by offer or outbound call
  rebuild,   \* the media rebuild under way; stale after a goOffline
  req        \* the agent's other requests under way

server == <<h, clock, life, rung, answered, deadline>>
wire   == <<push, conn, resync, faults>>
desk   == <<s, wrapLocal, ending, accepting, early>>
media  == <<leg, setup, rebuild>>
vars   == <<server, wire, cache, desk, media, req>>

Flows == Offers \cup Outbound
NoFlow == "no flow"

Snapshot ==
  [ visible : VisibleStatuses, state : ResourceStates, call : Calls \cup {NoCall},
    offer : Offers \cup {NoOffer}, wrapCall : Calls \cup {NoCall}, at : Nat ]
Snap ==
  [ visible |-> h.visible, state |-> h.state, call |-> h.call, offer |-> h.offer,
    wrapCall |-> h.wrapCall, at |-> clock ]
NoSnapshot ==
  [ visible |-> "offline", state |-> "unavailable", call |-> NoCall,
    offer |-> NoOffer, wrapCall |-> NoCall, at |-> 0 ]

EventNames == {"incoming", "restore", "answered", "hangup", "outbound_answered",
               "outbound_hangup", "wrap_up_started", "wrap_up_timeout"}
Event == [name : EventNames, call : Calls \cup {NoCall}, offer : Offers \cup {NoOffer}]
Ev(name, c) == [name |-> name, call |-> c, offer |-> NoOffer]

TypeOK ==
  /\ h \in Hash /\ clock \in Nat
  /\ life \in [Calls -> {"new", "ringing", "answered", "over"}]
  /\ rung \subseteq Offers
  /\ answered \in [Calls -> Nat] /\ deadline \in [Calls -> Nat]
  /\ push \in Seq(Event) /\ conn \in BOOLEAN /\ resync \in BOOLEAN
  /\ faults \in 0..MaxFaults
  /\ cache \in Snapshot
  /\ s \in Session
  /\ wrapLocal \in Calls \cup {NoCall}
  /\ ending \in BOOLEAN
  /\ accepting \in Offers \cup {NoOffer}
  /\ early \in [answered : SUBSET Outbound, ended : SUBSET Outbound]
  /\ leg \in [state : {"idle", "connecting", "ready", "failed", "closed"},
              call : Calls \cup {NoCall}, pc : Flows \cup {NoFlow, "rebuild"},
              orphan : BOOLEAN, lost : BOOLEAN]
  /\ setup \in [Flows -> {"none", "dialing", "sent", "ok", "refused", "check"}]
  /\ rebuild \in {"none", "sent", "stale"}
  /\ req \in [ hangup : BOOLEAN,
               cancel : Calls \cup {NoCall}, cancelled : BOOLEAN,
               reject : Offers \cup {NoOffer}, rejected : BOOLEAN,
               ready  : BOOLEAN ]

NoLeg == [state |-> "idle", call |-> NoCall, pc |-> NoFlow,
          orphan |-> FALSE, lost |-> FALSE]

\* What a page starts with.
FreshDesk ==
  /\ cache' = NoSnapshot
  /\ s' = InitialSession
  /\ wrapLocal' = NoCall /\ ending' = FALSE /\ accepting' = NoOffer
  /\ early' = [answered |-> {}, ended |-> {}]
  /\ leg' = NoLeg
  /\ setup' = [k \in Flows |-> "none"]
  /\ rebuild' = "none"
  /\ req' = [hangup |-> FALSE, cancel |-> NoCall, cancelled |-> FALSE,
             reject |-> NoOffer, rejected |-> FALSE, ready |-> FALSE]

Init ==
  /\ h = Free("ready") /\ clock = 1
  /\ life = [c \in Calls |-> "new"]
  /\ rung = {}
  /\ answered = [c \in Calls |-> 0] /\ deadline = [c \in Calls |-> 0]
  /\ push = <<>> /\ conn = TRUE /\ resync = FALSE /\ faults = 0
  /\ cache = NoSnapshot
  /\ s = InitialSession
  /\ wrapLocal = NoCall /\ ending = FALSE /\ accepting = NoOffer
  /\ early = [answered |-> {}, ended |-> {}]
  /\ leg = NoLeg
  /\ setup = [k \in Flows |-> "none"]
  /\ rebuild = "none"
  /\ req = [hangup |-> FALSE, cancel |-> NoCall, cancelled |-> FALSE,
            reject |-> NoOffer, rejected |-> FALSE, ready |-> FALSE]

\* Date.now() in the browser: after every write so far, before the next one.
Now == clock + 1

Write(new) == h' = new /\ clock' = IF new = h THEN clock ELSE clock + 1

Reached == {CallOf[o] : o \in rung} \cup {c \in Outbound : life[c] # "new"}
MayReach(c) == c \in Reached \/ Cardinality(Reached) < MaxCalls

Push(events) == push' = IF conn THEN push \o events ELSE push

-----------------------------------------------------------------------------
(* The server: the handlers of the calls.                                   *)

\* An offer reserves the agent, is pushed, and marks the agent ringing.
Ring(o) ==
  LET c == CallOf[o] IN
  /\ o \notin rung /\ life[c] = "new" /\ MayReach(c) /\ CanReserve(h, "inbound")
  /\ rung' = rung \cup {o}
  /\ Write(MarkRinging(Reserve(h, "inbound", c, o)))
  /\ Push(<<[Ev("incoming", c) EXCEPT !.offer = o]>>)
  /\ UNCHANGED <<life, answered, deadline, conn, resync, faults, cache, desk, media, req>>

\* The wait for the agent's decision ends: nothing is pushed.
OfferTimesOut(o) ==
  /\ h.state = "ringing" /\ h.offer = o
  /\ Write(Release(h, o, NoCall, FALSE))
  /\ UNCHANGED <<life, rung, answered, deadline, wire, cache, desk, media, req>>

\* An inbound caller leaves the queue or the agent's call, or an outbound
\* call is answered no more: what the hangup handlers do for this agent.
Ends(c) ==
  /\ life' = [life EXCEPT ![c] = "over"]
  /\ CASE life[c] = "answered" ->
            /\ Write(PostCall(h, c, TRUE))
            /\ Push(<<Ev("wrap_up_started", c),
                      Ev(IF c \in Outbound THEN "outbound_hangup" ELSE "hangup", c)>>)
       [] life[c] = "ringing" ->
            /\ Write(Release(h, NoOffer, c, FALSE))
            /\ Push(<<Ev("outbound_hangup", c)>>)
       [] life[c] = "new" /\ h.call = c ->
            /\ Write(Release(h, h.offer, NoCall, FALSE))
            /\ Push(<<Ev("hangup", c)>>)
       [] OTHER -> UNCHANGED <<h, clock, push>>

CallEnds(c) ==
  /\ life[c] \in {"ringing", "answered"} \/ (life[c] = "new" /\ c \in Inbound)
  /\ Ends(c)
  /\ UNCHANGED <<rung, answered, deadline, conn, resync, faults, cache, desk, media, req>>

OutboundAnswers(c) ==
  /\ life[c] = "ringing"
  /\ life' = [life EXCEPT ![c] = "answered"]
  /\ Write(IF CanMarkInCall(h, NoOffer) THEN MarkInCall(h, c, "outbound") ELSE h)
  /\ answered' = [answered EXCEPT ![c] = clock']
  /\ Push(<<Ev("outbound_answered", c)>>)
  /\ UNCHANGED <<rung, deadline, conn, resync, faults, cache, desk, media, req>>

\* The deadline passes and the sweep finds the agent.
Sweep ==
  /\ h.state = "after_call_work" /\ h.wrap # "none"
  /\ Write(Free("ready"))
  /\ deadline' = [deadline EXCEPT ![h.wrapCall] = clock']
  /\ Push(<<Ev("wrap_up_timeout", NoCall)>>)
  /\ UNCHANGED <<life, rung, answered, conn, resync, faults, cache, desk, media, req>>

-----------------------------------------------------------------------------
(* The server: the agent's requests.                                        *)

ServeAccept(o) ==
  LET c == CallOf[o] IN
  /\ setup[o] = "sent"
  /\ IF h.state = "ringing" /\ h.offer = o
       THEN /\ setup' = [setup EXCEPT ![o] = "ok"]
            /\ life' = [life EXCEPT ![c] = "answered"]
            /\ Write(MarkInCall(h, c, "inbound"))
            /\ answered' = [answered EXCEPT ![c] = clock']
       ELSE /\ setup' = [setup EXCEPT ![o] = "refused"]
            /\ UNCHANGED <<h, clock, life, answered>>
  /\ UNCHANGED <<rung, deadline, wire, cache, desk, leg, rebuild, req>>

\* A rejected agent goes busy, so that the queue cannot hand the call back.
ServeReject ==
  LET free == Release(h, req.reject, NoCall, FALSE) IN
  /\ req.reject # NoOffer /\ ~req.rejected
  /\ req' = [req EXCEPT !.rejected = TRUE]
  /\ Write(IF h.state = "ringing" /\ h.offer = req.reject THEN SetVisible(free, "busy") ELSE h)
  /\ UNCHANGED <<life, rung, answered, deadline, wire, cache, desk, media>>

ServeCancel ==
  /\ req.cancel # NoCall /\ ~req.cancelled
  /\ req' = [req EXCEPT !.cancelled = TRUE]
  /\ IF life[req.cancel] # "over" THEN Ends(req.cancel)
                                  ELSE UNCHANGED <<life, h, clock, push>>
  /\ UNCHANGED <<rung, answered, deadline, conn, resync, faults, cache, desk, media>>

\* The hangup request names no call: it ends the one the agent is in.
ServeHangup ==
  /\ req.hangup
  /\ req' = [req EXCEPT !.hangup = FALSE]
  /\ IF h.state = "in_call" THEN Ends(h.call) ELSE UNCHANGED <<life, h, clock, push>>
  /\ UNCHANGED <<rung, answered, deadline, conn, resync, faults, cache, desk, media>>

-----------------------------------------------------------------------------
(* The socket.                                                             *)

SocketBreaks ==
  /\ conn /\ faults < MaxFaults
  /\ conn' = FALSE /\ push' = <<>> /\ resync' = FALSE /\ faults' = faults + 1
  /\ UNCHANGED <<server, cache, desk, media, req>>

\* A reload also aborts the requests under way: the server has handled each
\* before, or never will.
Reload ==
  /\ faults < MaxFaults
  /\ conn' = FALSE /\ push' = <<>> /\ resync' = FALSE /\ faults' = faults + 1
  /\ FreshDesk
  /\ UNCHANGED server

SocketConnects ==
  /\ ~conn /\ conn' = TRUE /\ resync' = TRUE
  /\ UNCHANGED <<server, push, faults, cache, desk, media, req>>

\* republish_agent_call_ui.  It also heals a hash that disagrees with the call
\* record or the kernel; here hash, record and call are written in one step.
Republish ==
  /\ resync /\ resync' = FALSE
  /\ CASE h.state = "ringing" /\ h.offer # NoOffer ->
            Push(<<[Ev("incoming", h.call) EXCEPT !.offer = h.offer]>>)
       [] h.state = "in_call" -> Push(<<Ev("restore", h.call), Ev("answered", h.call)>>)
       [] OTHER -> UNCHANGED push
  /\ UNCHANGED <<server, conn, faults, cache, desk, media, req>>

-----------------------------------------------------------------------------
(* The desk: what a change of the session brings with it.  Leaving on_call   *)
(* clears endingCallRef; a desk without a call forgets the local deadline.   *)

Becomes(new, end) ==
  /\ s' = new
  /\ ending' = IF new.phase # s.phase /\ new.phase # "on_call" THEN FALSE ELSE end
  /\ wrapLocal' = IF new.phase \in {"idle", "mic_check"} THEN NoCall ELSE wrapLocal

Closed == [NoLeg EXCEPT !.state = "closed"]

GoOffline ==
  /\ leg' = Closed
  /\ rebuild' = IF rebuild = "sent" THEN "stale" ELSE rebuild

Connecting(k) == leg' = [NoLeg EXCEPT !.state = "connecting", !.pc = k]

\* The catch block of a flow: teardownPc closes whatever connection is current.
Broken(lost) ==
  leg' = [leg EXCEPT !.state = "failed", !.pc = NoFlow, !.orphan = FALSE, !.lost = lost]
Failed == Broken(FALSE)

\* A reply clears the session, whatever call it is by now, and keeps the leg.
Bereaved == leg' = [leg EXCEPT !.orphan = @ \/ (s.phase = "on_call" /\ leg.pc # NoFlow)]

Keep(new) == Becomes(new, ending)

-----------------------------------------------------------------------------
(* The desk: events.                                                       *)

Deliver(name) ==
  /\ push # <<>> /\ Head(push).name = name
  /\ push' = Tail(push)
  /\ UNCHANGED <<server, conn, resync, faults, cache>>

\* seen: the record in the list says that this agent answered the call.
OnIncoming ==
  LET e == Head(push) IN
  /\ Deliver("incoming")
  /\ \E seen \in BOOLEAN :
       /\ seen => answered[e.call] # 0
       /\ Keep(SocketIncoming(s, Incoming(e.call, e.offer, Now), seen, Now))
  /\ UNCHANGED <<accepting, early, media, req>>

OnRestore ==
  LET e == Head(push) IN
  /\ Deliver("restore")
  /\ Keep(SocketIncoming(s, Incoming(e.call, NoOffer, answered[e.call]), TRUE,
                         answered[e.call]))
  /\ UNCHANGED <<accepting, early, media, req>>

OnAnswered ==
  /\ Deliver("answered")
  /\ Keep(SocketAnswered(s))
  /\ UNCHANGED <<accepting, early, media, req>>

OnHangup ==
  LET c == Head(push).call IN
  /\ Deliver("hangup")
  /\ IF Names(s, leg.call, c)
       THEN GoOffline /\ Becomes(SocketHangup(s, c), TRUE)
       ELSE UNCHANGED <<leg, rebuild, s, ending, wrapLocal>>
  /\ UNCHANGED <<accepting, early, setup, req>>

RingingOut(c) == s.phase = "outbound_ringing" /\ s.call = c

OnOutboundAnswered ==
  LET c == Head(push).call IN
  /\ Deliver("outbound_answered")
  /\ IF RingingOut(c)
       THEN Keep(OutboundAnswered(s)) /\ UNCHANGED early
       ELSE /\ early' = [early EXCEPT !.answered = @ \cup {c}]
            /\ UNCHANGED <<s, ending, wrapLocal>>
  /\ UNCHANGED <<accepting, media, req>>

OnOutboundHangup ==
  LET c == Head(push).call IN
  /\ Deliver("outbound_hangup")
  /\ IF s.call \in {NoCall, c}
       THEN /\ early' = [ answered |-> early.answered \ {c},
                          ended |-> early.ended \cup IF RingingOut(c) THEN {} ELSE {c} ]
            /\ GoOffline
            /\ Becomes(OutboundHangup(s, c), TRUE)
       ELSE UNCHANGED <<early, leg, rebuild, s, ending, wrapLocal>>
  /\ UNCHANGED <<accepting, setup, req>>

\* The event is compared with call_id, which a rebuild has replaced.
OnWrapUpStarted ==
  LET c == Head(push).call IN
  /\ Deliver("wrap_up_started")
  /\ wrapLocal' = IF /\ s.phase \in {"on_call", "wrap_up"}
                     /\ s.call = NoCall \/ (s.call = c /\ ~s.rekeyed)
                    THEN c ELSE wrapLocal
  /\ UNCHANGED <<s, ending, accepting, early, media, req>>

OnWrapUpTimeout ==
  /\ Deliver("wrap_up_timeout")
  /\ IF s.phase = "wrap_up" THEN Keep(WrapUpDone(s))
                            ELSE UNCHANGED <<s, ending, wrapLocal>>
  /\ UNCHANGED <<accepting, early, media, req>>

-----------------------------------------------------------------------------
(* The desk: the status poll and what its snapshots do.                      *)

Poll ==
  /\ cache # Snap /\ cache' = Snap
  /\ UNCHANGED <<server, wire, desk, media, req>>

MicReady ==
  /\ s.phase = "mic_check"
  /\ Keep(MicReadyIn(s))
  /\ UNCHANGED <<server, wire, cache, accepting, early, media, req>>

\* What the page takes for the start of call c: the answer, which the hash shows as
\* well, unless the record in its list was read before and has an earlier time.
Began == 1
StartOf(c) == {answered[c], Began}

\* An ended call is refused twice: here and in the reducer.
Hydrates(phase, c, o, start) ==
  /\ s.phase = "idle" /\ c \notin {NoCall} \cup s.ended
  /\ Keep(PollHydrate(s, phase, Incoming(c, o, start), start))

Hydrate ==
  /\ \/ /\ cache.visible = "after_call_work"
        /\ cache.wrapCall # NoCall /\ deadline[cache.wrapCall] = 0
        /\ \E start \in StartOf(cache.wrapCall) \cup {Now} :
             Hydrates("wrap_up", cache.wrapCall, NoOffer, start)
     \/ /\ cache.visible # "after_call_work"
        /\ cache.state = "ringing" /\ cache.offer # NoOffer
        /\ Hydrates("incoming", cache.call, cache.offer, cache.at)
     \/ /\ cache.visible # "after_call_work"
        /\ cache.state = "in_call"
        /\ \E start \in StartOf(cache.call) : Hydrates("on_call", cache.call, NoOffer, start)
  /\ UNCHANGED <<server, wire, cache, accepting, early, media, req>>

UpgradeRinging ==
  /\ ShouldUpgradeRinging(s, cache)
  /\ Keep(OutboundAnswered(s))
  /\ UNCHANGED <<server, wire, cache, accepting, early, media, req>>

LeaveRinging ==
  /\ ShouldLeaveRinging(s, cache)
  /\ GoOffline
  /\ Becomes(OutboundHangup(s, s.call), TRUE)
  /\ UNCHANGED <<server, wire, cache, accepting, early, setup, req>>

\* Mutant: the leg is not taken down with the session.
LeaveOnCallKeepsLeg ==
  /\ ShouldLeaveOnCall(s, cache) /\ s.call # NoCall
  /\ Becomes(SocketHangup(s, s.call), TRUE)
  /\ UNCHANGED <<server, wire, cache, accepting, early, media, req>>

LeaveOnCall ==
  /\ ShouldLeaveOnCall(s, cache) /\ s.call # NoCall
  /\ GoOffline
  /\ Becomes(SocketHangup(s, s.call), TRUE)
  /\ UNCHANGED <<server, wire, cache, accepting, early, setup, req>>

\* The call record, once the list holds it, shows a missed answer, or an earlier
\* start of the call at hand: that of the call itself, if it was read before.
RecordShowsAnswer ==
  /\ s.call # NoCall
  /\ \E start \in StartOf(s.call) \ {0} :
       /\ \/ s.phase \in {"incoming", "outbound_ringing"} /\ start = answered[s.call]
          \/ s.phase = "on_call" /\ start < s.callStart
       /\ Keep(CdrAnswered(s, start))
  /\ UNCHANGED <<server, wire, cache, accepting, early, media, req>>

\* Mutant: the write of the sweep itself does not count.
WrapUpFallbackLater ==
  /\ s.phase = "wrap_up" /\ wrapLocal # NoCall
  /\ cache.at # 0 /\ cache.visible # "after_call_work"
  /\ deadline[wrapLocal] # 0 /\ cache.at > deadline[wrapLocal]
  /\ Keep(WrapUpDone(s))
  /\ UNCHANGED <<server, wire, cache, accepting, early, media, req>>

WrapUpFallback ==
  /\ s.phase = "wrap_up" /\ wrapLocal # NoCall
  /\ cache.at # 0 /\ cache.visible # "after_call_work"
  /\ deadline[wrapLocal] # 0 /\ cache.at >= deadline[wrapLocal]
  /\ Keep(WrapUpDone(s))
  /\ UNCHANGED <<server, wire, cache, accepting, early, media, req>>

-----------------------------------------------------------------------------
(* The desk: answering.                                                    *)

\* The buttons are disabled while the leg connects.
CanDecide(o) ==
  s.phase = "incoming" /\ s.offer = o /\ o # NoOffer /\ leg.state # "connecting"

\* One flow at a time for an offer: a second attempt waits for the check that
\* follows a first that failed.
Accept(o) ==
  /\ CanDecide(o) /\ accepting # o /\ setup[o] = "none" /\ req.reject # o
  /\ accepting' = o
  /\ IF leg.state = "ready"
       THEN Keep(AcceptOk(s, Now)) /\ UNCHANGED <<leg, setup>>
       ELSE /\ Connecting(o)
            /\ setup' = [setup EXCEPT ![o] = "sent"]
            /\ UNCHANGED <<s, ending, wrapLocal>>
  /\ UNCHANGED <<server, wire, cache, early, rebuild, req>>

\* A connection that was closed meanwhile cannot take the answer.
AcceptReply(o) ==
  /\ setup[o] \in {"ok", "refused"}
  /\ IF setup[o] = "ok" /\ leg.pc = o
       THEN /\ leg' = [leg EXCEPT !.state = "ready", !.call = CallOf[o]]
            /\ setup' = [setup EXCEPT ![o] = "none"]
            /\ Keep(AcceptOk(s, Now))
            /\ UNCHANGED <<accepting>>
       ELSE /\ Failed
            /\ setup' = [setup EXCEPT ![o] = "check"]
            /\ accepting' = NoOffer
            /\ UNCHANGED <<s, ending, wrapLocal>>
  /\ UNCHANGED <<server, wire, cache, early, rebuild, req>>

\* Another tab may have won: the session is cleared either way, and the leg
\* made rebuildable when the fresh snapshot still shows a call.
AcceptChecked(o) ==
  LET survived == h.state \in {"ringing", "in_call"} \/ h.visible = "after_call_work" IN
  /\ setup[o] = "check"
  /\ setup' = [setup EXCEPT ![o] = "none"]
  /\ cache' = Snap
  /\ IF survived THEN GoOffline ELSE Bereaved /\ UNCHANGED rebuild
  /\ Keep(Cleared(s))
  /\ UNCHANGED <<server, wire, accepting, early, req>>

Reject(o) ==
  /\ CanDecide(o) /\ req.reject = NoOffer
  /\ req' = [req EXCEPT !.reject = o]
  /\ UNCHANGED <<server, wire, cache, desk, media>>

RejectReply ==
  /\ req.rejected
  /\ req' = [req EXCEPT !.reject = NoOffer, !.rejected = FALSE]
  /\ Keep(Cleared(s)) /\ Bereaved
  /\ UNCHANGED <<server, wire, cache, accepting, early, setup, rebuild>>

-----------------------------------------------------------------------------
(* The desk: dialling.                                                     *)

\* The request, and the server's reservation and origination.
Dial(c) ==
  /\ s.phase = "idle" /\ life[c] = "new" /\ MayReach(c) /\ CanReserve(h, "outbound")
  /\ setup' = [setup EXCEPT ![c] = "dialing"]
  /\ life' = [life EXCEPT ![c] = "ringing"]
  /\ Write(BindOutbound(Reserve(h, "outbound", c, NoOffer), c))
  /\ UNCHANGED <<rung, answered, deadline, wire, cache, desk, leg, rebuild, req>>

\* handleDialStarted, up to the request that brings the agent's media.
DialReply(c) ==
  LET started == DialStarted(s, c, Now) IN
  /\ setup[c] = "dialing"
  /\ IF c \in early.ended
       THEN /\ setup' = [setup EXCEPT ![c] = "none"]
            /\ early' = [early EXCEPT !.ended = @ \ {c}]
            /\ UNCHANGED <<s, ending, wrapLocal, leg>>
       ELSE /\ setup' = [setup EXCEPT ![c] = "sent"]
            /\ early' = [early EXCEPT !.answered = @ \ {c}]
            /\ Keep(IF c \in early.answered THEN OutboundAnswered(started) ELSE started)
            /\ Connecting(c)
  /\ UNCHANGED <<server, wire, cache, accepting, rebuild, req>>

\* A call that has ended refuses the media, and so does a closed connection.
OriginateReply(c) ==
  LET up   == life[c] # "over" /\ leg.pc = c
      drop == ~up \/ c \in early.ended \/ ending
  IN
  /\ setup[c] = "sent"
  /\ setup' = [setup EXCEPT ![c] = "none"]
  /\ early' = [early EXCEPT !.ended = @ \ {c}]
  /\ IF drop
       THEN GoOffline /\ Keep(Cleared(s))
       ELSE /\ leg' = [leg EXCEPT !.state = "ready", !.call = c]
            /\ UNCHANGED <<rebuild, s, ending, wrapLocal>>
  /\ UNCHANGED <<server, wire, cache, accepting, req>>

-----------------------------------------------------------------------------
(* The desk: ending a call, and the agent's status.                          *)

Hangup ==
  /\ s.phase = "on_call" /\ ~req.hangup
  /\ req' = [req EXCEPT !.hangup = TRUE]
  /\ GoOffline
  /\ Becomes(SocketHangup(s, s.call), TRUE)
  /\ UNCHANGED <<server, wire, cache, accepting, early, setup>>

CancelDial ==
  /\ s.phase = "outbound_ringing" /\ req.cancel = NoCall
  /\ req' = [req EXCEPT !.cancel = s.call]
  /\ ending' = TRUE
  /\ UNCHANGED <<server, wire, cache, s, wrapLocal, accepting, early, media>>

\* The finally block clears the session, whatever it has become.
CancelReply ==
  /\ req.cancelled
  /\ req' = [req EXCEPT !.cancel = NoCall, !.cancelled = FALSE]
  /\ GoOffline
  /\ Keep(Cleared(s))
  /\ UNCHANGED <<server, wire, cache, accepting, early, setup>>

\* completeWrapUp
FinishWrapUp ==
  /\ s.phase = "wrap_up" /\ ~req.ready
  /\ req' = [req EXCEPT !.ready = TRUE]
  /\ Keep(WrapUpDone(s))
  /\ UNCHANGED <<server, wire, cache, accepting, early, media>>

ServeReady ==
  /\ req.ready /\ req' = [req EXCEPT !.ready = FALSE]
  /\ Write(IF CanSetVisible(h, "ready") THEN SetVisible(h, "ready") ELSE h)
  /\ UNCHANGED <<life, rung, answered, deadline, wire, cache, desk, media>>

\* setAgentStatus, which is refused while a call is at hand: a status that the
\* server accepts also ends the desk's wrap-up.
PickReady ==
  /\ s.phase \in {"idle", "wrap_up"} /\ h.visible # "ready"
  /\ CanSetVisible(h, "ready")
  /\ Write(SetVisible(h, "ready"))
  /\ IF s.phase = "wrap_up" THEN Keep(WrapUpDone(s)) ELSE UNCHANGED <<s, ending, wrapLocal>>
  /\ UNCHANGED <<life, rung, answered, deadline, wire, cache, accepting, early, media, req>>

-----------------------------------------------------------------------------
(* The desk: rebuilding the media of a call that has none.                    *)

Originating == \E c \in Outbound : setup[c] = "sent"

\* Mutant: a page that has had no leg yet, after a reload, builds none.
StartRebuildOfClosed ==
  /\ s.phase = "on_call" /\ leg.state = "closed"
  /\ ~ending /\ ~Originating /\ rebuild = "none"
  /\ Connecting("rebuild")
  /\ rebuild' = "sent"
  /\ UNCHANGED <<server, wire, cache, desk, setup, req>>

StartRebuild ==
  /\ s.phase = "on_call" /\ leg.state \in {"idle", "closed"}
  /\ ~ending /\ ~Originating /\ rebuild = "none"
  /\ Connecting("rebuild")
  /\ rebuild' = "sent"
  /\ UNCHANGED <<server, wire, cache, desk, setup, req>>

\* The server finds the agent's call or answers 404, and the flow asks whether
\* the leg was closed meanwhile.
RebuildReply ==
  /\ rebuild # "none" /\ rebuild' = "none"
  /\ IF rebuild = "sent" /\ h.state = "in_call"
       THEN /\ leg' = [leg EXCEPT !.state = "ready", !.call = h.call]
            /\ Keep(MediaLegUpdated(s))
       ELSE /\ leg' = [leg EXCEPT !.state = "closed", !.pc = NoFlow,
                                  !.orphan = FALSE, !.lost = FALSE]
            /\ UNCHANGED <<s, ending, wrapLocal>>
  /\ UNCHANGED <<server, wire, cache, accepting, early, setup, req>>

\* The connection to the kernel fails, or the rebuild does for another reason
\* than the end of the call.  No rebuild starts from a leg that has failed.
MediaFails ==
  /\ faults < MaxFaults /\ faults' = faults + 1
  /\ \/ rebuild = "sent" /\ rebuild' = "none"
     \/ leg.state = "ready" /\ UNCHANGED rebuild
  /\ Broken(TRUE)
  /\ UNCHANGED <<server, push, conn, resync, cache, desk, setup, req>>

-----------------------------------------------------------------------------
Serve ==
  \/ \E o \in Offers : OfferTimesOut(o) \/ ServeAccept(o)
  \/ ServeReject \/ ServeCancel \/ ServeHangup \/ ServeReady
  \/ Sweep

Events ==
  \/ OnIncoming \/ OnRestore \/ OnAnswered \/ OnHangup
  \/ OnOutboundAnswered \/ OnOutboundHangup
  \/ OnWrapUpStarted \/ OnWrapUpTimeout

Effects ==
  \/ MicReady \/ Hydrate \/ UpgradeRinging \/ LeaveRinging \/ LeaveOnCall
  \/ WrapUpFallback

Replies ==
  \/ \E o \in Offers : AcceptReply(o) \/ AcceptChecked(o)
  \/ \E c \in Outbound : DialReply(c) \/ OriginateReply(c)
  \/ RejectReply \/ CancelReply \/ RebuildReply

Clicks ==
  \/ \E o \in Offers : Accept(o) \/ Reject(o)
  \/ \E c \in Outbound : Dial(c)
  \/ Hangup \/ CancelDial \/ FinishWrapUp \/ PickReady

World ==
  \/ \E o \in Offers : Ring(o)
  \/ \E c \in Calls : CallEnds(c)
  \/ \E c \in Outbound : OutboundAnswers(c)
  \/ SocketBreaks \/ Reload \/ MediaFails

Next == World \/ Serve \/ SocketConnects \/ Republish \/ Poll
        \/ Events \/ Effects \/ RecordShowsAnswer \/ StartRebuild \/ Replies \/ Clicks

Spec == Init /\ [][Next]_vars

\* What happens without the agent or the customer: the server serves its
\* requests, whose replies arrive, takes back an offer and sweeps; the socket
\* reconnects and hands over what it has; a poll comes every half minute; effects
\* run.  The list of call records is not waited for.
Fairness ==
  /\ WF_vars(Serve \/ Replies) /\ WF_vars(SocketConnects \/ Republish \/ Events)
  /\ WF_vars(Poll) /\ WF_vars(Effects) /\ WF_vars(StartRebuild)

FairSpec == Spec /\ Fairness

-----------------------------------------------------------------------------
OnDesk == s.phase \in {"outbound_ringing", "on_call"} /\ s.call # NoCall

\* A status snapshot does not end a call on the desk that the agent dials or is
\* connected in, however old the snapshot is and whatever has happened since it
\* was taken.
LiveCallIsKept ==
  [][LeaveRinging \/ LeaveOnCall => life[s.call] \notin {"ringing", "answered"}]_vars

\* A call this desk has ended does not come back on it: not from a status
\* taken earlier, not from a replayed push, not from a late answer.
EndedCallStaysEnded ==
  [][\A c \in s.ended :
       s'.call = c /\ s'.phase # s.phase => s'.phase \in {"idle", "wrap_up"}]_vars

\* The microphone is live only for the call on the desk or an accept that is
\* still under way, unless a reply about another offer has cleared the session
\* under it.  (Not so for a dial: its answer may come after the poll has shown
\* the call and the agent has hung it up.)
MicIsReleased ==
  leg.pc \notin {NoFlow} \cup Outbound =>
    \/ s.phase = "on_call"
    \/ leg.pc \in Offers /\ setup[leg.pc] # "none"
    \/ leg.orphan

\* As long as the server has the agent in a call, the desk comes to show it,
\* with media, whatever events were lost and however often it was reloaded.  Only
\* where a connection, or the attempt to rebuild one, has failed does the call stay
\* without: nothing but the agent, who is told, leads out of that.
AnsweredCallIsServed ==
  []<>(h.state = "in_call" =>
         /\ s.phase = "on_call" /\ s.call = h.call
         /\ leg.state = "ready" \/ (leg.state = "failed" /\ leg.lost))

\* The desk does not stay behind the server, whatever pushes were lost: it
\* leaves a call that is over, while the hash is newer than the time the desk
\* gives the call; and it leaves a wrap-up whose deadline it knows once the
\* server has ended it.
StaleCall == OnDesk /\ life[s.call] = "over" /\ SnapshotAfterStart(s, Snap)
StaleWrapUp == s.phase = "wrap_up" /\ wrapLocal # NoCall /\ deadline[wrapLocal] # 0

DeskCatchesUp == []<>(~StaleCall /\ ~StaleWrapUp)

\* The page says that it re-syncs on every reconnect; the workflow, that the
\* browser of an agent must not ring forever.
RingingEnds ==
  \A o \in Offers : s.phase = "incoming" /\ s.offer = o /\ h.offer # o ~>
                      ~(s.phase = "incoming" /\ s.offer = o)
=============================================================================
