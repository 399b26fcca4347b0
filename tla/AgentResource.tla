--------------------------- MODULE AgentResource ---------------------------
(***************************************************************************)
(* The Redis hash cc:agent:resource:{tenant}:{employee} that says whether  *)
(* a call-centre agent can be rung, and the operations of                  *)
(* CcAgentResourceService on it.  Every operation of the service that      *)
(* reads and writes does so in one WATCH/MULTI/EXEC transaction, so each is *)
(* an operator from a hash to a hash here and one atomic step in the        *)
(* modules that use it; the handlers that call several operations, or act   *)
(* on an earlier read, are modelled as several steps there.                 *)
(*                                                                         *)
(* The clock is abstracted to what _is_expired and list_expired_wrapups     *)
(* compare: a deadline is absent, ahead or behind.                          *)
(***************************************************************************)

CONSTANTS
  Calls,    \* identifiers kept in current_call_id: kernel calls, reservations
  Offers,   \* offer identifiers
  NoCall,   \* the empty string in current_call_id / wrap_up_call_id
  NoOffer   \* the empty string in offer_id

ASSUME NoCallAssumption == NoCall \notin Calls
ASSUME NoOfferAssumption == NoOffer \notin Offers

VisibleStatuses == {"ready", "busy", "break", "after_call_work", "offline"}
ActiveStates    == {"reserved", "ringing", "in_call"}
ResourceStates  == ActiveStates \cup {"idle", "after_call_work", "unavailable"}
Directions      == {"none", "inbound", "outbound"}
Deadlines       == {"none", "ahead", "behind"}

Hash ==
  [ visible  : VisibleStatuses,
    state    : ResourceStates,
    call     : Calls \cup {NoCall},
    offer    : Offers \cup {NoOffer},
    dir      : Directions,
    lease    : Deadlines,                       \* reserved_until
    prev     : VisibleStatuses \cup {"none"},   \* previous_visible_status
    since    : BOOLEAN,                         \* in_call_since is stamped
    wrap     : Deadlines,                       \* wrap_up_until
    wrapCall : Calls \cup {NoCall} ]

-----------------------------------------------------------------------------
(* Reading a hash.                                                         *)

ResourceForVisible(v) ==
  CASE v = "ready"           -> "idle"
    [] v = "after_call_work" -> "after_call_work"
    [] OTHER                 -> "unavailable"

Occupied(h) == h.state \in ActiveStates
Expired(h)  == Occupied(h) /\ h.lease = "behind"

\* A mapping that names no call clears every field of one, because
\* _base_mapping writes them all.
Unoccupied(v, wrap, wrapCall) ==
  [ visible |-> v, state |-> ResourceForVisible(v), call |-> NoCall,
    offer |-> NoOffer, dir |-> "none", lease |-> "none", prev |-> "none",
    since |-> FALSE, wrap |-> wrap, wrapCall |-> wrapCall ]

Free(v) == Unoccupied(v, "none", NoCall)

\* The mapping of an agent occupied with call c, with a new lease.
Occupy(v, s, c, o, dir, prev) ==
  [ visible |-> v, state |-> s, call |-> c, offer |-> o, dir |-> dir,
    lease |-> "ahead", prev |-> prev, since |-> s = "in_call",
    wrap |-> "none", wrapCall |-> NoCall ]

-----------------------------------------------------------------------------
(* Operations that change a hash, each with the condition under which the   *)
(* transaction writes rather than raising ConflictError or returning early. *)

CanSetVisible(h, v) ==
  Occupied(h) /\ ~Expired(h) => h.state = "in_call" /\ v = "busy"

\* While the agent is in a call only "busy" is accepted, and the mapping
\* written then names the call and its direction but no lease.
SetVisible(h, v) ==
  IF Occupied(h) /\ ~Expired(h)
    THEN [Occupy("busy", "in_call", h.call, NoOffer, h.dir, "none") EXCEPT
            !.lease = "none", !.since = FALSE]
    ELSE Free(v)

CanReserve(h, dir) ==
  /\ h.visible # "offline"
  /\ Occupied(h) => Expired(h)
  /\ dir = "inbound" =>
       /\ h.visible = "ready"
       /\ Expired(h) \/ h.state = "idle"

Reserve(h, dir, c, o) ==
  IF dir = "outbound" THEN Occupy("busy", "reserved", c, o, dir, h.visible)
                      ELSE Occupy(h.visible, "reserved", c, o, dir, "none")

CanMarkRinging(h, c, o) ==
  h.state = "reserved" /\ h.offer = o /\ h.call = c /\ ~Expired(h)

MarkRinging(h) ==
  Occupy("busy", "ringing", h.call, h.offer, "inbound",
         IF h.prev = "none" THEN h.visible ELSE h.prev)

CanBindOutbound(h, reservation) == h.call = reservation

\* Mutant: the bound call gets no lease.
BindOutboundWithoutLease(h, c) ==
  [Occupy("busy", "ringing", c, NoOffer, "outbound", h.prev) EXCEPT !.lease = "none"]

BindOutbound(h, c) == Occupy("busy", "ringing", c, NoOffer, "outbound", h.prev)

\* o is NoOffer for the callers that pass no offer_id.
CanMarkInCall(h, o) ==
  \/ h.state = "in_call"
  \/ h.state \in {"reserved", "ringing"} /\ (o # NoOffer => h.offer = o)

\* A repeat is a no-op, except that it stamps a session that has no
\* in_call_since and gives one that has no lease a new lease.
MarkInCall(h, c, dir) ==
  CASE h.state = "in_call" /\ h.since  -> h
    [] h.state = "in_call" /\ ~h.since ->
         [h EXCEPT !.since = TRUE,
                   !.lease = IF h.lease = "none" THEN "ahead" ELSE h.lease]
    [] OTHER ->
         Occupy("busy", "in_call", c, NoOffer, dir, h.prev)

RenewInCall(h, c) ==
  IF h.state = "in_call" /\ h.call = c THEN [h EXCEPT !.lease = "ahead"] ELSE h

ReleaseVisible(h) ==
  IF h.dir = "outbound" /\ h.prev # "none"
    THEN h.prev
    ELSE IF h.visible = "busy" THEN "ready" ELSE h.visible

\* Mutant: the guard on the offer is dropped.
CanReleaseAnyOffer(h, expectedOffer, expectedCall, allowInCall) ==
  /\ expectedCall = NoCall \/ h.call = expectedCall
  /\ h.state = "in_call" => allowInCall

\* Mutant: a ringing agent is protected the way one in a call is.
CanReleaseNotRinging(h, expectedOffer, expectedCall, allowInCall) ==
  /\ expectedOffer = NoOffer \/ h.offer = expectedOffer
  /\ expectedCall = NoCall \/ h.call = expectedCall
  /\ h.state \in {"ringing", "in_call"} => allowInCall

\* A guard the caller leaves out is passed as NoOffer or NoCall.
CanRelease(h, expectedOffer, expectedCall, allowInCall) ==
  /\ expectedOffer = NoOffer \/ h.offer = expectedOffer
  /\ expectedCall = NoCall \/ h.call = expectedCall
  /\ h.state = "in_call" => allowInCall

Release(h, expectedOffer, expectedCall, allowInCall) ==
  IF CanRelease(h, expectedOffer, expectedCall, allowInCall)
    THEN Free(ReleaseVisible(h))
    ELSE h

\* Mutant: an agent in a call is protected here too.
ForceReleaseOutsideCalls(h) == Release(h, NoOffer, NoCall, FALSE)

ForceRelease(h) == Release(h, NoOffer, NoCall, TRUE)

\* Mutant: the resource's own call is not looked at.
CanMarkAfterCallWorkOfAny(h, c) == TRUE

CanMarkAfterCallWork(h, c) == h.call \in {NoCall, c}

MarkAfterCallWork(h, c) ==
  IF h.state = "after_call_work" /\ h.wrapCall = c
    THEN h
    ELSE Unoccupied("after_call_work", "ahead", c)

\* apply_post_call_agent_status: after-call work, or ready when the tenant
\* has no wrap-up; a conflict leaves the agent as it is.
PostCall(h, c, hasWrapUp) ==
  IF hasWrapUp
    THEN IF CanMarkAfterCallWork(h, c) THEN MarkAfterCallWork(h, c) ELSE h
    ELSE IF CanSetVisible(h, "ready") THEN SetVisible(h, "ready") ELSE h

-----------------------------------------------------------------------------
(* What every write of the service leaves in a hash, whatever it found      *)
(* there.                                                                   *)
WellFormed(h) ==
  /\ Occupied(h) <=> h.call # NoCall
  /\ h.state \in {"reserved", "ringing"} => h.lease # "none"
  /\ h.offer # NoOffer =>
       h.state \in {"reserved", "ringing"} /\ h.dir = "inbound"
  /\ h.lease # "none" => Occupied(h)
  /\ h.wrap # "none" => h.state = "after_call_work"
  /\ h.wrapCall # NoCall => h.state = "after_call_work"
  /\ h.visible = "offline" => h.state = "unavailable"
  /\ h.state = "idle" => h.visible = "ready"
=============================================================================
