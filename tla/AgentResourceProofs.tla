------------------------ MODULE AgentResourceProofs ------------------------
(***************************************************************************)
(* Lemmas about the operations on an agent's hash: from a well-formed hash  *)
(* each of them, in the situation its transaction writes in, leads to a     *)
(* well-formed hash.  They are stated for one hash and say nothing of who   *)
(* calls the operation; the modules about callers cite them.                *)
(***************************************************************************)
EXTENDS AgentResource, TLAPS

GoodHash == {h \in Hash : WellFormed(h)}

\* set_visible_status, release and a new hash all end in a free hash.
LEMMA FreeIsGood ==
  ASSUME NEW v \in VisibleStatuses
  PROVE  Free(v) \in GoodHash
BY NoCallAssumption, NoOfferAssumption
   DEF Free, Unoccupied, GoodHash, Hash, WellFormed, Occupied, ResourceForVisible,
       VisibleStatuses, ResourceStates, ActiveStates, Directions, Deadlines

\* set_visible_status, whether the agent is in a call or free.
LEMMA SetVisibleIsGood ==
  ASSUME NEW h \in GoodHash, NEW v \in VisibleStatuses
  PROVE  SetVisible(h, v) \in GoodHash
<1>1. CASE Occupied(h) /\ ~Expired(h)
  <2> DEFINE base == Occupy("busy", "in_call", h.call, NoOffer, h.dir, "none")
             r == [base EXCEPT !.lease = "none", !.since = FALSE]
  <2>1. SetVisible(h, v) = r
    BY <1>1 DEF SetVisible
  <2>2. base \in Hash /\ h.call # NoCall
    BY <1>1 DEF Occupy, GoodHash, Hash, WellFormed, Occupied, VisibleStatuses,
                ResourceStates, ActiveStates, Directions, Deadlines
  <2>3. /\ base.visible = "busy" /\ base.state = "in_call" /\ base.call = h.call
        /\ base.offer = NoOffer /\ base.wrap = "none" /\ base.wrapCall = NoCall
    BY DEF Occupy
  <2> HIDE DEF base
  <2>4. /\ r \in Hash
        /\ r.visible = "busy" /\ r.state = "in_call" /\ r.call = h.call
        /\ r.offer = NoOffer /\ r.lease = "none"
        /\ r.wrap = "none" /\ r.wrapCall = NoCall
    BY <2>2, <2>3 DEF Hash, Deadlines
  <2> HIDE DEF r
  <2>5. WellFormed(r)
    BY <2>2, <2>4 DEF WellFormed, Occupied, ActiveStates
  <2> QED BY <2>1, <2>4, <2>5 DEF GoodHash
<1>2. CASE ~(Occupied(h) /\ ~Expired(h))
  BY <1>2, FreeIsGood DEF SetVisible
<1> QED BY <1>1, <1>2

\* reserve_inbound; _reserve has refused an agent who is offline.
LEMMA ReserveInboundIsGood ==
  ASSUME NEW h \in GoodHash, NEW c \in Calls, NEW o \in Offers \cup {NoOffer},
         CanReserve(h, "inbound")
  PROVE  Reserve(h, "inbound", c, o) \in GoodHash
BY NoCallAssumption, NoOfferAssumption
   DEF Reserve, CanReserve, Occupy, GoodHash, Hash, WellFormed, Occupied,
       VisibleStatuses, ResourceStates, ActiveStates, Directions, Deadlines

\* reserve_outbound, which takes an agent of any status but offline.
LEMMA ReserveOutboundIsGood ==
  ASSUME NEW h \in GoodHash, NEW c \in Calls, CanReserve(h, "outbound")
  PROVE  Reserve(h, "outbound", c, NoOffer) \in GoodHash
BY NoCallAssumption, NoOfferAssumption
   DEF Reserve, CanReserve, Occupy, GoodHash, Hash, WellFormed, Occupied,
       VisibleStatuses, ResourceStates, ActiveStates, Directions, Deadlines

\* mark_ringing of the offer the agent is reserved for.
LEMMA MarkRingingIsGood ==
  ASSUME NEW h \in GoodHash, NEW c, NEW o, CanMarkRinging(h, c, o)
  PROVE  MarkRinging(h) \in GoodHash
BY NoCallAssumption, NoOfferAssumption
   DEF MarkRinging, CanMarkRinging, Occupy, GoodHash, Hash, WellFormed, Occupied,
       VisibleStatuses, ResourceStates, ActiveStates, Directions, Deadlines

\* mark_in_call: a first one, one that stamps an old session, and a repeat.
LEMMA MarkInCallIsGood ==
  ASSUME NEW h \in GoodHash, NEW c \in Calls, NEW o, NEW dir \in Directions,
         CanMarkInCall(h, o)
  PROVE  MarkInCall(h, c, dir) \in GoodHash
<1>1. h \in Hash /\ WellFormed(h)
  BY DEF GoodHash
<1>2. CASE h.state = "in_call" /\ h.since
  BY <1>2 DEF MarkInCall
<1>3. CASE h.state = "in_call" /\ ~h.since
  <2> DEFINE r == [h EXCEPT !.since = TRUE,
                            !.lease = IF h.lease = "none" THEN "ahead" ELSE h.lease]
  <2>1. MarkInCall(h, c, dir) = r
    BY <1>3 DEF MarkInCall
  <2>2. /\ r \in Hash
        /\ r.visible = h.visible /\ r.state = "in_call" /\ r.call = h.call
        /\ r.offer = h.offer /\ r.dir = h.dir /\ r.wrap = h.wrap
        /\ r.wrapCall = h.wrapCall
    BY <1>1, <1>3 DEF Hash, Deadlines
  <2> HIDE DEF r
  <2>3. WellFormed(r)
    BY <1>1, <1>3, <2>2 DEF WellFormed, Occupied, ActiveStates
  <2> QED BY <2>1, <2>2, <2>3 DEF GoodHash
<1>4. CASE h.state # "in_call"
  BY <1>4, NoCallAssumption, NoOfferAssumption
     DEF MarkInCall, Occupy, GoodHash, Hash, WellFormed, Occupied,
         VisibleStatuses, ResourceStates, ActiveStates, Directions, Deadlines
<1> QED BY <1>1, <1>2, <1>3, <1>4 DEF Hash

\* release under any guards: what it does not free it leaves alone.
LEMMA ReleaseIsGood ==
  ASSUME NEW h \in GoodHash, NEW o, NEW c, NEW allow \in BOOLEAN
  PROVE  Release(h, o, c, allow) \in GoodHash
<1>1. ReleaseVisible(h) \in VisibleStatuses
  BY DEF ReleaseVisible, GoodHash, Hash, VisibleStatuses
<1> QED BY <1>1, FreeIsGood DEF Release

\* mark_after_call_work, a repeat for the same call included.
LEMMA MarkAfterCallWorkIsGood ==
  ASSUME NEW h \in GoodHash, NEW c \in Calls
  PROVE  MarkAfterCallWork(h, c) \in GoodHash
BY NoCallAssumption, NoOfferAssumption
   DEF MarkAfterCallWork, Unoccupied, ResourceForVisible, GoodHash, Hash, WellFormed, Occupied,
       VisibleStatuses, ResourceStates, ActiveStates, Directions, Deadlines

\* apply_post_call_agent_status, with and without wrap-up.
LEMMA PostCallIsGood ==
  ASSUME NEW h \in GoodHash, NEW c \in Calls, NEW hasWrapUp \in BOOLEAN
  PROVE  PostCall(h, c, hasWrapUp) \in GoodHash
BY SetVisibleIsGood, MarkAfterCallWorkIsGood DEF PostCall, VisibleStatuses

\* bind_outbound_call, which finds the reservation it was made under.
LEMMA BindOutboundIsGood ==
  ASSUME NEW h \in GoodHash, NEW c \in Calls
  PROVE  BindOutbound(h, c) \in GoodHash
BY NoCallAssumption, NoOfferAssumption
   DEF BindOutbound, Occupy, GoodHash, Hash, WellFormed, Occupied,
       VisibleStatuses, ResourceStates, ActiveStates, Directions, Deadlines

\* renew_in_call: a session of this call gets a new lease.
LEMMA RenewInCallIsGood ==
  ASSUME NEW h \in GoodHash, NEW c
  PROVE  RenewInCall(h, c) \in GoodHash
<1>1. CASE h.state = "in_call" /\ h.call = c
  <2> DEFINE r == [h EXCEPT !.lease = "ahead"]
  <2>1. h \in Hash /\ WellFormed(h)
    BY DEF GoodHash
  <2>2. /\ r \in Hash /\ r.visible = h.visible /\ r.state = h.state /\ r.call = h.call
        /\ r.offer = h.offer /\ r.dir = h.dir /\ r.wrap = h.wrap /\ r.wrapCall = h.wrapCall
    BY <2>1 DEF Hash, Deadlines
  <2>3. RenewInCall(h, c) = r
    BY <1>1 DEF RenewInCall
  <2> HIDE DEF r
  <2>4. WellFormed(r)
    BY <1>1, <2>1, <2>2 DEF WellFormed, Occupied, ActiveStates
  <2> QED BY <2>2, <2>3, <2>4 DEF GoodHash
<1>2. CASE ~(h.state = "in_call" /\ h.call = c)
  BY <1>2 DEF RenewInCall
<1> QED BY <1>1, <1>2

\* A lease that runs out changes what may be done with a hash, not its shape.
LEMMA LeaseEndIsGood ==
  ASSUME NEW h \in GoodHash, Occupied(h)
  PROVE  [h EXCEPT !.lease = "behind"] \in GoodHash
<1> DEFINE r == [h EXCEPT !.lease = "behind"]
<1>1. h \in Hash /\ WellFormed(h)
  BY DEF GoodHash
<1>2. /\ r \in Hash /\ r.lease = "behind"
      /\ r.visible = h.visible /\ r.state = h.state /\ r.call = h.call
      /\ r.offer = h.offer /\ r.dir = h.dir /\ r.wrap = h.wrap
      /\ r.wrapCall = h.wrapCall
  BY <1>1 DEF Hash, Deadlines
<1> HIDE DEF r
<1>3. WellFormed(r)
  BY <1>1, <1>2 DEF WellFormed, Occupied
<1> QED BY <1>2, <1>3 DEF GoodHash, r

\* The end of the wrap-up time does not change the shape either.
LEMMA WrapEndIsGood ==
  ASSUME NEW h \in GoodHash, h.wrap = "ahead"
  PROVE  [h EXCEPT !.wrap = "behind"] \in GoodHash
<1> DEFINE r == [h EXCEPT !.wrap = "behind"]
<1>1. h \in Hash /\ WellFormed(h)
  BY DEF GoodHash
<1>2. /\ r \in Hash /\ r.wrap = "behind"
      /\ r.visible = h.visible /\ r.state = h.state /\ r.call = h.call
      /\ r.offer = h.offer /\ r.dir = h.dir /\ r.lease = h.lease
      /\ r.wrapCall = h.wrapCall
  BY <1>1 DEF Hash, Deadlines
<1> HIDE DEF r
<1>3. WellFormed(r)
  BY <1>1, <1>2 DEF WellFormed, Occupied
<1> QED BY <1>2, <1>3 DEF GoodHash, r
=============================================================================
