SPECIFICATION FairSpec
CONSTANTS
  c1 = c1 c2 = c2 d1 = d1 o1 = o1 o2 = o2
  Calls = {c1, d1}
  Inbound = {c1}
  Outbound = {d1}
  Offers = {o1}
  NoCall = NoCall NoOffer = NoOffer
  CallOf <- OffersOf
  MaxCalls = 1
  MaxFaults = 1
INVARIANTS TypeOK MicIsReleased
PROPERTIES LiveCallIsKept EndedCallStaysEnded AnsweredCallIsServed DeskCatchesUp
CHECK_DEADLOCK FALSE
