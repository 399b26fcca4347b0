SPECIFICATION FairSpec
CONSTANTS
  d1 = d1 d2 = d2 r1 = r1 r2 = r2 k1 = k1 k2 = k2 o1 = o1
  Dials = {d1}
  Calls = {r1, r2, k1, k2}
  Offers = {o1}
  NoCall = NoCall NoOffer = NoOffer
  ReservationOf <- Reservations
  CallIdOf <- CallIds
  HasWrapUp = TRUE
  Choices = {"busy"}
  Disturbances = {"link", "session", "reset"}
PROPERTIES RingingEnds GhostIsHealed
INVARIANTS NoZombieRecord ReservationHasRequest
CHECK_DEADLOCK FALSE
