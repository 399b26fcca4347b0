SPECIFICATION Spec
CONSTANTS
  a1 = a1 a2 = a2 c1 = c1 c2 = c2 o1 = o1 o2 = o2 t1 = t1 t2 = t2
  Agents = {a1}
  Calls = {c1, c2}
  Offers = {o1, o2}
  Tabs = {t1}
  NoAgent = NoAgent NoCall = NoCall NoOffer = NoOffer
  CallOf <- TwoCalls
  Asks <- EachTab
  HasWrapUp = TRUE
  ManyNodes = FALSE
SYMMETRY Symmetry
PROPERTIES SettlesOwnCallOnly LiveOfferEndsByItsOwn
CHECK_DEADLOCK FALSE
