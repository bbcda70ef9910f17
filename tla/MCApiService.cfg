SPECIFICATION ServiceSpec
CONSTANTS
  ra = ra rb = rb rc = rc i1 = i1 i2 = i2 a1 = a1 a2 = a2
  Servers = {a1, a2}
  Releases = {ra, rb, rc}
  Version <- Versioned
  Flights = {1, 2}
  Days = {1, 2}
  EventIds = {i1}
  CacheSize = 1
  None = None
SYMMETRY Symmetry
INVARIANTS ReadyIsVerified EventsAttributable AnswersAreTheModels
