CONSTANTS
  Tickets = {t1, t2, t3}
  Pinned = {t3}
  Abortable = {t1}
  Max = 1
  MaxGens = 2
  Callers = {c1, c2, c3, c4}
  SqlMax = 1
  MaxLive = 3
  Agents = {1, 2, 3}
  Main = 0
  MaxWorkers = 3
  MaxHolders = 3
  MaxPosts = 4
  Conns = {k1, k2, k3}
  SamePeer = {k1, k2}
  first = k1
  Slots = 2
  PeerMax = 1
  Cap = 1
  Batch = 1
  MaxSent = 2
SPECIFICATION PartsSpec
INVARIANTS
  NobodyStranded
  SqlInv
  AgentInv
  PortInv
  SlotsExact
  RefusedNeverRan
  WakesWhenIdle
PROPERTIES
  ImplementsBounded
  LossClears
  WaitersServed
  AllEnd
  PortDrained
  ServerAnswers
