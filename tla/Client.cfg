SPECIFICATION Spec
CONSTANTS
  h1 = h1
  h2 = h2
  t = t
  r1 = r1
  r2 = r2
  r3 = r3
  Hosts <- TwoHosts
  Root = Root
  Info = Info
  Keys <- NoKey
  Tokens <- OneToken
  None = None
  Refs <- ThreeRefs
SYMMETRY HostsTokensRefs
INVARIANTS
  OneEach
  ListenersKnow
  NobodyElse
PROPERTY
  StatusIsTrue
