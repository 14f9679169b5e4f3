\* Two flows and pages, two wallets and an address; one code an address within the window.
SPECIFICATION Spec
CONSTANTS
  Flows = {f1, f2}
  Wallets = {w1, w2}
  Emails = {e1}
  Challenges = {c1, c2}
  Codes = {k1, k2}
  Pages = {p1, p2}
  Attempts = 2
  Cooldown = 1
  Window = 2
  PerAddress = 1
  PerService = 2
  MaxTime = 2
  None = None
SYMMETRY Symmetry
INVARIANTS SessionIsProved CodesRationed
PROPERTIES IdentityIsFinal ReplacedProofIsVoid
CHECK_DEADLOCK FALSE
