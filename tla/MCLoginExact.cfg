\* Two clients of one account.
SPECIFICATION SafeSpec
CONSTANTS
  Agent = {a1}
  NoSession = NoSession
  NoBlock = NoBlock
  Account = {x1}
  Session = {s1, s2}
  AccountOf <- OneAccount
  Block = {b1, b2, b3}
  Tampered = {}
SYMMETRY Symmetry
INVARIANTS
  LoginCheckExact
CHECK_DEADLOCK FALSE
