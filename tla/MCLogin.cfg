\* Three clients of one account, of which the files of one fail the check.
SPECIFICATION Spec
CONSTANTS
  Agent = {a1}
  NoSession = NoSession
  NoBlock = NoBlock
  Account = {x1}
  Session = {s1, s2, s3}
  AccountOf <- OneAccount
  Block = {b1, b2, b3}
  Tampered = {s3}
INVARIANTS
  OwnersSound
  FreedByItsOwn
  SomebodyResponsible
PROPERTIES
  ReleasedAtLast
  InsistingHelps
\* The system stops when every session has been used.
CHECK_DEADLOCK FALSE
