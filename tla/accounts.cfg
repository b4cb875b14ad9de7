SPECIFICATION Spec
CONSTANTS
  Accounts = {a, b}
  Passwords = {p, q}
  None = None
  Limit <- Few
  MaxOps = 2
SYMMETRY Symmetry
CONSTRAINT InOrder
INVARIANTS TypeOK  VaultHasKey SwitchRemembered  PrimaryInHome OneSelfChat SpinnersEnd
PROPERTIES KeysSurvive RestoreKeepsIdentity
CHECK_DEADLOCK FALSE
