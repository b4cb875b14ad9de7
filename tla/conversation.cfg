SPECIFICATION Spec
CONSTANTS
  a = a  b = b  m1 = m1  m2 = m2  m3 = m3  k1 = k1  k2 = k2  k3 = k3  v = v  w = w  h = h
  Accounts = {a, b}
  Boot = a
  Msgs = {m1, m2, m3}
  Listed <- Stored2
  Author <- Authors
  At <- Minutes
  Span = 1
  Texts = {v, w}
  Emojis = {h}
  Keys <- KeysOf
  Kind <- KindOf
  OnDisk = {}
  Window = 3
  Targets <- Tried
  Limit <- Once
  MaxOps = 2
SYMMETRY Symmetry
INVARIANTS TypeOK RowsSettle CellsSettle OverlayBacked OptimisticShown HiddenStays OneDownload GroupsJoin AuthorsOnly
CHECK_DEADLOCK FALSE
