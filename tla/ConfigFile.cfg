\* Two savers, any edits, any kills; the state space is finite as it stands.
SPECIFICATION Spec
CONSTANTS
  Processes = {p1, p2}
  Inodes = {i1, i2, i3}
  Urls = {u1, u2}
  Overrides = {u2}
  Default <- Fresh
  Limits <- Budgets
  MinLimit = 2
  None = None
  Empty = Empty
  Torn = Torn
SYMMETRY Symmetric
INVARIANTS TypeOK WholeUnlessOverlapped
PROPERTIES SavedAsAsked
