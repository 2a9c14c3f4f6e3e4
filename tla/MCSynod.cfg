SPECIFICATION Spec
CONSTANTS
  Acceptor = {a1, a2, a3}
  Slots = {s1}
  Values = {v1, v2}
  Ballots = {0, 1, 2, 3}
  ReadQuorum = 2
  WriteQuorum = 2
SYMMETRY Symmetry
INVARIANTS Agreement PromisesAreKept
