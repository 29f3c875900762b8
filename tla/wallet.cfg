CONSTANTS
  Procs = {p1, p2}
  ByteBits = 2
  EntropyBytes = 2
  WordBits = 3
  Counts = {1, 2}
  Memory = {m1, m2}
  MaxKeys = 2
  Hash <- MCHash
  Typed <- MCTyped
SPECIFICATION Spec
INVARIANTS
  OwnFileOpens
  ExportsWhatWasRead
SYMMETRY Symmetry
