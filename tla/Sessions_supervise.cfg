SPECIFICATION Spec
CONSTANTS
  Tasks = {t1}
  Sessions = {s1, s2}
  Threads = {w1}
  None = None
  Fleet = Fleet
INVARIANTS OneTurn
