\* Three processes, two tags in one bucket, a poster of notes. No symmetry,
\* since BothReturn is about fairness.
CONSTANTS
  Procs = {p1, p2, p3}
  Posters = {n1}
  Tags = {t1, t2}
  nil = nil
SPECIFICATION FairSpec
INVARIANTS
  Exchanged
PROPERTIES
  BothReturn
