CONSTANTS
  Lfd = lfd
  Fds = {lfd, f1, f2}
  NoFd = nofd
  Sessions = {s1, s2}
  NoSession = null
  MaxEvents = 2
  Garbage <- AnyGarbage
SPECIFICATION Spec
SYMMETRY Symmetry
INVARIANTS InterestMatches
