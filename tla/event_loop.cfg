CONSTANTS
  Lfd = lfd
  Fds = {lfd, f1, f2, f3}
  NoFd = nofd
  Sessions = {s1, s2, s3}
  NoSession = null
  MaxEvents = 2
  Garbage <- UsualGarbage
SPECIFICATION Spec
SYMMETRY Symmetry
INVARIANTS TypeOK FdsOwned HeapOwned EpollIndexed EventsAimed TableBound OnlyFirstMissed
PROPERTIES ListenerKept
