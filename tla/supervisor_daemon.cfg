SPECIFICATION Spec
CONSTANTS
  Services = {s1}
  Runners = {r1, r2, r3}
  Tasks = {t1, t2}
  Requests = {q1}
  Ops = {"start", "stop", "force stop", "replace"}
  Heartbeats = TRUE
  MaxKillFailures = 2
  MaxAborts = 0
SYMMETRY Symmetry
INVARIANTS NoOrphan ShutdownIsClean ReservationIsExact ReadyIsTrue
PROPERTY ImplementsContract
