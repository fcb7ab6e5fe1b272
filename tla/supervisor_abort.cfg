SPECIFICATION Spec
CONSTANTS
  Services = {s1}
  Runners = {r1, r2, r3}
  Tasks = {t1, t2}
  Requests = {q1}
  Ops = {"start", "stop", "force stop", "replace"}
  Heartbeats = TRUE
  MaxKillFailures = 0
  MaxAborts = 1
INVARIANT OneRunner
