SPECIFICATION FairSpec
CONSTANTS
  Services = {s1}
  Runners = {r1, r2}
  Tasks = {t1}
  Requests = {q1}
  Ops = {"replace"}
  Heartbeats = FALSE
  MaxKillFailures = 1
  MaxAborts = 1
PROPERTY EverythingEnds
