SPECIFICATION MCSpec
CONSTANTS
  Services <- MCServices
  Releases = {"r1", "r2"}
  Deploys <- MCDeploys
  NameOf <- MCNameOf
  ManifestName <- MCManifestName
  ReleaseOf <- MCReleaseOf
  Expected = {"any", "r1"}
  Policies = {p1, p2}
  Tasks = {t1, t2}
  MaxErrors = 0
  MaxCrashes = 0
  Launchers = {v1, v2}
  Components = {m1, m2}
  MaxCacheFaults = 2
SYMMETRY DeploySymmetry
INVARIANTS RunningIsActive FilesFollowDeploys RollbackHasRelease LaunchedIsWhole
PROPERTY DeployIsCompareAndSwap
