SPECIFICATION Spec
CONSTANTS
  Services <- SameService
  Releases = {"r1", "r2"}
  Deploys <- MCDeploys
  NameOf <- SameName
  ManifestName <- MCManifestName
  ReleaseOf <- MCReleaseOf
  Expected = {"any"}
  Policies = {"always"}
  Tasks = {t1, t2}
  MaxErrors = 1
  MaxCrashes = 1
SYMMETRY Symmetry
INVARIANTS ActiveIsOnDisk LoadedIsWhole
