------------------------------ MODULE MCDeploy ------------------------------
(***************************************************************************)
(* TLC instance for deploys: the releases of services (Orchestrator), and  *)
(* the plugin components that launches of different services share         *)
(* (PluginCache), with its own failed copies and crashes.  The first state *)
(* chooses which of the two the behaviour is about; the other does not     *)
(* move.                                                                   *)
(***************************************************************************)
EXTENDS MCOrchestrator

CONSTANTS Launchers, Components, MaxCacheFaults

VARIABLES subject, cache, named, launch, booted, upset, cache_faults

cacheVars == <<cache, named, launch, booted, upset, cache_faults>>
Plugins == INSTANCE PluginCache WITH
  Services <- Launchers, active <- named,
  MaxFaults <- MaxCacheFaults, faults <- cache_faults

MCInit == subject \in {"releases", "plugins"} /\ Init /\ Plugins!Init
ReleasesNext == subject = "releases" /\ Next /\ UNCHANGED <<subject, cacheVars>>
PluginsNext == subject = "plugins" /\ Plugins!Next /\ UNCHANGED <<subject, vars>>
MCSpec == MCInit /\ [][ReleasesNext \/ PluginsNext]_<<subject, vars, cacheVars>>

DeploySymmetry == PolicySymmetry \cup Permutations(Launchers) \cup Permutations(Components)

\* PluginCache!LaunchedIsWhole: a runner is never told to load a torn or missing
\* component of the plugin cache, unless the launch of another service has
\* begun to copy it since.
LaunchedIsWhole == Plugins!LaunchedIsWhole
=============================================================================
