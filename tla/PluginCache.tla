---------------------------- MODULE PluginCache ----------------------------
(***************************************************************************)
(* The cache of plugin components (imagod-control/src/orchestrator/        *)
(* plugin_cache.rs): one file per SHA-256 under plugins/components/,       *)
(* shared by all services.  Whatever launches a service first sees that    *)
(* the components its release names are in the cache, copying them there   *)
(* from the release; launches of different services are not kept apart by  *)
(* a gate.  A copy is made in place, and the daemon may die in it.  At     *)
(* boot what no active release names is removed.                           *)
(*                                                                         *)
(* Validation of the manifest (names, versions, digests of the release's   *)
(* own files) refuses a launch before anything is cached: left out.        *)
(***************************************************************************)
EXTENDS Integers, FiniteSets

CONSTANTS
  Services,     \* each launches one release at a time (its command gate)
  Components,   \* by digest
  MaxFaults     \* bound: failed file operations and crashes

VARIABLES
  cache,      \* digest -> the file
  active,     \* service -> the components its active release names
  launch,     \* service -> the launch under way
  booted,     \* the daemon is up
  upset,      \* history: service -> components another copy disturbed
  faults

vars == <<cache, active, launch, booted, upset, faults>>

PC == {"idle", "inspect", "decided", "copying", "start"}
NoComponent == "no component"
Launch == [pc : PC, names : SUBSET Components,
           todo : SUBSET Components,      \* dependencies not yet prepared
           at : Components \cup {NoComponent},
           holed : BOOLEAN,               \* a failed copy emptied what it wrote
           again : BOOLEAN]               \* the launch of a rollback
NoLaunch == [pc |-> "idle", names |-> {}, todo |-> {}, at |-> NoComponent,
             holed |-> FALSE, again |-> FALSE]
LaunchOf(names, again) ==
  [NoLaunch EXCEPT !.pc = "inspect", !.names = names, !.todo = names, !.again = again]

TypeOK ==
  /\ cache \in [Components -> {"absent", "torn", "whole"}]
  /\ {active, upset} \subseteq [Services -> SUBSET Components]
  /\ launch \in [Services -> Launch]
  /\ booted \in BOOLEAN /\ faults \in 0..MaxFaults

Init ==
  /\ cache = [d \in Components |-> "absent"]
  /\ active = [s \in Services |-> {}]
  /\ launch = [s \in Services |-> NoLaunch]
  /\ booted = TRUE
  /\ upset = [s \in Services |-> {}]
  /\ faults = 0

Fault == faults < MaxFaults /\ faults' = faults + 1
NoFault == UNCHANGED faults

Copying(d) == {s \in Services : launch[s].pc = "copying" /\ launch[s].at = d}

(***************************************************************************)
(* prepare_plugin_dependencies, called by every launch.                    *)
(***************************************************************************)
\* build_launch for a deploy, a run or a restore at boot.
Prepare(s, names) ==
  /\ booted /\ launch[s].pc = "idle"
  /\ launch' = [launch EXCEPT ![s] = LaunchOf(names, FALSE)]
  /\ upset' = [upset EXCEPT ![s] = {}]
  /\ UNCHANGED <<cache, active, booted, faults>>

\* Seeded fault: a file that exists is taken for the component.
exists(d) == cache[d] # "absent"
\* Its digest is computed anew each time.
cache_digest_matches(d) == cache[d] = "whole"

Inspect(s, d) ==
  /\ launch[s].pc = "inspect" /\ d \in launch[s].todo
  /\ launch' = [launch EXCEPT ![s] =
       IF cache_digest_matches(d) THEN [@ EXCEPT !.todo = launch[s].todo \ {d}]
       ELSE [@ EXCEPT !.pc = "decided", !.at = d]]
  /\ UNCHANGED <<cache, active, booted, upset, faults>>

\* fs::copy opens the file, and thereby empties it: under the hands of others
\* that have found it whole or are writing it.
BeginCopy(s) ==
  /\ launch[s].pc = "decided"
  /\ LET d == launch[s].at
         users == {o \in Services \ {s} : d \in launch[o].names \ launch[o].todo
                                            \/ o \in Copying(d)}
     IN /\ cache' = [cache EXCEPT ![d] = "torn"]
        /\ launch' = [launch EXCEPT ![s].pc = "copying"]
        /\ upset' = [o \in Services |->
             IF o \in users \/ (o = s /\ Copying(d) # {}) THEN upset[o] \cup {d} ELSE upset[o]]
  /\ UNCHANGED <<active, booted, faults>>

\* All write the same bytes, so the file is whole when the last is done.
EndCopy(s) ==
  /\ launch[s].pc = "copying"
  /\ LET d == launch[s].at
     IN /\ \/ Copying(d) = {s} /\ cache' = [cache EXCEPT ![d] = "whole"]
           \/ (Copying(d) # {s} \/ launch[s].holed) /\ UNCHANGED cache
        /\ launch' = [launch EXCEPT ![s] =
             [@ EXCEPT !.pc = "inspect", !.at = NoComponent, !.holed = FALSE,
                       !.todo = launch[s].todo \ {d}]]
  /\ UNCHANGED <<active, booted, upset, faults>>

\* A copy that fails leaves what it has written, the launch fails, and others
\* that write the file may end up with a hole in it.
CopyFails(s) ==
  /\ launch[s].pc = "copying" /\ Fault
  /\ launch' = [o \in Services |->
       IF o = s THEN NoLaunch
       ELSE IF o \in Copying(launch[s].at) THEN [launch[o] EXCEPT !.holed = TRUE]
       ELSE launch[o]]
  /\ UNCHANGED <<cache, active, booted, upset>>

Prepared(s) ==
  /\ launch[s].pc = "inspect" /\ launch[s].todo = {}
  /\ launch' = [launch EXCEPT ![s].pc = "start"]
  /\ UNCHANGED <<cache, active, booted, upset, faults>>

\* The runner loads the components from the cache, without looking at their
\* digests.  A start that succeeds makes the release active; a deploy whose start
\* fails goes back to the active one.
Start(s) ==
  /\ launch[s].pc = "start"
  /\ \/ /\ \A d \in launch[s].names : cache[d] = "whole"
        /\ active' = [active EXCEPT ![s] = launch[s].names]
        /\ launch' = [launch EXCEPT ![s] = NoLaunch]
        /\ UNCHANGED upset
     \/ /\ \/ launch' = [launch EXCEPT ![s] = NoLaunch]
           \/ ~launch[s].again /\ launch' = [launch EXCEPT ![s] = LaunchOf(active[s], TRUE)]
        /\ upset' = [upset EXCEPT ![s] = {}]
        /\ UNCHANGED active
  /\ UNCHANGED <<cache, booted, faults>>

(***************************************************************************)
(* A crash, and the boot.                                                  *)
(***************************************************************************)
Crash ==
  /\ booted /\ Fault
  /\ booted' = FALSE
  /\ launch' = [s \in Services |-> NoLaunch]
  /\ upset' = [s \in Services |-> {}]
  /\ UNCHANGED <<cache, active>>

\* collect_referenced_plugin_component_hashes; a service whose files cannot be
\* read is skipped, and so are its components.
referenced(unread) == UNION {active[s] : s \in Services \ unread}

\* gc_unused_plugin_components_on_boot: files that cannot be removed stay.
\* Then the services are restored: Prepare(s, active[s]).
Boot(unread, kept) ==
  /\ ~booted
  /\ IF unread \cup kept = {} THEN NoFault ELSE Fault
  /\ booted' = TRUE
  /\ cache' = [d \in Components |->
       IF d \in referenced(unread) \cup kept THEN cache[d] ELSE "absent"]
  /\ UNCHANGED <<active, launch, upset>>

Next ==
  \/ \E s \in Services :
       \/ \E names \in SUBSET Components : Prepare(s, names)
       \/ \E d \in Components : Inspect(s, d)
       \/ BeginCopy(s) \/ EndCopy(s) \/ CopyFails(s) \/ Prepared(s) \/ Start(s)
  \/ Crash
  \/ \E unread \in SUBSET Services, kept \in SUBSET Components : Boot(unread, kept)

Spec == Init /\ [][Next]_vars

(***************************************************************************)
(* Property.                                                               *)
(***************************************************************************)
\* What a runner is told to load is the component, whole: a file that a crash
\* or a failed copy left torn, or that the collection at boot removed, is
\* replaced before a launch uses it.  The exception is a copy by the launch of
\* another service that began after this one was satisfied with the file, or
\* while this one was writing it.
LaunchedIsWhole ==
  \A s \in Services : launch[s].pc = "start" =>
    \A d \in launch[s].names : cache[d] = "whole" \/ d \in upset[s]
=============================================================================
