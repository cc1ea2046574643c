--------------------------- MODULE AgentLifecycle ---------------------------
(***************************************************************************)
(* The Agent process: what LabAgent.start brings up and in which order,    *)
(* what a failing stage and LabAgent.shutdown take down, the plugin        *)
(* manager that loads third-party plugins one by one, and the backend      *)
(* registry that learns which backend owns which bench.                    *)
(*                                                                         *)
(* A plugin or a backend may fail in any of its calls.  Backends list      *)
(* their benches at different moments of a refresh, while hardware moves.  *)
(***************************************************************************)
EXTENDS Naturals, Sequences, FiniteSets, SequencesExt

CONSTANTS
    NumPlugins,     \* entries of the plugin configuration, loaded in order
    Backend,        \* registered backends
    Target,         \* bench identifiers the backends may expose
    MaxMoves,       \* bound: times the hardware of a backend changes
    MaxListings     \* bound: refreshes of the registry

ASSUME LifecycleAssumption ==
    /\ NumPlugins \in Nat /\ MaxMoves \in Nat /\ MaxListings \in Nat
    /\ IsFiniteSet(Backend) /\ IsFiniteSet(Target)

VARIABLES
    agentPhase,      \* how far start or shutdown has come
    wantedState,     \* the configuration, and how each plugin will behave
    next,       \* the entry being loaded
    tracked,    \* PluginManager._plugins, in the order they were loaded
    plugin,     \* what each plugin really is: "absent", "dirty", "up", "down"
    status,     \* PluginManager._runtime
    failed,     \* the entries the load report names
    known,      \* the plugins the core knows
    started,    \* the backends whose start() has been called and stop() not
    exposes,    \* the benches each backend really has
    listing,    \* what each backend answered in the refresh under way
    owners,     \* BackendRegistry._bench_owners
    moves, listings

pluginVars == <<wantedState, next, tracked, plugin, status, failed, known>>
registryVars == <<started, exposes, listing, owners, moves, listings>>
lifecycleVars == <<agentPhase, pluginVars, registryVars>>

PluginNo == 1..NumPlugins

\* The stages of a plugin that may go wrong, in their order.
StartOutcome == {"disabled", "missing", "incompatible", "broken", "unready", "sick", "well"}

Pending == [state |-> "PENDING", benches |-> {}]
NoListing == [b \in Backend |-> Pending]
NoBackend == "nobody"

\* Entry e publishes its own name, or the name of the first entry; how its
\* shutdown() behaves matters only if it is ever initialized.
LifecycleInit ==
    /\ agentPhase = "off"
    /\ wantedState \in [PluginNo -> [outcome : StartOutcome, name : PluginNo, stops : BOOLEAN]]
    /\ \A e \in PluginNo :
         /\ wantedState[e].name \in {e, 1}
         /\ wantedState[e].outcome \notin {"unready", "sick", "well"} => wantedState[e].stops
    /\ next = 1
    /\ tracked = <<>>
    /\ plugin = [e \in PluginNo |-> "absent"]
    /\ status = [n \in PluginNo |-> "NONE"]
    /\ failed = {}
    /\ known = {}
    /\ started = {}
    /\ exposes = [b \in Backend |-> {}]
    /\ listing = NoListing
    /\ owners = [t \in Target |-> NoBackend]
    /\ moves = 0 /\ listings = 0

-----------------------------------------------------------------------------
\* PluginManager.load_resilient
TrackedEntries == {tracked[i] : i \in DOMAIN tracked}

NameOf(e) == wantedState[e].name

\* _discover_candidates: a builtin, an entry point or a plugin directory
\* provides the plugin; the first provider of a name wins.
Discovered(e) == wantedState[e].outcome # "missing"

Duplicate(e) == \E t \in TrackedEntries : NameOf(t) = NameOf(e)

\* _failure_runtime: the failure is reported and becomes the entry's status.
Report(e, name, s) ==
    /\ failed' = failed \cup {e}
    /\ status' = [status EXCEPT ![name] = s]

StartAgent ==
    /\ agentPhase = "off"
    /\ agentPhase' = "plugins"
    /\ UNCHANGED <<pluginVars, registryVars>>

\* An entry that is disabled, unknown, incompatible, misconfigured or a
\* duplicate is passed over before anything of it runs.
SkipEntry ==
    /\ agentPhase = "plugins" /\ next \in PluginNo /\ plugin[next] = "absent"
    /\ \/ /\ wantedState[next].outcome = "disabled"
          /\ status' = [status EXCEPT ![next] = "DISABLED"]
          /\ UNCHANGED failed
       \/ ~Discovered(next) /\ Report(next, next, "FAILED")
       \/ wantedState[next].outcome = "broken" /\ Report(next, next, "FAILED")
       \/ wantedState[next].outcome = "incompatible" /\ Report(next, next, "INCOMPATIBLE")
       \/ /\ wantedState[next].outcome \in {"unready", "sick", "well"} /\ Duplicate(next)
          /\ Report(next, NameOf(next), "FAILED")
    /\ next' = next + 1
    /\ UNCHANGED <<agentPhase, wantedState, tracked, plugin, known, registryVars>>

\* initialize() is called; nobody knows yet how far it will come.
InitializePlugin ==
    /\ agentPhase = "plugins" /\ next \in PluginNo /\ plugin[next] = "absent"
    /\ wantedState[next].outcome \in {"unready", "sick", "well"} /\ ~Duplicate(next)
    /\ status' = [status EXCEPT ![NameOf(next)] = "INITIALIZING"]
    /\ plugin' = [plugin EXCEPT ![next] = "dirty"]
    /\ UNCHANGED <<agentPhase, wantedState, next, tracked, failed, known, registryVars>>

\* What is left of a plugin after _shutdown_untracked or shutdown called it.
Down(e) == IF wantedState[e].stops THEN "down" ELSE "stuck"

\* Mutant: a plugin that failed to initialize is dropped as it is
InitializeFailsUncleaned ==
    /\ agentPhase = "plugins" /\ next \in PluginNo /\ plugin[next] = "dirty"
    /\ wantedState[next].outcome = "unready"
    /\ Report(next, NameOf(next), "FAILED")
    /\ next' = next + 1
    /\ UNCHANGED <<agentPhase, wantedState, tracked, plugin, known, registryVars>>

\* initialize() raised or timed out: the plugin is reported and cleaned up,
\* and the next one is loaded.
InitializeFails ==
    /\ agentPhase = "plugins" /\ next \in PluginNo /\ plugin[next] = "dirty"
    /\ wantedState[next].outcome = "unready"
    /\ Report(next, NameOf(next), "FAILED")
    /\ plugin' = [plugin EXCEPT ![next] = Down(next)]
    /\ next' = next + 1
    /\ UNCHANGED <<agentPhase, wantedState, tracked, known, registryVars>>

\* The plugin is tracked before its first health check, which may only
\* degrade it.
PluginUp ==
    /\ agentPhase = "plugins" /\ next \in PluginNo /\ plugin[next] = "dirty"
    /\ wantedState[next].outcome \in {"sick", "well"}
    /\ plugin' = [plugin EXCEPT ![next] = "up"]
    /\ tracked' = Append(tracked, next)
    /\ status' = [status EXCEPT ![NameOf(next)] =
         IF wantedState[next].outcome = "well" THEN "HEALTHY" ELSE "DEGRADED"]
    /\ failed' = IF wantedState[next].outcome = "sick" THEN failed \cup {next} ELSE failed
    /\ next' = next + 1
    /\ UNCHANGED <<agentPhase, wantedState, known, registryVars>>

\* Every loaded plugin is registered with the core; the backends come next.
PluginsLoaded ==
    /\ agentPhase = "plugins" /\ next > NumPlugins
    /\ known' = TrackedEntries
    /\ agentPhase' = "backends"
    /\ UNCHANGED <<wantedState, next, tracked, plugin, status, failed, registryVars>>

\* diagnose: checks the plugin again; a failing check degrades it.
Diagnose(e) ==
    /\ agentPhase = "ready" /\ e \in TrackedEntries /\ status[NameOf(e)] = "HEALTHY"
    /\ status' = [status EXCEPT ![NameOf(e)] = "DEGRADED"]
    /\ UNCHANGED <<agentPhase, wantedState, next, tracked, plugin, failed, known, registryVars>>

-----------------------------------------------------------------------------
\* BackendRegistry

\* start() is called on every backend; one that fails is only reported.
StartBackends ==
    /\ agentPhase = "backends" /\ started = {}
    /\ started' = Backend
    /\ UNCHANGED <<agentPhase, pluginVars, exposes, listing, owners, moves, listings>>

\* External: a device is plugged in, unplugged or moved to another backend.
Move(b, benches) ==
    /\ agentPhase \in {"backends", "catalog", "ready"} /\ moves < MaxMoves
    /\ exposes[b] # benches
    /\ exposes' = [exposes EXCEPT ![b] = benches]
    /\ moves' = moves + 1
    /\ UNCHANGED <<agentPhase, pluginVars, started, listing, owners, listings>>

Refreshing == agentPhase \in {"backends", "catalog", "ready"} /\ started # {} /\ listings < MaxListings

\* _list_backend: each backend answers in its own time, or fails.
ListBackend(b, answers) ==
    /\ Refreshing
    /\ listing[b] = Pending
    /\ listing' = [listing EXCEPT ![b] =
         IF answers THEN [state |-> "ANSWERED", benches |-> exposes[b]]
         ELSE [state |-> "FAILED", benches |-> {}]]
    /\ UNCHANGED <<agentPhase, pluginVars, started, exposes, owners, moves, listings>>

Answered == {b \in Backend : listing[b].state = "ANSWERED"}

Listing(t) == {b \in Answered : t \in listing[b].benches}

\* Mutant: a backend that did not answer loses its benches
KeptForgets(t) == {}

\* The owner a bench keeps because its backend did not answer.
Kept(t) == {b \in Backend \ Answered : owners[t] = b}

\* Two backends claim one bench: the whole refresh is refused.
Conflict == \E t \in Target : Cardinality(Listing(t) \cup Kept(t)) > 1

\* BackendRegistry.start refreshes, and BenchCatalog.refresh right after it.
\* A refused refresh leaves the ownership as it was.  While the Agent starts
\* it is an error that stops the start; afterwards it is logged.
Refresh ==
    /\ Refreshing
    /\ \A b \in Backend : listing[b] # Pending
    /\ owners' = IF Conflict THEN owners
                 ELSE [t \in Target |->
                   IF Listing(t) \cup Kept(t) = {} THEN NoBackend
                   ELSE CHOOSE b \in Listing(t) \cup Kept(t) : TRUE]
    /\ agentPhase' = CASE agentPhase = "ready" -> "ready"
                  [] agentPhase # "ready" /\ Conflict -> "unwinding"
                  [] agentPhase = "backends" /\ ~Conflict -> "catalog"
                  [] agentPhase = "catalog" /\ ~Conflict -> "recovery"
    /\ listing' = NoListing
    /\ listings' = listings + 1
    /\ UNCHANGED <<pluginVars, started, exposes, moves>>

-----------------------------------------------------------------------------
\* Recovery of interrupted work, the connection to the control plane and the
\* background workers; each of them may raise.  Stopping the connection may
\* raise in turn, before any plugin is stopped: the start is abandoned as it is.
FinishStart ==
    /\ agentPhase = "recovery"
    /\ agentPhase' \in {"ready", "unwinding", "abandoned"}
    /\ UNCHANGED <<pluginVars, registryVars>>

\* A shutdown whose connection does not stop raises before it has stopped any
\* plugin, and may be called again.
StopAgent ==
    /\ agentPhase = "ready"
    /\ agentPhase' = "stopping"
    /\ UNCHANGED <<pluginVars, registryVars>>

\* Mutant: the first plugin that fails to stop ends the shutdown
ShutdownPluginStops ==
    /\ agentPhase \in {"unwinding", "stopping"} /\ tracked # <<>>
    /\ LET e == Last(tracked) IN
       /\ plugin' = [plugin EXCEPT ![e] = Down(e)]
       /\ tracked' = IF wantedState[e].stops THEN Front(tracked) ELSE <<>>
       /\ status' = [status EXCEPT ![NameOf(e)] = IF wantedState[e].stops THEN "STOPPED" ELSE "FAILED"]
    /\ UNCHANGED <<agentPhase, wantedState, next, failed, known, registryVars>>

\* PluginManager.shutdown goes through the plugins in reverse; one that fails
\* or hangs is reported and the others follow.
ShutdownPlugin ==
    /\ agentPhase \in {"unwinding", "stopping"} /\ tracked # <<>>
    /\ LET e == Last(tracked) IN
       /\ plugin' = [plugin EXCEPT ![e] = Down(e)]
       /\ tracked' = Front(tracked)
       /\ status' = [status EXCEPT ![NameOf(e)] = IF wantedState[e].stops THEN "STOPPED" ELSE "FAILED"]
    /\ UNCHANGED <<agentPhase, wantedState, next, failed, known, registryVars>>

\* Then the backends are stopped and the core and the database closed, on the
\* way down and after a failed start alike.
StopRest ==
    /\ agentPhase \in {"unwinding", "stopping"} /\ tracked = <<>>
    /\ started' = {}
    /\ listing' = NoListing
    /\ agentPhase' = IF agentPhase = "unwinding" THEN "failed" ELSE "stopped"
    /\ UNCHANGED <<pluginVars, exposes, owners, moves, listings>>

LifecycleNext ==
    \/ StartAgent \/ SkipEntry \/ InitializePlugin \/ InitializeFails \/ PluginUp
    \/ PluginsLoaded
    \/ \E e \in PluginNo : Diagnose(e)
    \/ StartBackends
    \/ \E b \in Backend, benches \in SUBSET Target : Move(b, benches)
    \/ \E b \in Backend, answers \in BOOLEAN : ListBackend(b, answers)
    \/ Refresh
    \/ FinishStart \/ StopAgent \/ ShutdownPlugin \/ StopRest

LifecycleSpec == LifecycleInit /\ [][LifecycleNext]_lifecycleVars

-----------------------------------------------------------------------------
LifecycleTypeOK ==
    /\ agentPhase \in {"off", "plugins", "backends", "catalog", "recovery", "ready", "stopping",
                  "unwinding", "stopped", "failed", "abandoned"}
    /\ next \in 1..(NumPlugins + 1)
    /\ TrackedEntries \subseteq PluginNo /\ failed \subseteq PluginNo /\ known \subseteq PluginNo
    /\ plugin \in [PluginNo -> {"absent", "dirty", "up", "down", "stuck"}]
    /\ started \subseteq Backend
    /\ owners \in [Target -> Backend \cup {NoBackend}]
    /\ moves \in 0..MaxMoves /\ listings \in 0..MaxListings

\* The first working entry of each name.
Expected ==
    {e \in PluginNo : /\ wantedState[e].outcome \in {"sick", "well"}
                      /\ ~ \E d \in 1..(e - 1) : /\ wantedState[d].outcome \in {"sick", "well"}
                                                 /\ NameOf(d) = NameOf(e)}

\* One broken plugin takes no healthy one down with it (manager.load_resilient):
\* once the Agent is past loading, exactly the first working plugin of each name
\* runs and is known, and everything enabled that does not is in the report.
\* And no plugin and no backend is left running by a failed start or a
\* shutdown, however many of their own shutdowns fail (LabAgent.start,
\* LabAgent.shutdown); only where the connection itself does not stop they
\* are left, all of them, as they were.
LifecycleSound ==
    /\ agentPhase \in {"backends", "catalog", "recovery", "ready", "abandoned"} =>
         /\ TrackedEntries = Expected /\ known = Expected
         /\ \A e \in PluginNo : plugin[e] = "up" <=> e \in Expected
         /\ \A e \in PluginNo \ Expected : wantedState[e].outcome = "disabled" \/ e \in failed
    /\ agentPhase \in {"failed", "stopped"} =>
         /\ tracked = <<>> /\ started = {}
         /\ \A e \in PluginNo : plugin[e] \in {"absent", "down", "stuck"}
    /\ \A e \in PluginNo : plugin[e] = "dirty" => e = next

\* A bench changes hands only when its previous backend itself answered without
\* it: a backend that fails to answer keeps its benches, and a bench two
\* backends claim moves to neither (BackendRegistry.refresh).
RoutesHold ==
    [][\A t \in Target :
         owners[t] # NoBackend /\ owners'[t] # owners[t] =>
           /\ owners[t] \in Answered
           /\ t \notin listing[owners[t]].benches]_lifecycleVars
=============================================================================
