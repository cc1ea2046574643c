------------------------------ MODULE MCFleet -------------------------------
(***************************************************************************)
(* The components that keep the control plane and its Agents in step,      *)
(* side by side: a behaviour is one component's, chosen at the start,      *)
(* while the other components keep their initial state.                    *)
(***************************************************************************)
EXTENDS AgentChannel, AgentRegistry, WorkflowDispatch, CISessions, AgentCI,
        SchemaMigration, ResourceLocks, SideBySide, TLC

CONSTANTS p1, p2, t1, e1, ch1, x, y, bench1, bench2, h1, h2   \* model values

\* Two progress events, which coalesce and are evicted first, and a transition.
MCPriority == [e \in Event |-> IF e \in {p1, p2} THEN 10 ELSE 100]

MCKey == [e \in Event |-> 1]

Reported(source, sharing, channels, usable) ==
    [source |-> source, sharing |-> sharing, channels |-> channels, usable |-> usable]

\* The device is reported to be shared by channel or exclusive, and is out of order
\* when another plugin was the first to report it.
MCReports == ch1 :> {Reported("power", "channel", Channel, TRUE), Reported("power", "exclusive", {}, TRUE),
                     Reported("serial", "exclusive", {}, FALSE)}

Bindings(channels) == [device : Device, channel : channels]

\* The benches meet on a channel, and on the device when it is not shared so.
MCDesigns == bench1 :> {Bindings({NoChannel}), Bindings({x, y})} @@
             bench2 :> {Bindings({NoChannel}), Bindings({y})}

MCHoldsBench == h1 :> bench1 @@ h2 :> bench2

allVars == <<focus, channelVars, registryVars, dispatchVars, ciVars, agentCiVars,
             migrationVars, locksVars>>

Init ==
    /\ focus \in {"channel", "registry", "dispatch", "sessions", "agentci",
                   "migration", "locks"}
    /\ focus # "dispatch" =>
        /\ asks = [k \in Flow |-> [reuses |-> NoEntryYet, releaseAfter |-> FALSE]]
    /\ focus # "agentci" => busy = FALSE
    /\ focus # "migration" =>
        /\ backend = "sqlite"
        /\ profile = "production"
        /\ disk = Empty
    /\ ChannelInit
    /\ RegistryInit
    /\ DispatchInit
    /\ CiInit
    /\ AgentCiInit
    /\ MigrationInit
    /\ LocksInit

Next ==
    \/ /\ focus = "channel" /\ ChannelNext
       /\ UNCHANGED <<focus, registryVars, dispatchVars, ciVars, agentCiVars,
                      migrationVars, locksVars>>
    \/ /\ focus = "registry" /\ RegistryNext
       /\ UNCHANGED <<focus, channelVars, dispatchVars, ciVars, agentCiVars,
                      migrationVars, locksVars>>
    \/ /\ focus = "dispatch" /\ DispatchNext
       /\ UNCHANGED <<focus, channelVars, registryVars, ciVars, agentCiVars,
                      migrationVars, locksVars>>
    \/ /\ focus = "sessions" /\ CiNext
       /\ UNCHANGED <<focus, channelVars, registryVars, dispatchVars, agentCiVars,
                      migrationVars, locksVars>>
    \/ /\ focus = "agentci" /\ AgentCiNext
       /\ UNCHANGED <<focus, channelVars, registryVars, dispatchVars, ciVars,
                      migrationVars, locksVars>>
    \/ /\ focus = "migration" /\ MigrationNext
       /\ UNCHANGED <<focus, channelVars, registryVars, dispatchVars, ciVars,
                      agentCiVars, locksVars>>
    \/ /\ focus = "locks" /\ LocksNext
       /\ UNCHANGED <<focus, channelVars, registryVars, dispatchVars, ciVars,
                      agentCiVars, migrationVars>>

\* Each component is scheduled as in its own module, while it has the focus.
Fairness ==
    /\ ChannelFairness
    /\ RegistryFairness
    /\ DispatchFairness
    /\ CiFairness
    /\ AgentCiFairness
    /\ MigrationFairness

Spec == Init /\ [][Next]_allVars /\ Fairness

-----------------------------------------------------------------------------
FleetTypeOK ==
    CASE focus = "channel"   -> ChannelTypeOK
      [] focus = "registry"  -> RegistryTypeOK
      [] focus = "dispatch"  -> DispatchTypeOK
      [] focus = "sessions"  -> CiTypeOK
      [] focus = "agentci"   -> AgentCiTypeOK
      [] focus = "migration" -> MigrationTypeOK
      [] focus = "locks"     -> LocksTypeOK

\* What the control plane comes back to under each component's fairness: events
\* are delivered, rows of dead connections closed and drains completed, finished
\* workflows have given their lease back, CI sessions are over.  And an upgrade
\* is completed, however often it is interrupted and run again.
FleetLive ==
    /\ []<>CASE focus = "channel"   -> EventsDelivered
             [] focus = "registry"  -> OrphanRowsClosed /\ DrainsCompleted
             [] focus = "dispatch"  -> FinishedWorkGaveBack
             [] focus = "sessions"  -> SessionOver
             [] focus = "agentci"   -> CiSessionOver
             [] OTHER               -> TRUE
    /\ focus = "migration" => MigrationCompletes
=============================================================================
