----------------------------- MODULE Resources -----------------------------
(***************************************************************************)
(* The components that own something in the daemon or wait for it, for one *)
(* run of TLC and one set of theorems: a behaviour is one of               *)
(* ContainerHandle, WaitChain, HostAccess, NamedResources, Compose or      *)
(* TechModules, which part tells. The variables of the others are off;     *)
(* WaitChain's, whose properties are used by their own names, are those of *)
(* a chain nobody waits for.                                               *)
(***************************************************************************)
EXTENDS WaitChain

CONSTANTS
  Slots, Threads, Void, None, NoContainer, NoOne, Bridge,
  Started, Adopted, Faults,                             \* of ContainerHandle
  Names, Configs, MaxIds,                               \* of NamedResources
  Daemons, Nets, DaemonOf, NameOf, Ports, Requests, MaxSidecars,  \* of HostAccess
  Projects, Services, Targets, StackNets, Placements,   \* of Compose
  MaxRelays, MaxFaults,
  Modules, MaxSets, MaxStarts                           \* of TechModules

VARIABLES
  part,
  handles,
  stack, state, hooks, removals,
  job,
  mutex, states, forwarded, connected, sidecar, tunnel, attached, net, meddled,
  windows, made, up, given,
  failed,
  work, files, filters, cli, services, on, nets, relays,
  mod, config, sets, starts, spec, step, adopted, server,
  phase             \* TechModules' pc

handleVars == <<stack, state, hooks, removals>>
accessVars == <<mutex, states, forwarded, connected, sidecar, tunnel, attached, net, meddled>>
namedVars  == <<windows, made, up, given>>
stackVars  == <<work, files, filters, cli, services, on, nets, relays>>
techVars   == <<mod, config, sets, starts, spec, step, adopted, server, phase>>
allVars    == <<part, handles, job, failed, handleVars, vars, accessVars, namedVars,
                stackVars, techVars>>

-----------------------------------------------------------------------------
(* The components.                                                         *)

H == INSTANCE ContainerHandle
N == INSTANCE NamedResources
A == INSTANCE HostAccess
C == INSTANCE Compose WITH Nets <- StackNets
T == INSTANCE TechModules WITH pc <- phase

\* Nobody waits for this chain.
NoWait == [kind |-> "none", source |-> "both", times |-> 1, value |-> 0, code |-> "any"]

ASSUME ResourcesAssumption ==
  /\ H!HandleAssumption /\ A!HostAccessAssumption
  /\ N!NamedAssumption /\ C!ComposeAssumption /\ T!ModulesAssumption
  /\ <<NoWait>> \in Chains /\ Timeouts # {}

-----------------------------------------------------------------------------
Off(v) == v = "off"

HandlesOff == Off(stack) /\ Off(state) /\ Off(hooks) /\ Off(removals)
Unused == waits = <<NoWait>> /\ timeout = (CHOOSE t \in Timeouts : TRUE) /\ Init
AccessOff ==
  /\ Off(mutex) /\ Off(states) /\ Off(forwarded) /\ Off(connected) /\ Off(sidecar)
  /\ Off(tunnel) /\ Off(attached) /\ Off(net) /\ Off(meddled)
NamedOff == Off(windows) /\ Off(made) /\ Off(up) /\ Off(given)
StacksOff ==
  /\ Off(work) /\ Off(files) /\ Off(filters) /\ Off(cli) /\ Off(services) /\ Off(on)
  /\ Off(nets) /\ Off(relays)
TechOff ==
  /\ Off(mod) /\ Off(config) /\ Off(sets) /\ Off(starts) /\ Off(spec) /\ Off(step)
  /\ Off(adopted) /\ Off(server) /\ Off(phase)

ResourcesInit ==
  \/ /\ part = "handle" /\ H!Init /\ Unused
     /\ AccessOff /\ NamedOff /\ StacksOff /\ TechOff /\ Off(job) /\ Off(failed)
  \/ /\ part = "wait" /\ Init
     /\ HandlesOff /\ AccessOff /\ NamedOff /\ StacksOff /\ TechOff /\ Off(handles) /\ Off(job) /\ Off(failed)
  \/ /\ part = "access" /\ A!Init /\ Unused
     /\ HandlesOff /\ NamedOff /\ StacksOff /\ TechOff /\ Off(handles) /\ Off(failed)
  \/ /\ part = "named" /\ N!Init /\ Unused
     /\ HandlesOff /\ AccessOff /\ StacksOff /\ TechOff
  \/ /\ part = "compose" /\ C!Init /\ Unused
     /\ HandlesOff /\ AccessOff /\ NamedOff /\ TechOff /\ Off(job)
  \/ /\ part = "module" /\ T!Init /\ Unused
     /\ HandlesOff /\ AccessOff /\ NamedOff /\ StacksOff /\ Off(handles) /\ Off(job) /\ Off(failed)

ResourcesNext ==
  \/ /\ part = "handle" /\ H!Next
     /\ UNCHANGED <<part, job, failed, vars, accessVars, namedVars, stackVars, techVars>>
  \/ /\ part = "wait" /\ Next
     /\ UNCHANGED <<part, handles, job, failed, handleVars, accessVars, namedVars, stackVars, techVars>>
  \/ /\ part = "access" /\ A!Next
     /\ UNCHANGED <<part, handles, failed, handleVars, vars, namedVars, stackVars, techVars>>
  \/ /\ part = "named" /\ N!Next
     /\ UNCHANGED <<part, handleVars, vars, accessVars, stackVars, techVars>>
  \/ /\ part = "compose" /\ C!Next
     /\ UNCHANGED <<part, job, handleVars, vars, accessVars, namedVars, techVars>>
  \/ /\ part = "module" /\ T!Next
     /\ UNCHANGED <<part, handles, job, failed, vars, handleVars, accessVars, namedVars, stackVars>>

ResourcesSpec == ResourcesInit /\ [][ResourcesNext]_allVars

-----------------------------------------------------------------------------
(* The properties of the components, each where it applies.                *)

Types ==
  /\ TypeOK
  /\ part = "handle" => H!TypeOK
  /\ part = "access" => A!TypeOK
  /\ part = "named" => N!TypeOK
  /\ part = "compose" => C!TypeOK
  /\ part = "module" => T!TypeOK

\* A started container has one owner at most, and its hooks and its removal happen
\* once, in that order; networks and volumes have one owner, are not lost, and not made
\* next to a namesake.
OwnedOnce ==
  /\ part = "handle" => H!OwnedOnce
  /\ part = "named" => N!OwnedOnce

\* A container loses its owner only to its removal, and nothing happens to a kept one; who
\* has the alias of the host reaches its ports, and a released network is free.
OwnerSteps ==
  [][/\ part = "handle" => H!OwnerSteps
     /\ part = "access" => A!OwnerSteps]_allVars

\* A sidecar does not outlive the wiring that failed, nor a compose project its stack or
\* the process.
NothingStrays ==
  /\ part = "access" => A!NoStraySidecar
  /\ part = "compose" => C!TornDown /\ C!CrashSwept

StackStaysWhole == part = "compose" => C!StackStaysWhole

\* The getters of a module describe the server that started.
HandleTrue == part = "module" => T!HandleTrue

\* When start() returns, the server is the real one, unharmed by its probes, and what the
\* module was told to stage and make is there.
ServerReady == part = "module" => T!ReadyIsReal /\ T!ProbesHarmless /\ T!AllApplied
=============================================================================
