------------------------------- MODULE Compose -------------------------------
(***************************************************************************)
(* DockerComposeContainer: start() as a row of steps each of which may     *)
(* fail, the ActiveStack whose destructor is the teardown, the temporary   *)
(* file of an inline definition, and the local and the containerised       *)
(* compose client. The compose CLI and the daemon are the environment.     *)
(***************************************************************************)
EXTENDS Naturals, FiniteSets

CONSTANTS
  Slots,      \* places of a DockerComposeContainer
  Projects,   \* project names, each of one constructed object
  Services,   \* of the compose definition, one instance each
  Targets,    \* the services with an ambassador
  Nets,       \* of the compose definition
  Placements, \* which networks a service is on, as the definition may say
  MaxRelays,  \* bound: relays left behind or in use of a project
  MaxFaults,  \* bound: failing steps of teardowns
  Void, None

VARIABLES
  handles,    \* the object in each slot, or Void
  work,       \* the operation in progress
  files,      \* temporary files on disk, by project
  filters,    \* projects registered with Ryuk
  cli,        \* projects whose cli container exists
  services,   \* the service containers of a project
  on,         \* the networks a service is on
  nets,       \* the networks of a project
  relays,     \* its ambassadors: [id, net]
  failed      \* the steps of teardowns of a project that ever failed

world == <<files, filters, cli, services, on, nets, relays, failed>>
vars == <<handles, work, world>>

Failures == {"relay", "down", "sweep", "cli"}

NoRelay == [id |-> 0, net |-> None]
Relay   == [id : 1..MaxRelays, net : Nets]

\* ActiveStack. file: the temporary file of the definition, named after the project
\* the object was constructed with.
Stack   == [project : Projects \cup {None}, client : {"none", "local", "cli"},
            file : Projects \cup {None}, ambassador : Relay \cup {NoRelay}]
NoStack == [project |-> None, client |-> "none", file |-> None, ambassador |-> NoRelay]

\* project_, the file temp_file_ owns, active_.
Handle == [project : Projects \cup {None}, temp : Projects \cup {None}, active : Stack]

\* Assumed of the constants; the instances that are checked state it.
ComposeAssumption ==
  /\ Targets \subseteq Services /\ Placements \subseteq [Services -> SUBSET Nets]
  /\ None \notin Projects \cup Nets /\ {MaxRelays, MaxFaults} \subseteq Nat
  /\ Slots # {} /\ Void \notin Handle

Steps  == {"client", "copy", "register", "up", "discover", "ambassador", "launch", "adopt", "wait"}
Work   == [pc : Steps \cup {"idle", "relay", "down", "sweep", "release", "file", "destroy", "assign"},
           h : Slots, g : Slots, stack : Stack, then : Steps \cup {"idle", "file", "destroy", "assign"}]
NoWork == LET h == CHOOSE s \in Slots : TRUE
          IN  [pc |-> "idle", h |-> h, g |-> h, stack |-> NoStack, then |-> "idle"]
Idle   == work.pc = "idle"

TypeOK ==
  /\ \A h \in Slots : handles[h] = Void \/ handles[h] \in Handle
  /\ work \in Work
  /\ files \subseteq Projects /\ filters \subseteq Projects /\ cli \subseteq Projects
  /\ services \in [Projects -> SUBSET Services] /\ on \in [Projects -> [Services -> SUBSET Nets]]
  /\ nets \in [Projects -> SUBSET Nets] /\ relays \in [Projects -> SUBSET Relay]
  /\ failed \in [Projects -> SUBSET Failures]

Init ==
  /\ handles = [h \in Slots |-> Void]
  /\ work = NoWork
  /\ files = {} /\ filters = {} /\ cli = {}
  /\ services = [p \in Projects |-> {}]
  /\ on = [p \in Projects |-> [s \in Services |-> {}]]
  /\ nets = [p \in Projects |-> {}] /\ relays = [p \in Projects |-> {}]
  /\ failed = [p \in Projects |-> {}]

Object(h) == handles[h] # Void

\* Mutant: the project is the one the object has now.
CurrentName == handles[work.h].project

\* A stack keeps the name it was started with.
P == work.stack.project

\* Containers of the project, the relays included.
Containers(p) == services[p] # {} \/ relays[p] # {}

-----------------------------------------------------------------------------
(* Handles: construction, moves, stop and destruction.                     *)

Owns(h, p) == Object(h) /\ handles[h].project = p
Fresh(p) == (\A h \in Slots : ~Owns(h, p)) /\ p \notin filters \cup files

\* The constructors and from_yaml, which writes the temporary file.
Construct(h, p, yaml) ==
  /\ Idle /\ ~Object(h) /\ Fresh(p)
  /\ handles' = [handles EXCEPT ![h] = [project |-> p, temp |-> IF yaml THEN p ELSE None, active |-> NoStack]]
  /\ files' = IF yaml THEN files \cup {p} ELSE files
  /\ UNCHANGED <<work, filters, cli, services, on, nets, relays, failed>>

\* The setters, between operations: with_project_name gives another name to whatever
\* is started from now on. The others choose what compose and the ambassador do.
Configure(h, p) ==
  /\ Idle /\ Object(h) /\ handles[h].project # None /\ Fresh(p)
  /\ handles' = [handles EXCEPT ![h].project = p]
  /\ UNCHANGED <<work, world>>

MovedFrom == [project |-> None, temp |-> None, active |-> NoStack]

Move(h, g) ==
  /\ Idle /\ ~Object(h) /\ Object(g)
  /\ handles' = [handles EXCEPT ![h] = handles[g], ![g] = MovedFrom]
  /\ UNCHANGED <<work, world>>

\* ~ActiveStack of s, if there is one, and what follows it.
Teardown(h, g, s, then) ==
  work' = [pc |-> IF s = NoStack THEN then ELSE "relay", h |-> h, g |-> g, stack |-> s, then |-> then]

Reset(h) == [handles EXCEPT ![h].active = NoStack]

\* stop(): the stack, then the file. The destructor is stop().
Stop(h, then) ==
  /\ Idle /\ Object(h) /\ handles' = Reset(h)
  /\ Teardown(h, h, handles[h].active, then) /\ UNCHANGED world

\* The defaulted move assignment, in the order of declaration: active_ first.
Assign(h, g) ==
  /\ Idle /\ h # g /\ Object(h) /\ Object(g) /\ handles' = Reset(h)
  /\ Teardown(h, g, handles[h].active, "assign") /\ UNCHANGED world

\* The file goes, and with it the end of the operation.
RemoveFile ==
  LET h == work.h g == work.g o == handles[h] IN
  /\ work.pc \in {"file", "destroy", "assign"}
  /\ files' = files \ {o.temp}
  /\ handles' = CASE work.pc = "file"    -> [handles EXCEPT ![h].temp = None]
                  [] work.pc = "destroy" -> [handles EXCEPT ![h] = Void]
                  [] work.pc = "assign"  -> [handles EXCEPT ![h] = handles[g], ![g] = MovedFrom]
  /\ work' = NoWork
  /\ UNCHANGED <<filters, cli, services, on, nets, relays, failed>>

-----------------------------------------------------------------------------
(* start().                                                                *)

\* Mutant: the old stack is released when the new one is adopted.
KeepsOld(h) == handles

\* A restart tears the previous run down before the new up.
ResetFirst(h) == Reset(h)

Start(h) ==
  /\ Idle /\ Object(h) /\ handles[h].project # None
  /\ handles[h].temp \in files \cup {None}
  /\ handles' = ResetFirst(h)
  /\ Teardown(h, h, IF handles'[h] = handles[h] THEN NoStack ELSE handles[h].active, "client")
  /\ UNCHANGED world

\* Mutant: the filter is registered once the project is up.
RegistersLate(pc) == CASE pc = "client" -> "up" [] pc = "up" -> "register" [] pc = "register" -> "discover"

\* What follows the client, the filter and the up.
Following(pc) == CASE pc = "client" -> "register" [] pc = "register" -> "up" [] pc = "up" -> "discover"

At(pc) == work.pc = pc
Goto(pc) == work' = [work EXCEPT !.pc = pc] /\ UNCHANGED handles

\* Mutant: only a started stack is torn down.
SkipsPartial == work' = NoWork /\ UNCHANGED handles

\* An exception in start(): the stack built so far goes out of scope.
Throw == work' = [work EXCEPT !.pc = "relay", !.then = "idle"] /\ UNCHANGED handles

\* A step of a teardown of project p fails, as long as the bound allows.
FailOf(p, what) ==
  /\ \/ what \in failed[p]
     \/ Cardinality({f \in Projects \X Failures : f[2] \in failed[f[1]]}) < MaxFaults
  /\ failed' = [failed EXCEPT ![p] = @ \cup {what}]
Fail(what) == FailOf(P, what)

\* The project is set once there is a client.
Built(client) ==
  /\ work' = [work EXCEPT !.pc = Following("client"),
       !.stack = [project |-> handles[work.h].project, client |-> client,
                  file |-> handles[work.h].temp, ambassador |-> NoRelay]]
  /\ UNCHANGED handles

\* make_compose_client: the local client has nothing to set up; the containerised
\* one creates its cli container, unlabelled.
MakeClient ==
  LET p == handles[work.h].project IN
  /\ At("client") /\ UNCHANGED <<files, filters, services, on, nets, relays, failed>>
  /\ \/ Built("local") /\ UNCHANGED cli
     \/ Throw /\ UNCHANGED cli
     \/ Goto("copy") /\ p \notin cli /\ cli' = cli \cup {p}

\* Start the cli container and copy the files in; a failure removes it.
CopyFiles ==
  LET p == handles[work.h].project IN
  /\ At("copy") /\ UNCHANGED <<files, filters, services, on, nets, relays>>
  /\ \/ Built("cli") /\ UNCHANGED <<cli, failed>>
     \/ Throw /\ cli' = cli \ {p} /\ UNCHANGED failed
     \/ Throw /\ FailOf(p, "cli") /\ UNCHANGED cli

RegisterFilter ==
  /\ At("register") /\ UNCHANGED <<files, cli, services, on, nets, relays, failed>>
  /\ \/ Goto(Following("register")) /\ filters' = filters \cup {P}
     \/ Throw /\ UNCHANGED filters

\* compose up creates the networks and the containers; it may stop half way.
Up ==
  /\ At("up") /\ UNCHANGED <<files, filters, cli, relays, failed>>
  /\ \/ Throw /\ UNCHANGED <<services, on, nets>>
     \/ /\ nets' = [nets EXCEPT ![P] = Nets]
        /\ \E place \in Placements, ss \in SUBSET Services :
             LET made == services[P] \cup ss IN
             /\ services' = [services EXCEPT ![P] = made]
             /\ on' = [on EXCEPT ![P] = [s \in Services |->
                         IF s \in services[P] THEN @[s] ELSE IF s \in made THEN place[s] ELSE {}]]
             /\ \/ made = Services /\ Goto(Following("up"))
                \/ Throw

\* The containers by label; every service of an ambassador must be there.
Discover ==
  /\ At("discover") /\ UNCHANGED world
  /\ \/ Throw
     \/ Goto(IF Targets = {} THEN "adopt" ELSE "ambassador")

\* Mutant: only the first target is looked for.
HoldsFirst(n) == \E t \in Targets : n \in on[P][t]

HoldsAll(n) == \A t \in Targets : n \in on[P][t]

\* One network that holds every target, or an error; create_container.
Ambassador ==
  /\ At("ambassador") /\ UNCHANGED <<handles, files, filters, cli, services, on, nets, failed>>
  /\ \/ \E n \in nets[P], i \in 1..MaxRelays :
          /\ HoldsAll(n) /\ \A r \in relays[P] : r.id # i
          /\ relays' = [relays EXCEPT ![P] = @ \cup {[id |-> i, net |-> n]}]
          /\ work' = [work EXCEPT !.pc = "launch", !.stack.ambassador = [id |-> i, net |-> n]]
     \/ Throw /\ UNCHANGED relays

Launch == At("launch") /\ (Goto("adopt") \/ Throw) /\ UNCHANGED world

\* active_ = std::move(stack).
Adopt ==
  LET h == work.h IN
  /\ At("adopt") /\ UNCHANGED world
  /\ handles' = [handles EXCEPT ![h].active = work.stack]
  /\ Teardown(h, h, handles[h].active, "wait")

\* The published ports accept, or start() throws with the stack adopted.
AwaitPorts ==
  /\ At("wait") /\ work' = NoWork /\ UNCHANGED <<handles, world>>

-----------------------------------------------------------------------------
(* ~ActiveStack: every step swallows its failure.                          *)

\* The services go, and their endpoints with them.
RemoveServices ==
  /\ services' = [services EXCEPT ![P] = {}]
  /\ on' = [on EXCEPT ![P] = [s \in Services |-> {}]]

\* The ambassador first.
RemoveRelay ==
  LET mine == work.stack.ambassador IN
  /\ At("relay") /\ UNCHANGED <<files, filters, cli, services, on, nets>>
  /\ Goto(IF work.stack.client = "none" THEN "sweep" ELSE "down")
  /\ IF P = None THEN UNCHANGED <<relays, failed>>
     ELSE \/ relays' = [relays EXCEPT ![P] = @ \ {mine}] /\ UNCHANGED failed
          \/ mine # NoRelay /\ Fail("relay") /\ UNCHANGED relays

Found == work.stack.client = "cli" \/ work.stack.file \in files \cup {None}

\* compose down: not without the definition, and not a network that a container
\* compose does not know is on.
Down ==
  LET held == {r.net : r \in relays[P]} IN
  /\ At("down") /\ Goto("sweep") /\ UNCHANGED <<files, filters, cli, relays>>
  /\ \/ /\ Found /\ RemoveServices
        /\ nets' = [nets EXCEPT ![P] = @ \cap held]
        /\ UNCHANGED failed
     \/ Found /\ Fail("down") /\ UNCHANGED <<services, on, nets>>
     \/ ~Found /\ UNCHANGED <<services, on, nets, failed>>

\* The sweep by label, the relays included. A stack without a project matches none.
Sweep ==
  /\ At("sweep") /\ Goto("release") /\ UNCHANGED <<files, filters, cli, nets>>
  /\ IF P = None THEN UNCHANGED <<services, on, relays, failed>>
     ELSE \/ /\ RemoveServices /\ relays' = [relays EXCEPT ![P] = {}]
             /\ UNCHANGED failed
          \/ /\ Containers(P) /\ Fail("sweep")
             /\ \/ UNCHANGED <<services, on, relays>>
                \/ RemoveServices /\ UNCHANGED relays
                \/ relays' = [relays EXCEPT ![P] = {}] /\ UNCHANGED <<services, on>>

\* The client member goes last, and with it the cli container.
ReleaseClient ==
  /\ At("release") /\ UNCHANGED <<files, filters, services, on, nets, relays>>
  /\ work' = IF work.then = "idle" THEN NoWork ELSE [work EXCEPT !.pc = work.then, !.stack = NoStack]
  /\ UNCHANGED handles
  /\ IF work.stack.client = "cli"
     THEN \/ cli' = cli \ {P} /\ UNCHANGED failed
          \/ Fail("cli") /\ UNCHANGED cli
     ELSE UNCHANGED <<cli, failed>>

Rest == Idle /\ (\A h \in Slots : ~Object(h)) /\ UNCHANGED vars

Next ==
  \/ Rest
  \/ \E h \in Slots, p \in Projects : Configure(h, p) \/ \E yaml \in BOOLEAN : Construct(h, p, yaml)
  \/ \E h, g \in Slots : Move(h, g) \/ Assign(h, g)
  \/ \E h \in Slots : Start(h) \/ \E then \in {"file", "destroy"} : Stop(h, then)
  \/ RemoveFile \/ MakeClient \/ CopyFiles \/ RegisterFilter \/ Up
  \/ Discover \/ Ambassador \/ Launch \/ Adopt \/ AwaitPorts
  \/ RemoveRelay \/ Down \/ Sweep \/ ReleaseClient

Spec == Init /\ [][Next]_vars

-----------------------------------------------------------------------------
(* Properties. *)

\* A project some handle runs, or the operation in progress builds or tears down.
InHand(p) ==
  \/ \E h \in Slots : Object(h) /\ handles[h].active.project = p
  \/ ~Idle /\ p \in {P, handles[work.h].project}

\* Nothing of a project outlives its stack, wherever start() failed and however
\* the handle was moved: a container stays only if its sweep failed, a network
\* only if down failed or a relay would not go, a cli container only if its own
\* removal failed, and the file lives as long as the handle that needs it.
TornDown ==
  \A p \in Projects :
    /\ ~InHand(p) =>
         /\ Containers(p) => "sweep" \in failed[p]
         /\ nets[p] # {} => failed[p] \cap {"relay", "down", "sweep"} # {}
         /\ p \in cli => "cli" \in failed[p]
    /\ p \in files => \E h \in Slots : Object(h) /\ handles[h].temp = p

\* Whenever the process dies, what compose or the ambassador has created is
\* matched by a filter that was registered before it existed.
CrashSwept ==
  \A p \in Projects : Containers(p) \/ nets[p] # {} => p \in filters

\* A running stack stays whole until its own teardown, whatever failed before in
\* its project: a restart never takes down what it has just started, and the one
\* relay is on a network with every service it forwards to.
StackStaysWhole ==
  \A h \in Slots :
    LET a == handles[h].active IN
    (Object(h) /\ a # NoStack) =>
      /\ services[a.project] = Services
      /\ Targets # {} => /\ a.ambassador \in relays[a.project]
                        /\ \A t \in Targets : a.ambassador.net \in on[a.project][t]
=============================================================================
