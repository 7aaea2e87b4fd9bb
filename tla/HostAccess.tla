----------------------------- MODULE HostAccess -----------------------------
(***************************************************************************)
(* Host-port exposure across containers and networks: the process-wide     *)
(* HostPortForwarder with one sshd sidecar and tunnel per daemon, which    *)
(* Runner wires containers to, and Network::drop, which has the sidecar    *)
(* leave a network before removing it. Threads call both; tunnels die and  *)
(* other programs connect and disconnect the sidecar. What the tunnel does *)
(* with a forwarded port is SshTunnel.                                     *)
(***************************************************************************)
EXTENDS Naturals, FiniteSets

CONSTANTS
  Threads, Daemons,
  Nets,         \* user-defined networks, by id
  DaemonOf,     \* the daemon of a network
  NameOf,       \* its name
  Ports,
  Requests,     \* containers to wire: daemon, network, ports
  MaxSidecars,  \* bound: sidecars ever started
  Bridge,       \* the default network of every daemon
  NoOne

Sidecars == 1..MaxSidecars
NoSidecar == 0

\* Assumed of the constants; the instances that are checked state it.
HostAccessAssumption ==
  /\ Daemons # {} /\ DaemonOf \in [Nets -> Daemons] /\ DOMAIN NameOf = Nets
  /\ \A m, n \in Nets : (NameOf[m] = NameOf[n] /\ DaemonOf[m] = DaemonOf[n]) => m = n
  /\ Requests \subseteq [daemon : Daemons, net : Nets \cup {Bridge}, ports : SUBSET Ports]
  /\ \A r \in Requests : r.net # Bridge => DaemonOf[r.net] = r.daemon
  /\ NoOne \notin Threads /\ Bridge \notin Nets /\ MaxSidecars \in Nat

VARIABLES
  job,        \* what each thread is doing
  mutex,      \* mutex_
  states,     \* states_: the sidecar of each daemon
  forwarded, connected,   \* of a State: forwarded, connected_networks
  \* the daemons
  sidecar,    \* none, up, removed, or lost: runs on, as its removal has failed
  tunnel,     \* none, up or dead
  attached,   \* the networks a sidecar has an endpoint on
  net,        \* none, up or gone
  meddled     \* networks where another program moved the sidecar, or a disconnect failed

state == <<states, forwarded, connected>>
world == <<sidecar, tunnel, attached, net, meddled>>
vars == <<job, mutex, state, world>>

Job == [pc : {"idle", "state", "start", "tunnel", "forward", "join", "ip", "release", "remove"},
        daemon : Daemons, net : Nets \cup {Bridge}, ports : SUBSET Ports,
        made : {NoSidecar} \cup Sidecars]

TypeOK ==
  /\ job \in [Threads -> Job] /\ mutex \in Threads \cup {NoOne}
  /\ states \in [Daemons -> {NoSidecar} \cup Sidecars]
  /\ forwarded \in [Sidecars -> SUBSET Ports]
  /\ connected \in [Sidecars -> SUBSET {NameOf[n] : n \in Nets}]
  /\ sidecar \in [Sidecars -> {"none", "up", "removed", "lost"}]
  /\ tunnel \in [Sidecars -> {"none", "up", "dead"}]
  /\ attached \in [Sidecars -> SUBSET Nets]
  /\ net \in [Nets -> {"none", "up", "gone"}] /\ meddled \in SUBSET Nets

NoJob == [pc |-> "idle", daemon |-> CHOOSE d \in Daemons : TRUE, net |-> Bridge,
          ports |-> {}, made |-> NoSidecar]

Init ==
  /\ job = [t \in Threads |-> NoJob] /\ mutex = NoOne
  /\ states = [d \in Daemons |-> NoSidecar]
  /\ forwarded = [s \in Sidecars |-> {}] /\ connected = [s \in Sidecars |-> {}]
  /\ sidecar = [s \in Sidecars |-> "none"] /\ tunnel = [s \in Sidecars |-> "none"]
  /\ attached = [s \in Sidecars |-> {}]
  /\ net = [n \in Nets |-> "none"] /\ meddled = {}

-----------------------------------------------------------------------------
(* HostPortForwarder::wire.                                                *)

Goto(t, p) == job' = [job EXCEPT ![t].pc = p]
Locked(t, p) == job[t].pc = p /\ mutex = t

\* Unlock and return, or throw.
Leave(t) == job' = [job EXCEPT ![t] = NoJob] /\ mutex' = NoOne

Mine(t) == states[job[t].daemon]

\* A run is about to create a container.
Wire(t, r) ==
  /\ job[t].pc = "idle" /\ mutex = NoOne /\ mutex' = t
  /\ r.net # Bridge => net[r.net] = "up"
  /\ job' = [job EXCEPT ![t] = [pc |-> "state", daemon |-> r.daemon, net |-> r.net,
                                ports |-> r.ports, made |-> NoSidecar]]
  /\ UNCHANGED <<state, world>>

\* The Container handle of a State goes. It removes the sidecar with its endpoints,
\* or fails to, which Container::drop swallows.
Discard(s) ==
  /\ tunnel' = [tunnel EXCEPT ![s] = "dead"]
  /\ \/ sidecar' = [sidecar EXCEPT ![s] = "removed"] /\ attached' = [attached EXCEPT ![s] = {}]
     \/ sidecar' = [sidecar EXCEPT ![s] = "lost"] /\ UNCHANGED attached

\* The tunnel died: it is not recoverable in place.
Unusable(s) == tunnel[s] = "dead"

\* Drop a dead state; is there one to use?
FindState(t) ==
  LET s == Mine(t) IN
  /\ Locked(t, "state") /\ UNCHANGED <<mutex, forwarded, connected, net, meddled>>
  /\ IF s # NoSidecar /\ Unusable(s)
     THEN /\ Discard(s) /\ states' = [states EXCEPT ![job[t].daemon] = NoSidecar]
          /\ Goto(t, "start")
     ELSE /\ Goto(t, IF s = NoSidecar THEN "start" ELSE "forward")
          /\ UNCHANGED <<states, sidecar, tunnel, attached>>

Unused(s) == sidecar[s] = "none" /\ \A r \in 1..(s - 1) : sidecar[r] # "none"

\* make_state: run the sidecar. A run that fails removes what it created, or loses it
\* when that fails too (the catch block of create_start_wait).
StartSidecar(t) ==
  /\ Locked(t, "start") /\ UNCHANGED <<state, tunnel, attached, net, meddled>>
  /\ \/ Leave(t) /\ UNCHANGED sidecar
     \/ \E s \in Sidecars : /\ Unused(s) /\ sidecar' = [sidecar EXCEPT ![s] = "lost"]
                            /\ Leave(t)
     \/ \E s \in Sidecars : /\ Unused(s) /\ sidecar' = [sidecar EXCEPT ![s] = "up"]
                            /\ job' = [job EXCEPT ![t].pc = "tunnel", ![t].made = s]
                            /\ UNCHANGED mutex

\* Mutant: a State whose tunnel failed has given its sidecar away.
LeavesSidecar(s) == UNCHANGED <<sidecar, tunnel, attached>>

\* A State that is not returned goes out of scope.
Abandon(s) == Discard(s)

\* The address on the bridge and the handshake, retried for a while.
OpenTunnel(t) ==
  LET s == job[t].made IN
  /\ Locked(t, "tunnel") /\ UNCHANGED <<forwarded, connected, net, meddled>>
  /\ \/ /\ sidecar[s] = "up"
        /\ tunnel' = [tunnel EXCEPT ![s] = "up"]
        /\ states' = [states EXCEPT ![job[t].daemon] = s]
        /\ job' = [job EXCEPT ![t].pc = "forward", ![t].made = NoSidecar]
        /\ UNCHANGED <<mutex, sidecar, attached>>
     \/ Abandon(s) /\ Leave(t) /\ UNCHANGED states

\* Mutant: only the first port is looked at.
AnyPortDone(t) == job[t].ports \cap forwarded[Mine(t)] # {}

AllForwarded(t) == job[t].ports \subseteq forwarded[Mine(t)]

\* add_forward of one port that is not forwarded yet; it throws on a dead tunnel
\* or a port the sidecar cannot bind.
Forward(t) ==
  LET s == Mine(t) IN
  /\ Locked(t, "forward") /\ UNCHANGED <<states, connected, world>>
  /\ IF AllForwarded(t)
     THEN Goto(t, IF job[t].net = Bridge THEN "ip" ELSE "join") /\ UNCHANGED <<mutex, forwarded>>
     ELSE \/ /\ tunnel[s] = "up"
             /\ \E p \in job[t].ports \ forwarded[s] : forwarded' = [forwarded EXCEPT ![s] = @ \cup {p}]
             /\ UNCHANGED <<job, mutex>>
          \/ Leave(t) /\ UNCHANGED forwarded

\* The sidecar joins the network on first sight; being on it already is fine.
Join(t) ==
  LET s == Mine(t) n == job[t].net IN
  /\ Locked(t, "join") /\ UNCHANGED <<states, forwarded, sidecar, tunnel, net, meddled>>
  /\ \/ /\ NameOf[n] \in connected[s] /\ Goto(t, "ip")
        /\ UNCHANGED <<mutex, connected, attached>>
     \/ /\ NameOf[n] \notin connected[s] /\ net[n] = "up" /\ sidecar[s] = "up"
        /\ attached' = [attached EXCEPT ![s] = @ \cup {n}]
        /\ connected' = [connected EXCEPT ![s] = @ \cup {NameOf[n]}]
        /\ Goto(t, "ip") /\ UNCHANGED mutex
     \/ Leave(t) /\ UNCHANGED <<connected, attached>>

\* Mutant: an address on any network will do.
AnyAddress(s, n) == sidecar[s] = "up"

\* ip_on_network without the fallback: an address on the container's own network.
HasAddress(s, n) == sidecar[s] = "up" /\ n \in attached[s]

\* The alias goes into the spec, or there is no address for it.
PointAlias(t) ==
  /\ Locked(t, "ip") /\ UNCHANGED <<state, world>>
  /\ Leave(t)

\* The alias is set by this step.
Aliased(t) ==
  /\ job[t].pc = "ip" /\ job'[t].pc = "idle"
  /\ job[t].net = Bridge \/ HasAddress(Mine(t), job[t].net)

-----------------------------------------------------------------------------
(* Network::drop.                                                          *)

Drop(t, n) ==
  /\ job[t].pc = "idle" /\ net[n] = "up" /\ \A u \in Threads : job[u].pc = "remove" => job[u].net # n
  /\ job' = [job EXCEPT ![t] = [pc |-> "release", daemon |-> DaemonOf[n], net |-> n,
                                ports |-> {}, made |-> NoSidecar]]
  /\ UNCHANGED <<mutex, state, world>>

\* Mutant: any daemon's sidecar may be the one on the network.
SomeSidecar(n) == states[CHOOSE d \in Daemons : TRUE]

\* Only the sidecar of the network's own daemon can be attached to it.
SidecarFor(n) == states[DaemonOf[n]]

\* release_network, in one step under the mutex. The record goes first, so a
\* failing disconnect leaves the sidecar attached.
Release(t) ==
  LET n == job[t].net s == SidecarFor(n) IN
  /\ job[t].pc = "release" /\ mutex = NoOne /\ Goto(t, "remove")
  /\ UNCHANGED <<mutex, states, forwarded, sidecar, tunnel, net>>
  /\ IF s # NoSidecar /\ NameOf[n] \in connected[s]
     THEN /\ connected' = [connected EXCEPT ![s] = @ \ {NameOf[n]}]
          /\ \/ attached' = [attached EXCEPT ![s] = @ \ {n}] /\ UNCHANGED meddled
             \/ meddled' = meddled \cup {n} /\ UNCHANGED attached
     ELSE UNCHANGED <<connected, attached, meddled>>

\* remove_network, outside of the mutex: refused while there are endpoints.
Remove(t) ==
  LET n == job[t].net IN
  /\ job[t].pc = "remove" /\ job' = [job EXCEPT ![t] = NoJob]
  /\ net' \in {net} \cup
       IF \A s \in Sidecars : n \notin attached[s] THEN {[net EXCEPT ![n] = "gone"]} ELSE {}
  /\ UNCHANGED <<mutex, state, sidecar, tunnel, attached, meddled>>

-----------------------------------------------------------------------------
(* The world.                                                              *)

\* Networks of other calls and programs.
CreateNet(n) ==
  /\ net[n] = "none" /\ net' = [net EXCEPT ![n] = "up"]
  /\ UNCHANGED <<job, mutex, state, sidecar, tunnel, attached, meddled>>

\* The daemon restarts, the sidecar is killed, the connection is cut.
TunnelDies(s) ==
  /\ tunnel[s] = "up" /\ tunnel' = [tunnel EXCEPT ![s] = "dead"]
  /\ UNCHANGED <<job, mutex, state, sidecar, attached, net, meddled>>

\* Another program moves the sidecar on or off a network.
Meddle(s, n) ==
  /\ sidecar[s] = "up" /\ net[n] = "up" /\ n \notin meddled
  /\ \E d \in Daemons : states[d] = s /\ DaemonOf[n] = d
  /\ attached' = [attached EXCEPT ![s] = IF n \in @ THEN @ \ {n} ELSE @ \cup {n}]
  /\ meddled' = meddled \cup {n}
  /\ UNCHANGED <<job, mutex, state, sidecar, tunnel, net>>

Next ==
  \/ \E t \in Threads :
       \/ \E r \in Requests : Wire(t, r)
       \/ FindState(t) \/ StartSidecar(t) \/ OpenTunnel(t) \/ Forward(t) \/ Join(t) \/ PointAlias(t)
       \/ \E n \in Nets : Drop(t, n)
       \/ Release(t) \/ Remove(t)
  \/ \E n \in Nets : CreateNet(n)
  \/ \E s \in Sidecars : TunnelDies(s) \/ \E n \in Nets : Meddle(s, n)

Spec == Init /\ [][Next]_vars

-----------------------------------------------------------------------------
(* Properties. *)

\* A container that got the alias can reach its ports: the sidecar it points to is
\* the one of its own daemon, is on the container's own network, and forwards
\* every port asked for, those forwarded for earlier containers included.
AliasReachable ==
  \A t \in Threads : Aliased(t) =>
    LET s == Mine(t) n == job[t].net IN
    /\ s # NoSidecar /\ sidecar[s] = "up" /\ (n = Bridge \/ n \in attached[s])
    /\ job[t].ports \subseteq forwarded[s]

\* A sidecar that runs is the registered one of its daemon, or is being made by the
\* thread that holds the registry.
Owned ==
  \A s \in Sidecars : sidecar[s] = "up" =>
    \/ \E d \in Daemons : states[d] = s
    \/ \E t \in Threads : mutex = t /\ job[t].made = s

\* One whose removal failed is not used again.
OutOfUse ==
  \A s \in Sidecars : sidecar[s] = "lost" =>
    /\ tunnel[s] # "up" /\ \A d \in Daemons : states[d] # s
    /\ \A t \in Threads : job[t].made # s

\* No sidecar is left behind, but for one whose removal failed, which Container::drop
\* swallows: it runs on and is nobody's.
NoStraySidecar == Owned /\ OutOfUse

\* After the release step of a drop, no sidecar that is in use, or whose removal went
\* through, has an endpoint that keeps the network alive: true as long as the records
\* cover what is attached, over every wiring, dead tunnel and sidecar in between. A
\* sidecar whose removal failed is on no record any more and stays where it is.
ReleaseDetaches ==
  \A t \in Threads :
    (job[t].pc = "release" /\ job'[t].pc = "remove") =>
      \/ job[t].net \in meddled'
      \/ \A s \in Sidecars : sidecar[s] # "lost" => job[t].net \notin attached'[s]

\* What a step of wire and one of release_network have achieved (HostPortForwarding.cpp).
OwnerSteps == AliasReachable /\ ReleaseDetaches
=============================================================================
