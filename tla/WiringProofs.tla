---------------------------- MODULE WiringProofs ----------------------------
(***************************************************************************)
(* Theorems about what connects the user's containers. The registry of     *)
(* sidecars (HostAccess): no sidecar is left running without an owner,     *)
(* whoever gets the alias of the host reaches its ports, and a released    *)
(* network is free. Compose stacks: nothing outlives its stack unless a    *)
(* step of the teardown failed, what was made is under a filter that was   *)
(* registered before, and a running stack keeps its services and the relay *)
(* that reaches them. For all threads, daemons, networks, projects and     *)
(* requests, and under every failing step.                                 *)
(***************************************************************************)
EXTENDS Resources, TLAPS

-----------------------------------------------------------------------------
(* The registry of sidecars.                                               *)

(* The inductive invariant. A sidecar in the making is its thread's alone  *)
(* until its tunnel is up, and a thread that starts one has the mutex and  *)
(* a daemon that has none: nobody else registers one meanwhile.            *)
MakingInv ==
  \A t \in Threads :
    /\ job[t].made # A!NoSidecar <=> job[t].pc = "tunnel"
    /\ job[t].pc \in {"start", "tunnel"} => mutex = t /\ A!Mine(t) = A!NoSidecar

\* The default network is not joined, released or removed.
OnNet(j) == j.pc \in {"join", "release", "remove"} => j.net \in Nets

AccessInv == A!TypeOK /\ MakingInv /\ (\A t \in Threads : OnNet(job[t])) /\ A!Owned

\* A thread goes on and changes nothing that says who owns which sidecar.
Keeps(t) ==
  /\ \E j \in A!Job : /\ job' = [job EXCEPT ![t] = j] /\ j.made = A!NoSidecar
                   /\ j.pc \notin {"start", "tunnel"} /\ OnNet(j)
  /\ job[t].pc \notin {"start", "tunnel"}
  /\ mutex' \in {mutex, t, NoOne} /\ (mutex' # mutex => mutex \in {t, NoOne})
  /\ UNCHANGED <<states, sidecar>>

-----------------------------------------------------------------------------
\* Such a step keeps the ownership of the sidecars.
LEMMA KeepsStep ==
  ASSUME A!HostAccessAssumption, AccessInv, NEW t \in Threads, Keeps(t)
  PROVE  /\ MakingInv' /\ (\A u \in Threads : OnNet(job[u]))' /\ A!Owned'
         /\ job' \in [Threads -> A!Job] /\ mutex' \in Threads \cup {NoOne}
<1>1. PICK j \in A!Job : /\ job' = [job EXCEPT ![t] = j] /\ j.made = A!NoSidecar
                         /\ j.pc \notin {"start", "tunnel"} /\ OnNet(j)
  BY DEF Keeps
<1>2. /\ job \in [Threads -> A!Job] /\ mutex \in Threads \cup {NoOne} /\ NoOne \notin Threads
      /\ job[t].pc \notin {"start", "tunnel"} /\ job[t].made = A!NoSidecar
  BY DEF AccessInv, A!TypeOK, MakingInv, Keeps, A!HostAccessAssumption
<1>3. job' \in [Threads -> A!Job] /\ mutex' \in Threads \cup {NoOne}
  BY <1>1, <1>2 DEF Keeps
<1>4. MakingInv'
  <2> SUFFICES ASSUME NEW u \in Threads
               PROVE  /\ job'[u].made # A!NoSidecar <=> job'[u].pc = "tunnel"
                      /\ job'[u].pc \in {"start", "tunnel"} =>
                           mutex' = u /\ states'[job'[u].daemon] = A!NoSidecar
    BY DEF MakingInv, A!Mine
  <2>1. CASE u = t
    BY <1>1, <1>2, <2>1
  <2>2. CASE u # t
    <3>1. job'[u] = job[u]
      BY <1>1, <1>2, <2>2
    <3> QED BY <1>2, <2>2, <3>1 DEF AccessInv, MakingInv, A!Mine, Keeps
  <2> QED BY <2>1, <2>2
<1>5. A!Owned'
  <2> SUFFICES ASSUME NEW s \in A!Sidecars, sidecar[s] = "up"
               PROVE  \/ \E d \in Daemons : states[d] = s
                      \/ \E u \in Threads : mutex' = u /\ job'[u].made = s
    BY DEF A!Owned, Keeps
  <2>1. CASE \E d \in Daemons : states[d] = s
    BY <2>1
  <2>2. CASE \E u \in Threads : mutex = u /\ job[u].made = s
    <3>1. PICK u \in Threads : mutex = u /\ job[u].made = s
      BY <2>2
    <3>2. s # A!NoSidecar
      BY DEF A!Sidecars, A!NoSidecar
    <3>3. u # t /\ job'[u] = job[u] /\ mutex' = mutex
      BY <1>1, <1>2, <3>1, <3>2 DEF Keeps
    <3> QED BY <3>1, <3>3
  <2> QED BY <2>1, <2>2 DEF AccessInv, A!Owned
<1>6. (\A u \in Threads : OnNet(job[u]))'
  BY <1>1, <1>2 DEF AccessInv, OnNet
<1> QED BY <1>3, <1>4, <1>5, <1>6

\* Before the first wiring there is no sidecar.
LEMMA AccessInit == ASSUME A!HostAccessAssumption PROVE A!Init => AccessInv
<1> SUFFICES ASSUME A!Init PROVE AccessInv
  OBVIOUS
<1>1. A!NoJob \in A!Job /\ A!NoJob.made = A!NoSidecar /\ A!NoJob.pc = "idle"
  BY DEF A!NoJob, A!Job, A!HostAccessAssumption
<1> HIDE DEF A!NoJob
<1> QED BY <1>1 DEF A!Init, AccessInv, A!TypeOK, MakingInv, A!Owned, A!Mine, OnNet

-----------------------------------------------------------------------------
\* Joining, forwarding, handing out the alias, and Network::drop: the thread neither has nor makes
\* a sidecar, or uses the registered one.
LEMMA UsingStep ==
  ASSUME A!HostAccessAssumption, AccessInv, NEW t \in Threads,
         \/ \E r \in Requests : A!Wire(t, r)
         \/ A!Forward(t) \/ A!Join(t) \/ A!PointAlias(t)
         \/ \E n \in Nets : A!Drop(t, n)
         \/ A!Release(t) \/ A!Remove(t)
  PROVE  AccessInv'
<1>1. A!NoJob \in A!Job /\ A!NoJob.made = A!NoSidecar /\ A!NoJob.pc = "idle"
  BY DEF A!NoJob, A!Job, A!HostAccessAssumption
<1>2. job[t] \in A!Job /\ job \in [Threads -> A!Job] /\ NoOne \notin Threads
  BY DEF AccessInv, A!TypeOK, A!HostAccessAssumption
<1>3. job[t].pc # "tunnel" => job[t].made = A!NoSidecar
  BY DEF AccessInv, MakingInv
<1> DEFINE GoesOn == \E j \in A!Job : /\ job' = [job EXCEPT ![t] = j] /\ j.made = A!NoSidecar
                                      /\ j.pc \notin {"start", "tunnel"} /\ OnNet(j)
<1>4. ASSUME NEW p \in {"ip", "join", "remove"}, A!Goto(t, p), job[t].pc # "tunnel",
             p \in {"join", "remove"} => job[t].net \in Nets
      PROVE  GoesOn
  <2> DEFINE j == [job[t] EXCEPT !.pc = p]
  <2>1. j \in A!Job /\ j.made = A!NoSidecar /\ j.pc = p
    BY <1>2, <1>3, <1>4 DEF A!Job
  <2>2. job' = [job EXCEPT ![t] = j]
    BY <1>2, <1>4 DEF A!Goto
  <2>3. OnNet(j)
    BY <1>2, <1>4, <2>1 DEF OnNet, A!Job
  <2> HIDE DEF j
  <2> QED BY <2>1, <2>2, <2>3
<1>12. ASSUME UNCHANGED job, job[t].pc \notin {"start", "tunnel"} PROVE GoesOn
  BY <1>2, <1>3, <1>12 DEF AccessInv
<1>13. ASSUME job' = [job EXCEPT ![t] = A!NoJob] PROVE GoesOn
  BY <1>1, <1>13 DEF OnNet
<1> HIDE DEF GoesOn
<1> HIDE DEF A!NoJob
<1>5. ASSUME NEW r \in Requests, A!Wire(t, r) PROVE AccessInv'
  <2> DEFINE j == [pc |-> "state", daemon |-> r.daemon, net |-> r.net,
                   ports |-> r.ports, made |-> A!NoSidecar]
  <2>1. j \in A!Job /\ j.made = A!NoSidecar /\ j.pc = "state" /\ job' = [job EXCEPT ![t] = j] /\ OnNet(j)
    BY <1>5 DEF A!Wire, A!Job, A!HostAccessAssumption, OnNet
  <2> HIDE DEF j
  <2>2. Keeps(t)
    BY <1>5, <2>1 DEF Keeps, A!Wire, A!state, A!world
  <2> QED BY <1>5, <2>2, KeepsStep DEF AccessInv, A!TypeOK, A!Wire, A!state, A!world
<1>6. ASSUME A!Forward(t) PROVE AccessInv'
  <2>1. Keeps(t)
    <3>1. GoesOn
      BY <1>2, <1>4, <1>12, <1>13, <1>6 DEF A!Forward, A!Locked, A!Leave, A!Job
    <3> QED BY <1>6, <3>1 DEF GoesOn, Keeps, A!Forward, A!Locked, A!Leave, A!world
  <2>2. forwarded' \in [A!Sidecars -> SUBSET Ports]
    BY <1>2, <1>6 DEF A!Forward, AccessInv, A!TypeOK, A!Job
  <2> QED BY <1>6, <2>1, <2>2, KeepsStep DEF AccessInv, A!TypeOK, A!Forward, A!world
<1>7. ASSUME A!Join(t) PROVE AccessInv'
  <2>1. Keeps(t)
    <3>1. GoesOn
      BY <1>4, <1>12, <1>13, <1>7 DEF A!Join, A!Locked, A!Leave
    <3> QED BY <1>7, <3>1 DEF GoesOn, Keeps, A!Join, A!Locked, A!Leave
  <2>2. job[t].net \in Nets
    BY <1>7 DEF A!Join, A!Locked, AccessInv, OnNet
  <2>3. attached' \in [A!Sidecars -> SUBSET Nets]
    BY <1>7, <2>2 DEF A!Join, AccessInv, A!TypeOK
  <2>4. connected' \in [A!Sidecars -> SUBSET {NameOf[n] : n \in Nets}]
    BY <1>7, <2>2 DEF A!Join, AccessInv, A!TypeOK
  <2> QED BY <1>7, <2>1, <2>3, <2>4, KeepsStep DEF AccessInv, A!TypeOK, A!Join
<1>8. ASSUME A!PointAlias(t) PROVE AccessInv'
  <2>1. Keeps(t)
    BY <1>1, <1>8 DEF OnNet, Keeps, A!PointAlias, A!Locked, A!Leave, A!state, A!world
  <2> QED BY <1>8, <2>1, KeepsStep DEF AccessInv, A!TypeOK, A!PointAlias, A!state, A!world
<1>9. ASSUME NEW n \in Nets, A!Drop(t, n) PROVE AccessInv'
  <2> DEFINE j == [pc |-> "release", daemon |-> DaemonOf[n], net |-> n,
                   ports |-> {}, made |-> A!NoSidecar]
  <2>1. j \in A!Job /\ j.made = A!NoSidecar /\ j.pc = "release" /\ job' = [job EXCEPT ![t] = j] /\ OnNet(j)
    BY <1>9 DEF A!Drop, A!Job, A!HostAccessAssumption, OnNet
  <2> HIDE DEF j
  <2>2. Keeps(t)
    BY <1>9, <2>1 DEF Keeps, A!Drop, A!state, A!world
  <2> QED BY <1>9, <2>2, KeepsStep DEF AccessInv, A!TypeOK, A!Drop, A!state, A!world
<1>10. ASSUME A!Release(t) PROVE AccessInv'
  <2>1. Keeps(t)
    <3>1. GoesOn
      BY <1>4, <1>10 DEF A!Release, AccessInv, OnNet
    <3> QED BY <1>10, <3>1 DEF GoesOn, Keeps, A!Release
  <2>2. connected' \in [A!Sidecars -> SUBSET {NameOf[n] : n \in Nets}]
    BY <1>10 DEF A!Release, AccessInv, A!TypeOK
  <2>3. attached' \in [A!Sidecars -> SUBSET Nets]
    BY <1>10 DEF A!Release, AccessInv, A!TypeOK
  <2>4. meddled' \in SUBSET Nets
    BY <1>10 DEF A!Release, AccessInv, A!TypeOK, OnNet
  <2> QED BY <1>10, <2>1, <2>2, <2>3, <2>4, KeepsStep DEF AccessInv, A!TypeOK, A!Release
<1>11. ASSUME A!Remove(t) PROVE AccessInv'
  <2>1. Keeps(t)
    BY <1>1, <1>11 DEF OnNet, Keeps, A!Remove, A!state
  <2>2. net' \in [Nets -> {"none", "up", "gone"}]
    BY <1>11 DEF A!Remove, AccessInv, A!TypeOK
  <2> QED BY <1>11, <2>1, <2>2, KeepsStep DEF AccessInv, A!TypeOK, A!Remove, A!state
<1> QED BY <1>5, <1>6, <1>7, <1>8, <1>9, <1>10, <1>11

\* A sidecar that goes is removed or lost; no other sidecar changes.
LEMMA Discarded ==
  ASSUME AccessInv, NEW s \in A!Sidecars, A!Discard(s)
  PROVE  /\ \E k \in {"removed", "lost"} : sidecar' = [sidecar EXCEPT ![s] = k]
         /\ sidecar' \in [A!Sidecars -> {"none", "up", "removed", "lost"}]
         /\ tunnel' = [tunnel EXCEPT ![s] = "dead"]
         /\ tunnel' \in [A!Sidecars -> {"none", "up", "dead"}]
         /\ attached' \in [A!Sidecars -> SUBSET Nets]
         /\ \A r \in A!Sidecars : /\ r # s => sidecar'[r] = sidecar[r] /\ attached'[r] = attached[r]
                                  /\ r = s /\ sidecar'[r] # "lost" => attached'[r] = {}
<1>1. CASE sidecar' = [sidecar EXCEPT ![s] = "removed"] /\ attached' = [attached EXCEPT ![s] = {}]
  BY <1>1 DEF A!Discard, AccessInv, A!TypeOK
<1>2. CASE sidecar' = [sidecar EXCEPT ![s] = "lost"] /\ UNCHANGED attached
  BY <1>2 DEF A!Discard, AccessInv, A!TypeOK
<1> QED BY <1>1, <1>2 DEF A!Discard

\* A dead state is dropped with its sidecar before another one is made.
LEMMA FindStep ==
  ASSUME A!HostAccessAssumption, AccessInv, NEW t \in Threads, A!FindState(t)
  PROVE  AccessInv'
<1> DEFINE s == A!Mine(t)
<1>1. /\ job[t] \in A!Job /\ job[t].pc = "state" /\ mutex = t /\ mutex' = mutex
      /\ job[t].made = A!NoSidecar /\ s \in {A!NoSidecar} \cup A!Sidecars
  BY DEF AccessInv, A!TypeOK, MakingInv, A!Mine, A!FindState, A!Locked, A!Job
<1>2. UNCHANGED <<forwarded, connected, net, meddled>>
  BY DEF A!FindState
<1>3. PICK p \in {"start", "forward"} : job' = [job EXCEPT ![t].pc = p] /\ (p = "start" => A!Mine(t)' = A!NoSidecar)
  <2>1. CASE s # A!NoSidecar /\ A!Unusable(s)
    BY <1>1, <2>1 DEF A!FindState, A!Goto, A!Mine, AccessInv, A!TypeOK, A!Job
  <2>2. CASE ~(s # A!NoSidecar /\ A!Unusable(s))
    BY <1>1, <2>2 DEF A!FindState, A!Goto, A!Mine, AccessInv, A!TypeOK, A!Job
  <2> QED BY <2>1, <2>2
<1>4. \A u \in Threads : /\ job'[u] \in A!Job /\ job'[u].made = job[u].made
                         /\ job'[u].daemon = job[u].daemon
                         /\ u # t => job'[u] = job[u]
  <2> DEFINE j == [job[t] EXCEPT !.pc = p]
  <2>1. j \in A!Job /\ j.made = job[t].made /\ j.daemon = job[t].daemon
    BY <1>1 DEF A!Job
  <2>2. job' = [job EXCEPT ![t] = j]
    BY <1>3
  <2> HIDE DEF j
  <2> QED BY <2>1, <2>2 DEF AccessInv, A!TypeOK
<1>5. job' \in [Threads -> A!Job]
  BY <1>3, <1>4 DEF AccessInv, A!TypeOK
<1>6. MakingInv' /\ (\A u \in Threads : OnNet(job[u]))'
  <2>1. job'[t].pc \in {"start", "forward"} /\ (job'[t].pc = "start" => A!Mine(t)' = A!NoSidecar)
    BY <1>3 DEF AccessInv, A!TypeOK, A!Job
  <2>2. \A u \in Threads : u # t => job[u].pc \notin {"start", "tunnel"}
    BY <1>1 DEF AccessInv, MakingInv
  <2> QED BY <1>1, <1>4, <2>1, <2>2 DEF AccessInv, MakingInv, OnNet
<1>7. CASE s # A!NoSidecar /\ A!Unusable(s)
  <2>1. /\ A!Discard(s) /\ states' = [states EXCEPT ![job[t].daemon] = A!NoSidecar]
        /\ s \in A!Sidecars
    BY <1>1, <1>7 DEF A!FindState
  <2>4. PICK k \in {"removed", "lost"} : sidecar' = [sidecar EXCEPT ![s] = k]
    BY <2>1, Discarded
  <2>2. A!TypeOK'
    BY <1>1, <1>2, <1>5, <2>1, Discarded DEF AccessInv, A!TypeOK
  <2>3. ASSUME NEW r \in A!Sidecars, sidecar'[r] = "up"
        PROVE  \/ \E d \in Daemons : states'[d] = r
               \/ \E u \in Threads : mutex' = u /\ job'[u].made = r
    <3>1. r # s /\ sidecar[r] = "up"
      BY <2>1, <2>3, <2>4 DEF AccessInv, A!TypeOK
    <3>2. ASSUME NEW d \in Daemons, states[d] = r PROVE states'[d] = r
      BY <2>1, <3>1, <3>2 DEF A!Mine, AccessInv, A!TypeOK
    <3> QED BY <1>1, <1>4, <3>1, <3>2 DEF AccessInv, A!Owned
  <2> QED BY <1>6, <2>2, <2>3 DEF AccessInv, A!Owned
<1>8. CASE ~(s # A!NoSidecar /\ A!Unusable(s))
  <2>1. UNCHANGED <<states, sidecar, tunnel, attached>>
    BY <1>8 DEF A!FindState
  <2>2. A!TypeOK'
    BY <1>1, <1>2, <1>5, <2>1 DEF AccessInv, A!TypeOK
  <2> QED BY <1>1, <1>4, <1>6, <2>1, <2>2 DEF AccessInv, A!Owned
<1> QED BY <1>7, <1>8

\* A new sidecar belongs to the thread that started it, which holds the mutex.
LEMMA StartStep ==
  ASSUME A!HostAccessAssumption, AccessInv, NEW t \in Threads, A!StartSidecar(t)
  PROVE  AccessInv'
<1>1. /\ job[t] \in A!Job /\ job[t].pc = "start" /\ mutex = t /\ job[t].made = A!NoSidecar
      /\ A!Mine(t) = A!NoSidecar /\ NoOne \notin Threads
      /\ UNCHANGED <<states, forwarded, connected, tunnel, attached, net, meddled>>
  BY DEF AccessInv, A!TypeOK, MakingInv, A!StartSidecar, A!Locked, A!state, A!HostAccessAssumption
<1>2. \A u \in Threads : u # t => job[u].pc \notin {"start", "tunnel"} /\ job[u].made = A!NoSidecar
  BY <1>1 DEF AccessInv, MakingInv
<1>3. \A s \in A!Sidecars : s # A!NoSidecar
  BY DEF A!Sidecars, A!NoSidecar
<1>4. ASSUME A!Leave(t), sidecar' \in [A!Sidecars -> {"none", "up", "removed", "lost"}],
             \A s \in A!Sidecars : sidecar'[s] = "up" => sidecar[s] = "up"
      PROVE  AccessInv'
  <2>1. A!NoJob \in A!Job /\ A!NoJob.made = A!NoSidecar /\ A!NoJob.pc = "idle"
    BY DEF A!NoJob, A!Job, A!HostAccessAssumption
  <2> HIDE DEF A!NoJob
  <2>2. job' = [job EXCEPT ![t] = A!NoJob] /\ mutex' = NoOne
    BY <1>4 DEF A!Leave
  <2>3. A!TypeOK'
    BY <1>1, <1>4, <2>1, <2>2 DEF AccessInv, A!TypeOK
  <2>4. MakingInv' /\ (\A u \in Threads : OnNet(job[u]))'
    BY <1>1, <1>2, <2>1, <2>2 DEF AccessInv, A!TypeOK, MakingInv, OnNet
  <2>5. A!Owned'
    BY <1>1, <1>2, <1>3, <1>4 DEF AccessInv, A!Owned
  <2> QED BY <2>3, <2>4, <2>5 DEF AccessInv
<1>5. CASE \E s \in A!Sidecars :
             /\ sidecar[s] = "none" /\ sidecar' = [sidecar EXCEPT ![s] = "up"]
             /\ job' = [job EXCEPT ![t].pc = "tunnel", ![t].made = s] /\ UNCHANGED mutex
  <2>1. PICK s \in A!Sidecars :
             /\ sidecar[s] = "none" /\ sidecar' = [sidecar EXCEPT ![s] = "up"]
             /\ job' = [job EXCEPT ![t].pc = "tunnel", ![t].made = s] /\ UNCHANGED mutex
    BY <1>5
  <2> DEFINE j == [job[t] EXCEPT !.pc = "tunnel", !.made = s]
  <2>2. job' = [job EXCEPT ![t] = j]
    BY <2>1 DEF AccessInv, A!TypeOK, A!Job
  <2>3. j \in A!Job /\ j.pc = "tunnel" /\ j.made = s /\ j.daemon = job[t].daemon
    BY <1>1 DEF A!Job
  <2> HIDE DEF j
  <2>4. job' \in [Threads -> A!Job]
    BY <2>2, <2>3 DEF AccessInv, A!TypeOK
  <2>5. sidecar' \in [A!Sidecars -> {"none", "up", "removed", "lost"}] /\ mutex' = mutex
    BY <2>1 DEF AccessInv, A!TypeOK
  <2>6. A!TypeOK'
    BY <1>1, <2>4, <2>5 DEF AccessInv, A!TypeOK
  <2>7. job'[t] = j /\ \A u \in Threads : u # t => job'[u] = job[u]
    BY <2>2 DEF AccessInv, A!TypeOK
  <2>8. MakingInv' /\ (\A u \in Threads : OnNet(job[u]))'
    BY ZenonT(60), <1>1, <1>2, <1>3, <2>1, <2>3, <2>7 DEF AccessInv, MakingInv, OnNet, A!Mine
  <2>9. ASSUME NEW r \in A!Sidecars, sidecar'[r] = "up"
        PROVE  \/ \E d \in Daemons : states'[d] = r
               \/ \E u \in Threads : mutex' = u /\ job'[u].made = r
    <3>1. CASE r = s
      BY <1>1, <2>1, <2>3, <2>7, <3>1
    <3>2. CASE r # s
      <4>1. sidecar[r] = "up"
        BY <2>1, <2>9, <3>2 DEF AccessInv, A!TypeOK
      <4> QED BY <1>1, <1>2, <1>3, <4>1 DEF AccessInv, A!Owned
    <3> QED BY <3>1, <3>2
  <2> QED BY <2>6, <2>8, <2>9 DEF AccessInv, A!Owned
<1>6. CASE A!Leave(t) /\ UNCHANGED sidecar
  BY <1>4, <1>6 DEF AccessInv, A!TypeOK
<1>7. CASE \E s \in A!Sidecars : sidecar' = [sidecar EXCEPT ![s] = "lost"] /\ A!Leave(t)
  BY <1>4, <1>7 DEF AccessInv, A!TypeOK
<1> QED BY <1>5, <1>6, <1>7 DEF A!StartSidecar, A!Unused

\* The sidecar whose tunnel is up is registered in the empty place of its daemon, the one
\* whose tunnel is not is removed.
LEMMA TunnelStep ==
  ASSUME A!HostAccessAssumption, AccessInv, NEW t \in Threads, A!OpenTunnel(t)
  PROVE  AccessInv'
<1> DEFINE s == job[t].made
<1>1. /\ job[t] \in A!Job /\ job[t].pc = "tunnel" /\ mutex = t /\ A!Mine(t) = A!NoSidecar
      /\ UNCHANGED <<forwarded, connected, net, meddled>> /\ NoOne \notin Threads
      /\ s \in A!Sidecars
  BY DEF AccessInv, A!TypeOK, A!Job, MakingInv, A!OpenTunnel, A!Locked, A!HostAccessAssumption
<1>2. \A u \in Threads : u # t => job[u].pc \notin {"start", "tunnel"} /\ job[u].made = A!NoSidecar
  BY <1>1 DEF AccessInv, MakingInv
<1>3. /\ \A r \in A!Sidecars : r # A!NoSidecar
      /\ \A r \in A!Sidecars : sidecar[r] = "up" => r = s \/ \E d \in Daemons : states[d] = r
  BY <1>1, <1>2 DEF A!Sidecars, A!NoSidecar, AccessInv, A!Owned
<1>4. CASE /\ sidecar[s] = "up" /\ tunnel' = [tunnel EXCEPT ![s] = "up"]
           /\ states' = [states EXCEPT ![job[t].daemon] = s]
           /\ job' = [job EXCEPT ![t].pc = "forward", ![t].made = A!NoSidecar]
           /\ UNCHANGED <<mutex, sidecar, attached>>
  <2> DEFINE j == [job[t] EXCEPT !.pc = "forward", !.made = A!NoSidecar]
  <2>1. j \in A!Job /\ j.pc = "forward" /\ j.made = A!NoSidecar
    BY <1>1 DEF A!Job
  <2>2. job' = [job EXCEPT ![t] = j]
    BY <1>4 DEF AccessInv, A!TypeOK, A!Job
  <2> HIDE DEF j
  <2>3. job' \in [Threads -> A!Job] /\ job'[t] = j /\ \A u \in Threads : u # t => job'[u] = job[u]
    BY <2>1, <2>2 DEF AccessInv, A!TypeOK
  <2>4. /\ states' \in [Daemons -> {A!NoSidecar} \cup A!Sidecars]
        /\ tunnel' \in [A!Sidecars -> {"none", "up", "dead"}]
    BY <1>1, <1>4 DEF AccessInv, A!TypeOK, A!Job
  <2>5. A!TypeOK'
    BY <1>1, <1>4, <2>3, <2>4 DEF AccessInv, A!TypeOK
  <2>6. MakingInv' /\ (\A u \in Threads : OnNet(job[u]))'
    BY <1>2, <2>1, <2>3 DEF AccessInv, MakingInv, OnNet
  <2>7. ASSUME NEW r \in A!Sidecars, sidecar'[r] = "up"
        PROVE  \E d \in Daemons : states'[d] = r
    <3>1. CASE r = s
      BY <1>1, <1>4, <3>1 DEF AccessInv, A!TypeOK, A!Job
    <3>2. CASE r # s
      <4>1. PICK d \in Daemons : states[d] = r
        BY <1>3, <1>4, <2>7, <3>2
      <4>2. d # job[t].daemon
        BY <1>1, <1>3, <4>1 DEF A!Mine
      <4> QED BY <1>4, <4>1, <4>2 DEF AccessInv, A!TypeOK
    <3> QED BY <3>1, <3>2
  <2> QED BY <2>5, <2>6, <2>7 DEF AccessInv, A!Owned
<1>5. CASE A!Abandon(s) /\ A!Leave(t) /\ UNCHANGED states
  <2>1. A!NoJob \in A!Job /\ A!NoJob.made = A!NoSidecar /\ A!NoJob.pc = "idle"
    BY DEF A!NoJob, A!Job, A!HostAccessAssumption
  <2> HIDE DEF A!NoJob
  <2>2. /\ job' = [job EXCEPT ![t] = A!NoJob] /\ mutex' = NoOne
        /\ A!Discard(s) /\ s \in A!Sidecars
    BY <1>1, <1>5 DEF A!Leave, A!Abandon
  <2>3. A!TypeOK'
    BY <1>1, <1>5, <2>1, <2>2, Discarded DEF AccessInv, A!TypeOK
  <2>4. MakingInv' /\ (\A u \in Threads : OnNet(job[u]))'
    BY <1>1, <1>2, <2>1, <2>2 DEF AccessInv, A!TypeOK, MakingInv, OnNet
  <2>5. ASSUME NEW r \in A!Sidecars, sidecar'[r] = "up"
        PROVE  \E d \in Daemons : states'[d] = r
    <3>1. r # s /\ sidecar[r] = "up"
      BY <2>2, <2>5, Discarded DEF AccessInv, A!TypeOK
    <3> QED BY <1>3, <1>5, <3>1
  <2> QED BY <2>3, <2>4, <2>5 DEF AccessInv, A!Owned
<1> QED BY <1>4, <1>5 DEF A!OpenTunnel

-----------------------------------------------------------------------------
\* Networks come, tunnels die and other programs move sidecars: none of it starts one.
LEMMA WorldStep ==
  ASSUME AccessInv,
         \/ \E n \in Nets : A!CreateNet(n)
         \/ \E s \in A!Sidecars : A!TunnelDies(s) \/ \E n \in Nets : A!Meddle(s, n)
  PROVE  AccessInv'
<1>1. UNCHANGED <<job, mutex, states, forwarded, connected, sidecar>>
  BY DEF A!CreateNet, A!TunnelDies, A!Meddle, A!state
<1>2. /\ net' \in [Nets -> {"none", "up", "gone"}] /\ meddled' \in SUBSET Nets
      /\ attached' \in [A!Sidecars -> SUBSET Nets]
      /\ tunnel' \in [A!Sidecars -> {"none", "up", "dead"}]
  <2>1. ASSUME NEW n \in Nets, A!CreateNet(n) PROVE <1>2!:
    BY <2>1 DEF A!CreateNet, AccessInv, A!TypeOK
  <2>2. ASSUME NEW s \in A!Sidecars, A!TunnelDies(s) PROVE <1>2!:
    BY <2>2 DEF A!TunnelDies, AccessInv, A!TypeOK
  <2>3. ASSUME NEW s \in A!Sidecars, NEW n \in Nets, A!Meddle(s, n) PROVE <1>2!:
    BY <2>3 DEF A!Meddle, AccessInv, A!TypeOK
  <2> QED BY <2>1, <2>2, <2>3
<1> QED BY <1>1, <1>2 DEF AccessInv, A!TypeOK, MakingInv, A!Mine, OnNet, A!Owned

\* Every step of the threads and of the world keeps the invariant.
LEMMA AccessStep == ASSUME A!HostAccessAssumption PROVE AccessInv /\ [A!Next]_(A!vars) => AccessInv'
<1> SUFFICES ASSUME AccessInv, [A!Next]_(A!vars) PROVE AccessInv'
  OBVIOUS
<1>1. ASSUME NEW t \in Threads,
             \/ \E r \in Requests : A!Wire(t, r)
             \/ A!FindState(t) \/ A!StartSidecar(t) \/ A!OpenTunnel(t) \/ A!Forward(t) \/ A!Join(t) \/ A!PointAlias(t)
             \/ \E n \in Nets : A!Drop(t, n)
             \/ A!Release(t) \/ A!Remove(t)
      PROVE  AccessInv'
  BY <1>1, UsingStep, FindStep, StartStep, TunnelStep
<1>2. CASE UNCHANGED A!vars
  BY <1>2 DEF A!vars, A!state, A!world, AccessInv, A!TypeOK, MakingInv, A!Mine, OnNet, A!Owned
<1> QED BY <1>1, <1>2, WorldStep DEF A!Next

-----------------------------------------------------------------------------
\* The invariant holds in every state of the registry, under every fault.
THEOREM AccessInvariant == ASSUME A!HostAccessAssumption PROVE A!Spec => []AccessInv
BY AccessInit, AccessStep, PTL DEF A!Spec

\* Types: the registry names sidecars, a job is about networks and daemons there are
\* (HostPortForwarding.cpp).
THEOREM AccessTypeCorrect == ASSUME A!HostAccessAssumption PROVE A!Spec => []A!TypeOK
<1>1. AccessInv => A!TypeOK
  BY DEF AccessInv
<1> QED BY <1>1, AccessInvariant, PTL

-----------------------------------------------------------------------------
(* What the registry knows of its sidecars, beyond who owns them. A        *)
(* registered sidecar runs, and is one daemon's alone; the one in the      *)
(* making is not registered yet.                                           *)
Registry ==
  /\ \A d \in Daemons : states[d] # A!NoSidecar => sidecar[states[d]] = "up"
  /\ \A d, e \in Daemons : states[d] = states[e] /\ states[d] # A!NoSidecar => d = e
  /\ \A t \in Threads, d \in Daemons : job[t].made # A!NoSidecar => states[d] # job[t].made

\* A sidecar in the making runs; one that never ran or is lost has no tunnel.
Tunnels ==
  /\ \A t \in Threads : job[t].made # A!NoSidecar => sidecar[job[t].made] = "up"
  /\ \A s \in A!Sidecars : sidecar[s] \in {"none", "lost"} => tunnel[s] # "up"

\* How far a thread has come with the sidecar of its daemon.
Served(t) ==
  /\ job[t].pc \in {"state", "forward", "join", "ip"} => mutex = t
  /\ job[t].pc \in {"forward", "join", "ip"} => A!Mine(t) # A!NoSidecar
  /\ job[t].pc \in {"join", "ip"} => job[t].ports \subseteq forwarded[A!Mine(t)]
  /\ job[t].pc = "tunnel" => job[t].made # A!NoSidecar
  /\ job[t].net # Bridge => DaemonOf[job[t].net] = job[t].daemon

\* The records cover the endpoints, but for those that others moved and of the lost.
Covered ==
  \A s \in A!Sidecars : \A n \in attached[s] :
    sidecar[s] = "lost" \/ n \in meddled \/ (states[DaemonOf[n]] = s /\ NameOf[n] \in connected[s])

Reach == Registry /\ Tunnels /\ (\A t \in Threads : Served(t)) /\ Covered

\* A thread keeps what it has: others change the registry only under the mutex.
LEMMA OthersReady ==
  ASSUME A!HostAccessAssumption, AccessInv, NEW t \in Threads, NEW u \in Threads, u # t, Served(u),
         job'[u] = job[u],
         mutex \in {t, NoOne} \/ UNCHANGED <<mutex, states, forwarded>>
  PROVE  Served(u)'
<1>1. u # NoOne
  BY DEF A!HostAccessAssumption
<1> QED BY <1>1 DEF Served, A!Mine

\* A job in progress, changed by a step of its thread.
LEMMA JobStep ==
  ASSUME AccessInv, NEW t \in Threads, NEW j, job' = [job EXCEPT ![t] = j]
  PROVE  job'[t] = j /\ \A u \in Threads : u # t => job'[u] = job[u]
BY DEF AccessInv, A!TypeOK

LEMMA GotoStep ==
  ASSUME AccessInv, NEW t \in Threads, NEW p, A!Goto(t, p)
  PROVE  /\ job'[t].pc = p /\ job'[t].made = job[t].made /\ job'[t].net = job[t].net
         /\ job'[t].daemon = job[t].daemon /\ job'[t].ports = job[t].ports
         /\ \A u \in Threads : u # t => job'[u] = job[u]
<1>1. job[t] \in A!Job /\ job \in [Threads -> A!Job]
  BY DEF AccessInv, A!TypeOK
<1> QED BY <1>1 DEF A!Goto, A!Job

\* Back to idle: there is nothing left to say of the thread.
LEMMA LeaveStep ==
  ASSUME AccessInv, NEW t \in Threads, job' = [job EXCEPT ![t] = A!NoJob]
  PROVE  /\ Served(t)' /\ job'[t].made = A!NoSidecar
         /\ \A u \in Threads : u # t => job'[u] = job[u]
<1>1. job'[t] = A!NoJob /\ \A u \in Threads : u # t => job'[u] = job[u]
  BY DEF AccessInv, A!TypeOK
<1>2. A!NoJob.pc = "idle" /\ A!NoJob.made = A!NoSidecar /\ A!NoJob.net = Bridge
  BY DEF A!NoJob
<1> QED BY <1>1, <1>2 DEF Served

\* A step that leaves the registry and the sidecars as they are.
LEMMA RegistryKept ==
  ASSUME Registry, Tunnels, UNCHANGED <<states, sidecar, tunnel>>,
         \A u \in Threads : job'[u].made \in {job[u].made, A!NoSidecar}
  PROVE  Registry' /\ Tunnels'
BY DEF Registry, Tunnels

\* Before the first wiring nothing is registered or attached.
LEMMA ReachInit == ASSUME A!HostAccessAssumption, A!Init PROVE Reach
<1>1. A!NoJob.pc = "idle" /\ A!NoJob.made = A!NoSidecar /\ A!NoJob.net = Bridge
  BY DEF A!NoJob
<1> HIDE DEF A!NoJob
<1> QED BY <1>1 DEF A!Init, Reach, Registry, Tunnels, Served, Covered

\* Joining, forwarding, handing out the alias, and Network::drop.
LEMMA UsingReach ==
  ASSUME A!HostAccessAssumption, AccessInv, Reach, NEW t \in Threads,
         \/ \E r \in Requests : A!Wire(t, r)
         \/ A!Forward(t) \/ A!Join(t) \/ A!PointAlias(t)
         \/ \E n \in Nets : A!Drop(t, n)
         \/ A!Release(t) \/ A!Remove(t)
  PROVE  Reach'
<1> USE DEF A!state, A!world
<1>1. ASSUME NEW r \in Requests, A!Wire(t, r) PROVE Reach'
  <2> DEFINE j == [pc |-> "state", daemon |-> r.daemon, net |-> r.net,
                   ports |-> r.ports, made |-> A!NoSidecar]
  <2>1. /\ job'[t].pc = "state" /\ job'[t].made = A!NoSidecar
        /\ job'[t].net = r.net /\ job'[t].daemon = r.daemon
        /\ \A u \in Threads : u # t => job'[u] = job[u]
    <3>1. job' = [job EXCEPT ![t] = j]
      BY <1>1 DEF A!Wire
    <3>2. job'[t] = j /\ \A u \in Threads : u # t => job'[u] = job[u]
      BY ONLY AccessInv, <3>1, JobStep, t \in Threads
    <3> QED BY <3>2
  <2>2. Served(t)'
    BY <1>1, <2>1 DEF A!Wire, Served, A!HostAccessAssumption
  <2>3. \A u \in Threads : Served(u)'
    BY <1>1, <2>1, <2>2, OthersReady DEF A!Wire, Reach
  <2> QED BY <1>1, <2>1, <2>3, RegistryKept DEF A!Wire, Reach, Covered
<1>2. ASSUME A!Forward(t) PROVE Reach'
  <2>1. /\ job[t].pc = "forward" /\ mutex = t
        /\ UNCHANGED <<states, connected, sidecar, tunnel, attached, meddled>>
    BY <1>2 DEF A!Forward, A!Locked
  <2>2. Served(t)' /\ job'[t].made \in {job[t].made, A!NoSidecar} /\ \A u \in Threads : u # t => job'[u] = job[u]
    <3>1. ASSUME A!AllForwarded(t), NEW p \in {"ip", "join"}, A!Goto(t, p), UNCHANGED <<mutex, forwarded>>
          PROVE  <2>2!:
      BY <2>1, <3>1, GotoStep DEF Served, Reach, A!Mine, A!AllForwarded
    <3>2. ASSUME NEW p \in Ports, forwarded' = [forwarded EXCEPT ![A!Mine(t)] = @ \cup {p}], UNCHANGED <<job, mutex>>
          PROVE  <2>2!:
      BY <2>1, <3>2 DEF Served, Reach, A!Mine
    <3>3. ASSUME A!Leave(t) PROVE <2>2!:
      BY <3>3, LeaveStep DEF A!Leave
    <3>4. job[t].ports \subseteq Ports
      BY DEF AccessInv, A!TypeOK, A!Job
    <3> QED BY <1>2, <3>1, <3>2, <3>3, <3>4 DEF A!Forward
  <2>3. \A u \in Threads : Served(u)'
    BY <2>1, <2>2, OthersReady DEF Reach
  <2> QED BY <2>1, <2>2, <2>3, RegistryKept DEF Reach, Covered
<1>3. ASSUME A!Join(t) PROVE Reach'
  <2>1. job[t].pc = "join" /\ mutex = t /\ UNCHANGED <<states, forwarded, sidecar, tunnel, meddled>>
    BY <1>3 DEF A!Join, A!Locked
  <2>2. Served(t)' /\ job'[t].made \in {job[t].made, A!NoSidecar} /\ \A u \in Threads : u # t => job'[u] = job[u]
    <3>1. ASSUME A!Goto(t, "ip"), UNCHANGED mutex PROVE <2>2!:
      BY <2>1, <3>1, GotoStep DEF Served, Reach, A!Mine
    <3>2. ASSUME A!Leave(t) PROVE <2>2!:
      BY <3>2, LeaveStep DEF A!Leave
    <3> QED BY <1>3, <3>1, <3>2 DEF A!Join
  <2>3. \A u \in Threads : Served(u)'
    BY <2>1, <2>2, OthersReady DEF Reach
  <2>4. Covered'
    <3>1. CASE UNCHANGED <<connected, attached>>
      BY <2>1, <3>1 DEF Reach, Covered
    <3>2. CASE /\ attached' = [attached EXCEPT ![A!Mine(t)] = @ \cup {job[t].net}]
               /\ connected' = [connected EXCEPT ![A!Mine(t)] = @ \cup {NameOf[job[t].net]}]
      <4>1. job[t].net \in Nets /\ Bridge \notin Nets
        BY <2>1 DEF AccessInv, OnNet, A!HostAccessAssumption
      <4>2. states[DaemonOf[job[t].net]] = A!Mine(t)
        BY <2>1, <4>1 DEF Reach, Served, A!Mine
      <4>3. \A s \in A!Sidecars : connected[s] \subseteq connected'[s]
        BY <3>2 DEF AccessInv, A!TypeOK
      <4> SUFFICES ASSUME NEW s \in A!Sidecars, NEW n \in attached'[s], n \notin meddled,
                          sidecar[s] # "lost"
                   PROVE  states[DaemonOf[n]] = s /\ NameOf[n] \in connected'[s]
        BY <2>1 DEF Covered
      <4>4. CASE n \in attached[s]
        BY <4>3, <4>4 DEF Reach, Covered
      <4>5. CASE n \notin attached[s]
        BY <3>2, <4>2, <4>5 DEF AccessInv, A!TypeOK
      <4> QED BY <4>4, <4>5
    <3> QED BY <1>3, <3>1, <3>2 DEF A!Join
  <2> QED BY <2>1, <2>2, <2>3, <2>4, RegistryKept DEF Reach
<1>4. ASSUME A!PointAlias(t) PROVE Reach'
  <2>1. Served(t)' /\ job'[t].made = A!NoSidecar /\ mutex = t /\ \A u \in Threads : u # t => job'[u] = job[u]
    BY <1>4, LeaveStep DEF A!PointAlias, A!Leave, A!Locked
  <2>2. \A u \in Threads : Served(u)'
    BY <2>1, OthersReady DEF Reach
  <2> QED BY <1>4, <2>1, <2>2, RegistryKept DEF A!PointAlias, Reach, Covered
<1>5. ASSUME NEW n \in Nets, A!Drop(t, n) PROVE Reach'
  <2>1. /\ job'[t].pc = "release" /\ job'[t].made = A!NoSidecar
        /\ job'[t].net = n /\ job'[t].daemon = DaemonOf[n]
        /\ \A u \in Threads : u # t => job'[u] = job[u]
    <3> DEFINE j == [pc |-> "release", daemon |-> DaemonOf[n], net |-> n,
                     ports |-> {}, made |-> A!NoSidecar]
    <3>1. job' = [job EXCEPT ![t] = j]
      BY <1>5 DEF A!Drop
    <3>2. job'[t] = j /\ \A u \in Threads : u # t => job'[u] = job[u]
      BY ONLY AccessInv, <3>1, JobStep, t \in Threads
    <3> QED BY <3>2
  <2>2. Served(t)'
    BY <2>1 DEF Served
  <2>3. \A u \in Threads : Served(u)'
    BY <1>5, <2>1, <2>2, OthersReady DEF A!Drop, Reach
  <2> QED BY <1>5, <2>1, <2>3, RegistryKept DEF A!Drop, Reach, Covered
<1>6. ASSUME A!Release(t) PROVE Reach'
  <2> DEFINE n == job[t].net
             s == A!SidecarFor(n)
  <2>1. /\ job'[t].pc = "remove" /\ job'[t].made = job[t].made /\ job'[t].net = n
        /\ job'[t].daemon = job[t].daemon /\ \A u \in Threads : u # t => job'[u] = job[u]
    BY <1>6, GotoStep DEF A!Release
  <2>2. Served(t)'
    BY <2>1 DEF Served, Reach
  <2>3. \A u \in Threads : Served(u)'
    BY <1>6, <2>1, <2>2, OthersReady DEF A!Release, Reach
  <2>4. Covered'
    <3>1. CASE UNCHANGED <<connected, attached, meddled>>
      BY <1>6, <3>1 DEF A!Release, Reach, Covered
    <3>2. CASE /\ s # A!NoSidecar /\ connected' = [connected EXCEPT ![s] = @ \ {NameOf[n]}]
               /\ \/ attached' = [attached EXCEPT ![s] = @ \ {n}] /\ UNCHANGED meddled
                  \/ meddled' = meddled \cup {n} /\ UNCHANGED attached
      <4>1. n \in Nets /\ job[t].pc = "release" /\ states' = states
        BY <1>6 DEF A!Release, AccessInv, OnNet
      <4>2. DaemonOf[n] \in Daemons /\ \A m \in Nets : DaemonOf[m] \in Daemons
        BY <4>1 DEF A!HostAccessAssumption
      <4> SUFFICES ASSUME NEW r \in A!Sidecars, NEW m \in attached'[r], m \notin meddled',
                          sidecar'[r] # "lost"
                   PROVE  states[DaemonOf[m]] = r /\ NameOf[m] \in connected'[r]
        BY <4>1 DEF Covered
      <4>3. /\ m \in attached[r] /\ m \notin meddled /\ m \in Nets /\ ~(r = s /\ m = n)
            /\ sidecar[r] # "lost"
        BY <1>6, <3>2 DEF A!Release, AccessInv, A!TypeOK
      <4>4. states[DaemonOf[m]] = r /\ NameOf[m] \in connected[r] /\ r # A!NoSidecar
        BY <4>3 DEF Reach, Covered, A!Sidecars, A!NoSidecar
      <4>5. CASE r = s
        <5>1. DaemonOf[m] = DaemonOf[n]
          BY <4>2, <4>3, <4>4, <4>5 DEF A!SidecarFor, Reach, Registry
        <5>2. NameOf[m] # NameOf[n]
          BY <4>1, <4>3, <4>5, <5>1 DEF A!HostAccessAssumption
        <5> QED BY <3>2, <4>4, <4>5, <5>2 DEF AccessInv, A!TypeOK
      <4>6. CASE r # s
        BY <3>2, <4>4, <4>6 DEF AccessInv, A!TypeOK
      <4> QED BY <4>5, <4>6
    <3> QED BY <1>6, <3>1, <3>2 DEF A!Release
  <2> QED BY <1>6, <2>1, <2>3, <2>4, RegistryKept DEF A!Release, Reach
<1>7. ASSUME A!Remove(t) PROVE Reach'
  <2>1. Served(t)' /\ job'[t].made = A!NoSidecar /\ \A u \in Threads : u # t => job'[u] = job[u]
    BY <1>7, LeaveStep DEF A!Remove
  <2>2. \A u \in Threads : Served(u)'
    BY <1>7, <2>1, OthersReady DEF A!Remove, Reach
  <2> QED BY <1>7, <2>1, <2>2, RegistryKept DEF A!Remove, Reach, Covered
<1> QED BY <1>1, <1>2, <1>3, <1>4, <1>5, <1>6, <1>7

\* A dead state goes with its endpoints; a live one is there to be used.
LEMMA FindReach ==
  ASSUME A!HostAccessAssumption, AccessInv, Reach, NEW t \in Threads, A!FindState(t)
  PROVE  Reach'
<1> DEFINE s == A!Mine(t)
<1>1. /\ job[t] \in A!Job /\ job[t].pc = "state" /\ mutex = t
      /\ UNCHANGED <<mutex, forwarded, connected, net, meddled>>
      /\ \A u \in Threads : job[u].made # A!NoSidecar => u = t
  BY DEF A!FindState, A!Locked, AccessInv, A!TypeOK, MakingInv
<1>2. PICK p \in {"start", "forward"} : A!Goto(t, p) /\ (p = "forward" => s # A!NoSidecar /\ states' = states)
  BY DEF A!FindState, A!NoSidecar
<1>3. /\ job'[t].pc = p /\ job'[t].made = job[t].made /\ job'[t].net = job[t].net
      /\ job'[t].daemon = job[t].daemon /\ \A u \in Threads : u # t => job'[u] = job[u]
  BY <1>2, GotoStep
<1>4. Served(t)'
  BY <1>1, <1>2, <1>3 DEF Reach, Served, A!Mine
<1>5. \A u \in Threads : Served(u)'
  BY <1>1, <1>3, <1>4, OthersReady DEF Reach
<1>6. CASE UNCHANGED <<states, sidecar, tunnel, attached>>
  BY <1>1, <1>3, <1>5, <1>6, RegistryKept DEF Reach, Covered
<1>7. CASE s # A!NoSidecar /\ A!Discard(s) /\ states' = [states EXCEPT ![job[t].daemon] = A!NoSidecar]
  <2>1. s \in A!Sidecars /\ job[t].daemon \in Daemons /\ s = states[job[t].daemon]
    BY <1>1, <1>7 DEF A!Mine, AccessInv, A!TypeOK, A!Job
  <2>2. \A d \in Daemons : states'[d] = IF d = job[t].daemon THEN A!NoSidecar ELSE states[d]
    BY <1>7, <2>1 DEF AccessInv, A!TypeOK
  <2>3. \A d \in Daemons : states[d] = s => d = job[t].daemon
    BY <1>7, <2>1 DEF Reach, Registry
  <2>4. /\ \A r \in A!Sidecars : /\ r # s => sidecar'[r] = sidecar[r] /\ attached'[r] = attached[r]
                                 /\ r = s /\ sidecar'[r] # "lost" => attached'[r] = {}
        /\ tunnel' = [tunnel EXCEPT ![s] = "dead"] /\ attached' \in [A!Sidecars -> SUBSET Nets]
    BY <1>7, <2>1, Discarded
  <2>5. Registry'
    <3>1. \A d \in Daemons : states'[d] # A!NoSidecar => sidecar'[states'[d]] = "up"
      <4> SUFFICES ASSUME NEW d \in Daemons, states'[d] # A!NoSidecar
                   PROVE  sidecar'[states'[d]] = "up"
        OBVIOUS
      <4>1. states'[d] = states[d] /\ states[d] \in A!Sidecars /\ states[d] # s
        BY <2>2, <2>3 DEF AccessInv, A!TypeOK
      <4> QED BY <2>4, <4>1 DEF Reach, Registry
    <3>2. \A d, e \in Daemons : states'[d] = states'[e] /\ states'[d] # A!NoSidecar => d = e
      BY <2>2 DEF Reach, Registry
    <3>3. \A u \in Threads, d \in Daemons : job'[u].made # A!NoSidecar => states'[d] # job'[u].made
      BY <1>3, <2>2 DEF Reach, Registry
    <3> QED BY <3>1, <3>2, <3>3 DEF Registry
  <2>6. Covered'
    <3> SUFFICES ASSUME NEW r \in A!Sidecars, NEW n \in attached'[r], n \notin meddled,
                        sidecar'[r] # "lost"
                 PROVE  states'[DaemonOf[n]] = r /\ NameOf[n] \in connected[r]
      BY <1>1 DEF Covered
    <3>1. r # s
      BY <2>4
    <3>2. n \in attached[r] /\ n \in Nets /\ sidecar[r] # "lost"
      BY <2>4, <3>1
    <3>3. states[DaemonOf[n]] = r /\ NameOf[n] \in connected[r] /\ DaemonOf[n] \in Daemons
      BY <3>2 DEF Reach, Covered, A!HostAccessAssumption
    <3> QED BY <2>1, <2>2, <3>1, <3>3
  <2>7. Tunnels'
    <3>1. \A u \in Threads : job'[u].made = A!NoSidecar
      BY <1>1, <1>3 DEF AccessInv, MakingInv
    <3>2. \A r \in A!Sidecars : r # s => tunnel'[r] = tunnel[r]
      BY <2>4 DEF AccessInv, A!TypeOK
    <3>3. tunnel'[s] = "dead"
      BY <2>1, <2>4 DEF AccessInv, A!TypeOK
    <3> QED BY <2>4, <3>1, <3>2, <3>3 DEF Reach, Tunnels
  <2> QED BY <1>5, <2>5, <2>6, <2>7 DEF Reach
<1> QED BY <1>6, <1>7 DEF A!FindState

\* A new sidecar is not registered, and on no network the registry recorded.
LEMMA StartReach ==
  ASSUME A!HostAccessAssumption, AccessInv, Reach, NEW t \in Threads, A!StartSidecar(t)
  PROVE  Reach'
<1>1. /\ job[t] \in A!Job /\ job[t].pc = "start" /\ mutex = t
      /\ UNCHANGED <<states, forwarded, connected, tunnel, attached, meddled>>
  BY DEF A!StartSidecar, A!Locked, AccessInv, A!TypeOK, A!state
<1>2. CASE A!Leave(t) /\ UNCHANGED sidecar
  <2>1. Served(t)' /\ job'[t].made = A!NoSidecar /\ \A u \in Threads : u # t => job'[u] = job[u]
    BY <1>2, LeaveStep DEF A!Leave
  <2>2. \A u \in Threads : Served(u)'
    BY <1>1, <2>1, OthersReady DEF Reach
  <2> QED BY <1>1, <1>2, <2>1, <2>2, RegistryKept DEF Reach, Covered
<1>3. ASSUME NEW s \in A!Sidecars, sidecar[s] = "none", sidecar' = [sidecar EXCEPT ![s] = "up"],
             job' = [job EXCEPT ![t].pc = "tunnel", ![t].made = s]
      PROVE  Reach'
  <2>1. /\ job'[t].pc = "tunnel" /\ job'[t].made = s /\ job'[t].net = job[t].net
        /\ job'[t].daemon = job[t].daemon /\ \A u \in Threads : u # t => job'[u] = job[u]
    BY <1>1, <1>3 DEF AccessInv, A!TypeOK, A!Job
  <2>2. Served(t)'
    BY <2>1 DEF Reach, Served, A!Sidecars, A!NoSidecar
  <2>3. \A u \in Threads : Served(u)'
    BY <1>1, <2>1, <2>2, OthersReady DEF Reach
  <2>4. \A d \in Daemons : states[d] # s /\ states[d] \in {A!NoSidecar} \cup A!Sidecars
    BY <1>3 DEF Reach, Registry, AccessInv, A!TypeOK, A!Sidecars, A!NoSidecar
  <2>5. \A d \in Daemons : states[d] # A!NoSidecar => sidecar'[states[d]] = "up"
    BY <1>3, <2>4 DEF Reach, Registry, AccessInv, A!TypeOK
  <2>6. Registry'
    BY <1>1, <2>1, <2>4, <2>5 DEF Reach, Registry
  <2>7. Covered'
    BY <1>1, <1>3 DEF Reach, Covered, AccessInv, A!TypeOK
  <2>8. Tunnels'
    <3>1. sidecar'[s] = "up" /\ \A r \in A!Sidecars : r # s => sidecar'[r] = sidecar[r]
      BY <1>3 DEF AccessInv, A!TypeOK
    <3>2. \A u \in Threads : u # t => job'[u].made = A!NoSidecar
      BY <1>1, <2>1 DEF AccessInv, MakingInv
    <3> QED BY <1>1, <2>1, <3>1, <3>2 DEF Reach, Tunnels
  <2> QED BY <2>3, <2>6, <2>7, <2>8 DEF Reach
<1>4. ASSUME NEW s \in A!Sidecars, sidecar[s] = "none", sidecar' = [sidecar EXCEPT ![s] = "lost"],
             A!Leave(t)
      PROVE  Reach'
  <2>1. Served(t)' /\ job'[t].made = A!NoSidecar /\ \A u \in Threads : u # t => job'[u] = job[u]
    BY <1>4, LeaveStep DEF A!Leave
  <2>2. \A u \in Threads : Served(u)' /\ job'[u].made = A!NoSidecar
    BY <1>1, <2>1, OthersReady DEF Reach, AccessInv, MakingInv
  <2>3. sidecar'[s] = "lost" /\ \A r \in A!Sidecars : r # s => sidecar'[r] = sidecar[r]
    BY <1>4 DEF AccessInv, A!TypeOK
  <2>4. \A d \in Daemons : states[d] # s /\ states[d] \in {A!NoSidecar} \cup A!Sidecars
    BY <1>4 DEF Reach, Registry, AccessInv, A!TypeOK, A!Sidecars, A!NoSidecar
  <2>5. Registry'
    BY <1>1, <2>2, <2>3, <2>4 DEF Reach, Registry
  <2>6. Tunnels'
    BY <1>1, <1>4, <2>2, <2>3 DEF Reach, Tunnels
  <2>7. Covered'
    BY <1>1, <2>3 DEF Reach, Covered
  <2> QED BY <2>2, <2>5, <2>6, <2>7 DEF Reach
<1> QED BY <1>2, <1>3, <1>4 DEF A!StartSidecar, A!Unused

\* The sidecar is registered in the empty place of its daemon, or removed.
LEMMA TunnelReach ==
  ASSUME A!HostAccessAssumption, AccessInv, Reach, NEW t \in Threads, A!OpenTunnel(t)
  PROVE  Reach'
<1> DEFINE s == job[t].made
<1>1. /\ job[t] \in A!Job /\ job[t].pc = "tunnel" /\ mutex = t /\ A!Mine(t) = A!NoSidecar
      /\ UNCHANGED <<forwarded, connected, net, meddled>>
      /\ s \in {A!NoSidecar} \cup A!Sidecars /\ job[t].daemon \in Daemons
      /\ \A u \in Threads : job[u].made # A!NoSidecar => u = t
  BY DEF A!OpenTunnel, A!Locked, AccessInv, A!TypeOK, MakingInv, A!Job
<1>2. CASE /\ sidecar[s] = "up" /\ tunnel' = [tunnel EXCEPT ![s] = "up"]
           /\ states' = [states EXCEPT ![job[t].daemon] = s]
           /\ job' = [job EXCEPT ![t].pc = "forward", ![t].made = A!NoSidecar]
           /\ UNCHANGED <<mutex, sidecar, attached>>
  <2>1. /\ job'[t].pc = "forward" /\ job'[t].made = A!NoSidecar /\ job'[t].net = job[t].net
        /\ job'[t].daemon = job[t].daemon /\ \A u \in Threads : u # t => job'[u] = job[u]
    BY <1>1, <1>2 DEF AccessInv, A!TypeOK, A!Job
  <2>2. \A d \in Daemons : states'[d] = IF d = job[t].daemon THEN s ELSE states[d]
    BY <1>2 DEF AccessInv, A!TypeOK
  <2>0. s # A!NoSidecar
    BY <1>1 DEF Reach, Served
  <2>3. Served(t)'
    BY <1>1, <1>2, <2>0, <2>1, <2>2 DEF Reach, Served, A!Mine
  <2>4. \A u \in Threads : Served(u)'
    BY <1>1, <2>1, <2>3, OthersReady DEF Reach
  <2>5. \A d \in Daemons : states[d] # s
    BY <2>0 DEF Reach, Registry
  <2>6. Registry'
    <3>1. \A d \in Daemons : states'[d] # A!NoSidecar => sidecar'[states'[d]] = "up"
      BY <1>2, <2>2 DEF Reach, Registry
    <3>2. \A d, e \in Daemons : states'[d] = states'[e] /\ states'[d] # A!NoSidecar => d = e
      BY <2>2, <2>5 DEF Reach, Registry
    <3>3. \A u \in Threads : job'[u].made = A!NoSidecar
      BY <1>1, <2>1
    <3> QED BY <3>1, <3>2, <3>3 DEF Registry
  <2>7. Covered'
    <3> SUFFICES ASSUME NEW r \in A!Sidecars, NEW n \in attached[r], n \notin meddled,
                        sidecar[r] # "lost"
                 PROVE  states'[DaemonOf[n]] = r /\ NameOf[n] \in connected[r]
      BY <1>1, <1>2 DEF Covered
    <3>1. states[DaemonOf[n]] = r /\ NameOf[n] \in connected[r] /\ DaemonOf[n] \in Daemons
      BY DEF Reach, Covered, A!HostAccessAssumption, AccessInv, A!TypeOK
    <3>2. DaemonOf[n] # job[t].daemon
      BY <1>1, <3>1 DEF A!Mine, A!Sidecars, A!NoSidecar
    <3> QED BY <2>2, <3>1, <3>2
  <2>8. Tunnels'
    <3>1. \A u \in Threads : job'[u].made = A!NoSidecar
      BY <1>1, <2>1
    <3>2. \A r \in A!Sidecars : r # s => tunnel'[r] = tunnel[r]
      BY <1>2 DEF AccessInv, A!TypeOK
    <3> QED BY <1>2, <3>1, <3>2 DEF Reach, Tunnels
  <2> QED BY <2>4, <2>6, <2>7, <2>8 DEF Reach
<1>3. CASE A!Abandon(s) /\ A!Leave(t) /\ UNCHANGED states
  <2>1. Served(t)' /\ job'[t].made = A!NoSidecar /\ \A u \in Threads : u # t => job'[u] = job[u]
    BY <1>3, LeaveStep DEF A!Leave
  <2>2. \A u \in Threads : Served(u)'
    BY <1>1, <2>1, OthersReady DEF Reach
  <2>3. s \in A!Sidecars /\ tunnel' = [tunnel EXCEPT ![s] = "dead"]
    <3>1. s \in A!Sidecars
      BY <1>1 DEF Reach, Served
    <3> QED BY <1>3, <3>1, Discarded DEF A!Abandon
  <2>4. \A r \in A!Sidecars : /\ r # s => sidecar'[r] = sidecar[r] /\ attached'[r] = attached[r]
                              /\ r = s /\ sidecar'[r] # "lost" => attached'[r] = {}
    BY <1>3, <2>3, Discarded DEF A!Abandon
  <2>5. \A d \in Daemons : states[d] # A!NoSidecar => states[d] \in A!Sidecars /\ states[d] # s
    BY DEF AccessInv, A!TypeOK, Reach, Registry
  <2>6. Registry'
    BY <1>3, <2>1, <2>4, <2>5 DEF Reach, Registry
  <2>7. Covered'
    BY <1>1, <1>3, <2>4 DEF Reach, Covered
  <2>8. Tunnels'
    <3>1. \A u \in Threads : job'[u].made = A!NoSidecar
      BY <1>1, <2>1
    <3>2. tunnel'[s] = "dead" /\ \A r \in A!Sidecars : r # s => tunnel'[r] = tunnel[r]
      BY <2>3 DEF AccessInv, A!TypeOK
    <3> QED BY <2>4, <3>1, <3>2 DEF Reach, Tunnels
  <2> QED BY <2>2, <2>6, <2>7, <2>8 DEF Reach
<1> QED BY <1>2, <1>3 DEF A!OpenTunnel

\* Networks come, tunnels die, and an endpoint that others move is no longer the registry's.
LEMMA WorldReach ==
  ASSUME A!HostAccessAssumption, AccessInv, Reach,
         \/ \E n \in Nets : A!CreateNet(n)
         \/ \E s \in A!Sidecars : A!TunnelDies(s) \/ \E n \in Nets : A!Meddle(s, n)
  PROVE  Reach'
<1>1. UNCHANGED <<job, mutex, states, forwarded, connected, sidecar>>
  BY DEF A!CreateNet, A!TunnelDies, A!Meddle, A!state
<1>2. Covered'
  <2>1. CASE UNCHANGED <<attached, meddled>>
    BY <1>1, <2>1 DEF Reach, Covered
  <2>2. ASSUME NEW s \in A!Sidecars, NEW n \in Nets, A!Meddle(s, n) PROVE Covered'
    <3>1. \A r \in A!Sidecars : attached'[r] \subseteq attached[r] \cup {n}
      BY <2>2 DEF A!Meddle, AccessInv, A!TypeOK
    <3> QED BY <1>1, <2>2, <3>1 DEF A!Meddle, Reach, Covered
  <2> QED BY <2>1, <2>2 DEF A!CreateNet, A!TunnelDies
<1>3. Tunnels'
  <2>1. CASE UNCHANGED tunnel
    BY <1>1, <2>1 DEF Reach, Tunnels
  <2>2. ASSUME NEW s \in A!Sidecars, A!TunnelDies(s) PROVE Tunnels'
    <3>1. \A r \in A!Sidecars : tunnel'[r] \in {tunnel[r], "dead"}
      BY <2>2 DEF A!TunnelDies, AccessInv, A!TypeOK
    <3> QED BY <1>1, <3>1 DEF Reach, Tunnels
  <2> QED BY <2>1, <2>2 DEF A!CreateNet, A!Meddle
<1> QED BY <1>1, <1>2, <1>3 DEF Reach, Registry, Served, A!Mine

\* The records follow the sidecars through every step.
LEMMA ReachStep == ASSUME A!HostAccessAssumption, AccessInv, Reach, [A!Next]_(A!vars) PROVE Reach'
<1>1. ASSUME NEW t \in Threads,
             \/ \E r \in Requests : A!Wire(t, r)
             \/ A!FindState(t) \/ A!StartSidecar(t) \/ A!OpenTunnel(t) \/ A!Forward(t) \/ A!Join(t) \/ A!PointAlias(t)
             \/ \E n \in Nets : A!Drop(t, n)
             \/ A!Release(t) \/ A!Remove(t)
      PROVE  Reach'
  BY <1>1, UsingReach, FindReach, StartReach, TunnelReach
<1>2. CASE UNCHANGED A!vars
  BY <1>2 DEF A!vars, A!state, A!world, Reach, Registry, Tunnels, Served, A!Mine, Covered
<1> QED BY <1>1, <1>2, WorldReach DEF A!Next

\* The registry and its records, in every state.
THEOREM RegistryInvariant ==
  ASSUME A!HostAccessAssumption PROVE A!Spec => [](AccessInv /\ Reach)
<1>1. A!Init => AccessInv /\ Reach
  BY AccessInit, ReachInit
<1>2. AccessInv /\ Reach /\ [A!Next]_(A!vars) => AccessInv' /\ Reach'
  BY AccessStep, ReachStep
<1> QED BY <1>1, <1>2, PTL DEF A!Spec

\* No sidecar is left behind by HostPortForwarder::wire, whether its tunnel fails, the
\* tunnel of an earlier one has died, or another thread is wiring for the same daemon: a
\* running sidecar is the registered one of a daemon, or its maker still has the mutex.
\* One whose removal failed, which Container::drop swallows, is not used again.
THEOREM NoneStrays == ASSUME A!HostAccessAssumption PROVE A!Spec => []A!NoStraySidecar
<1>1. AccessInv /\ Reach => A!NoStraySidecar
  <2> SUFFICES ASSUME AccessInv, Reach, NEW s \in A!Sidecars, sidecar[s] = "lost"
               PROVE  /\ tunnel[s] # "up" /\ \A d \in Daemons : states[d] # s
                      /\ \A t \in Threads : job[t].made # s
    BY DEF AccessInv, A!NoStraySidecar, A!OutOfUse
  <2>1. s # A!NoSidecar
    BY DEF A!Sidecars, A!NoSidecar
  <2> QED BY <2>1 DEF Reach, Registry, Tunnels
<1> QED BY <1>1, RegistryInvariant, PTL

\* Only release_network takes a drop past its release.
LEMMA OnlyRelease ==
  ASSUME A!HostAccessAssumption, AccessInv, A!Next, NEW t \in Threads,
         job[t].pc = "release", job'[t].pc = "remove"
  PROVE  A!Release(t)
<1>1. ASSUME NEW u \in Threads, NEW j, job' = [job EXCEPT ![u] = j], u # t PROVE FALSE
  BY <1>1, JobStep
<1>2. ASSUME NEW u \in Threads, NEW p, A!Goto(u, p), u # t PROVE FALSE
  BY <1>2, GotoStep
<1>3. job # job'
  OBVIOUS
<1>4. A!NoJob.pc = "idle"
  BY DEF A!NoJob
<1>5. ASSUME NEW u \in Threads, job' = [job EXCEPT ![u] = A!NoJob] PROVE FALSE
  BY <1>4, <1>5, JobStep
<1>6. ASSUME NEW u \in Threads,
             \/ \E r \in Requests : A!Wire(u, r)
             \/ A!FindState(u) \/ A!StartSidecar(u) \/ A!OpenTunnel(u) \/ A!Forward(u) \/ A!Join(u) \/ A!PointAlias(u)
             \/ \E n \in Nets : A!Drop(u, n)
             \/ A!Remove(u)
      PROVE  FALSE
  <2>1. ASSUME \E r \in Requests : A!Wire(u, r) PROVE FALSE
    BY <1>1, <2>1 DEF A!Wire
  <2>2. ASSUME A!FindState(u) PROVE FALSE
    BY <1>2, <2>2 DEF A!FindState, A!Locked
  <2>3. ASSUME A!StartSidecar(u) PROVE FALSE
    <3>1. u # t
      BY <2>3 DEF A!StartSidecar, A!Locked
    <3>2. job'[t] = job[t]
      BY <2>3, <3>1 DEF A!StartSidecar, A!Leave, AccessInv, A!TypeOK
    <3> QED BY <3>2
  <2>4. ASSUME A!OpenTunnel(u) PROVE FALSE
    <3>1. u # t
      BY <2>4 DEF A!OpenTunnel, A!Locked
    <3>2. job'[t] = job[t]
      BY <2>4, <3>1 DEF A!OpenTunnel, A!Leave, AccessInv, A!TypeOK
    <3> QED BY <3>2
  <2>5. ASSUME A!Forward(u) PROVE FALSE
    BY <1>2, <1>3, <1>5, <2>5 DEF A!Forward, A!Locked, A!Leave
  <2>6. ASSUME A!Join(u) PROVE FALSE
    BY <1>2, <1>5, <2>6 DEF A!Join, A!Locked, A!Leave
  <2>7. ASSUME A!PointAlias(u) PROVE FALSE
    BY <1>5, <2>7 DEF A!PointAlias, A!Leave
  <2>8. ASSUME \E n \in Nets : A!Drop(u, n) PROVE FALSE
    BY <1>1, <2>8 DEF A!Drop
  <2>9. ASSUME A!Remove(u) PROVE FALSE
    BY <1>5, <2>9 DEF A!Remove
  <2> QED BY <1>6, <2>1, <2>2, <2>3, <2>4, <2>5, <2>6, <2>7, <2>8, <2>9
<1>7. ASSUME NEW u \in Threads, A!Release(u) PROVE A!Release(t)
  BY <1>2, <1>7 DEF A!Release
<1>8. ~(\/ \E n \in Nets : A!CreateNet(n)
        \/ \E s \in A!Sidecars : A!TunnelDies(s) \/ \E n \in Nets : A!Meddle(s, n))
  BY <1>3 DEF A!CreateNet, A!TunnelDies, A!Meddle
<1> QED BY <1>6, <1>7, <1>8 DEF A!Next

\* Who has the alias of the host reaches its ports, and a released network is free
\* (HostPortForwarder::wire and release_network, HostPortForwarding.cpp): whatever other threads
\* wire and drop, whichever tunnels have died, the sidecar of the alias runs, is on the container's
\* network and forwards every port asked for; and a drop leaves no endpoint of a sidecar on
\* its network, unless the disconnect failed, others have moved the sidecar, or the removal
\* of the sidecar had failed.
THEOREM AliasAndRelease ==
  ASSUME A!HostAccessAssumption PROVE A!Spec => [][A!OwnerSteps]_(A!vars)
<1>1. AccessInv /\ Reach => A!AliasReachable
  <2> SUFFICES ASSUME AccessInv, Reach, NEW t \in Threads, A!Aliased(t)
               PROVE  /\ A!Mine(t) # A!NoSidecar /\ sidecar[A!Mine(t)] = "up"
                      /\ job[t].net = Bridge \/ job[t].net \in attached[A!Mine(t)]
                      /\ job[t].ports \subseteq forwarded[A!Mine(t)]
    BY DEF A!AliasReachable
  <2>1. job[t].daemon \in Daemons
    BY DEF AccessInv, A!TypeOK, A!Job
  <2> QED BY <2>1 DEF A!Aliased, A!HasAddress, Reach, Served, Registry, A!Mine
<1>2. AccessInv /\ Reach /\ A!Next => A!ReleaseDetaches
  <2> SUFFICES ASSUME AccessInv, Reach, A!Next, NEW t \in Threads,
                      job[t].pc = "release", job'[t].pc = "remove", job[t].net \notin meddled'
               PROVE  \A s \in A!Sidecars : sidecar[s] # "lost" => job[t].net \notin attached'[s]
    BY DEF A!ReleaseDetaches
  <2> DEFINE n == job[t].net
  <2>1. A!Release(t) /\ n \in Nets
    BY OnlyRelease DEF AccessInv, OnNet
  <2>2. \A s \in A!Sidecars : attached'[s] \subseteq attached[s]
    BY <2>1 DEF A!Release, AccessInv, A!TypeOK
  <2> SUFFICES ASSUME NEW s \in A!Sidecars, sidecar[s] # "lost", n \in attached'[s] PROVE FALSE
    OBVIOUS
  <2>3. n \in attached[s] /\ n \notin meddled
    BY <2>1, <2>2 DEF A!Release
  <2>4. states[DaemonOf[n]] = s /\ NameOf[n] \in connected[s] /\ s # A!NoSidecar
    BY <2>3 DEF Reach, Covered, A!Sidecars, A!NoSidecar
  <2>5. attached' = [attached EXCEPT ![s] = @ \ {n}]
    BY <2>1, <2>4 DEF A!Release, A!SidecarFor
  <2> QED BY <2>5 DEF AccessInv, A!TypeOK
<1>3. AccessInv /\ Reach /\ [A!Next]_(A!vars) => [A!OwnerSteps]_(A!vars)
  BY <1>1, <1>2 DEF A!OwnerSteps
<1> QED BY <1>3, RegistryInvariant, PTL DEF A!Spec
StackTyped ==
  /\ handles \in [Slots -> C!Handle \cup {Void}]
  /\ work \in C!Work
  /\ files \subseteq Projects /\ filters \subseteq Projects /\ cli \subseteq Projects
  /\ services \in [Projects -> SUBSET Services] /\ on \in [Projects -> [Services -> SUBSET StackNets]]
  /\ nets \in [Projects -> SUBSET StackNets] /\ relays \in [Projects -> SUBSET C!Relay]
  /\ failed \in [Projects -> SUBSET C!Failures]

Starting   == {"client", "copy", "register", "up", "discover", "ambassador", "launch", "adopt"}
Registered == {"up", "discover", "ambassador", "launch", "adopt"}
Destroying == {"relay", "down", "sweep", "release"}

-----------------------------------------------------------------------------
(* The inductive invariant.                                                *)

\* The one relay of a is on a network with every service it forwards to.
Connected(a) ==
  /\ a.ambassador \in relays[a.project]
  /\ \A t \in Targets : a.ambassador.net \in on[a.project][t]

\* A handle's file exists, and its stack is whole, has been started from that file
\* and is registered.
HandleInv(h) ==
  LET o == handles[h] a == o.active IN
  /\ o.temp \in files \cup {None}
  /\ a # C!NoStack => /\ a.project # None /\ a.client # "none" /\ a.file = o.temp
                      /\ a.project \in filters
                      /\ services[a.project] = Services
                      /\ Targets # {} => Connected(a)

\* Two handles share nothing, nor does the name of one match the stack of the other.
Apart(g, h) ==
  LET o == handles[g] q == handles[h] IN
  /\ o.project = q.project => o.project = None
  /\ o.temp = q.temp => o.temp = None
  /\ o.active.project = q.active.project => o.active.project = None
  /\ o.project = q.active.project => o.project = None

HandlesInv == /\ \A h \in Slots : C!Object(h) => HandleInv(h)
              /\ \A g, h \in Slots : C!Object(g) /\ C!Object(h) /\ g # h => Apart(g, h)

\* The operation in progress: its handle has given up its stack, and the stack in hand
\* is nobody's; a stack in the making is registered before it is brought up and whole
\* before it is adopted; one that is torn down loses its relay and its containers unless
\* that fails.
WorkInv ==
  LET h == work.h s == work.stack IN
  /\ C!Object(h) /\ C!Object(work.g)
  /\ "assign" \in {work.pc, work.then} => h # work.g
  /\ work.pc \in Destroying => work.then \in {"idle", "client", "file", "destroy", "assign"}
  /\ work.pc \in Starting \/ work.then = "client" => handles[h].project # None
  /\ work.pc \in {"client", "copy", "wait", "file", "destroy", "assign"} => s = C!NoStack
  /\ work.pc # "wait" => handles[h].active = C!NoStack
  /\ work.pc \in Starting \ {"client", "copy"} => s # C!NoStack /\ s.project = handles[h].project
  /\ work.pc = "down" => s # C!NoStack
  /\ s # C!NoStack => /\ s.project # None /\ s.client # "none" /\ s.file = handles[h].temp
                      /\ \A g \in Slots : C!Object(g) => /\ handles[g].active.project # C!P
                                                         /\ g # h => handles[g].project # C!P
  /\ work.pc \in Registered => C!P \in filters
  /\ work.pc \in Registered \ {"up"} => services[C!P] = Services
  /\ work.pc \in {"register", "up", "discover", "ambassador"} => s.ambassador = C!NoRelay
  /\ work.pc = "launch" \/ (work.pc = "adopt" /\ Targets # {}) => Connected(s)
  /\ work.pc = "down" => relays[C!P] = {} \/ failed[C!P] \cap {"relay", "sweep"} # {}
  /\ work.pc = "release" /\ s # C!NoStack => relays[C!P] = {} \/ "sweep" \in failed[C!P]

WorksInv == ~C!Idle => WorkInv

Current(p) == ~C!Idle /\ C!P = p
Runs(h, p) == C!Object(h) /\ handles[h].active.project = p
Used(p)    == \E h \in Slots : Runs(h, p)

\* What there is of a project belongs to a handle's stack or to the one in hand, or is
\* left behind by a step that failed.
LeftInv(p) ==
  /\ p \in files => \E h \in Slots : C!Object(h) /\ handles[h].temp = p
  /\ C!Containers(p) \/ nets[p] # {} => p \in filters
  /\ \A r \in relays[p] : \/ "sweep" \in failed[p]
                          \/ Current(p) /\ r = work.stack.ambassador
                          \/ \E h \in Slots : Runs(h, p) /\ r = handles[h].active.ambassador
  /\ services[p] # {} => \/ "sweep" \in failed[p] \/ Used(p)
                         \/ Current(p) /\ work.pc # "release"
  /\ nets[p] # {} => \/ failed[p] \cap {"relay", "down", "sweep"} # {} \/ Used(p)
                     \/ Current(p) /\ work.pc \notin {"sweep", "release"}

\* The same for the cli container.
CliInv(p) ==
  p \in cli => \/ "cli" \in failed[p]
               \/ Current(p) /\ work.stack.client = "cli"
               \/ \E h \in Slots : Runs(h, p) /\ handles[h].active.client = "cli"
               \/ work.pc = "copy" /\ handles[work.h].project = p

ProjectsInv == \A p \in Projects : LeftInv(p) /\ CliInv(p)

StackInv == StackTyped /\ HandlesInv /\ WorksInv /\ ProjectsInv

-----------------------------------------------------------------------------
(* Types.                                                                  *)

LEMMA Fields ==
  ASSUME C!ComposeAssumption, StackTyped
  PROVE  /\ None \notin Projects /\ None \notin StackNets
         /\ work.h \in Slots /\ work.g \in Slots /\ work.stack \in C!Stack
         /\ C!P \in Projects \cup {None} /\ work.stack.project = C!P
         /\ \A h \in Slots : C!Object(h) =>
              /\ handles[h] \in C!Handle /\ handles[h].project \in Projects \cup {None}
              /\ handles[h].temp \in Projects \cup {None}
              /\ handles[h].active \in C!Stack /\ handles[h].active.project \in Projects \cup {None}
  BY DEF StackTyped, C!ComposeAssumption, C!Work, C!Stack, C!Handle, C!Object, C!P

LEMMA Nothing ==
  /\ C!NoStack \in C!Stack /\ C!NoStack.project = None /\ C!NoStack.client = "none" /\ C!NoStack.file = None
  /\ C!NoStack.ambassador = C!NoRelay /\ C!MovedFrom \in C!Handle /\ C!MovedFrom.active = C!NoStack
  /\ C!MovedFrom.project = None /\ C!MovedFrom.temp = None
  BY DEF C!NoStack, C!Stack, C!MovedFrom, C!Handle

LEMMA NoWorkTyped ==
  ASSUME C!ComposeAssumption
  PROVE  C!NoWork \in C!Work /\ C!NoWork.pc = "idle" /\ C!NoWork.stack = C!NoStack
  <1>1. (CHOOSE s \in Slots : TRUE) \in Slots
    BY DEF C!ComposeAssumption
  <1> QED
    BY <1>1, Nothing DEF C!NoWork, C!Work

\* An object is a record of its type, and what is empty is not.
LEMMA IsObject ==
  ASSUME C!ComposeAssumption, NEW h \in Slots, handles' \in [Slots -> C!Handle \cup {Void}], handles'[h] \in C!Handle
  PROVE  C!Object(h)'
  BY DEF C!Object, C!ComposeAssumption

\* The steps of the operation in progress.
LEMMA Going ==
  ASSUME C!ComposeAssumption, StackTyped,
         NEW to \in C!Steps \cup {"idle", "relay", "down", "sweep", "release", "file", "destroy", "assign"},
         C!Goto(to)
  PROVE  /\ work' \in C!Work /\ work'.pc = to /\ work'.h = work.h /\ work'.g = work.g
         /\ work'.stack = work.stack /\ work'.then = work.then /\ C!P' = C!P /\ UNCHANGED handles
  BY DEF StackTyped, C!Goto, C!Work, C!P, C!Steps

LEMMA Throwing ==
  ASSUME C!ComposeAssumption, StackTyped, C!Throw
  PROVE  /\ work' \in C!Work /\ work'.pc = "relay" /\ work'.h = work.h /\ work'.g = work.g
         /\ work'.stack = work.stack /\ work'.then = "idle" /\ C!P' = C!P /\ UNCHANGED handles
  BY DEF StackTyped, C!Throw, C!Work, C!P, C!Steps

LEMMA Failing ==
  ASSUME C!ComposeAssumption, StackTyped, NEW p \in Projects, NEW what \in C!Failures, C!FailOf(p, what)
  PROVE  /\ failed' \in [Projects -> SUBSET C!Failures]
         /\ failed'[p] = failed[p] \cup {what}
         /\ \A q \in Projects : q # p => failed'[q] = failed[q]
  BY DEF StackTyped, C!FailOf

-----------------------------------------------------------------------------
(* A step that leaves the handles alone, and other projects but for their  *)
(* record of failures.                                                     *)

Within ==
  /\ ~C!Idle /\ ~C!Idle' /\ UNCHANGED <<handles, files>> /\ filters \subseteq filters'
  /\ \A p \in Projects : failed[p] \subseteq failed'[p]
  /\ \A p \in Projects : p # C!P => /\ services'[p] = services[p] /\ on'[p] = on[p]
                                    /\ nets'[p] = nets[p] /\ relays'[p] = relays[p]

LEMMA HandlesKept ==
  ASSUME C!ComposeAssumption, StackInv, ~C!Idle, UNCHANGED <<handles, files>>, filters \subseteq filters',
         \A p \in Projects : p # C!P => /\ services'[p] = services[p] /\ on'[p] = on[p]
                                        /\ relays'[p] = relays[p]
  PROVE  HandlesInv'
  <1>1. ASSUME NEW h \in Slots, C!Object(h)  PROVE HandleInv(h)'
    <2>1. HandleInv(h) /\ handles[h].active \in C!Stack /\ handles[h].active.project \in Projects \cup {None}
      BY <1>1, Fields DEF StackInv, HandlesInv
    <2>2. CASE handles[h].active = C!NoStack
      BY <2>1, <2>2 DEF HandleInv
    <2>3. CASE handles[h].active # C!NoStack
      <3>1. handles[h].active.project \in Projects /\ handles[h].active.project # C!P
        BY <1>1, <2>1, <2>3, Nothing DEF StackInv, WorksInv, WorkInv, HandleInv, C!P
      <3>2. Connected(handles[h].active) => Connected(handles[h].active)'
        BY <3>1 DEF Connected
      <3> QED
        BY <2>1, <2>3, <3>1, <3>2 DEF HandleInv
    <2> QED
      BY <2>2, <2>3
  <1>2. ASSUME NEW g \in Slots, NEW h \in Slots, C!Object(g), C!Object(h), g # h  PROVE Apart(g, h)'
    BY <1>2 DEF StackInv, HandlesInv, Apart
  <1> QED
    BY <1>1, <1>2 DEF HandlesInv, C!Object

LEMMA OthersKept ==
  ASSUME C!ComposeAssumption, StackInv, Within, NEW p \in Projects, p # C!P
  PROVE  LeftInv(p)'
  <1>1. LeftInv(p)
    BY DEF StackInv, ProjectsInv
  <1>2. /\ UNCHANGED <<handles, files>> /\ filters \subseteq filters' /\ failed[p] \subseteq failed'[p]
        /\ services'[p] = services[p] /\ on'[p] = on[p] /\ nets'[p] = nets[p] /\ relays'[p] = relays[p]
    BY DEF Within
  <1>3. ~Current(p) /\ (C!Containers(p)' <=> C!Containers(p)) /\ (Used(p)' <=> Used(p))
    BY <1>2 DEF Current, C!Containers, Used, Runs, C!Object
  <1>4. \A r \in relays'[p] : \/ "sweep" \in failed'[p]
                              \/ \E h \in Slots : Runs(h, p)' /\ r = handles'[h].active.ambassador
    BY <1>1, <1>2, <1>3 DEF LeftInv, Runs, C!Object
  <1> QED
    BY <1>1, <1>2, <1>3, <1>4 DEF LeftInv, C!Object

LEMMA Progress ==
  ASSUME C!ComposeAssumption, StackInv, Within, StackTyped', WorkInv', \A p \in Projects : CliInv(p)',
         \A p \in Projects : p = C!P => LeftInv(p)'
  PROVE  StackInv'
  <1>1. HandlesInv'
    BY HandlesKept DEF Within
  <1>2. \A p \in Projects : LeftInv(p)'
    BY OthersKept
  <1> QED
    BY <1>1, <1>2 DEF StackInv, WorksInv, ProjectsInv

LEMMA CliKept ==
  ASSUME C!ComposeAssumption, StackInv, Within, UNCHANGED cli, work.pc # "copy",
         C!P # None => C!P' = C!P /\ work'.stack = work.stack
  PROVE  \A p \in Projects : CliInv(p)'
  <1> TAKE p \in Projects
  <1>1. CliInv(p) /\ p # None /\ failed[p] \subseteq failed'[p] /\ UNCHANGED handles /\ ~C!Idle /\ ~C!Idle'
    BY Fields DEF StackInv, ProjectsInv, Within
  <1> QED
    BY <1>1 DEF CliInv, Current, Runs, C!Object

\* The project in hand is nobody else's, and keeps what it has.
LEMMA InHandKept ==
  ASSUME C!ComposeAssumption, StackInv, Within, C!P' = C!P, work'.stack.ambassador = work.stack.ambassador,
         NEW p \in Projects, p = C!P,
         relays'[p] \subseteq relays[p], work'.pc \notin {"sweep", "release"},
         C!Containers(p)' \/ nets'[p] # {} => p \in filters'
  PROVE  LeftInv(p)'
  <1>1. LeftInv(p)
    BY DEF StackInv, ProjectsInv
  <1>2. /\ UNCHANGED <<handles, files>> /\ failed[p] \subseteq failed'[p] /\ Current(p)'
        /\ Current(p) <=> Current(p)'
    BY DEF Within, Current
  <1>3. \A r \in relays'[p] : \/ "sweep" \in failed'[p]
                              \/ Current(p)' /\ r = work'.stack.ambassador
                              \/ \E h \in Slots : Runs(h, p)' /\ r = handles'[h].active.ambassador
    BY <1>1, <1>2 DEF LeftInv, Runs, C!Object
  <1> QED
    BY <1>1, <1>2, <1>3 DEF LeftInv, C!Object

-----------------------------------------------------------------------------
(* start().                                                                *)

LEMMA ThrowWork ==
  ASSUME C!ComposeAssumption, StackInv, work.pc \in Starting, C!Throw
  PROVE  WorkInv' /\ ~C!Idle' /\ ~C!Idle
  <1>1. ~C!Idle /\ WorkInv
    BY DEF C!Idle, Starting, StackInv, WorksInv
  <1>2. /\ work'.pc = "relay" /\ work'.h = work.h /\ work'.g = work.g
        /\ work'.stack = work.stack /\ work'.then = "idle" /\ C!P' = C!P /\ UNCHANGED handles
    BY Throwing DEF StackInv
  <1> QED
    BY <1>1, <1>2 DEF WorkInv, C!Object, Starting, Registered, Destroying, C!Idle

\* A client has been made: the stack in hand is the object's own, and nobody runs it.
LEMMA BuiltWork ==
  ASSUME C!ComposeAssumption, StackInv, work.pc \in {"client", "copy"}, NEW client \in {"local", "cli"}, C!Built(client)
  PROVE  /\ WorkInv' /\ ~C!Idle /\ ~C!Idle' /\ work' \in C!Work /\ UNCHANGED handles
         /\ C!P = None /\ C!P' = handles[work.h].project /\ work'.stack.client = client /\ work'.pc = "register"
  <1> DEFINE o == handles[work.h]
  <1>1. /\ ~C!Idle /\ WorkInv /\ work.stack = C!NoStack /\ C!P = None /\ o \in C!Handle /\ o.project \in Projects
        /\ o.active = C!NoStack /\ o.temp \in Projects \cup {None}
    BY Fields, Nothing DEF C!Idle, Starting, StackInv, WorksInv, WorkInv, C!P
  <1>2. /\ UNCHANGED handles /\ work' \in C!Work /\ work'.pc = "register" /\ work'.h = work.h /\ work'.g = work.g
        /\ work'.then = work.then
        /\ work'.stack = [project |-> o.project, client |-> client, file |-> o.temp, ambassador |-> C!NoRelay]
    BY ZenonT(60), <1>1 DEF C!Built, C!Following, StackInv, StackTyped, C!Work, C!Steps, C!Stack
  <1>3. /\ C!P' = o.project /\ work'.stack # C!NoStack /\ work'.stack.project = o.project /\ work'.stack.client = client
        /\ work'.stack.file = o.temp /\ work'.stack.ambassador = C!NoRelay
    BY <1>1, <1>2, Nothing DEF C!P
  <1>4. \A g \in Slots : C!Object(g) => /\ handles[g].active.project # o.project
                                        /\ g # work.h => handles[g].project # o.project
    <2>1. o.project # None /\ work.h \in Slots /\ C!Object(work.h)
      BY <1>1, Fields DEF StackInv, WorkInv
    <2> QED
      BY <1>1, <2>1, Nothing DEF StackInv, HandlesInv, Apart
  <1>5. WorkInv'
    <2>1. /\ handles' = handles /\ work'.pc = "register" /\ work'.h = work.h /\ work'.g = work.g
          /\ work'.then = work.then
      BY <1>2
    <2>2. C!Object(work.h) /\ C!Object(work.g) /\ (work.then = "assign" => work.h # work.g)
      BY <1>1 DEF WorkInv
    <2>3. o.project # None
      BY <1>1, Fields DEF StackInv
    <2>4. /\ handles'[work'.h].project = o.project /\ handles'[work'.h].temp = o.temp
          /\ handles'[work'.h].active = C!NoStack
      BY <1>1, <2>1
    <2>5. C!Object(work.h)' /\ C!Object(work.g)' /\ (work'.then = "assign" => work'.h # work'.g)
      BY <2>1, <2>2 DEF C!Object
    <2>6. \A g \in Slots : C!Object(g)' => /\ handles'[g].active.project # C!P'
                                           /\ g # work'.h => handles'[g].project # C!P'
      BY <1>3, <1>4, <2>1 DEF C!Object
    <2> HIDE DEF o
    <2> QED
      BY <1>3, <2>1, <2>3, <2>4, <2>5, <2>6 DEF WorkInv, C!Object, Starting, Registered, Destroying
  <1> QED
    BY <1>1, <1>2, <1>3, <1>5 DEF C!Idle

LEMMA MakeClientStep ==
  ASSUME C!ComposeAssumption, StackInv, C!MakeClient
  PROVE  StackInv'
  <1> DEFINE name == handles[work.h].project
  <1>1. /\ work.pc = "client" /\ ~C!Idle /\ WorkInv /\ work.stack = C!NoStack /\ C!P = None
        /\ name \in Projects /\ UNCHANGED <<files, filters, services, on, nets, relays, failed>>
    BY Fields, Nothing DEF C!MakeClient, C!At, C!Idle, Starting, StackInv, WorksInv, WorkInv, C!P
  <1>2. CASE C!Built("local") /\ UNCHANGED cli
    <2>1. /\ WorkInv' /\ ~C!Idle' /\ work' \in C!Work /\ UNCHANGED handles
      BY <1>1, <1>2, BuiltWork
    <2>2. Within /\ StackTyped'
      BY <1>1, <1>2, <2>1 DEF Within, StackInv, StackTyped
    <2> QED
      BY <1>1, <1>2, <2>1, <2>2, CliKept, Progress, Fields DEF StackInv
  <1>3. CASE C!Throw /\ UNCHANGED cli
    <2>1. WorkInv' /\ ~C!Idle' /\ work' \in C!Work /\ UNCHANGED handles
      BY <1>1, <1>3, ThrowWork, Throwing DEF StackInv, Starting
    <2>2. Within /\ StackTyped'
      BY <1>1, <1>3, <2>1 DEF Within, StackInv, StackTyped
    <2> QED
      BY <1>1, <1>3, <2>1, <2>2, CliKept, Progress, Fields DEF StackInv
  <1>4. CASE C!Goto("copy") /\ cli' = cli \cup {name}
    <2>1. /\ work' \in C!Work /\ work'.pc = "copy" /\ work'.h = work.h /\ work'.g = work.g
          /\ work'.stack = work.stack /\ work'.then = work.then /\ C!P' = C!P /\ UNCHANGED handles
      BY <1>4, Going DEF StackInv, C!Steps
    <2>2. Within /\ StackTyped'
      BY <1>1, <1>4, <2>1 DEF Within, StackInv, StackTyped, C!Idle
    <2>3. WorkInv'
      BY <1>1, <2>1 DEF WorkInv, C!Object, Starting, Registered, Destroying
    <2>4. \A p \in Projects : CliInv(p)'
      <3> TAKE p \in Projects
      <3>1. CliInv(p) /\ ~Current(p) /\ failed'[p] = failed[p] /\ UNCHANGED handles
        BY <1>1, <2>1, Fields DEF StackInv, ProjectsInv, Current
      <3> QED
        BY <1>1, <1>4, <2>1, <3>1 DEF CliInv, Runs, C!Object
    <2> QED
      BY <1>1, <2>2, <2>3, <2>4, Progress, Fields DEF StackInv
  <1> QED
    BY <1>2, <1>3, <1>4 DEF C!MakeClient

LEMMA CopyFilesStep ==
  ASSUME C!ComposeAssumption, StackInv, C!CopyFiles
  PROVE  StackInv'
  <1> DEFINE name == handles[work.h].project
  <1>1. /\ work.pc = "copy" /\ ~C!Idle /\ WorkInv /\ work.stack = C!NoStack /\ C!P = None
        /\ name \in Projects /\ UNCHANGED <<files, filters, services, on, nets, relays>>
    BY Fields, Nothing DEF C!CopyFiles, C!At, C!Idle, Starting, StackInv, WorksInv, WorkInv, C!P
  <1>2. \A p \in Projects : ~Current(p) /\ CliInv(p)
    BY <1>1, Fields DEF Current, StackInv, ProjectsInv
  <1>3. CASE C!Built("cli") /\ UNCHANGED <<cli, failed>>
    <2>1. /\ WorkInv' /\ ~C!Idle' /\ work' \in C!Work /\ UNCHANGED handles
          /\ C!P' = name /\ work'.stack.client = "cli"
      BY <1>1, <1>3, BuiltWork
    <2>2. Within /\ StackTyped'
      BY <1>1, <1>3, <2>1 DEF Within, StackInv, StackTyped
    <2>3. \A p \in Projects : CliInv(p)'
      BY <1>2, <1>3, <2>1 DEF CliInv, Current, Runs, C!Object
    <2> QED
      BY <1>1, <2>1, <2>2, <2>3, Progress, Fields DEF StackInv
  <1>4. CASE /\ C!Throw
             /\ \/ cli' = cli \ {name} /\ UNCHANGED failed
                \/ C!FailOf(name, "cli") /\ UNCHANGED cli
    <2>1. WorkInv' /\ ~C!Idle' /\ work' \in C!Work /\ UNCHANGED handles
      BY <1>1, <1>4, ThrowWork, Throwing DEF StackInv, Starting
    <2>2. /\ failed' \in [Projects -> SUBSET C!Failures] /\ \A p \in Projects : failed[p] \subseteq failed'[p]
          /\ cli' \subseteq cli /\ (name \in cli' => "cli" \in failed'[name])
      <3>1. CASE UNCHANGED failed
        BY <1>1, <1>4, <3>1, Failing DEF StackInv, StackTyped, C!Failures
      <3>2. CASE C!FailOf(name, "cli") /\ UNCHANGED cli
        BY <1>1, <3>2, Failing DEF StackInv, C!Failures
      <3> QED
        BY <1>4, <3>1, <3>2
    <2>3. Within /\ StackTyped'
      BY <1>1, <1>4, <2>1, <2>2 DEF Within, StackInv, StackTyped
    <2>4. \A p \in Projects : CliInv(p)'
      BY <1>1, <1>2, <2>1, <2>2 DEF CliInv, Runs, C!Object
    <2> QED
      BY <1>1, <2>1, <2>3, <2>4, Progress, Fields DEF StackInv
  <1> QED
    BY <1>3, <1>4 DEF C!CopyFiles

\* Inside start(), with a client: the stack in hand.
LEMMA Building ==
  ASSUME C!ComposeAssumption, StackInv, work.pc \in Starting \ {"client", "copy"}
  PROVE  /\ ~C!Idle /\ WorkInv /\ C!P \in Projects /\ C!P # None /\ work.stack # C!NoStack /\ LeftInv(C!P)
         /\ (C!P \in filters \/ work.pc = "register") /\ work.pc # "copy"
  <1>1. ~C!Idle /\ WorkInv /\ work.pc # "copy"
    BY DEF C!Idle, Starting, StackInv, WorksInv
  <1>2. work.stack # C!NoStack /\ C!P # None
    BY <1>1 DEF WorkInv, C!P
  <1>3. C!P \in Projects
    BY <1>2, Fields DEF StackInv
  <1> QED
    BY <1>1, <1>2, <1>3 DEF WorkInv, Starting, Registered, StackInv, ProjectsInv

\* A step of start() fails, which has made nothing that is not under a filter.
LEMMA ThrowsInBuilding ==
  ASSUME C!ComposeAssumption, StackInv, work.pc \in Starting \ {"client", "copy"}, C!Throw, StackTyped',
         UNCHANGED <<files, filters, cli, relays, failed>>,
         \A p \in Projects : p # C!P => /\ services'[p] = services[p] /\ on'[p] = on[p] /\ nets'[p] = nets[p],
         C!P \in filters \/ UNCHANGED <<services, nets>>
  PROVE  StackInv'
  <1>1. /\ ~C!Idle /\ WorkInv /\ C!P \in Projects /\ C!P # None /\ LeftInv(C!P) /\ work.pc # "copy"
        /\ WorkInv' /\ ~C!Idle'
    BY Building, ThrowWork DEF Starting
  <1>2. work'.pc = "relay" /\ work'.stack = work.stack /\ C!P' = C!P /\ UNCHANGED handles
    BY Throwing DEF StackInv
  <1>3. Within
    BY <1>1, <1>2 DEF Within
  <1>4. \A p \in Projects : p = C!P => LeftInv(p)'
    <2>1. C!Containers(C!P)' \/ nets'[C!P] # {} => C!P \in filters'
      BY <1>1, <1>2 DEF LeftInv, C!Containers
    <2> QED
      BY <1>1, <1>2, <1>3, <2>1, InHandKept DEF C!Containers
  <1>5. \A p \in Projects : CliInv(p)'
    BY <1>1, <1>2, <1>3, CliKept
  <1> QED
    BY <1>1, <1>3, <1>4, <1>5, Progress

LEMMA RegisterFilterStep ==
  ASSUME C!ComposeAssumption, StackInv, C!RegisterFilter
  PROVE  StackInv'
  <1>1. /\ work.pc = "register" /\ work.pc \in Starting \ {"client", "copy"}
        /\ UNCHANGED <<files, cli, services, on, nets, relays, failed>>
    BY DEF C!RegisterFilter, C!At, Starting
  <1>2. /\ ~C!Idle /\ WorkInv /\ C!P \in Projects /\ LeftInv(C!P) /\ StackTyped
    BY <1>1, Building DEF StackInv
  <1>3. CASE C!Goto("up") /\ filters' = filters \cup {C!P}
    <2>1. /\ work' \in C!Work /\ work'.pc = "up" /\ work'.h = work.h /\ work'.g = work.g
          /\ work'.stack = work.stack /\ work'.then = work.then /\ C!P' = C!P /\ UNCHANGED handles
      BY <1>2, <1>3, Going DEF C!Steps
    <2>2. Within /\ StackTyped'
      BY <1>1, <1>2, <1>3, <2>1 DEF Within, StackTyped, C!Idle
    <2>3. WorkInv'
      BY <1>1, <1>2, <1>3, <2>1 DEF WorkInv, C!Object, Starting, Registered, Destroying
    <2>4. \A p \in Projects : p = C!P => LeftInv(p)'
      BY <1>1, <1>2, <1>3, <2>1, <2>2, InHandKept DEF C!Containers
    <2>5. \A p \in Projects : CliInv(p)'
      BY <1>1, <2>1, <2>2, CliKept
    <2> QED
      BY <2>2, <2>3, <2>4, <2>5, Progress
  <1>4. CASE C!Throw /\ UNCHANGED filters
    <2>1. StackTyped'
      BY <1>1, <1>2, <1>4, Throwing DEF StackTyped
    <2> QED
      BY <1>1, <1>4, <2>1, ThrowsInBuilding
  <1> QED
    BY <1>3, <1>4 DEF C!RegisterFilter, C!Following

LEMMA StackUpStep ==
  ASSUME C!ComposeAssumption, StackInv, C!Up
  PROVE  StackInv'
  <1>1. /\ work.pc = "up" /\ work.pc \in Starting \ {"client", "copy"}
        /\ UNCHANGED <<files, filters, cli, relays, failed>>
    BY DEF C!Up, C!At, Starting
  <1>2. /\ ~C!Idle /\ WorkInv /\ C!P \in Projects /\ LeftInv(C!P) /\ StackTyped /\ C!P \in filters
    BY <1>1, Building DEF StackInv
  <1>3. CASE C!Throw /\ UNCHANGED <<services, on, nets>>
    <2>1. StackTyped'
      BY <1>1, <1>2, <1>3, Throwing DEF StackTyped
    <2> QED
      BY <1>1, <1>3, <2>1, ThrowsInBuilding
  <1>4. ASSUME nets' = [nets EXCEPT ![C!P] = StackNets],
               NEW place \in Placements, NEW ss \in SUBSET Services, NEW created, created = services[C!P] \cup ss,
               services' = [services EXCEPT ![C!P] = created],
               on' = [on EXCEPT ![C!P] = [s \in Services |->
                        IF s \in services[C!P] THEN @[s] ELSE IF s \in created THEN place[s] ELSE {}]],
               (created = Services /\ C!Goto("discover")) \/ C!Throw
        PROVE  StackInv'
    <2>1. /\ services' \in [Projects -> SUBSET Services] /\ on' \in [Projects -> [Services -> SUBSET StackNets]]
          /\ nets' \in [Projects -> SUBSET StackNets] /\ services'[C!P] = created
          /\ \A p \in Projects : p # C!P => /\ services'[p] = services[p] /\ on'[p] = on[p] /\ nets'[p] = nets[p]
      <3>1. created \subseteq Services /\ place \in [Services -> SUBSET StackNets]
        BY <1>2, <1>4 DEF StackTyped, C!ComposeAssumption
      <3> DEFINE O == [s \in Services |->
                         IF s \in services[C!P] THEN on[C!P][s] ELSE IF s \in created THEN place[s] ELSE {}]
      <3>2. O \in [Services -> SUBSET StackNets]
        BY <1>2, <3>1 DEF StackTyped
      <3>3. on' = [on EXCEPT ![C!P] = O]
        BY <1>4
      <3> HIDE DEF O
      <3> QED
        BY <1>2, <1>4, <3>1, <3>2, <3>3 DEF StackTyped
    <2>2. CASE C!Throw
      <3>1. StackTyped'
        BY <1>1, <1>2, <2>1, <2>2, Throwing DEF StackTyped
      <3> QED
        BY <1>1, <1>2, <2>1, <2>2, <3>1, ThrowsInBuilding
    <2>3. CASE created = Services /\ C!Goto("discover")
      <3>1. /\ work' \in C!Work /\ work'.pc = "discover" /\ work'.h = work.h /\ work'.g = work.g
            /\ work'.stack = work.stack /\ work'.then = work.then /\ C!P' = C!P /\ UNCHANGED handles
        BY <1>2, <2>3, Going DEF C!Steps
      <3>2. Within /\ StackTyped'
        BY <1>1, <1>2, <2>1, <3>1 DEF Within, StackTyped, C!Idle
      <3>3. WorkInv'
        BY <1>1, <1>2, <2>1, <2>3, <3>1 DEF WorkInv, C!Object, Starting, Registered, Destroying
      <3>4. \A p \in Projects : p = C!P => LeftInv(p)'
        BY <1>1, <1>2, <3>1, <3>2, InHandKept
      <3>5. \A p \in Projects : CliInv(p)'
        BY <1>1, <3>1, <3>2, CliKept
      <3> QED
        BY <3>2, <3>3, <3>4, <3>5, Progress
    <2> QED
      BY <1>4, <2>2, <2>3
  <1> QED
    BY <1>3, <1>4 DEF C!Up, C!Following

LEMMA DiscoverStep ==
  ASSUME C!ComposeAssumption, StackInv, C!Discover
  PROVE  StackInv'
  <1>1. work.pc = "discover" /\ work.pc \in Starting \ {"client", "copy"} /\ UNCHANGED C!world
    BY DEF C!Discover, C!At, Starting
  <1>2. /\ ~C!Idle /\ WorkInv /\ C!P \in Projects /\ LeftInv(C!P) /\ StackTyped
        /\ UNCHANGED <<files, filters, cli, services, on, nets, relays, failed>>
    BY <1>1, Building DEF StackInv, C!world
  <1>3. CASE C!Throw
    <2>1. StackTyped'
      BY <1>1, <1>2, <1>3, Throwing DEF StackTyped
    <2> QED
      BY <1>1, <1>2, <1>3, <2>1, ThrowsInBuilding
  <1>4. ASSUME NEW to \in {"adopt", "ambassador"}, C!Goto(to), to = "adopt" => Targets = {}
        PROVE  StackInv'
    <2>1. /\ work' \in C!Work /\ work'.pc = to /\ work'.h = work.h /\ work'.g = work.g
          /\ work'.stack = work.stack /\ work'.then = work.then /\ C!P' = C!P /\ UNCHANGED handles
      BY <1>2, <1>4, Going DEF C!Steps
    <2>2. Within /\ StackTyped'
      BY <1>1, <1>2, <1>4, <2>1 DEF Within, StackTyped, C!Idle
    <2>3. WorkInv'
      BY <1>1, <1>2, <1>4, <2>1 DEF WorkInv, C!Object, Starting, Registered, Destroying
    <2>4. \A p \in Projects : p = C!P => LeftInv(p)'
      BY <1>1, <1>2, <1>4, <2>1, <2>2, InHandKept, Building DEF C!Containers
    <2>5. \A p \in Projects : CliInv(p)'
      BY <1>1, <1>2, <2>1, <2>2, CliKept
    <2> QED
      BY <2>2, <2>3, <2>4, <2>5, Progress
  <1> QED
    BY <1>3, <1>4 DEF C!Discover

LEMMA AmbassadorStep ==
  ASSUME C!ComposeAssumption, StackInv, C!Ambassador
  PROVE  StackInv'
  <1>1. /\ work.pc = "ambassador" /\ work.pc \in Starting \ {"client", "copy"}
        /\ UNCHANGED <<handles, files, filters, cli, services, on, nets, failed>>
    BY DEF C!Ambassador, C!At, Starting
  <1>2. /\ ~C!Idle /\ WorkInv /\ C!P \in Projects /\ LeftInv(C!P) /\ StackTyped /\ C!P \in filters
    BY <1>1, Building DEF StackInv
  <1>3. CASE C!Throw /\ UNCHANGED relays
    <2>1. StackTyped'
      BY <1>1, <1>2, <1>3, Throwing DEF StackTyped
    <2> QED
      BY <1>1, <1>2, <1>3, <2>1, ThrowsInBuilding
  <1>4. ASSUME NEW n \in nets[C!P], NEW l \in 1..MaxRelays, NEW new, new = [id |-> l, net |-> n],
               C!HoldsAll(n), relays' = [relays EXCEPT ![C!P] = @ \cup {new}],
               work' = [work EXCEPT !.pc = "launch", !.stack.ambassador = new]
        PROVE  StackInv'
    <2>1. new \in C!Relay
      BY <1>2, <1>4 DEF StackTyped, C!Relay
    <2>2. /\ work' \in C!Work /\ work'.pc = "launch" /\ work'.h = work.h /\ work'.g = work.g
          /\ work'.stack.ambassador = new /\ work'.stack.project = work.stack.project
          /\ work'.stack.client = work.stack.client /\ work'.stack.file = work.stack.file
          /\ work'.then = work.then /\ C!P' = C!P
      BY <1>2, <1>4, <2>1 DEF StackTyped, C!Work, C!Stack, C!P, C!Steps
    <2>3. /\ relays' \in [Projects -> SUBSET C!Relay] /\ relays'[C!P] = relays[C!P] \cup {new}
          /\ \A p \in Projects : p # C!P => relays'[p] = relays[p]
      BY <1>2, <1>4, <2>1 DEF StackTyped
    <2>4. Within /\ StackTyped'
      BY <1>1, <1>2, <2>2, <2>3 DEF Within, StackTyped, C!Idle
    <2>5. work'.stack # C!NoStack /\ C!P # None /\ work.stack # C!NoStack
      BY <1>1, <1>2, <2>2, Building, Nothing DEF C!P
    <2>6. Connected(work.stack)'
      BY <1>1, <1>2, <1>4, <2>2, <2>3 DEF Connected, C!HoldsAll, C!P
    <2>7. WorkInv'
      BY <1>1, <1>2, <2>2, <2>5, <2>6 DEF WorkInv, C!Object, Starting, Registered, Destroying, C!P
    <2>8. \A p \in Projects : p = C!P => LeftInv(p)'
      <3>1. work.stack.ambassador = C!NoRelay /\ C!NoRelay \notin relays[C!P]
        BY <1>1, <1>2 DEF WorkInv, StackTyped, C!NoRelay, C!Relay
      <3>2. \A r \in relays'[C!P] : \/ "sweep" \in failed'[C!P]
                                    \/ Current(C!P)' /\ r = work'.stack.ambassador
                                    \/ \E h \in Slots : Runs(h, C!P)' /\ r = handles'[h].active.ambassador
        <4>1. Current(C!P)'
          BY <1>2, <2>2 DEF Current, C!Idle
        <4> QED
          BY <1>1, <1>2, <2>2, <2>3, <3>1, <4>1 DEF LeftInv, Runs, C!Object
      <3> QED
        BY <1>1, <1>2, <2>2, <2>3, <3>2 DEF LeftInv, Current, C!Idle, C!Object, C!Containers, Used, Runs
    <2>9. \A p \in Projects : CliInv(p)'
      <3> TAKE p \in Projects
      <3>1. CliInv(p)
        BY DEF StackInv, ProjectsInv
      <3> QED
        BY <1>1, <2>2, <3>1 DEF CliInv, Current, C!Idle, Runs, C!Object
    <2> QED
      BY <1>2, <2>4, <2>7, <2>8, <2>9, Progress
  <1> QED
    BY <1>3, <1>4 DEF C!Ambassador

LEMMA LaunchStep ==
  ASSUME C!ComposeAssumption, StackInv, C!Launch
  PROVE  StackInv'
  <1>1. work.pc = "launch" /\ work.pc \in Starting \ {"client", "copy"} /\ UNCHANGED C!world
    BY DEF C!Launch, C!At, Starting
  <1>2. /\ ~C!Idle /\ WorkInv /\ C!P \in Projects /\ LeftInv(C!P) /\ StackTyped
        /\ UNCHANGED <<files, filters, cli, services, on, nets, relays, failed>>
    BY <1>1, Building DEF StackInv, C!world
  <1>3. CASE C!Throw
    <2>1. StackTyped'
      BY <1>1, <1>2, <1>3, Throwing DEF StackTyped
    <2> QED
      BY <1>1, <1>2, <1>3, <2>1, ThrowsInBuilding
  <1>4. CASE C!Goto("adopt")
    <2>1. /\ work' \in C!Work /\ work'.pc = "adopt" /\ work'.h = work.h /\ work'.g = work.g
          /\ work'.stack = work.stack /\ work'.then = work.then /\ C!P' = C!P /\ UNCHANGED handles
      BY <1>2, <1>4, Going DEF C!Steps
    <2>2. Within /\ StackTyped'
      BY <1>1, <1>2, <1>4, <2>1 DEF Within, StackTyped, C!Idle
    <2>3. WorkInv'
      BY <1>1, <1>2, <2>1 DEF WorkInv, C!Object, Starting, Registered, Destroying, Connected
    <2>4. \A p \in Projects : p = C!P => LeftInv(p)'
      BY <1>1, <1>2, <2>1, <2>2, InHandKept, Building DEF C!Containers
    <2>5. \A p \in Projects : CliInv(p)'
      BY <1>1, <1>2, <2>1, <2>2, CliKept
    <2> QED
      BY <2>2, <2>3, <2>4, <2>5, Progress
  <1> QED
    BY <1>3, <1>4 DEF C!Launch

\* The new stack is the object's, which has had none.
LEMMA AdoptStep ==
  ASSUME C!ComposeAssumption, StackInv, C!Adopt, NEW h, h = work.h
  PROVE  StackInv'
  <1> DEFINE new == [handles[h] EXCEPT !.active = work.stack]
  <1>1. work.pc = "adopt" /\ work.pc \in Starting \ {"client", "copy"} /\ UNCHANGED C!world
    BY DEF C!Adopt, C!At, Starting
  <1>2. /\ ~C!Idle /\ WorkInv /\ C!P \in Projects /\ C!P # None /\ work.stack # C!NoStack /\ StackTyped /\ C!P \in filters
        /\ UNCHANGED <<files, filters, cli, services, on, nets, relays, failed>>
        /\ h \in Slots /\ C!Object(h) /\ handles[h] \in C!Handle /\ handles[h].active = C!NoStack
        /\ work.stack \in C!Stack /\ work.stack.project = C!P /\ handles[h].project = C!P
    BY <1>1, Building, Fields DEF StackInv, WorkInv, C!world, Starting
  <1>3. /\ handles' = [handles EXCEPT ![h] = new]
        /\ work' = [pc |-> "wait", h |-> h, g |-> h, stack |-> C!NoStack, then |-> "wait"]
    BY <1>1, <1>2, Nothing DEF C!Adopt, C!Teardown
  <1>4. /\ new \in C!Handle /\ new.project = C!P /\ new.temp = handles[h].temp /\ new.active = work.stack
        /\ handles' \in [Slots -> C!Handle \cup {Void}]
        /\ \A x \in Slots : handles'[x] = IF x = h THEN new ELSE handles[x]
    BY <1>2, <1>3 DEF C!Handle, StackTyped
  <1>5. /\ work' \in C!Work /\ work'.pc = "wait" /\ work'.h = h /\ work'.g = h /\ work'.stack = C!NoStack
        /\ work'.then = "wait" /\ C!P' = None
    BY <1>2, <1>3, Nothing DEF C!Work, C!Steps, C!P
  <1>6. \A x \in Slots : C!Object(x)' <=> C!Object(x)
    BY <1>2, <1>4 DEF C!Object, C!ComposeAssumption
  <1> HIDE DEF new
  <1>7. StackTyped'
    BY <1>2, <1>4, <1>5 DEF StackTyped
  <1>8. HandlesInv'
    <2>1. ASSUME NEW x \in Slots, C!Object(x)  PROVE HandleInv(x)'
      <3>1. HandleInv(x)
        BY <2>1 DEF StackInv, HandlesInv
      <3>2. CASE x = h
        BY <1>1, <1>2, <1>4, <3>1, <3>2 DEF HandleInv, WorkInv, Registered, Connected
      <3>3. CASE x # h
        BY <1>2, <1>4, <3>1, <3>3 DEF HandleInv, Connected
      <3> QED
        BY <3>2, <3>3
    <2>2. ASSUME NEW x \in Slots, NEW y \in Slots, C!Object(x), C!Object(y), x # y  PROVE Apart(x, y)'
      <3>1. /\ Apart(x, y) /\ handles[x].active.project # C!P /\ handles[y].active.project # C!P
            /\ (x # h => handles[x].project # C!P) /\ (y # h => handles[y].project # C!P)
        BY <1>2, <2>2 DEF StackInv, HandlesInv, WorkInv
      <3> QED
        BY <1>2, <1>4, <2>2, <3>1 DEF Apart
    <2> QED
      BY <1>6, <2>1, <2>2 DEF HandlesInv
  <1>9. WorkInv'
    BY <1>1, <1>2, <1>5, <1>6 DEF WorkInv, Starting, Registered, Destroying, C!Object
  <1>10. ASSUME NEW p \in Projects  PROVE LeftInv(p)' /\ CliInv(p)'
    <2>1. LeftInv(p) /\ CliInv(p) /\ p # None
      BY <1>2, Fields DEF StackInv, ProjectsInv
    <2>2. /\ \A x \in Slots : Runs(x, p) => Runs(x, p)' /\ handles'[x].active = handles[x].active
          /\ p = C!P => Runs(h, p)' /\ handles'[h].active = work.stack
      BY <1>2, <1>4, <1>6, <2>1, Nothing DEF Runs
    <2>3. Current(p) => Runs(h, p)' /\ handles'[h].active = work.stack
      BY <2>2 DEF Current
    <2>4. p \in files' => \E x \in Slots : C!Object(x)' /\ handles'[x].temp = p
      <3> SUFFICES ASSUME p \in files  PROVE \E x \in Slots : C!Object(x)' /\ handles'[x].temp = p
        BY <1>2
      <3>1. PICK x \in Slots : C!Object(x) /\ handles[x].temp = p
        BY <2>1 DEF LeftInv
      <3> QED
        BY <1>4, <1>6, <3>1
    <2>5. \A r \in relays'[p] : \/ "sweep" \in failed'[p]
                                \/ \E x \in Slots : Runs(x, p)' /\ r = handles'[x].active.ambassador
      <3> SUFFICES ASSUME NEW r \in relays[p], "sweep" \notin failed[p]
                   PROVE  \E x \in Slots : Runs(x, p)' /\ r = handles'[x].active.ambassador
        BY <1>2
      <3>1. CASE Current(p) /\ r = work.stack.ambassador
        BY <1>2, <2>3, <3>1
      <3>2. CASE \E x \in Slots : Runs(x, p) /\ r = handles[x].active.ambassador
        BY <2>2, <3>2
      <3> QED
        BY <2>1, <3>1, <3>2 DEF LeftInv
    <2>6. Used(p) \/ Current(p) => Used(p)'
      BY <1>2, <2>2, <2>3 DEF Used
    <2>7. LeftInv(p)'
      BY <1>2, <2>1, <2>4, <2>5, <2>6 DEF LeftInv, C!Containers
    <2>8. CliInv(p)'
      <3>1. CASE Current(p)
        BY <1>1, <1>2, <2>1, <2>2, <2>3, <3>1 DEF CliInv
      <3>2. CASE ~Current(p)
        BY <1>1, <1>2, <2>1, <2>2, <3>2 DEF CliInv
      <3> QED
        BY <3>1, <3>2
    <2> QED
      BY <2>7, <2>8
  <1> QED
    BY <1>7, <1>8, <1>9, <1>10 DEF StackInv, WorksInv, ProjectsInv

\* An operation ends that has no stack in hand.
LEMMA AwaitPortsStep ==
  ASSUME C!ComposeAssumption, StackInv, C!AwaitPorts
  PROVE  StackInv'
  <1>1. /\ work.pc = "wait" /\ work' = C!NoWork /\ ~C!Idle /\ work.stack = C!NoStack /\ C!P = None
        /\ UNCHANGED <<handles, files, filters, cli, services, on, nets, relays, failed>>
    BY Nothing DEF C!AwaitPorts, C!At, C!Idle, StackInv, WorksInv, WorkInv, C!world, C!P
  <1>2. C!Idle' /\ StackTyped' /\ work'.pc = "idle"
    BY <1>1, NoWorkTyped DEF StackInv, StackTyped, C!Idle
  <1>3. HandlesInv'
    BY <1>1, HandlesKept
  <1>4. ASSUME NEW p \in Projects  PROVE LeftInv(p)' /\ CliInv(p)'
    <2>1. LeftInv(p) /\ CliInv(p) /\ ~Current(p)
      BY <1>1, Fields DEF StackInv, ProjectsInv, Current
    <2> QED
      BY <1>1, <1>2, <2>1 DEF LeftInv, CliInv, Runs, Used, C!Object, C!Containers
  <1> QED
    BY <1>2, <1>3, <1>4 DEF StackInv, WorksInv, ProjectsInv

-----------------------------------------------------------------------------
(* ~ActiveStack.                                                           *)

\* What is torn down is in hand, and nobody's.
LEMMA InHandAlone ==
  ASSUME C!ComposeAssumption, StackInv, work.pc \in Destroying, C!P # None
  PROVE  /\ ~C!Idle /\ WorkInv /\ C!P \in Projects /\ work.stack # C!NoStack /\ LeftInv(C!P) /\ ~Used(C!P)
         /\ work.stack.client # "none" /\ Current(C!P)
         /\ work.stack.file \in files \cup {None}
  <1>1. ~C!Idle /\ WorkInv /\ C!P \in Projects /\ work.stack # C!NoStack
    BY Fields, Nothing DEF StackInv, WorksInv, C!Idle, Destroying, C!P
  <1>2. ~Used(C!P) /\ work.stack.client # "none" /\ work.stack.file = handles[work.h].temp /\ C!Object(work.h)
    BY <1>1 DEF WorkInv, Used, Runs
  <1>3. HandleInv(work.h)
    BY <1>2, Fields DEF StackInv, HandlesInv
  <1> QED
    BY <1>1, <1>2, <1>3 DEF HandleInv, Current, StackInv, ProjectsInv

LEMMA RemoveRelayStep ==
  ASSUME C!ComposeAssumption, StackInv, C!RemoveRelay
  PROVE  StackInv'
  <1>1. /\ work.pc = "relay" /\ work.pc \in Destroying /\ ~C!Idle /\ WorkInv /\ StackTyped
        /\ UNCHANGED <<files, filters, cli, services, on, nets>>
    BY DEF C!RemoveRelay, C!At, Destroying, C!Idle, StackInv, WorksInv
  <1>2. CASE C!P = None
    <2>1. work.stack = C!NoStack /\ UNCHANGED <<relays, failed>> /\ C!Goto("sweep")
      BY <1>1, <1>2, Nothing DEF C!RemoveRelay, WorkInv, C!P
    <2>2. /\ work' \in C!Work /\ work'.pc = "sweep" /\ work'.h = work.h /\ work'.g = work.g
          /\ work'.stack = work.stack /\ work'.then = work.then /\ C!P' = C!P /\ UNCHANGED handles
      BY <1>1, <2>1, Going
    <2>3. Within /\ StackTyped'
      BY <1>1, <2>1, <2>2 DEF Within, StackTyped, C!Idle
    <2>4. WorkInv'
      BY <1>1, <1>2, <2>1, <2>2 DEF WorkInv, C!Object, Starting, Registered, Destroying
    <2>5. \A p \in Projects : CliInv(p)'
      BY <1>1, <2>2, <2>3, CliKept
    <2> QED
      BY <1>2, <2>3, <2>4, <2>5, Progress, Fields DEF StackInv
  <1>3. CASE C!P # None
    <2>1. /\ C!P \in Projects /\ work.stack # C!NoStack /\ LeftInv(C!P) /\ ~Used(C!P) /\ Current(C!P)
          /\ work.stack.client # "none"
      BY <1>1, <1>3, InHandAlone
    <2>2. C!Goto("down")
      BY <2>1 DEF C!RemoveRelay
    <2>3. /\ work' \in C!Work /\ work'.pc = "down" /\ work'.h = work.h /\ work'.g = work.g
          /\ work'.stack = work.stack /\ work'.then = work.then /\ C!P' = C!P /\ UNCHANGED handles
      BY <1>1, <2>2, Going
    <2>4. /\ relays' \in [Projects -> SUBSET C!Relay] /\ failed' \in [Projects -> SUBSET C!Failures]
          /\ \A p \in Projects : failed[p] \subseteq failed'[p] /\ (p # C!P => relays'[p] = relays[p])
          /\ relays'[C!P] \subseteq relays[C!P]
          /\ "relay" \in failed'[C!P] \/ relays'[C!P] = relays[C!P] \ {work.stack.ambassador}
      <3>1. CASE relays' = [relays EXCEPT ![C!P] = @ \ {work.stack.ambassador}] /\ UNCHANGED failed
        BY <1>1, <2>1, <3>1 DEF StackTyped
      <3>2. CASE C!Fail("relay") /\ UNCHANGED relays
        BY <1>1, <2>1, <3>2, Failing DEF StackTyped, C!Fail, C!Failures
      <3> QED
        BY <1>3, <3>1, <3>2 DEF C!RemoveRelay
    <2>5. Within /\ StackTyped'
      BY <1>1, <2>3, <2>4 DEF Within, StackTyped, C!Idle
    <2>6. relays'[C!P] = {} \/ failed'[C!P] \cap {"relay", "sweep"} # {}
      BY <2>1, <2>4 DEF LeftInv, Used
    <2>7. WorkInv'
      BY <1>1, <2>1, <2>3, <2>6 DEF WorkInv, C!Object, Starting, Registered, Destroying
    <2>8. C!Containers(C!P)' \/ nets'[C!P] # {} => C!P \in filters'
      BY <1>1, <2>1, <2>3, <2>4 DEF LeftInv, C!Containers
    <2>9. \A p \in Projects : p = C!P => LeftInv(p)'
      BY <2>3, <2>4, <2>5, <2>8, InHandKept DEF C!Containers
    <2>10. \A p \in Projects : CliInv(p)'
      BY <1>1, <2>3, <2>5, CliKept
    <2> QED
      BY <2>5, <2>7, <2>9, <2>10, Progress
  <1> QED
    BY <1>2, <1>3

\* compose down finds its definition: the file lives as long as the stack.
LEMMA StackDownStep ==
  ASSUME C!ComposeAssumption, StackInv, C!Down
  PROVE  StackInv'
  <1>1. /\ work.pc = "down" /\ work.pc \in Destroying /\ ~C!Idle /\ WorkInv /\ StackTyped /\ C!Goto("sweep")
        /\ UNCHANGED <<files, filters, cli, relays>>
    BY DEF C!Down, C!At, Destroying, C!Idle, StackInv, WorksInv
  <1>2. C!P # None
    BY <1>1 DEF WorkInv, C!P
  <1>3. /\ C!P \in Projects /\ work.stack # C!NoStack /\ LeftInv(C!P) /\ ~Used(C!P) /\ Current(C!P) /\ C!Found
    BY <1>1, <1>2, InHandAlone DEF C!Found
  <1>4. /\ work' \in C!Work /\ work'.pc = "sweep" /\ work'.h = work.h /\ work'.g = work.g
        /\ work'.stack = work.stack /\ work'.then = work.then /\ C!P' = C!P /\ UNCHANGED handles
    BY <1>1, Going
  <1>5. /\ services' \in [Projects -> SUBSET Services] /\ on' \in [Projects -> [Services -> SUBSET StackNets]]
        /\ nets' \in [Projects -> SUBSET StackNets] /\ failed' \in [Projects -> SUBSET C!Failures]
        /\ \A p \in Projects : /\ failed[p] \subseteq failed'[p]
                               /\ p # C!P => /\ services'[p] = services[p] /\ on'[p] = on[p]
                                             /\ nets'[p] = nets[p]
        /\ services'[C!P] \subseteq services[C!P] /\ nets'[C!P] \subseteq nets[C!P]
        /\ "down" \in failed'[C!P] \/ (nets'[C!P] # {} => relays[C!P] # {})
    <2>1. CASE /\ C!RemoveServices /\ UNCHANGED failed
               /\ nets' = [nets EXCEPT ![C!P] = @ \cap {r.net : r \in relays[C!P]}]
      BY <1>1, <1>3, <2>1 DEF StackTyped, C!RemoveServices
    <2>2. CASE C!Fail("down") /\ UNCHANGED <<services, on, nets>>
      BY <1>1, <1>3, <2>2, Failing DEF StackTyped, C!Fail, C!Failures
    <2> QED
      BY <1>3, <2>1, <2>2 DEF C!Down
  <1>6. Within /\ StackTyped'
    BY <1>1, <1>4, <1>5 DEF Within, StackTyped, C!Idle
  <1>7. WorkInv'
    BY <1>1, <1>3, <1>4 DEF WorkInv, C!Object, Starting, Registered, Destroying
  <1>8. LeftInv(C!P)'
    <2>1. Current(C!P)' /\ (Used(C!P)' <=> Used(C!P))
      BY <1>3, <1>4 DEF Current, C!Idle, Used, Runs, C!Object
    <2>2. C!Containers(C!P)' \/ nets'[C!P] # {} => C!P \in filters
      BY <1>1, <1>3, <1>4, <1>5 DEF LeftInv, C!Containers
    <2>3. nets'[C!P] # {} => failed'[C!P] \cap {"relay", "down", "sweep"} # {}
      BY <1>1, <1>3, <1>5 DEF WorkInv
    <2>4. \A r \in relays'[C!P] : \/ "sweep" \in failed'[C!P]
                                  \/ r = work'.stack.ambassador
      BY <1>1, <1>3, <1>4, <1>5 DEF LeftInv, Used
    <2> QED
      BY <1>1, <1>3, <1>4, <1>5, <2>1, <2>2, <2>3, <2>4 DEF LeftInv, C!Object, C!Containers
  <1>9. \A p \in Projects : CliInv(p)'
    BY <1>1, <1>4, <1>6, CliKept
  <1> QED
    BY <1>4, <1>6, <1>7, <1>8, <1>9, Progress

LEMMA SweepStep ==
  ASSUME C!ComposeAssumption, StackInv, C!Sweep
  PROVE  StackInv'
  <1>1. /\ work.pc = "sweep" /\ work.pc \in Destroying /\ ~C!Idle /\ WorkInv /\ StackTyped /\ C!Goto("release")
        /\ UNCHANGED <<files, filters, cli, nets>>
    BY DEF C!Sweep, C!At, Destroying, C!Idle, StackInv, WorksInv
  <1>2. /\ work' \in C!Work /\ work'.pc = "release" /\ work'.h = work.h /\ work'.g = work.g
        /\ work'.stack = work.stack /\ work'.then = work.then /\ C!P' = C!P /\ UNCHANGED handles
    BY <1>1, Going
  <1>3. CASE C!P = None
    <2>1. work.stack = C!NoStack /\ UNCHANGED <<services, on, relays, failed>>
      BY <1>1, <1>3, Nothing DEF C!Sweep, WorkInv, C!P
    <2>2. Within /\ StackTyped'
      BY <1>1, <1>2, <2>1 DEF Within, StackTyped, C!Idle
    <2>3. WorkInv'
      BY <1>1, <1>2, <1>3, <2>1 DEF WorkInv, C!Object, Starting, Registered, Destroying
    <2>4. \A p \in Projects : CliInv(p)'
      BY <1>1, <1>2, <2>2, CliKept
    <2> QED
      BY <1>3, <2>2, <2>3, <2>4, Progress, Fields DEF StackInv
  <1>4. CASE C!P # None
    <2>1. C!P \in Projects /\ work.stack # C!NoStack /\ LeftInv(C!P) /\ ~Used(C!P) /\ Current(C!P)
      BY <1>1, <1>4, InHandAlone
    <2>2. /\ services' \in [Projects -> SUBSET Services] /\ on' \in [Projects -> [Services -> SUBSET StackNets]]
          /\ relays' \in [Projects -> SUBSET C!Relay] /\ failed' \in [Projects -> SUBSET C!Failures]
          /\ \A p \in Projects : /\ failed[p] \subseteq failed'[p]
                                 /\ p # C!P => /\ services'[p] = services[p] /\ on'[p] = on[p]
                                               /\ relays'[p] = relays[p]
          /\ services'[C!P] \subseteq services[C!P] /\ relays'[C!P] \subseteq relays[C!P]
          /\ "sweep" \in failed'[C!P] \/ (services'[C!P] = {} /\ relays'[C!P] = {})
      <3>1. CASE /\ C!RemoveServices /\ relays' = [relays EXCEPT ![C!P] = {}]
                 /\ UNCHANGED failed
        BY <1>1, <2>1, <3>1 DEF StackTyped, C!RemoveServices
      <3>2. CASE /\ C!Fail("sweep")
                 /\ \/ UNCHANGED <<services, on, relays>>
                    \/ C!RemoveServices /\ UNCHANGED relays
                    \/ relays' = [relays EXCEPT ![C!P] = {}] /\ UNCHANGED <<services, on>>
        <4>1. /\ failed' \in [Projects -> SUBSET C!Failures] /\ "sweep" \in failed'[C!P]
              /\ \A p \in Projects : failed[p] \subseteq failed'[p]
          BY <1>1, <2>1, <3>2, Failing DEF C!Fail, C!Failures
        <4>2. /\ services' \in [Projects -> SUBSET Services] /\ on' \in [Projects -> [Services -> SUBSET StackNets]]
              /\ services'[C!P] \subseteq services[C!P]
              /\ \A p \in Projects : p # C!P => services'[p] = services[p] /\ on'[p] = on[p]
          BY ZenonT(60), <1>1, <2>1, <3>2 DEF StackTyped, C!RemoveServices
        <4>3. /\ relays' \in [Projects -> SUBSET C!Relay] /\ relays'[C!P] \subseteq relays[C!P]
              /\ \A p \in Projects : p # C!P => relays'[p] = relays[p]
          BY <1>1, <2>1, <3>2 DEF StackTyped
        <4> QED
          BY <4>1, <4>2, <4>3
      <3> QED
        BY <1>4, <3>1, <3>2 DEF C!Sweep
    <2>3. Within /\ StackTyped'
      BY <1>1, <1>2, <2>2 DEF Within, StackTyped, C!Idle
    <2>4. WorkInv'
      BY <1>1, <1>2, <2>1, <2>2 DEF WorkInv, C!Object, Starting, Registered, Destroying
    <2>5. LeftInv(C!P)'
      <3>1. Current(C!P)' /\ (Used(C!P)' <=> Used(C!P))
        BY <1>2, <2>1 DEF Current, C!Idle, Used, Runs, C!Object
      <3>2. C!Containers(C!P)' \/ nets'[C!P] # {} => C!P \in filters
        BY <1>1, <1>2, <2>1, <2>2 DEF LeftInv, C!Containers
      <3>3. nets'[C!P] # {} => failed'[C!P] \cap {"relay", "down", "sweep"} # {}
        BY <1>1, <2>1, <2>2 DEF LeftInv
      <3> QED
        BY <1>1, <1>2, <2>1, <2>2, <3>1, <3>2, <3>3 DEF LeftInv, C!Object, C!Containers
    <2>6. \A p \in Projects : CliInv(p)'
      BY <1>1, <1>2, <2>3, CliKept
    <2> QED
      BY <1>2, <2>3, <2>4, <2>5, <2>6, Progress
  <1> QED
    BY <1>3, <1>4

\* The end of a teardown: the operation goes on without a stack, or is over.
LEMMA ReleaseClientStep ==
  ASSUME C!ComposeAssumption, StackInv, C!ReleaseClient
  PROVE  StackInv'
  <1>1. /\ work.pc = "release" /\ work.pc \in Destroying /\ ~C!Idle /\ WorkInv /\ StackTyped
        /\ UNCHANGED <<handles, files, filters, services, on, nets, relays>>
    BY DEF C!ReleaseClient, C!At, Destroying, C!Idle, StackInv, WorksInv
  <1>2. work.then \in {"idle", "client", "file", "destroy", "assign"}
    BY <1>1 DEF WorkInv
  <1>3. /\ work' \in C!Work /\ work'.stack = C!NoStack /\ C!P' = None
        /\ \/ C!Idle'
           \/ /\ work'.pc = work.then /\ work.then # "idle"
              /\ work'.h = work.h /\ work'.g = work.g /\ work'.then = work.then
    <2>1. CASE work.then = "idle"
      BY <2>1, NoWorkTyped, Nothing DEF C!ReleaseClient, C!Idle, C!P
    <2>2. CASE work.then # "idle"
      BY <1>1, <1>2, <2>2, Nothing DEF C!ReleaseClient, StackTyped, C!Work, C!Steps, C!P
    <2> QED
      BY <2>1, <2>2
  <1>4. /\ failed' \in [Projects -> SUBSET C!Failures] /\ cli' \subseteq cli
        /\ \A p \in Projects : failed[p] \subseteq failed'[p]
        /\ C!P # None /\ work.stack.client = "cli" => C!P \notin cli' \/ "cli" \in failed'[C!P]
    <2>1. CASE C!P = None
      <3>1. work.stack = C!NoStack
        BY <1>1, <2>1, Nothing DEF WorkInv, C!P
      <3> QED
        BY <1>1, <2>1, <3>1, Nothing DEF C!ReleaseClient, StackTyped
    <2>2. CASE C!P # None
      <3>1. C!P \in Projects
        BY <1>1, <2>2, InHandAlone
      <3>2. CASE C!Fail("cli") /\ UNCHANGED cli
        BY <1>1, <3>1, <3>2, Failing DEF StackTyped, C!Fail, C!Failures
      <3>3. CASE UNCHANGED failed /\ (cli' = cli \ {C!P} \/ (work.stack.client # "cli" /\ UNCHANGED cli))
        BY <1>1, <3>3 DEF StackTyped
      <3> QED
        BY <3>2, <3>3 DEF C!ReleaseClient
    <2> QED
      BY <2>1, <2>2
  <1>5. StackTyped'
    BY <1>1, <1>3, <1>4 DEF StackTyped
  <1>6. HandlesInv'
    BY <1>1, HandlesKept
  <1>7. ~C!Idle' => WorkInv'
    <2> SUFFICES ASSUME ~C!Idle'  PROVE WorkInv'
      OBVIOUS
    <2>1. /\ work'.pc = work.then /\ work.then # "idle"
          /\ work'.h = work.h /\ work'.g = work.g /\ work'.then = work.then
      BY <1>3
    <2> QED
      BY <1>1, <1>2, <1>3, <2>1 DEF WorkInv, C!Object, Starting, Registered, Destroying
  <1>8. ASSUME NEW p \in Projects  PROVE LeftInv(p)' /\ CliInv(p)'
    <2>1. /\ LeftInv(p) /\ CliInv(p) /\ p # None /\ failed[p] \subseteq failed'[p]
          /\ (Used(p)' <=> Used(p)) /\ (C!Containers(p)' <=> C!Containers(p))
          /\ \A x \in Slots : Runs(x, p)' <=> Runs(x, p)
      BY <1>1, <1>4, Fields DEF StackInv, ProjectsInv, Used, Runs, C!Object, C!Containers
    <2>2. CASE p = C!P
      <3>1. WorkInv /\ work.stack # C!NoStack /\ ~Used(p) /\ (relays[p] = {} \/ "sweep" \in failed[p])
        BY <1>1, <2>1, <2>2, InHandAlone DEF WorkInv
      <3>2. LeftInv(p)'
        BY <1>1, <2>1, <3>1 DEF LeftInv, C!Object, C!Containers
      <3>3. CliInv(p)'
        BY <1>1, <1>4, <2>1, <2>2, <3>1 DEF CliInv, Used
      <3> QED
        BY <3>2, <3>3
    <2>3. CASE p # C!P
      <3>1. ~Current(p)
        BY <2>3 DEF Current
      <3>2. \A r \in relays'[p] : \/ "sweep" \in failed'[p]
                                  \/ \E x \in Slots : Runs(x, p)' /\ r = handles'[x].active.ambassador
        BY <1>1, <2>1, <3>1 DEF LeftInv
      <3>3. LeftInv(p)'
        BY <1>1, <2>1, <3>1, <3>2 DEF LeftInv, C!Object
      <3>4. CliInv(p)'
        BY <1>1, <1>4, <2>1, <3>1 DEF CliInv
      <3> QED
        BY <3>3, <3>4
    <2> QED
      BY <2>2, <2>3
  <1> QED
    BY <1>5, <1>6, <1>7, <1>8 DEF StackInv, WorksInv, ProjectsInv

-----------------------------------------------------------------------------
(* Handles.                                                                *)

\* stop(), a destruction, an assignment or a restart: the stack goes from the handle
\* into the hand of the operation.
LEMMA TakingDown ==
  ASSUME C!ComposeAssumption, StackInv, C!Idle, NEW h \in Slots, NEW g \in Slots, C!Object(h), C!Object(g), handles' = C!Reset(h),
         NEW then \in {"client", "file", "destroy", "assign"}, C!Teardown(h, g, handles[h].active, then),
         then = "assign" => h # g, then = "client" => handles[h].project # None, UNCHANGED C!world
  PROVE  StackInv'
  <1> DEFINE o    == handles[h]
             bare == [o EXCEPT !.active = C!NoStack]
  <1>1. /\ StackTyped /\ o \in C!Handle /\ o.active \in C!Stack /\ HandleInv(h)
        /\ UNCHANGED <<files, filters, cli, services, on, nets, relays, failed>>
        /\ \A p \in Projects : ~Current(p) /\ p # None
        /\ \A x \in Slots : x # h /\ C!Object(x) => Apart(x, h) /\ Apart(h, x)
    BY Fields DEF StackInv, HandlesInv, C!world, Current
  <1>2. /\ bare \in C!Handle /\ bare.project = o.project /\ bare.temp = o.temp /\ bare.active = C!NoStack
        /\ handles' \in [Slots -> C!Handle \cup {Void}]
        /\ \A x \in Slots : handles'[x] = IF x = h THEN bare ELSE handles[x]
    BY <1>1, Nothing DEF C!Handle, StackTyped, C!Reset
  <1>3. /\ work' \in C!Work /\ work'.h = h /\ work'.g = g /\ work'.stack = o.active /\ work'.then = then
        /\ work'.pc = (IF o.active = C!NoStack THEN then ELSE "relay") /\ C!P' = o.active.project /\ ~C!Idle'
    BY <1>1 DEF C!Teardown, C!Work, C!Steps, C!P, C!Idle
  <1>4. \A x \in Slots : C!Object(x)' <=> C!Object(x)
    BY <1>2 DEF C!Object, C!ComposeAssumption
  <1> HIDE DEF bare
  <1>5. StackTyped'
    BY <1>1, <1>2, <1>3 DEF StackTyped
  <1>6. HandlesInv'
    <2>1. ASSUME NEW x \in Slots, C!Object(x)  PROVE HandleInv(x)'
      <3>1. HandleInv(x)
        BY <2>1 DEF StackInv, HandlesInv
      <3>2. CASE x = h
        BY <1>1, <1>2, <3>2 DEF HandleInv
      <3>3. CASE x # h
        BY <1>1, <1>2, <3>1, <3>3 DEF HandleInv, Connected
      <3> QED
        BY <3>2, <3>3
    <2>2. ASSUME NEW x \in Slots, NEW y \in Slots, C!Object(x), C!Object(y), x # y  PROVE Apart(x, y)'
      <3>1. Apart(x, y)
        BY <2>2 DEF StackInv, HandlesInv
      <3> QED
        BY <1>2, <2>2, <3>1, Nothing DEF Apart
    <2> QED
      BY <1>4, <2>1, <2>2 DEF HandlesInv
  <1>7. WorkInv'
    <2>1. /\ handles'[work'.h].project = o.project /\ handles'[work'.h].temp = o.temp
          /\ handles'[work'.h].active = C!NoStack /\ C!Object(h)' /\ C!Object(g)'
      BY <1>2, <1>3, <1>4
    <2>2. CASE o.active = C!NoStack
      BY <1>3, <2>1, <2>2 DEF WorkInv, Starting, Registered, Destroying, C!Object
    <2>3. CASE o.active # C!NoStack
      <3>1. o.active.project # None /\ o.active.client # "none" /\ o.active.file = o.temp
        BY <1>1, <2>3 DEF HandleInv
      <3>2. \A x \in Slots : C!Object(x)' => /\ handles'[x].active.project # C!P'
                                             /\ x # h => handles'[x].project # C!P'
        BY <1>1, <1>2, <1>3, <1>4, <3>1, Nothing DEF Apart
      <3> QED
        BY <1>3, <2>1, <2>3, <3>1, <3>2 DEF WorkInv, Starting, Registered, Destroying, C!Object
    <2> QED
      BY <2>2, <2>3
  <1>8. ASSUME NEW p \in Projects  PROVE LeftInv(p)' /\ CliInv(p)'
    <2>1. LeftInv(p) /\ CliInv(p) /\ ~Current(p) /\ work.pc # "copy"
      BY <1>1 DEF StackInv, ProjectsInv, C!Idle
    <2>2. Runs(h, p) => /\ Current(p)' /\ work'.pc = "relay" /\ work'.stack = o.active
      BY <1>1, <1>3, Nothing DEF Runs, Current
    <2>3. \A x \in Slots : x # h /\ Runs(x, p) => Runs(x, p)' /\ handles'[x].active = handles[x].active
      BY <1>2, <1>4 DEF Runs
    <2>4. p \in files' => \E x \in Slots : C!Object(x)' /\ handles'[x].temp = p
      BY <1>1, <1>2, <1>4, <2>1 DEF LeftInv
    <2>5. \A r \in relays'[p] : \/ "sweep" \in failed'[p]
                                \/ Current(p)' /\ r = work'.stack.ambassador
                                \/ \E x \in Slots : Runs(x, p)' /\ r = handles'[x].active.ambassador
      BY <1>1, <2>1, <2>2, <2>3 DEF LeftInv
    <2>6. Used(p) => Used(p)' \/ (Current(p)' /\ work'.pc = "relay")
      BY <2>2, <2>3 DEF Used
    <2>7. LeftInv(p)'
      BY <1>1, <2>1, <2>4, <2>5, <2>6 DEF LeftInv, C!Containers
    <2>8. CliInv(p)'
      BY <1>1, <2>1, <2>2, <2>3 DEF CliInv
    <2> QED
      BY <2>7, <2>8
  <1> QED
    BY <1>5, <1>6, <1>7, <1>8 DEF StackInv, WorksInv, ProjectsInv

\* A step that only moves stacks and files between the handles, with no stack in hand.
LEMMA Handling ==
  ASSUME C!ComposeAssumption, StackInv, StackTyped', C!Idle', \A p \in Projects : ~Current(p), work.pc # "copy", HandlesInv',
         UNCHANGED <<filters, cli, services, on, nets, relays, failed>>,
         \A p \in files' : \E x \in Slots : C!Object(x)' /\ handles'[x].temp = p,
         \A p \in Projects, x \in Slots :
           Runs(x, p) => \E y \in Slots : Runs(y, p)' /\ handles'[y].active = handles[x].active
  PROVE  StackInv'
  <1>1. ASSUME NEW p \in Projects  PROVE LeftInv(p)' /\ CliInv(p)'
    <2>1. LeftInv(p) /\ CliInv(p) /\ ~Current(p)
      BY DEF StackInv, ProjectsInv
    <2>2. \A r \in relays'[p] : \/ "sweep" \in failed'[p]
                                \/ \E x \in Slots : Runs(x, p)' /\ r = handles'[x].active.ambassador
      BY <2>1 DEF LeftInv
    <2>3. Used(p) => Used(p)'
      BY DEF Used
    <2>4. LeftInv(p)'
      BY <2>1, <2>2, <2>3 DEF LeftInv, C!Containers
    <2>5. CliInv(p)'
      BY <2>1 DEF CliInv
    <2> QED
      BY <2>4, <2>5
  <1> QED
    BY <1>1 DEF StackInv, WorksInv, ProjectsInv

\* Nobody runs, or is named like, a fresh project.
LEMMA FreshIsNobodys ==
  ASSUME C!ComposeAssumption, StackInv, NEW p \in Projects, C!Fresh(p), NEW x \in Slots, C!Object(x)
  PROVE  handles[x].project # p /\ handles[x].temp # p /\ handles[x].active.project # p
  <1>1. HandleInv(x) /\ p # None /\ p \notin filters \cup files /\ handles[x].project # p
    BY Fields DEF StackInv, HandlesInv, C!Fresh, C!Owns
  <1> QED
    BY <1>1, Nothing DEF HandleInv

LEMMA ConstructStep ==
  ASSUME C!ComposeAssumption, StackInv, NEW h \in Slots, NEW p \in Projects, NEW yaml \in BOOLEAN, C!Construct(h, p, yaml)
  PROVE  StackInv'
  <1> DEFINE new == [project |-> p, temp |-> IF yaml THEN p ELSE None, active |-> C!NoStack]
  <1>1. /\ StackTyped /\ C!Idle /\ ~C!Object(h) /\ C!Fresh(p) /\ p # None
        /\ handles' = [handles EXCEPT ![h] = new]
        /\ files' = IF yaml THEN files \cup {p} ELSE files
        /\ UNCHANGED <<work, filters, cli, services, on, nets, relays, failed>>
    BY Fields DEF StackInv, C!Construct
  <1>2. /\ new \in C!Handle /\ new.project = p /\ new.temp = (IF yaml THEN p ELSE None) /\ new.active = C!NoStack
    BY Nothing DEF C!Handle
  <1> HIDE DEF new
  <1>3. /\ handles' \in [Slots -> C!Handle \cup {Void}] /\ new # Void
        /\ \A x \in Slots : handles'[x] = IF x = h THEN new ELSE handles[x]
    BY <1>1, <1>2 DEF StackTyped, C!ComposeAssumption
  <1>4. \A x \in Slots : C!Object(x)' <=> C!Object(x) \/ x = h
    BY <1>3 DEF C!Object
  <1>5. StackTyped' /\ C!Idle'
    BY <1>1, <1>3 DEF StackTyped, C!Idle
  <1>6. HandlesInv'
    <2>1. ASSUME NEW x \in Slots, C!Object(x)'  PROVE HandleInv(x)'
      <3>1. CASE x = h
        BY <1>1, <1>2, <1>3, <3>1 DEF HandleInv
      <3>2. CASE x # h
        <4>1. HandleInv(x)
          BY <1>4, <2>1, <3>2 DEF StackInv, HandlesInv
        <4> QED
          BY <1>1, <1>3, <3>2, <4>1 DEF HandleInv, Connected
      <3> QED
        BY <3>1, <3>2
    <2>2. ASSUME NEW x \in Slots, NEW y \in Slots, C!Object(x)', C!Object(y)', x # y  PROVE Apart(x, y)'
      <3>1. CASE x # h /\ y # h
        <4>1. Apart(x, y)
          BY <1>4, <2>2, <3>1 DEF StackInv, HandlesInv
        <4> QED
          BY <1>3, <3>1, <4>1 DEF Apart
      <3>2. CASE x = h \/ y = h
        BY <1>1, <1>2, <1>3, <1>4, <2>2, <3>2, FreshIsNobodys, Nothing DEF Apart
      <3> QED
        BY <3>1, <3>2
    <2> QED
      BY <2>1, <2>2 DEF HandlesInv
  <1>7. \A q \in files' : \E x \in Slots : C!Object(x)' /\ handles'[x].temp = q
    <2>1. \A q \in files : \E x \in Slots : C!Object(x) /\ handles[x].temp = q
      BY DEF StackInv, StackTyped, ProjectsInv, LeftInv
    <2> QED
      BY <1>1, <1>2, <1>3, <1>4, <2>1
  <1>8. \A q \in Projects, x \in Slots :
          Runs(x, q) => \E y \in Slots : Runs(y, q)' /\ handles'[y].active = handles[x].active
    BY <1>1, <1>3, <1>4 DEF Runs
  <1>9. \A q \in Projects : ~Current(q) /\ work.pc # "copy"
    BY <1>1 DEF Current, C!Idle
  <1> QED
    BY <1>1, <1>5, <1>6, <1>7, <1>8, <1>9, Handling DEF C!Idle

LEMMA ConfigureStep ==
  ASSUME C!ComposeAssumption, StackInv, NEW h \in Slots, NEW p \in Projects, C!Configure(h, p)
  PROVE  StackInv'
  <1> DEFINE new == [handles[h] EXCEPT !.project = p]
  <1>1. /\ StackTyped /\ C!Idle /\ C!Object(h) /\ C!Fresh(p) /\ p # None /\ handles[h] \in C!Handle
        /\ handles' = [handles EXCEPT ![h] = new]
        /\ UNCHANGED <<work, files, filters, cli, services, on, nets, relays, failed>>
    BY Fields DEF StackInv, C!Configure, C!world
  <1>2. /\ new \in C!Handle /\ new.project = p /\ new.temp = handles[h].temp /\ new.active = handles[h].active
    BY <1>1 DEF C!Handle
  <1> HIDE DEF new
  <1>3. /\ handles' \in [Slots -> C!Handle \cup {Void}] /\ new # Void
        /\ \A x \in Slots : handles'[x] = IF x = h THEN new ELSE handles[x]
    BY <1>1, <1>2 DEF StackTyped, C!ComposeAssumption
  <1>4. \A x \in Slots : C!Object(x)' <=> C!Object(x)
    BY <1>1, <1>3 DEF C!Object
  <1>5. StackTyped' /\ C!Idle'
    BY <1>1, <1>3 DEF StackTyped, C!Idle
  <1>6. HandlesInv'
    <2>1. ASSUME NEW x \in Slots, C!Object(x)  PROVE HandleInv(x)'
      <3>1. HandleInv(x)
        BY <2>1 DEF StackInv, HandlesInv
      <3>2. handles'[x].temp = handles[x].temp /\ handles'[x].active = handles[x].active
        BY <1>2, <1>3
      <3> QED
        BY <1>1, <3>1, <3>2 DEF HandleInv, Connected
    <2>2. ASSUME NEW x \in Slots, NEW y \in Slots, C!Object(x), C!Object(y), x # y  PROVE Apart(x, y)'
      <3>1. Apart(x, y)
        BY <2>2 DEF StackInv, HandlesInv
      <3>2. /\ handles[x].project # p /\ handles[x].active.project # p
            /\ handles[y].project # p /\ handles[y].active.project # p
        BY <1>1, <2>2, FreshIsNobodys
      <3> QED
        BY <1>2, <1>3, <2>2, <3>1, <3>2 DEF Apart
    <2> QED
      BY <1>4, <2>1, <2>2 DEF HandlesInv
  <1>7. \A q \in files' : \E x \in Slots : C!Object(x)' /\ handles'[x].temp = q
    <2>1. \A q \in files : \E x \in Slots : C!Object(x) /\ handles[x].temp = q
      BY DEF StackInv, StackTyped, ProjectsInv, LeftInv
    <2> QED
      BY <1>1, <1>2, <1>3, <1>4, <2>1
  <1>8. \A q \in Projects, x \in Slots :
          Runs(x, q) => \E y \in Slots : Runs(y, q)' /\ handles'[y].active = handles[x].active
    BY <1>1, <1>2, <1>3, <1>4 DEF Runs
  <1>9. \A q \in Projects : ~Current(q) /\ work.pc # "copy"
    BY <1>1 DEF Current, C!Idle
  <1> QED
    BY <1>1, <1>5, <1>6, <1>7, <1>8, <1>9, Handling DEF C!Idle

\* What g has becomes h's, whose own file, if it had one, is gone.
LEMMA Moving ==
  ASSUME C!ComposeAssumption, StackInv, NEW h \in Slots, NEW g \in Slots, h # g, C!Object(g),
         handles' = [handles EXCEPT ![h] = handles[g], ![g] = C!MovedFrom],
         \/ C!Object(h) /\ handles[h].active = C!NoStack /\ files' = files \ {handles[h].temp}
         \/ ~C!Object(h) /\ UNCHANGED files,
         work' \in C!Work, C!Idle', \A p \in Projects : ~Current(p), work.pc # "copy",
         UNCHANGED <<filters, cli, services, on, nets, relays, failed>>
  PROVE  StackInv'
  <1>1. StackTyped /\ None \notin Projects /\ handles[g] \in C!Handle /\ files' \subseteq files
    BY Fields DEF StackInv
  <1>2. /\ handles' \in [Slots -> C!Handle \cup {Void}]
        /\ handles'[h] = handles[g] /\ handles'[g] = C!MovedFrom
        /\ \A x \in Slots : x \notin {g, h} => handles'[x] = handles[x]
    BY <1>1, Nothing DEF StackTyped
  <1>3. /\ C!Object(h)' /\ C!Object(g)'
        /\ \A x \in Slots : x \notin {g, h} => (C!Object(x)' <=> C!Object(x))
    BY <1>1, <1>2, Nothing DEF C!Object, C!ComposeAssumption
  <1>4. StackTyped'
    BY <1>1, <1>2 DEF StackTyped
  <1>5. \A x \in Slots : C!Object(x) /\ x # h =>
          /\ handles[x].temp # None => ~(C!Object(h) /\ handles[h].temp = handles[x].temp)
          /\ handles[x].temp \in files' \cup {None}
    BY DEF StackInv, HandlesInv, HandleInv, Apart
  <1>6. HandlesInv'
    <2>1. ASSUME NEW x \in Slots, C!Object(x)'  PROVE HandleInv(x)'
      <3>1. CASE x = g
        BY <1>2, <3>1, Nothing DEF HandleInv
      <3>2. CASE x # g
        <4> PICK y \in Slots : y = (IF x = h THEN g ELSE x)
          OBVIOUS
        <4>1. y # h /\ C!Object(y) /\ handles'[x] = handles[y] /\ HandleInv(y)
          BY <1>2, <1>3, <2>1, <3>2 DEF StackInv, HandlesInv
        <4>2. handles'[x].temp \in files' \cup {None}
          BY <1>5, <4>1
        <4>3. Connected(handles[y].active) => Connected(handles[x].active)'
          BY <4>1 DEF Connected
        <4> QED
          BY <4>1, <4>2, <4>3 DEF HandleInv
      <3> QED
        BY <3>1, <3>2
    <2>2. ASSUME NEW x \in Slots, NEW y \in Slots, C!Object(x)', C!Object(y)', x # y  PROVE Apart(x, y)'
      <3>1. CASE x = g \/ y = g
        BY <1>2, <3>1, Nothing DEF Apart
      <3>2. ASSUME x # g, y # g, NEW u \in Slots, u = (IF x = h THEN g ELSE x),
                   NEW v \in Slots, v = (IF y = h THEN g ELSE y)
            PROVE  Apart(x, y)'
        <4>1. /\ u # v /\ C!Object(u) /\ C!Object(v) /\ handles'[x] = handles[u] /\ handles'[y] = handles[v]
          BY <1>2, <1>3, <2>2, <3>2
        <4>2. Apart(u, v)
          BY <4>1 DEF StackInv, HandlesInv
        <4> QED
          BY <4>1, <4>2 DEF Apart
      <3> QED
        BY <3>1, <3>2
    <2> QED
      BY <2>1, <2>2 DEF HandlesInv
  <1>7. \A p \in files' : \E x \in Slots : C!Object(x)' /\ handles'[x].temp = p
    <2> TAKE p \in files'
    <2>1. PICK x \in Slots : C!Object(x) /\ handles[x].temp = p
      BY <1>1 DEF StackInv, StackTyped, ProjectsInv, LeftInv
    <2>2. x # h
      BY <2>1
    <2>3. CASE x = g
      BY <1>2, <1>3, <2>1, <2>3
    <2>4. CASE x # g
      BY <1>2, <1>3, <2>1, <2>2, <2>4
    <2> QED
      BY <2>3, <2>4
  <1>8. \A p \in Projects, x \in Slots :
          Runs(x, p) => \E y \in Slots : Runs(y, p)' /\ handles'[y].active = handles[x].active
    <2> SUFFICES ASSUME NEW p \in Projects, NEW x \in Slots, Runs(x, p)
                 PROVE  \E y \in Slots : Runs(y, p)' /\ handles'[y].active = handles[x].active
      OBVIOUS
    <2>1. x # h /\ C!Object(x)
      BY <1>1, Nothing DEF Runs
    <2>2. CASE x = g
      BY <1>2, <1>3, <2>2 DEF Runs
    <2>3. CASE x # g
      BY <1>2, <1>3, <2>1, <2>3 DEF Runs
    <2> QED
      BY <2>2, <2>3
  <1> QED
    BY <1>4, <1>6, <1>7, <1>8, Handling

LEMMA StackMoveStep ==
  ASSUME C!ComposeAssumption, StackInv, NEW h \in Slots, NEW g \in Slots, C!Move(h, g)
  PROVE  StackInv'
  <1>1. /\ C!Idle /\ ~C!Object(h) /\ C!Object(g) /\ h # g /\ work \in C!Work /\ work' = work
        /\ handles' = [handles EXCEPT ![h] = handles[g], ![g] = C!MovedFrom]
        /\ UNCHANGED <<files, filters, cli, services, on, nets, relays, failed>>
    BY DEF C!Move, C!world, StackInv, StackTyped
  <1>2. C!Idle' /\ work' \in C!Work /\ work.pc # "copy" /\ \A p \in Projects : ~Current(p)
    BY <1>1 DEF C!Idle, Current
  <1> QED
    BY <1>1, <1>2, Moving

\* A restart tears down what the handle runs, or has nothing to tear down.
LEMMA TakingSteps ==
  ASSUME C!ComposeAssumption, StackInv, NEW h \in Slots, NEW g \in Slots,
         C!Start(h) \/ C!Assign(h, g) \/ \E then \in {"file", "destroy"} : C!Stop(h, then)
  PROVE  StackInv'
  <1>1. CASE C!Start(h)
    <2>1. /\ C!Idle /\ C!Object(h) /\ handles[h].project # None /\ handles' = C!Reset(h) /\ UNCHANGED C!world
          /\ handles[h] \in C!Handle
      BY <1>1, Fields DEF C!Start, C!ResetFirst, StackInv
    <2>2. handles'[h] = [handles[h] EXCEPT !.active = C!NoStack]
      BY <2>1 DEF C!Reset, StackInv, StackTyped
    <2>3. handles'[h] = handles[h] => handles[h].active = C!NoStack
      BY <2>1, <2>2 DEF C!Handle
    <2>4. C!Teardown(h, h, handles[h].active, "client")
      BY <1>1, <2>3 DEF C!Start
    <2> QED
      BY <2>1, <2>4, TakingDown
  <1>2. CASE C!Assign(h, g)
    BY <1>2, TakingDown DEF C!Assign
  <1>3. ASSUME NEW then \in {"file", "destroy"}, C!Stop(h, then)  PROVE StackInv'
    BY <1>3, TakingDown DEF C!Stop
  <1> QED
    BY <1>1, <1>2, <1>3

\* The operations that end with the file of a handle that has no stack any more.
LEMMA RemoveFileStep ==
  ASSUME C!ComposeAssumption, StackInv, C!RemoveFile, NEW h, h = work.h, NEW g, g = work.g
  PROVE  StackInv'
  <1> DEFINE o == handles[h]
             bare == [o EXCEPT !.temp = None]
  <1>1. /\ work.pc \in {"file", "destroy", "assign"} /\ ~C!Idle /\ WorkInv /\ StackTyped /\ work' = C!NoWork
        /\ files' = files \ {o.temp} /\ UNCHANGED <<filters, cli, services, on, nets, relays, failed>>
    BY DEF C!RemoveFile, C!Idle, StackInv, WorksInv
  <1>2. /\ h \in Slots /\ g \in Slots /\ C!Object(h) /\ C!Object(g) /\ o \in C!Handle /\ o.active = C!NoStack
        /\ (work.pc = "assign" => h # g) /\ work.stack = C!NoStack /\ work.pc # "copy"
        /\ \A p \in Projects : ~Current(p)
    BY <1>1, Fields, Nothing DEF WorkInv, Current, C!P
  <1>3. C!Idle' /\ work' \in C!Work
    BY <1>1, NoWorkTyped DEF C!Idle
  <1>4. CASE work.pc = "assign"
    <2>1. handles' = [handles EXCEPT ![h] = handles[g], ![g] = C!MovedFrom]
      BY <1>4 DEF C!RemoveFile
    <2> QED
      BY <1>1, <1>2, <1>3, <1>4, <2>1, Moving
  <1>5. CASE work.pc \in {"file", "destroy"}
    <2>1. /\ bare \in C!Handle /\ bare.project = o.project /\ bare.temp = None /\ bare.active = C!NoStack
      BY <1>2 DEF C!Handle
    <2> HIDE DEF bare
    <2>2. /\ handles' \in [Slots -> C!Handle \cup {Void}]
          /\ handles'[h] = bare \/ handles'[h] = Void
          /\ \A x \in Slots : x # h => handles'[x] = handles[x]
      <3>1. CASE work.pc = "file"
        <4>1. handles' = [handles EXCEPT ![h].temp = None]
          BY <3>1 DEF C!RemoveFile
        <4> QED
          BY <1>1, <1>2, <2>1, <4>1 DEF StackTyped, bare
      <3>2. CASE work.pc = "destroy"
        <4>1. handles' = [handles EXCEPT ![h] = Void]
          BY <3>2 DEF C!RemoveFile
        <4> QED
          BY <1>1, <1>2, <4>1 DEF StackTyped
      <3> QED
        BY <1>5, <3>1, <3>2
    <2>3. \A x \in Slots : /\ C!Object(x)' => C!Object(x)
                           /\ x # h => (C!Object(x)' <=> C!Object(x))
      BY <1>2, <2>2 DEF C!Object
    <2>4. StackTyped'
      BY <1>1, <1>3, <2>2 DEF StackTyped
    <2>5. \A x \in Slots : C!Object(x) /\ x # h =>
            /\ HandleInv(x) /\ handles[x].temp \in files' \cup {None}
      BY <1>1, <1>2 DEF StackInv, HandlesInv, HandleInv, Apart
    <2>6. C!Object(h)' => handles'[h] = bare
      BY <2>2 DEF C!Object
    <2>7. HandlesInv'
      <3>1. ASSUME NEW x \in Slots, C!Object(x)'  PROVE HandleInv(x)'
        <4>1. CASE x = h
          BY <2>1, <2>6, <3>1, <4>1 DEF HandleInv
        <4>2. CASE x # h
          <5>1. HandleInv(x) /\ handles'[x] = handles[x] /\ handles'[x].temp \in files' \cup {None}
            BY <2>2, <2>3, <2>5, <3>1, <4>2
          <5> QED
            BY <1>1, <5>1 DEF HandleInv, Connected
        <4> QED
          BY <4>1, <4>2
      <3>2. ASSUME NEW x \in Slots, NEW y \in Slots, C!Object(x)', C!Object(y)', x # y  PROVE Apart(x, y)'
        <4>1. Apart(x, y)
          BY <2>3, <3>2 DEF StackInv, HandlesInv
        <4>2. \A z \in {x, y} : /\ handles'[z].project = handles[z].project
                                /\ handles'[z].active = handles[z].active
                                /\ handles'[z].temp \in {handles[z].temp, None}
          BY <1>2, <2>1, <2>2, <2>6, <3>2
        <4> QED
          BY <4>1, <4>2 DEF Apart
      <3> QED
        BY <3>1, <3>2 DEF HandlesInv
    <2>8. \A p \in files' : \E x \in Slots : C!Object(x)' /\ handles'[x].temp = p
      <3> TAKE p \in files'
      <3>1. PICK x \in Slots : C!Object(x) /\ handles[x].temp = p
        BY <1>1 DEF StackInv, StackTyped, ProjectsInv, LeftInv
      <3>2. x # h
        BY <1>1, <3>1
      <3> QED
        BY <2>2, <2>3, <3>1, <3>2
    <2>9. \A p \in Projects, x \in Slots :
            Runs(x, p) => \E y \in Slots : Runs(y, p)' /\ handles'[y].active = handles[x].active
      <3> SUFFICES ASSUME NEW p \in Projects, NEW x \in Slots, Runs(x, p)
                   PROVE  Runs(x, p)' /\ handles'[x].active = handles[x].active
        OBVIOUS
      <3>1. x # h
        BY <1>1, <1>2, Fields, Nothing DEF Runs
      <3> QED
        BY <2>2, <2>3, <3>1 DEF Runs
    <2> QED
      BY <1>1, <1>2, <1>3, <2>4, <2>7, <2>8, <2>9, Handling
  <1> QED
    BY <1>1, <1>4, <1>5

-----------------------------------------------------------------------------
(* The theorems.                                                           *)

LEMMA StackInit ==
  ASSUME C!ComposeAssumption, C!Init
  PROVE  StackInv
  <1>1. StackTyped /\ C!Idle
    BY NoWorkTyped DEF C!Init, StackTyped, C!Idle
  <1>2. \A h \in Slots : ~C!Object(h)
    BY DEF C!Init, C!Object
  <1>3. HandlesInv /\ WorksInv
    BY <1>1, <1>2 DEF HandlesInv, WorksInv
  <1>4. ProjectsInv
    BY DEF C!Init, ProjectsInv, LeftInv, CliInv, C!Containers
  <1> QED
    BY <1>1, <1>3, <1>4 DEF StackInv

LEMMA Stutter ==
  ASSUME StackInv, UNCHANGED C!vars
  PROVE  StackInv'
  <1>. USE DEF C!vars, C!world
  <1>1. StackTyped'
    BY DEF StackInv, StackTyped, C!P
  <1>2. HandlesInv'
    BY DEF StackInv, HandlesInv, HandleInv, Apart, Connected, C!Object
  <1>3. WorksInv'
    BY DEF StackInv, WorksInv, WorkInv, Apart, Connected, C!Idle, C!Object, C!P, Current, Runs, Used
  <1>4. ProjectsInv'
    BY DEF StackInv, ProjectsInv, LeftInv, CliInv, C!Containers, Current, Runs, Used, C!Idle, C!P, C!Object
  <1> QED
    BY <1>1, <1>2, <1>3, <1>4 DEF StackInv

LEMMA StackStep ==
  ASSUME C!ComposeAssumption, StackInv, C!Next
  PROVE  StackInv'
  <1>1. CASE C!Rest
    BY <1>1, Stutter DEF C!Rest
  <1>2. ASSUME NEW h \in Slots, NEW p \in Projects,
               C!Configure(h, p) \/ \E yaml \in BOOLEAN : C!Construct(h, p, yaml)
        PROVE  StackInv'
    BY <1>2, ConfigureStep, ConstructStep
  <1>3. ASSUME NEW h \in Slots, NEW g \in Slots, C!Move(h, g) \/ C!Assign(h, g)  PROVE StackInv'
    BY <1>3, StackMoveStep, TakingSteps
  <1>4. ASSUME NEW h \in Slots, C!Start(h) \/ \E then \in {"file", "destroy"} : C!Stop(h, then)  PROVE StackInv'
    BY <1>4, TakingSteps
  <1>5. CASE C!RemoveFile \/ C!MakeClient \/ C!CopyFiles \/ C!RegisterFilter \/ C!Up
    BY <1>5, RemoveFileStep, MakeClientStep, CopyFilesStep, RegisterFilterStep, StackUpStep
  <1>6. CASE C!Discover \/ C!Ambassador \/ C!Launch \/ C!Adopt \/ C!AwaitPorts
    BY <1>6, DiscoverStep, AmbassadorStep, LaunchStep, AdoptStep, AwaitPortsStep
  <1>7. CASE C!RemoveRelay \/ C!Down \/ C!Sweep \/ C!ReleaseClient
    BY <1>7, RemoveRelayStep, StackDownStep, SweepStep, ReleaseClientStep
  <1> QED
    BY <1>1, <1>2, <1>3, <1>4, <1>5, <1>6, <1>7 DEF C!Next

\* Whatever exists belongs to the stack of one handle, to the operation in progress or to
\* a failed step, and nothing is shared: DockerComposeContainer with its ActiveStack.
THEOREM StackInvariant == ASSUME C!ComposeAssumption PROVE C!Spec => []StackInv
  <1>1. StackInv /\ [C!Next]_(C!vars) => StackInv'
    BY StackStep, Stutter
  <1> QED
    BY StackInit, <1>1, PTL DEF C!Spec

\* Type correctness of handles, stacks, the operation in progress and the daemon's side.
THEOREM StackTypeCorrect == ASSUME C!ComposeAssumption PROVE C!Spec => []C!TypeOK
  <1>1. StackInv => C!TypeOK
    BY DEF StackInv, StackTyped, C!TypeOK
  <1> QED
    BY StackInvariant, <1>1, PTL

\* Nothing of a project outlives its stack unless a step of its teardown failed, wherever
\* start() threw and however the handle was moved; the temporary file of an inline
\* definition lives exactly as long as the handle that needs it (~ActiveStack, stop()).
THEOREM NothingOutlives == ASSUME C!ComposeAssumption PROVE C!Spec => []C!TornDown
  <1>1. ASSUME StackInv  PROVE C!TornDown
    <2>1. ASSUME NEW p \in Projects, ~C!InHand(p)
          PROVE  /\ ~Used(p) /\ ~Current(p) /\ ~(work.pc = "copy" /\ handles[work.h].project = p)
                 /\ \A h \in Slots : ~Runs(h, p)
      BY <2>1 DEF C!InHand, Used, Runs, Current, C!Idle
    <2>2. \A p \in Projects : LeftInv(p) /\ CliInv(p)
      BY <1>1 DEF StackInv, ProjectsInv
    <2>3. ASSUME NEW p \in Projects, ~C!InHand(p)
          PROVE  /\ C!Containers(p) => "sweep" \in failed[p]
                 /\ nets[p] # {} => failed[p] \cap {"relay", "down", "sweep"} # {}
                 /\ p \in cli => "cli" \in failed[p]
      BY <2>1, <2>2, <2>3 DEF LeftInv, CliInv, C!Containers
    <2>4. ASSUME NEW p \in Projects  PROVE p \in files => \E h \in Slots : C!Object(h) /\ handles[h].temp = p
      BY <2>2 DEF LeftInv
    <2> QED
      BY <2>3, <2>4 DEF C!TornDown
  <1> QED
    BY StackInvariant, <1>1, PTL

\* Whatever compose or the ambassador has created is under a filter registered before it
\* existed, so that a process that dies leaves nothing Ryuk does not sweep.
THEOREM SweptAfterCrash == ASSUME C!ComposeAssumption PROVE C!Spec => []C!CrashSwept
  <1>1. StackInv => C!CrashSwept
    BY DEF StackInv, ProjectsInv, LeftInv, C!CrashSwept
  <1> QED
    BY StackInvariant, <1>1, PTL

\* A running stack keeps every service and the one relay that reaches them until its own
\* teardown, whatever else starts, stops, restarts or fails.
THEOREM StacksWhole == ASSUME C!ComposeAssumption PROVE C!Spec => []C!StackStaysWhole
  <1>1. StackInv => C!StackStaysWhole
    BY DEF StackInv, HandlesInv, HandleInv, Connected, C!StackStaysWhole
  <1> QED
    BY StackInvariant, <1>1, PTL
=============================================================================
