---------------------------- MODULE RunnerProofs ----------------------------
(***************************************************************************)
(* Theorems about run(): its state is well typed, a container is removed   *)
(* only by the call that created it or by Ryuk after its process died, and *)
(* without faults of the daemon no failed attempt leaks a container; pull  *)
(* policies are honoured. For every number of calls, processes, containers *)
(* and attempts.                                                           *)
(***************************************************************************)
EXTENDS Runner, TLAPS

(* The inductive invariant: attempts remain wherever one may begin, and    *)
(* what a call works on exists and is its own.                             *)
TriesInv == \A r \in Runs :
  /\ pc[r] \in Prelude \cup {"adopt"} => tries[r] = 0
  /\ pc[r] = "create" => tries[r] < Attempts

CidInv == \A r \in Runs :
  /\ Busy(r) => cid[r] \in Ids /\ creator[cid[r]] = r
  /\ pc[r] = "handle" => cid[r] \in Ids
  /\ pc[r] = "handle" /\ r \notin Reusers => creator[cid[r]] = r
  /\ pc[r] = "adopt" => cid[r] \in Ids /\ r \in Reusers
  /\ pc[r] = "lookup" => r \in Reusers
  /\ cid[r] \in Ids => state[cid[r]] # "none"

CreatorInv == \A i \in Ids : state[i] # "none" => creator[i] \in Runs

Inv == TypeOK /\ TriesInv /\ CidInv /\ CreatorInv

-----------------------------------------------------------------------------
\* Attempts is the retry bound max(1, startup_attempts).
LEMMA AttemptsType == Attempts \in Nat /\ Attempts >= 1
BY RunnerAssumption DEF Attempts

\* Before the first call of run() the invariant holds.
LEMMA InvInit == Init => Inv
<1> SUFFICES ASSUME Init PROVE Inv
  OBVIOUS
<1> USE AttemptsType, RunnerAssumption DEF Init
<1>1. TypeOK
  BY DEF TypeOK, PCs, Prelude, Images
<1>2. TriesInv
  BY DEF TriesInv
<1>3. CidInv
  BY DEF CidInv, Busy, Phases, Following
<1>4. CreatorInv
  BY DEF CreatorInv
<1> QED BY <1>1, <1>2, <1>3, <1>4 DEF Inv

\* The steps of a call up to the first container, adoption included.
LEMMA PreludeStep ==
  ASSUME Inv, NEW r \in Runs,
         EnsureStarted(r) \/ PullPolicy(r) \/ Wire(r) \/ Lookup(r) \/ Adopt(r) \/ Throw(r)
  PROVE  Inv'
<1> USE AttemptsType, RunnerAssumption
    DEF Inv, TypeOK, TriesInv, CidInv, CreatorInv, Busy, Phases, Following, Goto, runVars,
        daemonVars, Prelude, PCs, Ended
<1>1. CASE EnsureStarted(r)
  BY <1>1 DEF EnsureStarted
<1>2. CASE PullPolicy(r)
  BY <1>2 DEF PullPolicy, Images
<1>3. CASE Wire(r)
  BY <1>3 DEF Wire
<1>4. CASE Lookup(r)
  <2>1. CASE Goto(r, "lookup", "create") /\ UNCHANGED cid
    BY <1>4, <2>1 DEF Lookup
  <2>2. CASE \E i \in Matches : Goto(r, "lookup", "adopt") /\ cid' = [cid EXCEPT ![r] = i]
    <3>1. PICK i \in Ids : /\ cid' = [cid EXCEPT ![r] = i]
                          /\ state[i] = "running"
      BY <2>2 DEF Matches
    <3>2. Goto(r, "lookup", "adopt") /\ r \in Reusers
      BY <2>2
    <3>3. QED BY <1>4, <3>1, <3>2 DEF Lookup
  <2>3. QED BY <1>4, <2>1, <2>2 DEF Lookup
<1>5. CASE Adopt(r)
  BY <1>5 DEF Adopt
<1>6. CASE Throw(r)
  BY <1>6 DEF Throw
<1> QED BY <1>1, <1>2, <1>3, <1>4, <1>5, <1>6

\* A container created by the daemon is new: nobody works on it yet.
LEMMA NewContainerStep ==
  ASSUME Inv, NEW r \in Runs, NEW i \in Ids, NewContainer(r, i)
  PROVE  /\ state' \in [Ids -> Live \cup {"none", "gone"}]
         /\ creator' \in [Ids -> Runs \cup {NoRun}]
         /\ built' \in [Ids -> Images]
         /\ image' \in Images
         /\ state'[i] = "created" /\ creator'[i] = r
         /\ \A j \in Ids \ {i} : state'[j] = state[j] /\ creator'[j] = creator[j]
         /\ \A q \in Runs : cid[q] # i
BY DEF Inv, TypeOK, CidInv, NewContainer, Live, Images

\* The steps of an attempt, its failures and the removal after them.
LEMMA AttemptStep ==
  ASSUME Inv, NEW r \in Runs,
         Create(r) \/ CreateThrows(r) \/ Advance(r) \/ PhaseThrows(r) \/ Cleanup(r) \/ Drop(r)
  PROVE  Inv'
<1> USE AttemptsType, RunnerAssumption
    DEF Inv, TypeOK, TriesInv, CidInv, CreatorInv, Busy, Phases, Following, Goto, runVars,
        daemonVars, Prelude, PCs, Ended, RetryOrFail, Live
<1>1. CASE Create(r)
  <2>1. PICK i \in Ids : NewContainer(r, i) /\ cid' = [cid EXCEPT ![r] = i]
    BY <1>1 DEF Create
  <2>2. QED BY SMTT(30), <1>1, <2>1, NewContainerStep DEF Create
<1>2. CASE CreateThrows(r)
  <2>1. CASE UNCHANGED daemonVars
    BY <1>2, <2>1 DEF CreateThrows
  <2>2. CASE \E i \in Ids : NewContainer(r, i)
    <3>1. PICK i \in Ids : NewContainer(r, i)
      BY <2>2
    <3>2. QED BY <1>2, <3>1, NewContainerStep DEF CreateThrows
  <2>3. QED BY <1>2, <2>1, <2>2 DEF CreateThrows
<1>3. CASE Advance(r)
  BY <1>3 DEF Advance
<1>4. CASE PhaseThrows(r)
  BY <1>4 DEF PhaseThrows
<1>5. CASE Cleanup(r)
  BY <1>5 DEF Cleanup, Remove
<1>6. CASE Drop(r)
  BY <1>6 DEF Drop, Remove
<1> QED BY <1>1, <1>2, <1>3, <1>4, <1>5, <1>6

\* Containers that exit, images that go, processes that die, Ryuk's sweep.
LEMMA EnvironmentStep ==
  ASSUME Inv,
         \/ \E i \in Ids : Exit(i)
         \/ ImageRemoved
         \/ \E p \in Procs : Crash(p) \/ Reap(p)
  PROVE  Inv'
<1> USE DEF Inv, TypeOK, TriesInv, CidInv, CreatorInv, Busy, runVars, daemonVars, Live
<1>1. CASE \E i \in Ids : Exit(i)
  BY <1>1 DEF Exit
<1>2. CASE ImageRemoved
  BY <1>2 DEF ImageRemoved, Images
<1>3. CASE \E p \in Procs : Crash(p)
  BY <1>3 DEF Crash
<1>4. CASE \E p \in Procs : Reap(p)
  BY <1>4 DEF Reap
<1> QED BY <1>1, <1>2, <1>3, <1>4

\* Every step of the calls and of their environment keeps the invariant.
LEMMA InvStep == Inv /\ [Next]_vars => Inv'
<1> SUFFICES ASSUME Inv, [Next]_vars PROVE Inv'
  OBVIOUS
<1>1. CASE \E r \in Runs : Step(r) \/ Drop(r)
  BY <1>1, PreludeStep, AttemptStep DEF Step
<1>2. CASE \/ \E i \in Ids : Exit(i)
           \/ ImageRemoved
           \/ \E p \in Procs : Crash(p) \/ Reap(p)
  BY <1>2, EnvironmentStep
<1>3. CASE UNCHANGED vars
  BY <1>3 DEF vars, runVars, daemonVars, Inv, TypeOK, TriesInv, CidInv, CreatorInv, Busy
<1> QED BY <1>1, <1>2, <1>3 DEF Next

\* The invariant holds in every state of run(), under every fault.
THEOREM Invariant == Spec => []Inv
BY InvInit, InvStep, PTL DEF Spec

\* Every variable of run() keeps its type; in particular no call ever begins
\* more attempts than its request allows (with_retry).
THEOREM TypeCorrect == Spec => []TypeOK
<1>1. Inv => TypeOK
  BY DEF Inv
<1> QED BY <1>1, Invariant, PTL

-----------------------------------------------------------------------------
\* One step removes only what its owner removes, or what Ryuk sweeps.
LEMMA RemovalStep ==
  ASSUME Inv, Next, NEW i \in Existing, state'[i] = "gone"
  PROVE  LET r == creator[i] IN
           \/ cid[r] = i /\ pc[r] = "cleanup"
           \/ cid[r] = i /\ pc[r] = "handle" /\ pc'[r] = "dropped" /\ r \notin Reusers
           \/ ProcOf[r] \notin alive /\ r \notin Reusers
<1> i \in Ids /\ state[i] \in Live /\ state[i] # "gone" /\ state[i] # "none"
  BY DEF Existing, Live
<1> USE DEF Inv, TypeOK, CidInv, Busy, daemonVars, Goto
<1>1. CASE \E r \in Runs : EnsureStarted(r) \/ PullPolicy(r) \/ Wire(r) \/ Lookup(r)
                           \/ Adopt(r) \/ Throw(r)
  BY <1>1 DEF EnsureStarted, PullPolicy, Wire, Lookup, Adopt, Throw
<1>2. CASE \E r \in Runs : Create(r) \/ CreateThrows(r)
  BY <1>2 DEF Create, CreateThrows, NewContainer
<1>3. CASE \E r \in Runs : Advance(r) \/ PhaseThrows(r)
  BY <1>3 DEF Advance, PhaseThrows
<1>4. CASE \E r \in Runs : Cleanup(r)
  <2>1. PICK r \in Runs : Cleanup(r)
    BY <1>4
  <2>2. pc[r] = "cleanup" /\ cid[r] \in Ids /\ creator[cid[r]] = r
    BY <2>1 DEF Cleanup
  <2>3. cid[r] = i
    BY <2>1, <2>2 DEF Cleanup, Remove
  <2>4. QED BY <2>2, <2>3
<1>5. CASE \E r \in Runs : Drop(r)
  <2>1. PICK r \in Runs : Drop(r)
    BY <1>5
  <2>2. pc[r] = "handle" /\ pc'[r] = "dropped" /\ cid[r] \in Ids
    BY <2>1 DEF Drop
  <2>3. r \notin Reusers /\ cid[r] = i
    BY <2>1, <2>2 DEF Drop, Remove
  <2>4. QED BY <2>2, <2>3
<1>6. CASE (\E j \in Ids : Exit(j)) \/ ImageRemoved \/ (\E p \in Procs : Crash(p))
  BY <1>6 DEF Exit, ImageRemoved, Crash
<1>7. CASE \E p \in Procs : Reap(p)
  BY <1>7 DEF Reap, SessionLabelled
<1> QED BY <1>1, <1>2, <1>3, <1>4, <1>5, <1>6, <1>7 DEF Next, Step

\* Whatever fails and however calls interleave, a container is removed only by
\* the call that created it, through the attempt or the handle that owns it, or
\* by Ryuk after the process died: an adopter never removes what it adopted.
THEOREM OnlyItsOwnerRemoves == Spec => RemovedByItsOwner
<1>1. Inv /\ [Next]_vars =>
        [\A i \in Existing : state'[i] = "gone" =>
           LET r == creator[i] IN
             \/ cid[r] = i /\ pc[r] = "cleanup"
             \/ cid[r] = i /\ pc[r] = "handle" /\ pc'[r] = "dropped" /\ r \notin Reusers
             \/ ProcOf[r] \notin alive /\ r \notin Reusers ]_vars
  BY RemovalStep
<1> QED BY <1>1, Invariant, PTL DEF Spec, RemovedByItsOwner

-----------------------------------------------------------------------------
(* No leak, when no removal fails and no answer of the daemon is lost.     *)
(* NoLeak is inductive over Inv: whoever begins an attempt, looks up or    *)
(* gives up has no container that exists.                                  *)
Reliable == "rm" \notin Faults /\ "lost" \notin Faults

\* The steps of a call before an attempt do not touch containers, and are taken
\* when the call has none.
LEMMA NoLeakPrelude ==
  ASSUME Inv, NoLeak, NEW r \in Runs, ProcOf[r] \in alive,
         EnsureStarted(r) \/ PullPolicy(r) \/ Wire(r) \/ Lookup(r) \/ Adopt(r) \/ Throw(r)
  PROVE  NoLeak'
<1> USE DEF Inv, TypeOK, CidInv, CreatorInv, NoLeak, Existing, Live, Busy, Phases, Following,
            Goto, daemonVars, Prelude
<1>1. pc[r] \in Prelude \cup {"adopt"} /\ \A i \in Existing : creator[i] # r
  BY DEF EnsureStarted, PullPolicy, Wire, Lookup, Adopt, Throw
<1>2. /\ alive' = alive /\ state' = state /\ creator' = creator
      /\ \A q \in Runs \ {r} : pc'[q] = pc[q] /\ cid'[q] = cid[q]
  BY DEF EnsureStarted, PullPolicy, Wire, Lookup, Adopt, Throw
<1> QED BY <1>1, <1>2

\* An attempt accounts for the container it creates until it is handed out or
\* removed: the catch block of create_start_wait.
LEMMA NoLeakAttempt ==
  ASSUME Inv, Reliable, NoLeak, NEW r \in Runs, ProcOf[r] \in alive,
         Create(r) \/ CreateThrows(r) \/ Advance(r) \/ PhaseThrows(r) \/ Cleanup(r) \/ Drop(r)
  PROVE  NoLeak'
<1> USE RunnerAssumption
    DEF Inv, TypeOK, CidInv, CreatorInv, NoLeak, Existing, Live, Busy, Phases, Following, Goto,
        daemonVars, Reliable
<1>1. CASE Create(r)
  <2>1. PICK i \in Ids : NewContainer(r, i) /\ cid' = [cid EXCEPT ![r] = i]
    BY <1>1 DEF Create
  <2>2. /\ alive' = alive /\ pc[r] = "create" /\ pc' = [pc EXCEPT ![r] = "created_hooks"]
        /\ \A j \in Existing : creator[j] # r
    BY <1>1 DEF Create
  <2>3. QED BY <2>1, <2>2, NewContainerStep
<1>2. CASE CreateThrows(r)
  BY <1>2 DEF CreateThrows, RetryOrFail
<1>3. CASE Advance(r)
  BY <1>3 DEF Advance
<1>4. CASE PhaseThrows(r)
  BY <1>4 DEF PhaseThrows
<1>5. CASE Cleanup(r)
  BY <1>5 DEF Cleanup, Remove, RetryOrFail
<1>6. CASE Drop(r)
  BY <1>6 DEF Drop, Remove
<1> QED BY <1>1, <1>2, <1>3, <1>4, <1>5, <1>6

\* Exits, deaths of processes and sweeps only make fewer containers accountable.
LEMMA NoLeakEnvironment ==
  ASSUME Inv, NoLeak,
         \/ \E i \in Ids : Exit(i)
         \/ ImageRemoved
         \/ \E p \in Procs : Crash(p) \/ Reap(p)
  PROVE  NoLeak'
<1> USE DEF Inv, TypeOK, NoLeak, Existing, Live, Busy, runVars, daemonVars
<1>1. CASE \E i \in Ids : Exit(i)
  BY <1>1 DEF Exit
<1>2. CASE ImageRemoved
  BY <1>2 DEF ImageRemoved
<1>3. CASE \E p \in Procs : Crash(p)
  BY <1>3 DEF Crash
<1>4. CASE \E p \in Procs : Reap(p)
  BY <1>4 DEF Reap
<1> QED BY <1>1, <1>2, <1>3, <1>4

\* With a daemon that answers and removes what it is told to, nothing survives a
\* failed attempt, a retry or a dropped handle of run() in a live process.
THEOREM NothingLeaks == ASSUME Reliable PROVE Spec => []NoLeak
<1>1. Init => NoLeak
  BY DEF Init, NoLeak, Existing, Live
<1>2. Inv /\ NoLeak /\ [Next]_vars => NoLeak'
  <2> SUFFICES ASSUME Inv, NoLeak, [Next]_vars PROVE NoLeak'
    OBVIOUS
  <2>1. CASE \E r \in Runs : ProcOf[r] \in alive /\ (Step(r) \/ Drop(r))
    BY <2>1, NoLeakPrelude, NoLeakAttempt DEF Step
  <2>2. CASE \/ \E i \in Ids : Exit(i)
             \/ ImageRemoved
             \/ \E p \in Procs : Crash(p) \/ Reap(p)
    BY <2>2, NoLeakEnvironment
  <2>3. CASE UNCHANGED vars
    BY <2>3 DEF vars, runVars, daemonVars, NoLeak, Existing, Busy
  <2> QED BY <2>1, <2>2, <2>3 DEF Next
<1> QED BY <1>1, <1>2, Invariant, PTL DEF Spec

-----------------------------------------------------------------------------
(* A call that is past a pull policy that binds it has left no old image   *)
(* behind, and none gets old again: with this, PolicyHonoured is inductive *)
FreshInv == \A r \in Runs :
  (PolicyBinds(r) /\ pc[r] \notin {"start", "pull"} \cup Ended) => image # "old"

\* A step changes what a container was built from only when it creates it, and then
\* takes the image there is; nobody makes an image old (pull_image, create_container).
LEMMA ImageStep ==
  ASSUME Inv, Next
  PROVE  /\ image # "old" => image' # "old"
         /\ \A i \in Ids : state'[i] \in Live =>
              \/ state[i] \in Live /\ creator'[i] = creator[i] /\ built'[i] = built[i]
              \/ \E r \in Runs : pc[r] = "create" /\ creator'[i] = r /\ built'[i] = image'
<1> USE DEF Inv, TypeOK, CidInv, Live, Images, Busy, daemonVars, runVars, Goto
<1>1. CASE \E r \in Runs : EnsureStarted(r) \/ Wire(r) \/ Lookup(r) \/ Adopt(r) \/ Throw(r)
  BY <1>1 DEF EnsureStarted, Wire, Lookup, Adopt, Throw
<1>2. CASE \E r \in Runs : PullPolicy(r)
  BY <1>2 DEF PullPolicy
<1>3. ASSUME NEW r \in Runs, NEW j \in Ids, pc[r] = "create", NewContainer(r, j)
      PROVE  /\ image # "old" => image' # "old"
             /\ \A i \in Ids : state'[i] \in Live =>
                  \/ state[i] \in Live /\ creator'[i] = creator[i] /\ built'[i] = built[i]
                  \/ \E q \in Runs : pc[q] = "create" /\ creator'[i] = q /\ built'[i] = image'
  BY <1>3 DEF NewContainer
<1>4. CASE \E r \in Runs : Create(r) \/ CreateThrows(r)
  BY <1>3, <1>4 DEF Create, CreateThrows
<1>5. CASE \E r \in Runs : Advance(r) \/ PhaseThrows(r)
  BY <1>5 DEF Advance, PhaseThrows
<1>6. CASE \E r \in Runs : Cleanup(r) \/ Drop(r)
  BY <1>6 DEF Cleanup, Drop, Remove
<1>7. CASE (\E j \in Ids : Exit(j)) \/ ImageRemoved \/ (\E p \in Procs : Crash(p))
  BY <1>7 DEF Exit, ImageRemoved, Crash
<1>8. CASE \E p \in Procs : Reap(p)
  BY <1>8 DEF Reap
<1> QED BY <1>1, <1>2, <1>4, <1>5, <1>6, <1>7, <1>8 DEF Next, Step

\* Calls are only ever added to those that went on without their pull.
LEMMA RefusedGrows == ASSUME Next PROVE refused \subseteq refused'
BY DEF Next, Step, EnsureStarted, PullPolicy, Wire, Lookup, Adopt, Throw, Create, CreateThrows,
       Advance, PhaseThrows, Cleanup, Drop, Exit, ImageRemoved, Crash, Reap, runVars

\* A call gets past a pull policy that binds it only by applying it.
LEMMA FreshStep == ASSUME Inv, FreshInv, Next PROVE FreshInv'
<1> SUFFICES ASSUME NEW r \in Runs, PolicyBinds(r)', pc'[r] \notin {"start", "pull"} \cup Ended
             PROVE  image' # "old"
  BY DEF FreshInv
<1>1. pc[r] \notin {"start", "pull"} \cup Ended \/ PullPolicy(r)
  BY RunnerAssumption
     DEF Next, Step, EnsureStarted, PullPolicy, Wire, Lookup, Adopt, Throw, Create, CreateThrows,
         RetryOrFail, Advance, PhaseThrows, Cleanup, Drop, Exit, ImageRemoved, Crash, Reap, Goto,
         Phases, Following, Prelude, Ended, runVars, Inv, TypeOK
<1>2. CASE PullPolicy(r)
  BY <1>2, RunnerAssumption DEF PullPolicy, Pulls, PolicyBinds, Inv, TypeOK
<1>3. CASE pc[r] \notin {"start", "pull"} \cup Ended
  <2>1. PolicyBinds(r)
    BY RefusedGrows DEF PolicyBinds
  <2> QED BY <1>3, <2>1, ImageStep DEF FreshInv
<1> QED BY <1>1, <1>2, <1>3

\* Whatever the other calls do to the image, a container created under a refreshing
\* pull policy is not built from one that the policy would have replaced; only a call
\* under the age-based policy whose pull was answered with a 404 is not bound by it.
THEOREM PoliciesHonoured == Spec => []PolicyHonoured
<1>1. Init => FreshInv /\ PolicyHonoured
  BY DEF Init, FreshInv, PolicyHonoured, Existing, Live
<1>2. Inv /\ Inv' /\ FreshInv /\ PolicyHonoured /\ [Next]_vars => FreshInv' /\ PolicyHonoured'
  <2> SUFFICES ASSUME Inv, FreshInv, PolicyHonoured, [Next]_vars
               PROVE  FreshInv' /\ PolicyHonoured'
    OBVIOUS
  <2>1. CASE UNCHANGED vars
    BY <2>1 DEF vars, runVars, daemonVars, FreshInv, PolicyHonoured, PolicyBinds, Existing
  <2>2. CASE Next
    <3>1. FreshInv'
      BY <2>2, FreshStep
    <3>2. SUFFICES ASSUME NEW i \in Ids, state'[i] \in Live, PolicyBinds(creator[i])'
                   PROVE  built'[i] # "old"
      BY <3>1 DEF PolicyHonoured, Existing
    <3>3. CASE state[i] \in Live /\ creator'[i] = creator[i] /\ built'[i] = built[i]
      BY <2>2, <3>2, <3>3, RefusedGrows DEF PolicyHonoured, PolicyBinds, Existing
    <3>4. CASE \E r \in Runs : pc[r] = "create" /\ creator'[i] = r /\ built'[i] = image'
      BY <2>2, <3>2, <3>4, RefusedGrows, ImageStep DEF FreshInv, PolicyBinds, Ended
    <3> QED BY <2>2, <3>2, <3>3, <3>4, ImageStep
  <2> QED BY <2>1, <2>2
<1> QED BY <1>1, <1>2, Invariant, PTL DEF Spec
=============================================================================
