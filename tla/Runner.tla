------------------------------- MODULE Runner -------------------------------
(***************************************************************************)
(* run(): from a ContainerRequest to a running, ready container in the     *)
(* hands of the caller (src/Runner.cpp), by several concurrent calls in    *)
(* one or more processes that share a daemon. Each call boots the reaper,  *)
(* honours the pull policy, adopts or creates, copies, starts, waits, runs *)
(* the lifecycle hooks, and on any failure removes what it created and     *)
(* retries. The daemon's containers, the image and Ryuk are the            *)
(* environment. The life of the handle after run() is module               *)
(* ContainerHandle; here the caller just drops it.                         *)
(***************************************************************************)
EXTENDS Naturals

CONSTANTS
  Runs,      \* the calls to run()
  Procs,     \* the processes they are made in
  ProcOf,    \* which process makes which call
  Reusers,   \* the calls whose request asks for (enabled) reuse, of one hash
  Policy,    \* the pull policy of each call
  StartupAttempts,  \* request.startup_attempts
  Ids,       \* container ids the daemon may assign
  Faults,    \* rm: a best-effort removal fails; lost: the daemon created or
             \* started a container but the answer did not arrive; prune:
             \* somebody removes the local image; unserved: a pull may be
             \* answered that the registry has no such image (404)
  NoId, NoRun

ASSUME RunnerAssumption ==
  /\ ProcOf \in [Runs -> Procs]
  /\ Reusers \subseteq Runs
  /\ Policy \in [Runs -> {"default", "always", "age"}]
  /\ StartupAttempts \in Nat
  /\ Faults \subseteq {"rm", "lost", "prune", "unserved"}
  /\ NoId \notin Ids /\ NoRun \notin Runs

VARIABLES
  pc,       \* where each call is
  tries,    \* attempts each call has begun
  cid,      \* the container a call works on or has handed out
  refused,  \* the calls that went on although their pull was answered 404
  alive,    \* the processes that have not died
  watched,  \* the processes whose reaper is in place
  state,    \* the daemon's containers
  creator,  \* which call created a container, by its labels
  built,    \* the image a container was created from
  image     \* the local image

runVars    == <<pc, tries, cid, refused>>
daemonVars == <<state, creator, built, image>>
vars == <<runVars, alive, watched, daemonVars>>

-----------------------------------------------------------------------------
\* max(1, request.startup_attempts)
Attempts == IF StartupAttempts = 0 THEN 1 ELSE StartupAttempts

\* The steps of one attempt, in the order of create_start_wait.
Following == [created_hooks  |-> "copy",
              copy           |-> "starting_hooks",
              starting_hooks |-> "start_container",
              start_container |-> "wait",
              wait           |-> "started_hooks",
              started_hooks  |-> "handle"]
Phases == DOMAIN Following
Prelude == {"start", "pull", "wire", "lookup"}
Ended == {"handle", "dropped", "failed"}
PCs == Prelude \cup {"adopt", "create", "cleanup"} \cup Phases \cup Ended

Live == {"created", "running", "exited"}
Images == {"absent", "old", "fresh"}

TypeOK ==
  /\ pc \in [Runs -> PCs]
  /\ tries \in [Runs -> 0..Attempts]
  /\ cid \in [Runs -> Ids \cup {NoId}]
  /\ refused \subseteq Runs
  /\ alive \subseteq Procs /\ watched \subseteq Procs
  /\ state \in [Ids -> Live \cup {"none", "gone"}]
  /\ creator \in [Ids -> Runs \cup {NoRun}]
  /\ built \in [Ids -> Images]
  /\ image \in Images

Init ==
  /\ pc = [r \in Runs |-> "start"]
  /\ tries = [r \in Runs |-> 0]
  /\ cid = [r \in Runs |-> NoId]
  /\ refused = {}
  /\ alive = Procs /\ watched = {}
  /\ state = [i \in Ids |-> "none"]
  /\ creator = [i \in Ids |-> NoRun]
  /\ built = [i \in Ids |-> "absent"]
  /\ image \in Images

-----------------------------------------------------------------------------
(* Before the first container: a failure here leaves nothing behind.       *)

Goto(r, from, to) == pc[r] = from /\ pc' = [pc EXCEPT ![r] = to]

\* Mutant: the reaper is left to whoever comes next.
ReaperForgotten(r) ==
  /\ Goto(r, "start", "pull")
  /\ UNCHANGED <<tries, cid, refused, alive, watched, daemonVars>>

\* Reaper::ensure_started, before anything it should reap exists.
EnsureStarted(r) ==
  /\ Goto(r, "start", "pull")
  /\ watched' = watched \cup {ProcOf[r]}
  /\ UNCHANGED <<tries, cid, refused, alive, daemonVars>>

\* Mutant: the age is compared the wrong way around.
PullsYoung(r) == \/ Policy[r] = "always"
                 \/ Policy[r] = "age" /\ image = "fresh"

\* Always pulls; the age-based policy inspects, and pulls an image that is too
\* old or whose date cannot be read. Absent is left to create.
Pulls(r) == \/ Policy[r] = "always"
            \/ Policy[r] = "age" /\ image = "old"

\* The try block of the age-based policy covers the pull as well: when the
\* registry has no such image, its 404 is swallowed like that of the inspection
\* and run() goes on with the old one. ImagePullPolicy::Always throws (Throw).
PullPolicy(r) ==
  /\ Goto(r, "pull", "wire")
  /\ \/ image' = (IF Pulls(r) THEN "fresh" ELSE image) /\ UNCHANGED refused
     \/ /\ Pulls(r) /\ Policy[r] = "age" /\ "unserved" \in Faults
        /\ refused' = refused \cup {r} /\ UNCHANGED image
  /\ UNCHANGED <<tries, cid, alive, watched, state, creator, built>>

\* HostPortForwarder::wire, then the choice between reuse and a normal run.
Wire(r) ==
  /\ Goto(r, "wire", IF r \in Reusers THEN "lookup" ELSE "create")
  /\ UNCHANGED <<tries, cid, refused, alive, watched, daemonVars>>

Matches == {i \in Ids : state[i] = "running" /\ creator[i] \in Reusers}

\* list_containers by the reuse label: adopt the first running match.
Lookup(r) ==
  /\ \/ Matches = {} /\ Goto(r, "lookup", "create") /\ UNCHANGED cid
     \/ /\ Goto(r, "lookup", "adopt")
        /\ \E i \in Matches : cid' = [cid EXCEPT ![r] = i]
  /\ UNCHANGED <<tries, refused, alive, watched, daemonVars>>

\* The adopted container becomes ready: a handle that does not remove it.
Adopt(r) ==
  /\ Goto(r, "adopt", "handle")
  /\ UNCHANGED <<tries, cid, refused, alive, watched, daemonVars>>

\* Mutant: the failed adoption runs through the clean-up of a failed attempt.
ThrowAndCleanUp(r) ==
  /\ pc[r] \in Prelude \cup {"adopt"}
  /\ pc' = [pc EXCEPT ![r] = IF @ = "adopt" THEN "cleanup" ELSE "failed"]
  /\ UNCHANGED <<tries, cid, refused, alive, watched, daemonVars>>

\* Any exception of these steps propagates, a failed adoption included: it is
\* neither retried nor cleaned up.
Throw(r) ==
  /\ pc[r] \in Prelude \cup {"adopt"}
  /\ pc' = [pc EXCEPT ![r] = "failed"]
  /\ cid' = [cid EXCEPT ![r] = NoId]
  /\ UNCHANGED <<tries, refused, alive, watched, daemonVars>>

-----------------------------------------------------------------------------
(* One attempt.                                                            *)

\* The daemon creates container i for call r, pulling an absent image first.
NewContainer(r, i) ==
  /\ state[i] = "none"
  /\ state' = [state EXCEPT ![i] = "created"]
  /\ creator' = [creator EXCEPT ![i] = r]
  /\ image' = IF image = "absent" THEN "fresh" ELSE image
  /\ built' = [built EXCEPT ![i] = image']

Create(r) ==
  /\ Goto(r, "create", "created_hooks")
  /\ tries' = [tries EXCEPT ![r] = @ + 1]
  /\ \E i \in Ids : NewContainer(r, i) /\ cid' = [cid EXCEPT ![r] = i]
  /\ UNCHANGED <<refused, alive, watched>>

\* Mutant: one attempt too many.
OneMoreAttempt(r, begun) ==
  pc' = [pc EXCEPT ![r] = IF begun <= Attempts THEN "create" ELSE "failed"]

\* with_retry: swallow the failure while attempts remain.
RetryOrFail(r, begun) ==
  pc' = [pc EXCEPT ![r] = IF begun < Attempts THEN "create" ELSE "failed"]

\* Mutant: an attempt without a container does not count.
CreateThrowsUncounted(r) ==
  /\ pc[r] = "create"
  /\ RetryOrFail(r, tries[r])
  /\ \/ UNCHANGED daemonVars
     \/ "lost" \in Faults /\ \E i \in Ids : NewContainer(r, i)
  /\ UNCHANGED <<tries, cid, refused, alive, watched>>

\* create_container throws: there is no id to clean up.
CreateThrows(r) ==
  /\ pc[r] = "create"
  /\ tries' = [tries EXCEPT ![r] = @ + 1]
  /\ RetryOrFail(r, tries[r] + 1)
  /\ \/ UNCHANGED daemonVars
     \/ "lost" \in Faults /\ \E i \in Ids : NewContainer(r, i)
  /\ UNCHANGED <<cid, refused, alive, watched>>

\* A hook, the copy, the start, the wait succeed; the last one returns the handle.
Advance(r) ==
  /\ pc[r] \in Phases
  /\ pc' = [pc EXCEPT ![r] = Following[@]]
  /\ IF pc[r] = "start_container"
     THEN state[cid[r]] = "created" /\ state' = [state EXCEPT ![cid[r]] = "running"]
     ELSE UNCHANGED state
  /\ UNCHANGED <<tries, cid, refused, alive, watched, creator, built, image>>

\* Mutant: an exception of the last hooks escapes the try block.
PhaseEscapes(r) ==
  /\ pc[r] \in Phases
  /\ pc' = [pc EXCEPT ![r] = IF @ = "started_hooks" THEN "failed" ELSE "cleanup"]
  /\ UNCHANGED <<tries, cid, refused, alive, watched, daemonVars>>

\* One of them throws; a start whose answer was lost has happened all the same.
PhaseThrows(r) ==
  /\ pc[r] \in Phases
  /\ pc' = [pc EXCEPT ![r] = "cleanup"]
  /\ \/ UNCHANGED state
     \/ /\ "lost" \in Faults /\ pc[r] = "start_container" /\ state[cid[r]] = "created"
        /\ state' = [state EXCEPT ![cid[r]] = "running"]
  /\ UNCHANGED <<tries, cid, refused, alive, watched, creator, built, image>>

\* remove_container(force), its failure swallowed.
Remove(i) == \/ state' = [state EXCEPT ![i] = "gone"]
             \/ "rm" \in Faults /\ UNCHANGED state

\* The catch block of the attempt, then with_retry.
Cleanup(r) ==
  /\ pc[r] = "cleanup"
  /\ Remove(cid[r])
  /\ cid' = [cid EXCEPT ![r] = NoId]
  /\ RetryOrFail(r, tries[r])
  /\ UNCHANGED <<tries, refused, alive, watched, creator, built, image>>

\* The caller drops its handle: remove_on_drop is set on the normal path only.
Drop(r) ==
  /\ Goto(r, "handle", "dropped")
  /\ IF r \in Reusers THEN UNCHANGED state ELSE Remove(cid[r])
  /\ UNCHANGED <<tries, cid, refused, alive, watched, creator, built, image>>

-----------------------------------------------------------------------------
(* The environment.                                                        *)

\* A container's main process ends; somebody removes the local image.
Exit(i) ==
  /\ state[i] = "running" /\ state' = [state EXCEPT ![i] = "exited"]
  /\ UNCHANGED <<runVars, alive, watched, creator, built, image>>

ImageRemoved ==
  /\ "prune" \in Faults
  /\ image # "absent" /\ image' = "absent"
  /\ UNCHANGED <<runVars, alive, watched, state, creator, built>>

Crash(p) ==
  /\ p \in alive /\ alive' = alive \ {p}
  /\ UNCHANGED <<runVars, watched, daemonVars>>

\* Mutant: reuse containers carry the session label too.
LabelledAlways(i, p) == creator[i] # NoRun /\ ProcOf[creator[i]] = p

\* The session label of process p: normal containers carry it, reuse ones do not.
SessionLabelled(i, p) == creator[i] \in Runs \ Reusers /\ ProcOf[creator[i]] = p

\* The Ryuk of a dead process sweeps its session.
Reap(p) ==
  /\ p \in watched \ alive
  /\ state' = [i \in Ids |-> IF SessionLabelled(i, p) /\ state[i] \in Live THEN "gone" ELSE state[i]]
  /\ UNCHANGED <<runVars, alive, watched, creator, built, image>>

-----------------------------------------------------------------------------
Step(r) ==
  \/ EnsureStarted(r) \/ PullPolicy(r) \/ Wire(r) \/ Lookup(r) \/ Adopt(r) \/ Throw(r)
  \/ Create(r) \/ CreateThrows(r) \/ Advance(r) \/ PhaseThrows(r) \/ Cleanup(r)

Next ==
  \/ \E r \in Runs : ProcOf[r] \in alive /\ (Step(r) \/ Drop(r))
  \/ \E i \in Ids : Exit(i)
  \/ ImageRemoved
  \/ \E p \in Procs : Crash(p) \/ Reap(p)

Spec == Init /\ [][Next]_vars

\* Calls make progress while their process lives and Ryuk sweeps; the caller
\* need not drop its handle.
Fairness ==
  /\ \A r \in Runs : WF_vars(ProcOf[r] \in alive /\ Step(r))
  /\ \A p \in Procs : WF_vars(Reap(p))

FairSpec == Spec /\ Fairness

-----------------------------------------------------------------------------
(* Properties. *)

Existing == {i \in Ids : state[i] \in Live}
Busy(r) == pc[r] \in Phases \cup {"cleanup"}

\* No leak: while the process of its creator lives, a container that exists is
\* the one its creator is working on, or has handed out, or (reuse) was meant to
\* stay. Nothing survives a failed attempt, a retry or a dropped handle. For
\* environments without removal failures and lost answers.
NoLeak ==
  \A i \in Existing :
    LET r == creator[i] IN
      \/ ProcOf[r] \notin alive
      \/ cid[r] = i /\ (Busy(r) \/ pc[r] = "handle")
      \/ cid[r] = i /\ pc[r] = "dropped" /\ r \in Reusers

\* A container is only ever removed by the call that created it, while it works
\* on it or through the handle it returned, or by Ryuk once the process is dead:
\* an adopter never removes what it adopted.
RemovedByItsOwner ==
  [][ \A i \in Existing : state'[i] = "gone" =>
        LET r == creator[i] IN
          \/ cid[r] = i /\ pc[r] = "cleanup"
          \/ cid[r] = i /\ pc[r] = "handle" /\ pc'[r] = "dropped" /\ r \notin Reusers
          \/ ProcOf[r] \notin alive /\ r \notin Reusers ]_vars

\* "Reused containers are never auto-removed or reaped" (docs/feature-notes.md):
\* once a reuse call has returned a handle, the container stays, also when the
\* handle is dropped or the process dies.
ReusedStays ==
  [][ \A r \in Reusers : (pc[r] \in {"handle", "dropped"} /\ state[cid[r]] \in Live)
        => state'[cid[r]] \in Live ]_vars

\* The pulls of a policy bind a call, but for the age-based one that went on after
\* its pull was answered with a 404 (src/Runner.cpp:124).
PolicyBinds(r) == \/ Policy[r] = "always"
                  \/ Policy[r] = "age" /\ r \notin refused

\* A container created under a refreshing pull policy that binds its creator is not
\* built from an image that the policy would have replaced, whatever the other calls
\* do to the image.
PolicyHonoured == \A i \in Existing : PolicyBinds(creator[i]) => built[i] # "old"

\* Every call of a live process ends: with a handle or with an exception.
RunEnds == \A r \in Runs : (ProcOf[r] \in alive) ~> (pc[r] \in Ended \/ ProcOf[r] \notin alive)

\* What the normal calls of a dead process left behind is swept, whatever they
\* were doing when it died: the reaper was in place before the first create.
Swept == \A p \in Procs :
  p \notin alive ~> \A i \in Existing : creator[i] \in Reusers \/ ProcOf[creator[i]] # p
=============================================================================
