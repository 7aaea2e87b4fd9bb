--------------------------- MODULE NamedResources ---------------------------
(***************************************************************************)
(* Networks and volumes: plain creation, the find-or-create of a reuse     *)
(* network, the RAII handles, and the throwaway helper container that      *)
(* seeds a volume. Threads, of one or several processes, share a daemon    *)
(* that hands out duplicate network names and gives an existing volume to  *)
(* whoever creates it again.                                               *)
(***************************************************************************)
EXTENDS Naturals, FiniteSets

CONSTANTS
  Threads,
  Slots,      \* places of a handle object
  Names,
  Configs,    \* configurations of a reuse network, as hashes
  MaxIds,     \* bound: resources ever created
  Void

Ids == 1..MaxIds

VARIABLES
  windows,    \* the daemon runs Windows containers
  handles,    \* the object in each slot, or Void
  job,        \* what each thread is in the middle of
  made,       \* the resources, by id
  up,         \* those the daemon still has
  failed,     \* those whose removal was attempted and failed
  given       \* those a persistent handle has left behind

vars == <<windows, handles, job, made, up, failed, given>>

\* A network or volume handle: id_ or name_, dropped_, remove_on_drop_.
Handle == [id : Ids, dropped : BOOLEAN, armed : BOOLEAN]

\* Assumed of the constants; the instances that are checked state it.
NamedAssumption ==
  MaxIds \in Nat /\ Names # {} /\ 0 \notin Configs /\ Void \notin Handle

\* hash 0: no reuse label, and then the session label; seen: what the creator of
\* a reuse network had listed.
Resource == [kind : {"network", "volume", "helper"}, name : Names, hash : {0} \cup Configs,
             seen : SUBSET Ids]
Job == [pc : {"idle", "create", "copy", "start", "exec", "cleanup"},
        name : Names, hash : {0} \cup Configs, seen : SUBSET Ids, helper : {0} \cup Ids]

Made == DOMAIN made
Of(kind, name) == {r \in up : made[r].kind = kind /\ made[r].name = name}
Idle(t) == job[t].pc = "idle"
NoJob == [pc |-> "idle", name |-> CHOOSE n \in Names : TRUE, hash |-> 0,
          seen |-> {}, helper |-> 0]
Free(h) == handles[h] = Void

TypeOK ==
  /\ windows \in BOOLEAN
  /\ \A h \in Slots : Free(h) \/ (handles[h] \in Handle /\ handles[h].id \in Made)
  /\ job \in [Threads -> Job]
  /\ Made \subseteq Ids /\ \A r \in Made : made[r] \in Resource
  /\ up \subseteq Made /\ failed \subseteq Made /\ given \subseteq Made

Init ==
  /\ windows \in BOOLEAN
  /\ handles = [h \in Slots |-> Void] /\ job = [t \in Threads |-> NoJob]
  /\ made = <<>> /\ up = {} /\ failed = {} /\ given = {}

-----------------------------------------------------------------------------
(* Creation.                                                               *)

New == Cardinality(Made) + 1
Make(kind, name, hash, seen) ==
  /\ New \in Ids /\ up' = up \cup {New}
  /\ made' = [r \in Made \cup {New} |->
                IF r = New THEN [kind |-> kind, name |-> name, hash |-> hash, seen |-> seen]
                ELSE made[r]]

Take(h, id, armed) == handles' = [handles EXCEPT ![h] = [id |-> id, dropped |-> FALSE, armed |-> armed]]

\* Network::create and the builder without reuse: the daemon accepts any name.
CreateNetwork(t, h, name) ==
  /\ Idle(t) /\ Free(h) /\ Make("network", name, 0, {}) /\ Take(h, New, TRUE)
  /\ UNCHANGED <<job, failed, given>>

\* Volume::create and its builder: an existing volume of the name is returned.
CreateVolume(t, h, name) ==
  /\ Idle(t) /\ Free(h) /\ UNCHANGED <<job, failed, given>>
  /\ \/ \E v \in Of("volume", name) : Take(h, v, TRUE) /\ UNCHANGED <<made, up>>
     \/ Of("volume", name) = {} /\ Make("volume", name, 0, {}) /\ Take(h, New, TRUE)

\* Mutant: a taken name does not stop the creation.
NameIsFree(name) == FALSE

\* Of the daemon's matches, those of exactly this name.
NameTaken(name) == Of("network", name) # {}

\* Builder::create with reuse, up to the decision: adopt a network of the same
\* configuration, refuse another one of the name, else go on to create.
FindReuse(t, h, name, hash) ==
  LET matches == {n \in Of("network", name) : made[n].hash = hash} IN
  /\ Idle(t) /\ Free(h) /\ UNCHANGED <<made, up, failed, given>>
  /\ \/ \E n \in matches : Take(h, n, FALSE) /\ UNCHANGED job
     \/ /\ matches = {} /\ ~NameTaken(name) /\ UNCHANGED handles
        /\ job' = [job EXCEPT ![t] = [NoJob EXCEPT !.pc = "create", !.name = name, !.hash = hash,
                                                   !.seen = Of("network", name)]]

\* The reuse network: a reuse label, no session label, a persistent handle.
CreateReuse(t, h) ==
  /\ job[t].pc = "create" /\ job' = [job EXCEPT ![t] = NoJob] /\ UNCHANGED <<failed, given>>
  /\ \/ UNCHANGED <<handles, made, up>>
     \/ /\ Free(h) /\ Make("network", job[t].name, job[t].hash, job[t].seen)
        /\ Take(h, New, FALSE)

-----------------------------------------------------------------------------
(* The handles: drop, remove, keep, moves and destruction.                 *)

\* Mutant: a moved-from handle still owns.
KeepsOwning(g) == handles[g]

\* A moved-from handle owns nothing.
MovedFrom(g) == [handles[g] EXCEPT !.dropped = TRUE]

\* drop(): at most one attempt, none for a kept network; a failure is swallowed.
DropOf(h) ==
  LET o == handles[h] IN
  /\ given' = given \cup {r \in {o.id} : ~o.dropped /\ ~o.armed}
  /\ IF o.dropped \/ ~o.armed \/ o.id \notin up
     THEN UNCHANGED <<up, failed>>
     ELSE \/ up' = up \ {o.id} /\ UNCHANGED failed
          \/ failed' = failed \cup {o.id} /\ UNCHANGED up

Remove(h) ==
  /\ ~Free(h) /\ DropOf(h)
  /\ handles' = [handles EXCEPT ![h].dropped = TRUE] /\ UNCHANGED <<job, made>>

Destroy(h) ==
  /\ ~Free(h) /\ DropOf(h)
  /\ handles' = [handles EXCEPT ![h] = Void] /\ UNCHANGED <<job, made>>

MoveConstruct(h, g) ==
  /\ Free(h) /\ ~Free(g)
  /\ handles' = [handles EXCEPT ![h] = handles[g], ![g] = MovedFrom(g)]
  /\ UNCHANGED <<job, made, up, failed, given>>

MoveAssign(h, g) ==
  /\ h # g /\ ~Free(h) /\ ~Free(g) /\ made[handles[h].id].kind = made[handles[g].id].kind
  /\ DropOf(h)
  /\ handles' = [handles EXCEPT ![h] = handles[g], ![g] = MovedFrom(g)]
  /\ UNCHANGED <<job, made>>

\* Network::keep; a volume has none.
Keep(h, keep) ==
  /\ ~Free(h) /\ made[handles[h].id].kind = "network" /\ handles[h].armed = keep
  /\ handles' = [handles EXCEPT ![h].armed = ~keep] /\ UNCHANGED <<job, made, up, failed, given>>

-----------------------------------------------------------------------------
(* Volume::populate: a helper with the volume mounted, files copied into   *)
(* it. On Windows they are staged before the start and copied by an exec.  *)

Goto(t, p) == job' = [job EXCEPT ![t].pc = p]

Populate(t, h) ==
  /\ Idle(t) /\ ~Free(h) /\ made[handles[h].id].kind = "volume" /\ handles[h].id \in up
  /\ Make("helper", made[handles[h].id].name, 0, {})
  /\ job' = [job EXCEPT ![t] = [NoJob EXCEPT !.pc = IF windows THEN "copy" ELSE "start",
                                             !.helper = New]]
  /\ UNCHANGED <<handles, failed, given>>

\* Mutant: only a seed that worked removes its helper.
LeaksOnError(t) == "idle"

\* "Always remove the helper even if the seed failed."
AfterError(t) == "cleanup"

\* What comes after a step of the seed that worked.
Following(p) ==
  CASE p = "copy"  -> IF windows THEN "start" ELSE "cleanup"
    [] p = "start" -> IF windows THEN "exec" ELSE "copy"
    [] p = "exec"  -> "cleanup"

SeedStep(t) ==
  /\ job[t].pc \in {"copy", "start", "exec"}
  /\ \/ Goto(t, Following(job[t].pc))
     \/ Goto(t, AfterError(t))
  /\ UNCHANGED <<handles, made, up, failed, given>>

\* remove_container: its failure is thrown, or hidden behind the first error.
RemoveHelper(t) ==
  /\ job[t].pc = "cleanup" /\ job' = [job EXCEPT ![t] = NoJob]
  /\ \/ up' = up \ {job[t].helper} /\ UNCHANGED failed
     \/ failed' = failed \cup {job[t].helper} /\ UNCHANGED up
  /\ UNCHANGED <<handles, made, given>>

Step ==
  \/ \E t \in Threads, h \in Slots :
       \/ \E n \in Names : CreateNetwork(t, h, n) \/ CreateVolume(t, h, n)
       \/ \E n \in Names, c \in Configs : FindReuse(t, h, n, c)
       \/ CreateReuse(t, h) \/ Populate(t, h)
  \/ \E h \in Slots :
       \/ Remove(h) \/ Destroy(h)
       \/ \E g \in Slots : MoveConstruct(h, g) \/ MoveAssign(h, g)
       \/ \E keep \in BOOLEAN : Keep(h, keep)
  \/ \E t \in Threads : SeedStep(t) \/ RemoveHelper(t)

Next == Step /\ UNCHANGED windows

Spec == Init /\ [][Next]_vars

-----------------------------------------------------------------------------
(* Properties. *)

Owner(h, r) == ~Free(h) /\ handles[h].id = r /\ ~handles[h].dropped

\* Nothing is lost: what is not persistent has an owner, is the helper of a seed
\* in progress, or its removal has been tried and has failed.
NoneLost ==
  \A r \in up : made[r].hash = 0 =>
    \/ \E h \in Slots : Owner(h, r)
    \/ \E t \in Threads : ~Idle(t) /\ job[t].helper = r
    \/ r \in failed \cup given

\* A reuse network is never created next to one of its name, of any
\* configuration, that its creator could see; two of a name are the work of two
\* creators between their look and their creation.
NotNextToSeen ==
  \A m, n \in Made :
    (m # n /\ made[n].hash # 0 /\ made[m].kind = "network" /\ made[m].name = made[n].name)
      => m \notin made[n].seen

\* One owner per network, whatever is moved where, unless reuse adopted it twice.
OneOwner ==
  \A g, h \in Slots : \A r \in Made :
    (g # h /\ made[r].kind = "network" /\ made[r].hash = 0) => ~(Owner(g, r) /\ Owner(h, r))
\* What a handle of a network or a volume owes its resource (Network.cpp, Volume.cpp).
OwnedOnce == NoneLost /\ NotNextToSeen /\ OneOwner
=============================================================================
