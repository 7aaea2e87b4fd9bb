--------------------------- MODULE ContainerHandle ---------------------------
(***************************************************************************)
(* The RAII handle of a container (include/testcontainers/Container.hpp,   *)
(* src/Container.cpp): moves, keep, stop, start, remove and destruction,   *)
(* with the stopping hooks that run user code in the middle of a teardown. *)
(* A hook may use handles again, so an operation is a frame on a stack:    *)
(* Enter sets the flags and calls the hooks, Return does the daemon call   *)
(* and what follows it. A handle is used by one thread at a time.          *)
(***************************************************************************)
EXTENDS Naturals, Sequences, FiniteSets

CONSTANTS
  Started,    \* containers started by this library, with stopping hooks
  Adopted,    \* containers adopted by id, without hooks
  Slots,      \* places of a handle object: variables, members, temporaries
  Faults,     \* rm: a removal may fail
  NoContainer, Void

Containers == Started \cup Adopted

VARIABLES
  handles,   \* the object in each place, or Void
  stack,     \* the operations in progress, the innermost last
  state,     \* the containers, in the daemon
  hooks,     \* how often the stopping hooks of a started container have run
  removals   \* how often its removal has been requested

vars == <<handles, stack, state, hooks, removals>>

Handle == [id : Containers \cup {NoContainer},  \* id_
           dropped : BOOLEAN,                   \* dropped_
           armed   : BOOLEAN,                   \* remove_on_drop_
           fired   : BOOLEAN]                   \* stopping_fired_

\* Assumed of the constants; the instances that are checked state it.
HandleAssumption ==
  /\ Started \cap Adopted = {}
  /\ Faults \subseteq {"rm"}
  /\ NoContainer \notin Containers /\ Void \notin Handle

\* h: the handle; g: the source of a move assignment; then: what the operation
\* does when it is done; hook: user code runs; request: the daemon call due.
Frame == [h : Slots, g : Slots, then : {"stop", "remove", "destroy", "assign"},
          hook : BOOLEAN, request : {"stop", "remove", "none"}]

\* The last conjunct is more than typing: hooks that use handles nest, but as
\* each container's hooks run once the nesting ends.
TypeOK ==
  /\ \A h \in Slots : handles[h] = Void \/ handles[h] \in Handle
  /\ stack \in Seq(Frame)
  /\ state \in [Containers -> {"none", "running", "stopped", "gone"}]
  /\ hooks \in [Started -> Nat]
  /\ removals \in [Started -> Nat]
  /\ Len(stack) <= Cardinality(Started) + 1

Init ==
  /\ handles = [h \in Slots |-> Void]
  /\ stack = <<>>
  /\ state = [c \in Containers |-> IF c \in Adopted THEN "running" ELSE "none"]
  /\ hooks = [c \in Started |-> 0]
  /\ removals = [c \in Started |-> 0]

-----------------------------------------------------------------------------
(* Obtaining and moving handles, outside of any hook.                      *)

Object(h) == handles[h] # Void
Idle == stack = <<>>
Top  == stack[Len(stack)]

\* run() returns a handle; reuse gives a persistent one.
Start(h, c, armed) ==
  /\ Idle /\ ~Object(h) /\ state[c] = "none" /\ c \in Started
  /\ state' = [state EXCEPT ![c] = "running"]
  /\ handles' = [handles EXCEPT ![h] = [id |-> c, dropped |-> FALSE, armed |-> armed, fired |-> FALSE]]
  /\ UNCHANGED <<stack, hooks, removals>>

Adopt(h, c, armed) ==
  /\ Idle /\ ~Object(h) /\ c \in Adopted
  /\ handles' = [handles EXCEPT ![h] = [id |-> c, dropped |-> FALSE, armed |-> armed, fired |-> FALSE]]
  /\ UNCHANGED <<stack, state, hooks, removals>>

\* Mutant: a move that copies.
KeepsOwning(o) == o

\* The moved-from handle owns nothing and must never fire the hooks.
MovedFrom(o) == [o EXCEPT !.id = NoContainer, !.dropped = TRUE, !.fired = TRUE]

\* The moving constructor.
Move(h, g) ==
  /\ Idle /\ ~Object(h) /\ Object(g)
  /\ handles' = [handles EXCEPT ![h] = handles[g], ![g] = MovedFrom(handles[g])]
  /\ UNCHANGED <<stack, state, hooks, removals>>

-----------------------------------------------------------------------------
(* Operations, also from inside a hook.                                    *)

\* The user's code has control: between operations, or in a hook.
UserRuns == ~Idle => Top.hook
InUse(h) == \E i \in DOMAIN stack : h \in {stack[i].h, stack[i].g}

\* Mutant: keep() is not honoured by drop().
TearsDownKept(h, then) == then = "stop" \/ ~handles[h].dropped

\* Mutant: drop() does not check that it already ran.
TearsDownAgain(h, then) == then = "stop" \/ handles[h].armed

\* stop(), and drop() of a handle that still owns an unkept container.
TearsDown(h, then) == then = "stop" \/ (~handles[h].dropped /\ handles[h].armed)

\* Mutant: the guard is set after the hooks have run.
HooksAgain(h) == handles[h].id \in Started

\* fire_stopping: once.
FiresHooks(h) == ~handles[h].fired /\ handles[h].id \in Started

\* stop() up to its daemon call; drop() up to remove_container.
Enter(h, g, then) ==
  LET teardown == TearsDown(h, then)
      hook == teardown /\ FiresHooks(h)
  IN
  /\ UserRuns /\ Object(h)
  /\ stack' = Append(stack,
       [h |-> h, g |-> g, then |-> then, hook |-> hook,
        request |-> IF then = "stop" THEN "stop" ELSE IF teardown THEN "remove" ELSE "none"])
  /\ handles' = [handles EXCEPT ![h].dropped = (then # "stop") \/ @,
                                ![h].fired = teardown \/ @]
  /\ IF hook THEN hooks' = [hooks EXCEPT ![handles[h].id] = @ + 1] ELSE UNCHANGED hooks
  /\ UNCHANGED <<state, removals>>

Stop(h)   == Enter(h, h, "stop")
Remove(h) == Enter(h, h, "remove")
\* Mutant: the old container is overwritten without drop().
AssignWithoutDrop(h, g) ==
  /\ Idle /\ h # g /\ Object(h) /\ Object(g)
  /\ handles' = [handles EXCEPT ![h] = handles[g], ![g] = MovedFrom(handles[g])]
  /\ UNCHANGED <<stack, state, hooks, removals>>

\* A handle that is in use further up the stack is neither destroyed nor assigned.
Destroy(h)   == ~InUse(h) /\ Enter(h, h, "destroy")
Assign(h, g) == h # g /\ Object(g) /\ ~InUse(h) /\ ~InUse(g) /\ Enter(h, g, "assign")

\* The hooks are over: the daemon call, whose failure drop() swallows, then the
\* end of the operation.
Return ==
  LET f == Top
      o == handles[f.h]
  IN
  /\ ~Idle
  /\ stack' = SubSeq(stack, 1, Len(stack) - 1)
  /\ \/ f.request = "none" /\ UNCHANGED <<state, removals>>
     \/ /\ f.request = "stop"
        /\ IF o.id # NoContainer /\ state[o.id] = "running"
           THEN state' = [state EXCEPT ![o.id] = "stopped"] ELSE UNCHANGED state
        /\ UNCHANGED removals
     \/ /\ f.request = "remove"
        /\ removals' = [c \in Started |-> removals[c] + (IF c = o.id THEN 1 ELSE 0)]
        /\ \/ state' = [state EXCEPT ![o.id] = "gone"]
           \/ "rm" \in Faults /\ UNCHANGED state
  /\ handles' = CASE f.then = "destroy" -> [handles EXCEPT ![f.h] = Void]
                  [] f.then = "assign"  -> [handles EXCEPT ![f.h] = handles[f.g],
                                                           ![f.g] = MovedFrom(handles[f.g])]
                  [] OTHER -> handles
  /\ UNCHANGED hooks

Keep(h, keep) ==
  /\ UserRuns /\ Object(h) /\ handles[h].armed = keep
  /\ handles' = [handles EXCEPT ![h].armed = ~keep]
  /\ UNCHANGED <<stack, state, hooks, removals>>

\* start(): a stopped container runs again; the hooks stay fired.
Restart(h) ==
  /\ UserRuns /\ Object(h) /\ handles[h].id # NoContainer
  /\ state[handles[h].id] = "stopped"
  /\ state' = [state EXCEPT ![handles[h].id] = "running"]
  /\ UNCHANGED <<handles, stack, hooks, removals>>

\* The container's main process ends by itself.
Exit(c) ==
  /\ state[c] = "running" /\ state' = [state EXCEPT ![c] = "stopped"]
  /\ UNCHANGED <<handles, stack, hooks, removals>>

Next ==
  \/ \E h \in Slots, c \in Containers, armed \in BOOLEAN : Start(h, c, armed) \/ Adopt(h, c, armed)
  \/ \E h, g \in Slots : Move(h, g) \/ Assign(h, g)
  \/ \E h \in Slots : Stop(h) \/ Remove(h) \/ Destroy(h) \/ Restart(h)
  \/ \E h \in Slots, keep \in BOOLEAN : Keep(h, keep)
  \/ Return
  \/ \E c \in Containers : Exit(c)

Spec == Init /\ [][Next]_vars

-----------------------------------------------------------------------------
(* Properties. *)

Owners(c)   == {h \in Slots : Object(h) /\ handles[h].id = c /\ ~handles[h].dropped}
Removing(c) == \E i \in DOMAIN stack : stack[i].request = "remove" /\ handles[stack[i].h].id = c

\* "Copying is deleted so the removal happens exactly once" (Container.hpp): a
\* started container never has two owners, none once its removal is under way or
\* done, and its removal is requested at most once over any sequence of moves,
\* stops, removes and destructions, the ones made from inside hooks included.
RemovedOnce ==
  \A c \in Started :
    /\ removals[c] + Cardinality(Owners(c)) <= 1
    /\ Removing(c) => Owners(c) = {} /\ removals[c] = 0

\* No leak: a started container loses its owner only to its own removal, or
\* because the handle was persistent.
KeepsOwner ==
  \A c \in Started : \A h \in Owners(c) :
    (Owners(c)' = {} /\ ~Removing(c)') => ~handles[h].armed

\* The hooks of a started container run at most once over all its handles, and
\* have run before its removal is requested: never after it, never not at all.
HooksBeforeRemoval ==
  \A c \in Started : hooks[c] <= 1 /\ (removals[c] > 0 => hooks[c] = 1)

\* keep(): as long as the owner of a container is persistent, nothing that
\* happens to its handle removes it or fires its hooks, an explicit stop apart.
LeavesKept ==
  \A c \in Started : \A h \in Owners(c) :
    ~handles[h].armed =>
      /\ state[c] # "gone" => state'[c] # "gone"
      /\ hooks'[c] = hooks[c] \/ stack'[Len(stack')].then = "stop"
\* The two about states, and the two about steps (Container.hpp: the moves, drop(), keep()).
OwnedOnce  == RemovedOnce /\ HooksBeforeRemoval
OwnerSteps == KeepsOwner /\ LeavesKept
=============================================================================
