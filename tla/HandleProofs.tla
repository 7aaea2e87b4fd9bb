--------------------------- MODULE HandleProofs ---------------------------
(***************************************************************************)
(* Theorems about the handles. A container's: it is removed at most once   *)
(* and has at most one owner, who lets go of it only to remove it or       *)
(* because it is kept; its stopping hooks run at most once and before      *)
(* that, and nest at most once per container, over all sequences of moves, *)
(* stops, removes and destructions, and all nestings of them in hooks. A   *)
(* network's and a volume's (NamedResources): nothing that is to be        *)
(* removed is lost, a network has one owner, and a reuse network is not    *)
(* made next to a namesake its creator has seen. For all containers,       *)
(* slots, threads, names and configurations, and under every failing step. *)
(***************************************************************************)
EXTENDS Resources, FiniteSetTheorems, TLAPS

-----------------------------------------------------------------------------
(* Containers.                                                             *)


HandleTyped ==
  /\ handles \in [Slots -> H!Handle \cup {Void}]
  /\ stack \in Seq(H!Frame)
  /\ state \in [H!Containers -> {"none", "running", "stopped", "gone"}]
  /\ hooks \in [Started -> Nat] /\ removals \in [Started -> Nat]

(* The inductive invariant. What is true of the operations in progress:    *)
(* the handles they are about stay in place, those that own an operation   *)
(* that ends in a removal have let go and have run their hooks, and what   *)
(* is destroyed or assigned is in no operation below.                      *)
FrameInv(l) ==
  LET f == stack[l] IN
  /\ H!Object(f.h) /\ H!Object(f.g)
  /\ f.then # "stop" => handles[f.h].dropped
  /\ f.request = "remove" => f.then # "stop" /\ handles[f.h].fired
  /\ f.then = "assign" => f.h # f.g
  /\ f.then \in {"destroy", "assign"} =>
       \A k \in 1..(l - 1) : {stack[k].h, stack[k].g} \cap {f.h, f.g} = {}

Refers(h, c) == H!Object(h) /\ handles[h].id = c
Removes(l, c) == stack[l].request = "remove" /\ handles[stack[l].h].id = c

\* What is true of a container: at most one handle object names it, and tells
\* whether its hooks have run; one operation at most is about to remove it, and
\* none once it was removed.
ContainerInv(c) ==
  /\ \A g, h \in Slots : Refers(g, c) /\ Refers(h, c) => g = h
  /\ state[c] = "none" => hooks[c] = 0 /\ removals[c] = 0 /\ \A h \in Slots : ~Refers(h, c)
  /\ \A h \in Slots : Refers(h, c) => hooks[c] = IF handles[h].fired THEN 1 ELSE 0
  /\ hooks[c] <= 1 /\ removals[c] <= 1
  /\ removals[c] > 0 => hooks[c] = 1 /\ \A h \in Slots : Refers(h, c) => handles[h].dropped
  /\ \A l, j \in DOMAIN stack : Removes(l, c) /\ Removes(j, c) => l = j /\ removals[c] = 0

ContainersInv == /\ HandleTyped
                 /\ \A l \in DOMAIN stack : FrameInv(l)
                 /\ \A c \in Started : ContainerInv(c)

-----------------------------------------------------------------------------
\* An operation that is entered is the last one of the stack.
LEMMA Push ==
  ASSUME HandleTyped, NEW f \in H!Frame
  PROVE  /\ Append(stack, f) \in Seq(H!Frame)
         /\ Len(Append(stack, f)) = Len(stack) + 1
         /\ Append(stack, f)[Len(stack) + 1] = f
         /\ \A l \in DOMAIN stack : Append(stack, f)[l] = stack[l]
         /\ DOMAIN Append(stack, f) = 1..(Len(stack) + 1)
         /\ DOMAIN stack = 1..Len(stack) /\ Len(stack) \in Nat
BY DEF HandleTyped

\* An operation that returns leaves those below it.
LEMMA Pop ==
  ASSUME HandleTyped, stack # <<>>
  PROVE  LET s == SubSeq(stack, 1, Len(stack) - 1) IN
         /\ s \in Seq(H!Frame) /\ DOMAIN s = 1..(Len(stack) - 1)
         /\ \A l \in DOMAIN s : s[l] = stack[l]
         /\ DOMAIN stack = 1..Len(stack) /\ Len(stack) \in Nat \ {0}
BY DEF HandleTyped

\* Before the first container is started there is no handle.
LEMMA HandleInit == ASSUME H!HandleAssumption PROVE H!Init => ContainersInv
<1> SUFFICES ASSUME H!Init PROVE ContainersInv
  OBVIOUS
<1>1. stack \in Seq(H!Frame) /\ DOMAIN stack = {}
  BY DEF H!Init
<1>2. \A c \in Started : state[c] = "none" /\ c \in H!Containers
  BY DEF H!Init, H!Containers, H!HandleAssumption
<1>3. HandleTyped
  BY <1>1 DEF H!Init, HandleTyped
<1> QED BY <1>1, <1>2, <1>3 DEF H!Init, ContainersInv, ContainerInv, Refers, H!Object

\* A new handle gets a container that no handle names, or one that is only adopted.
LEMMA ObtainStep ==
  ASSUME H!HandleAssumption, ContainersInv, NEW h \in Slots, NEW c \in H!Containers, NEW armed \in BOOLEAN,
         H!Start(h, c, armed) \/ H!Adopt(h, c, armed)
  PROVE  ContainersInv'
<1> DEFINE o == [id |-> c, dropped |-> FALSE, armed |-> armed, fired |-> FALSE]
<1>1. /\ stack = <<>> /\ stack' = stack /\ handles' = [handles EXCEPT ![h] = o]
      /\ UNCHANGED <<hooks, removals>> /\ ~H!Object(h)
      /\ c \in Started => state[c] = "none"
      /\ state' \in {state, [state EXCEPT ![c] = "running"]}
      /\ c \in Started => state' = [state EXCEPT ![c] = "running"]
  BY DEF H!Start, H!Adopt, H!Idle, H!HandleAssumption
<1>2. o \in H!Handle /\ o # Void /\ o.id = c /\ ~o.fired
  <2>1. o \in H!Handle /\ o.id = c /\ ~o.fired
    BY DEF H!Handle
  <2> QED BY <2>1 DEF H!HandleAssumption
<1> HIDE DEF o
<1>3. HandleTyped'
  BY <1>1, <1>2 DEF ContainersInv, HandleTyped
<1>4. handles'[h] = o /\ \A g \in Slots : g # h => handles'[g] = handles[g]
  BY <1>1 DEF ContainersInv, HandleTyped
<1>5. DOMAIN stack' = {}
  BY <1>1
<1>6. ASSUME NEW e \in Started PROVE ContainerInv(e)'
  <2>1. \A g \in Slots : Refers(g, e)' => (g = h /\ e = c) \/ (g # h /\ Refers(g, e))
    BY <1>2, <1>4 DEF Refers, H!Object
  <2>2. e = c => hooks[c] = 0 /\ removals[c] = 0 /\ state'[c] # "none" /\ \A g \in Slots : ~Refers(g, c)
    BY <1>1, <1>6 DEF ContainersInv, HandleTyped, ContainerInv
  <2>3. e # c => state'[e] = state[e]
    BY <1>1, <1>6 DEF ContainersInv, HandleTyped, H!Containers
  <2> QED BY <1>1, <1>2, <1>4, <1>5, <2>1, <2>2, <2>3 DEF ContainersInv, ContainerInv
<1> QED BY <1>3, <1>5, <1>6 DEF ContainersInv

\* What a move leaves: the container in its new place, and an object that names none.
LEMMA Transfer ==
  ASSUME H!HandleAssumption, ContainersInv, NEW h \in Slots, NEW g \in Slots, g # h, H!Object(g),
         handles' = [handles EXCEPT ![h] = handles[g], ![g] = H!MovedFrom(handles[g])]
  PROVE  /\ handles' \in [Slots -> H!Handle \cup {Void}]
         /\ \A e \in Slots : e \notin {g, h} => handles'[e] = handles[e]
         /\ H!Object(g)' /\ H!Object(h)'
         /\ handles'[h] = handles[g]
         /\ \A c \in Started : ~Refers(g, c)'
<1> DEFINE o == H!MovedFrom(handles[g])
<1>1. o \in H!Handle /\ o.id = NoContainer /\ o # Void
  BY DEF ContainersInv, HandleTyped, H!Object, H!MovedFrom, H!Handle, H!HandleAssumption
<1> HIDE DEF o
<1>2. handles' = [handles EXCEPT ![h] = handles[g], ![g] = o]
  BY DEF o
<1>3. handles'[h] = handles[g] /\ handles'[g] = o
  BY <1>2 DEF ContainersInv, HandleTyped
<1>4. \A e \in Slots : e \notin {g, h} => handles'[e] = handles[e]
  BY <1>2 DEF ContainersInv, HandleTyped
<1>5. handles' \in [Slots -> H!Handle \cup {Void}]
  BY <1>1, <1>2 DEF ContainersInv, HandleTyped
<1> QED BY <1>1, <1>3, <1>4, <1>5 DEF H!Object, Refers, H!Containers, H!HandleAssumption

\* The moving constructor.
LEMMA HandleMoves ==
  ASSUME H!HandleAssumption, ContainersInv, NEW h \in Slots, NEW g \in Slots, H!Move(h, g)
  PROVE  ContainersInv'
<1>1. /\ g # h /\ H!Object(g) /\ ~H!Object(h) /\ stack = <<>>
      /\ handles' = [handles EXCEPT ![h] = handles[g], ![g] = H!MovedFrom(handles[g])]
      /\ UNCHANGED <<stack, state, hooks, removals>>
  BY DEF H!Move, H!Idle
<1>2. HandleTyped'
  BY <1>1, Transfer DEF ContainersInv, HandleTyped
<1>3. DOMAIN stack' = {}
  BY <1>1
<1>4. ASSUME NEW c \in Started PROVE ContainerInv(c)'
  <2>1. \A e \in Slots : Refers(e, c)' => /\ e = h => Refers(g, c) /\ handles'[e] = handles[g]
                                          /\ e # h => Refers(e, c) /\ handles'[e] = handles[e] /\ e # g
    BY <1>1, Transfer DEF Refers, H!Object
  <2> QED BY <1>1, <1>3, <2>1 DEF ContainersInv, ContainerInv
<1> QED BY <1>2, <1>3, <1>4 DEF ContainersInv

\* keep(), start() and the end of a container's process change no ownership.
LEMMA QuietStep ==
  ASSUME H!HandleAssumption, ContainersInv,
         \/ \E h \in Slots, keep \in BOOLEAN : H!Keep(h, keep)
         \/ \E h \in Slots : H!Restart(h)
         \/ \E c \in H!Containers : H!Exit(c)
  PROVE  ContainersInv'
<1>1. UNCHANGED <<stack, hooks, removals>>
  BY DEF H!Keep, H!Restart, H!Exit
<1>2. /\ handles' \in [Slots -> H!Handle \cup {Void}]
      /\ \A h \in Slots : /\ H!Object(h)' <=> H!Object(h)
                          /\ H!Object(h) => /\ handles'[h].id = handles[h].id
                                            /\ handles'[h].dropped = handles[h].dropped
                                            /\ handles'[h].fired = handles[h].fired
  <2>1. ASSUME NEW h \in Slots, NEW keep \in BOOLEAN, H!Keep(h, keep) PROVE <1>2!:
    <3> DEFINE o == [handles[h] EXCEPT !.armed = ~keep]
    <3>1. handles[h] \in H!Handle /\ handles' = [handles EXCEPT ![h] = o]
      BY <2>1 DEF H!Keep, H!Object, ContainersInv, HandleTyped
    <3>2. /\ o \in H!Handle /\ o.id = handles[h].id /\ o.dropped = handles[h].dropped
          /\ o.fired = handles[h].fired
      BY <2>1, <3>1 DEF H!Handle
    <3> HIDE DEF o
    <3>3. handles'[h] = o /\ \A g \in Slots : g # h => handles'[g] = handles[g]
      BY <3>1 DEF ContainersInv, HandleTyped
    <3>4. handles' \in [Slots -> H!Handle \cup {Void}]
      BY <3>1, <3>2 DEF ContainersInv, HandleTyped
    <3> QED BY <3>1, <3>2, <3>3, <3>4 DEF H!Object, H!HandleAssumption
  <2>2. CASE UNCHANGED handles
    BY <2>2 DEF ContainersInv, HandleTyped, H!Object
  <2> QED BY <2>1, <2>2 DEF H!Restart, H!Exit
<1>3. /\ state' \in [H!Containers -> {"none", "running", "stopped", "gone"}]
      /\ \A c \in Started : state'[c] = "none" => state[c] = "none"
  <2>1. \/ UNCHANGED state
        \/ \E c \in H!Containers : state[c] # "none" /\ state' \in {[state EXCEPT ![c] = "running"], [state EXCEPT ![c] = "stopped"]}
    BY DEF H!Keep, H!Restart, H!Exit, ContainersInv, HandleTyped, H!Handle, H!Object
  <2> QED BY <2>1 DEF ContainersInv, HandleTyped, H!Containers
<1>4. HandleTyped'
  BY <1>1, <1>2, <1>3 DEF ContainersInv, HandleTyped
<1>5. ASSUME NEW l \in DOMAIN stack PROVE FrameInv(l)'
  <2>1. stack[l] \in H!Frame
    BY <1>5 DEF ContainersInv, HandleTyped
  <2> QED BY <1>1, <1>2, <2>1 DEF ContainersInv, FrameInv, H!Frame
<1>6. ASSUME NEW c \in Started PROVE ContainerInv(c)'
  <2>1. \A h \in Slots : Refers(h, c)' <=> Refers(h, c)
    BY <1>2 DEF Refers
  <2>2. \A l \in DOMAIN stack : Removes(l, c)' <=> Removes(l, c)
    <3> SUFFICES ASSUME NEW l \in DOMAIN stack PROVE Removes(l, c)' <=> Removes(l, c)
      OBVIOUS
    <3>1. stack[l] \in H!Frame /\ FrameInv(l)
      BY DEF ContainersInv, HandleTyped
    <3>2. H!Object(stack[l].h) /\ stack[l].h \in Slots
      BY <3>1 DEF FrameInv, H!Frame
    <3> QED BY <1>1, <1>2, <3>2 DEF Removes
  <2> QED BY <1>1, <1>2, <1>3, <2>1, <2>2 DEF ContainersInv, ContainerInv, Refers
<1> QED BY <1>1, <1>4, <1>5, <1>6 DEF ContainersInv

-----------------------------------------------------------------------------
\* An operation begins. It is to remove a container only if its handle still owns it, so
\* that no operation in progress does, and no earlier one has.
LEMMA OperationStep ==
  ASSUME H!HandleAssumption, ContainersInv, NEW h \in Slots, NEW g \in Slots,
         NEW then \in {"stop", "remove", "destroy", "assign"},
         H!Enter(h, g, then), H!Object(g), then = "assign" => h # g,
         then \in {"destroy", "assign"} => ~H!InUse(h) /\ ~H!InUse(g)
  PROVE  ContainersInv'
<1> DEFINE teardown == H!TearsDown(h, then)
           hook == teardown /\ H!FiresHooks(h)
           f == [h |-> h, g |-> g, then |-> then, hook |-> hook,
                 request |-> IF then = "stop" THEN "stop" ELSE IF teardown THEN "remove" ELSE "none"]
           o == [handles[h] EXCEPT !.dropped = (then # "stop") \/ @, !.fired = teardown \/ @]
<1>0. PICK n \in Nat : n = Len(stack) + 1
  BY DEF ContainersInv, HandleTyped
<1>1. /\ H!Object(h) /\ handles[h] \in H!Handle /\ UNCHANGED <<state, removals>>
      /\ teardown \in BOOLEAN /\ hook \in BOOLEAN
  BY DEF H!Enter, H!Object, ContainersInv, HandleTyped, H!TearsDown, H!FiresHooks, H!Handle
<1>2. /\ f \in H!Frame /\ f.h = h /\ f.g = g /\ f.then = then
      /\ f.request = "remove" <=> then # "stop" /\ teardown
  BY <1>1 DEF H!Frame
<1>3. o \in H!Handle /\ o.id = handles[h].id
  BY <1>1 DEF H!Handle
<1>4. /\ o.dropped <=> (then # "stop" \/ handles[h].dropped)
      /\ o.fired <=> (teardown \/ handles[h].fired)
  BY <1>1 DEF H!Handle
<1>5. handles' = [handles EXCEPT ![h] = o]
  BY DEF H!Enter, ContainersInv, HandleTyped
<1>6. /\ stack' = Append(stack, f)
      /\ IF hook THEN hooks' = [hooks EXCEPT ![handles[h].id] = @ + 1] ELSE UNCHANGED hooks
  BY DEF H!Enter
<1>7. /\ teardown <=> (then = "stop" \/ (~handles[h].dropped /\ handles[h].armed))
      /\ hook <=> (teardown /\ ~handles[h].fired /\ handles[h].id \in Started)
  BY DEF H!TearsDown, H!FiresHooks
<1> HIDE DEF teardown, hook, f, o
<1>8. /\ stack' \in Seq(H!Frame) /\ DOMAIN stack' = 1..n /\ DOMAIN stack = 1..(n - 1)
      /\ Len(stack) \in Nat /\ stack'[n] = f /\ \A l \in DOMAIN stack : stack'[l] = stack[l]
  BY <1>0, <1>2, <1>6, Push DEF ContainersInv
<1>9. handles'[h] = o /\ \A e \in Slots : e # h => handles'[e] = handles[e]
  BY <1>5 DEF ContainersInv, HandleTyped
<1>10. \A e \in Slots : /\ H!Object(e)' <=> H!Object(e)
                        /\ H!Object(e) => /\ handles'[e].id = handles[e].id
                                          /\ handles[e].dropped => handles'[e].dropped
                                          /\ handles[e].fired => handles'[e].fired
  BY <1>1, <1>3, <1>4, <1>9 DEF H!Object, H!HandleAssumption
<1>11. HandleTyped'
  <2>1. handles' \in [Slots -> H!Handle \cup {Void}]
    BY <1>3, <1>5 DEF ContainersInv, HandleTyped
  <2>2. hooks' \in [Started -> Nat]
    <3>1. hooks \in [Started -> Nat]
      BY DEF ContainersInv, HandleTyped
    <3>2. CASE hook
      BY <1>6, <1>7, <3>1, <3>2
    <3>3. CASE ~hook
      BY <1>6, <3>1, <3>3
    <3> QED BY <3>2, <3>3
  <2> QED BY <1>1, <1>8, <2>1, <2>2 DEF ContainersInv, HandleTyped
<1>12. ASSUME NEW l \in DOMAIN stack
       PROVE  stack[l] \in H!Frame /\ stack[l].h \in Slots /\ stack[l].g \in Slots
  <2>1. stack[l] \in H!Frame
    BY <1>12 DEF ContainersInv, HandleTyped
  <2> QED BY <2>1 DEF H!Frame
<1>13. ASSUME NEW l \in DOMAIN stack' PROVE FrameInv(l)'
  <2>1. CASE l \in DOMAIN stack
    <3>1. stack'[l] = stack[l] /\ \A k \in 1..(l - 1) : stack'[k] = stack[k]
      BY <1>8, <2>1
    <3>2. FrameInv(l)
      BY <2>1 DEF ContainersInv
    <3> QED BY <1>10, <1>12, <2>1, <3>1, <3>2 DEF FrameInv
  <2>2. CASE l = n
    <3>1. stack'[l] = f
      BY <1>8, <2>2
    <3>2. H!Object(h)' /\ H!Object(g)'
      BY <1>1, <1>10
    <3>3. then # "stop" => handles'[h].dropped
      BY <1>4, <1>9
    <3>4. f.request = "remove" => then # "stop" /\ handles'[h].fired
      BY <1>2, <1>4, <1>9
    <3>5. ASSUME then \in {"destroy", "assign"}, NEW k \in 1..(l - 1)
          PROVE  {stack'[k].h, stack'[k].g} \cap {h, g} = {}
      <4>1. k \in DOMAIN stack /\ stack'[k] = stack[k]
        BY <1>8, <2>2, <3>5
      <4> QED BY <3>5, <4>1 DEF H!InUse
    <3> QED BY <1>2, <3>1, <3>2, <3>3, <3>4, <3>5 DEF FrameInv
  <2> QED BY <1>8, <1>13, <2>1, <2>2
<1>14. ASSUME NEW c \in Started PROVE ContainerInv(c)'
  <2>1. \A e \in Slots : Refers(e, c)' <=> Refers(e, c)
    BY <1>10 DEF Refers
  <2>2. ContainerInv(c) /\ hooks[c] \in Nat /\ removals[c] \in Nat
    BY DEF ContainersInv, HandleTyped
  <2>3. \A l \in DOMAIN stack : Removes(l, c)' <=> Removes(l, c)
    <3> SUFFICES ASSUME NEW l \in DOMAIN stack PROVE Removes(l, c)' <=> Removes(l, c)
      OBVIOUS
    <3>1. FrameInv(l) /\ stack'[l] = stack[l] /\ stack[l].h \in Slots
      BY <1>8, <1>12 DEF ContainersInv
    <3> QED BY <1>10, <3>1 DEF FrameInv, Removes
  <2>4. Removes(n, c)' <=> (f.request = "remove" /\ handles[h].id = c)
    BY <1>2, <1>3, <1>8, <1>9 DEF Removes
  <2>5. \A l \in DOMAIN stack : Removes(l, c) => \E e \in Slots : Refers(e, c) /\ handles[e].dropped
    BY <1>12 DEF ContainersInv, FrameInv, Removes, Refers
  <2>6. CASE Refers(h, c)
    <3>1. \A e \in Slots : Refers(e, c) => e = h
      BY <2>2, <2>6 DEF ContainerInv
    <3>2. hooks'[c] = IF o.fired THEN 1 ELSE 0
      BY <1>4, <1>6, <1>7, <2>2, <2>6 DEF ContainerInv, Refers, ContainersInv, HandleTyped
    <3>3. Removes(n, c)' => ~handles[h].dropped /\ removals[c] = 0 /\ \A l \in DOMAIN stack : ~Removes(l, c)
      BY <1>2, <1>7, <2>2, <2>4, <2>5, <2>6, <3>1 DEF ContainerInv
    <3>4. \A l, j \in DOMAIN stack' : Removes(l, c)' /\ Removes(j, c)' => l = j /\ removals[c] = 0
      BY <1>8, <2>2, <2>3, <3>3 DEF ContainerInv
    <3>5. removals[c] > 0 => hooks'[c] = 1 /\ o.dropped
      BY <1>4, <2>2, <2>6, <3>2 DEF ContainerInv
    <3>6. state[c] # "none"
      BY <2>2, <2>6 DEF ContainerInv
    <3> QED BY <1>1, <1>9, <2>1, <2>2, <2>6, <3>1, <3>2, <3>4, <3>5, <3>6 DEF ContainerInv
  <2>7. CASE ~Refers(h, c)
    <3>1. hooks'[c] = hooks[c]
      BY <1>1, <1>6, <1>7, <2>7 DEF ContainersInv, HandleTyped, Refers
    <3>2. \A e \in Slots : Refers(e, c) => handles'[e] = handles[e]
      BY <1>9, <2>7
    <3>3. ~Removes(n, c)'
      BY <1>1, <2>4, <2>7 DEF Refers
    <3>4. \A l, j \in DOMAIN stack' : Removes(l, c)' /\ Removes(j, c)' => l = j /\ removals[c] = 0
      BY <1>8, <2>2, <2>3, <3>3 DEF ContainerInv
    <3> QED BY <1>1, <2>1, <2>2, <3>1, <3>2, <3>4 DEF ContainerInv
  <2> QED BY <2>6, <2>7
<1> QED BY <1>11, <1>13, <1>14 DEF ContainersInv

\* An operation ends: what it removes is the container it has let go of, and what it
\* destroys or assigns is in no operation below.
LEMMA ReturnStep ==
  ASSUME H!HandleAssumption, ContainersInv, H!Return
  PROVE  ContainersInv'
<1>1. PICK n \in Nat : n = Len(stack)
  BY DEF ContainersInv, HandleTyped
<1>2. PICK f \in H!Frame : f = stack[n] /\ n \in DOMAIN stack /\ f = H!Top
  BY <1>1, Pop DEF H!Return, H!Idle, ContainersInv, HandleTyped, H!Top
<1>3. /\ stack' \in Seq(H!Frame) /\ DOMAIN stack' = 1..(n - 1) /\ DOMAIN stack = 1..n
      /\ \A l \in DOMAIN stack' : stack'[l] = stack[l]
  BY <1>1, Pop DEF H!Return, H!Idle, ContainersInv
<1>4. /\ f.h \in Slots /\ f.g \in Slots /\ H!Object(f.h) /\ H!Object(f.g)
      /\ f.then # "stop" => handles[f.h].dropped
      /\ f.request = "remove" => f.then # "stop" /\ handles[f.h].fired
      /\ f.then = "assign" => f.h # f.g
  BY <1>2 DEF H!Frame, ContainersInv, FrameInv
<1>5. ASSUME f.then \in {"destroy", "assign"}, NEW k \in DOMAIN stack'
      PROVE  {stack[k].h, stack[k].g} \cap {f.h, f.g} = {}
  BY <1>2, <1>3, <1>5 DEF ContainersInv, FrameInv
<1>6. ASSUME NEW k \in DOMAIN stack'
      PROVE  stack[k] \in H!Frame /\ stack[k].h \in Slots /\ stack[k].g \in Slots /\ FrameInv(k)
  <2>1. k \in DOMAIN stack
    BY <1>3
  <2>2. stack[k] \in H!Frame /\ FrameInv(k)
    BY <2>1 DEF ContainersInv, HandleTyped
  <2> QED BY <2>2 DEF H!Frame
<1>7. /\ handles' \in [Slots -> H!Handle \cup {Void}]
      /\ \A k \in DOMAIN stack' : /\ handles'[stack[k].h] = handles[stack[k].h]
                                  /\ handles'[stack[k].g] = handles[stack[k].g]
      /\ \A c \in Started, e \in Slots : Refers(e, c)' =>
           \E d \in Slots : /\ Refers(d, c) /\ handles'[e] = handles[d]
                            /\ d # e => d = f.g /\ e = f.h /\ ~Refers(f.g, c)'
  <2>1. CASE f.then = "destroy"
    <3>1. handles' = [handles EXCEPT ![f.h] = Void]
      BY <1>2, <2>1 DEF H!Return
    <3>2. handles'[f.h] = Void /\ \A e \in Slots : e # f.h => handles'[e] = handles[e]
      BY <1>4, <3>1 DEF ContainersInv, HandleTyped
    <3>3. handles' \in [Slots -> H!Handle \cup {Void}]
      BY <3>1 DEF ContainersInv, HandleTyped
    <3>4. \A c \in Started, e \in Slots : Refers(e, c)' => Refers(e, c) /\ handles'[e] = handles[e]
      BY <3>2 DEF Refers, H!Object
    <3> QED BY <1>5, <1>6, <2>1, <3>2, <3>3, <3>4
  <2>2. CASE f.then = "assign"
    <3>1. handles' = [handles EXCEPT ![f.h] = handles[f.g], ![f.g] = H!MovedFrom(handles[f.g])]
      BY <1>2, <2>2 DEF H!Return
    <3>2. /\ handles' \in [Slots -> H!Handle \cup {Void}]
          /\ \A e \in Slots : e \notin {f.g, f.h} => handles'[e] = handles[e]
          /\ handles'[f.h] = handles[f.g]
          /\ \A c \in Started : ~Refers(f.g, c)'
      BY <1>4, <2>2, <3>1, Transfer
    <3>3. ASSUME NEW c \in Started, NEW e \in Slots, Refers(e, c)'
          PROVE  \E d \in Slots : /\ Refers(d, c) /\ handles'[e] = handles[d]
                                  /\ d # e => d = f.g /\ e = f.h /\ ~Refers(f.g, c)'
      <4>1. e # f.g
        BY <3>2, <3>3
      <4>2. CASE e = f.h
        BY <1>4, <3>2, <3>3, <4>2 DEF Refers, H!Object
      <4>3. CASE e # f.h
        BY <3>2, <3>3, <4>1, <4>3 DEF Refers, H!Object
      <4> QED BY <4>2, <4>3
    <3> QED BY <1>5, <1>6, <2>2, <3>2, <3>3
  <2>3. CASE f.then \notin {"destroy", "assign"}
    <3>1. UNCHANGED handles
      BY <1>2, <2>3 DEF H!Return
    <3> QED BY <1>6, <3>1 DEF ContainersInv, HandleTyped, Refers, H!Object
  <2> QED BY <2>1, <2>2, <2>3
<1>8. /\ hooks' = hooks
      /\ state' \in [H!Containers -> {"none", "running", "stopped", "gone"}]
      /\ \A c \in Started : state'[c] = "none" => state[c] = "none"
      /\ removals' \in [Started -> Nat]
      /\ \A c \in Started : removals'[c] = removals[c] + (IF Removes(n, c) THEN 1 ELSE 0)
  <2> DEFINE o == handles[f.h]
  <2>1. \/ f.request = "none" /\ UNCHANGED <<state, removals>>
        \/ /\ f.request = "stop" /\ UNCHANGED removals
           /\ \/ UNCHANGED state
              \/ state[o.id] = "running" /\ state' = [state EXCEPT ![o.id] = "stopped"]
        \/ /\ f.request = "remove"
           /\ removals' = [c \in Started |-> removals[c] + (IF c = o.id THEN 1 ELSE 0)]
           /\ UNCHANGED state \/ state' = [state EXCEPT ![o.id] = "gone"]
    BY <1>2 DEF H!Return
  <2>2. hooks' = hooks
    BY DEF H!Return
  <2>3. UNCHANGED state \/ \E x : state' = [state EXCEPT ![x] = "stopped"] \/ state' = [state EXCEPT ![x] = "gone"]
    BY <2>1
  <2>4. /\ state' \in [H!Containers -> {"none", "running", "stopped", "gone"}]
        /\ \A c \in Started : state'[c] = "none" => state[c] = "none"
    BY <2>3 DEF ContainersInv, HandleTyped, H!Containers
  <2>5. \A c \in Started : Removes(n, c) <=> (f.request = "remove" /\ c = o.id)
    BY <1>2 DEF Removes
  <2>6. removals \in [Started -> Nat]
    BY DEF ContainersInv, HandleTyped
  <2> HIDE DEF o
  <2>7. CASE f.request = "remove"
    <3>1. removals' = [c \in Started |-> removals[c] + (IF c = o.id THEN 1 ELSE 0)]
      BY <2>1, <2>7
    <3> QED BY <2>2, <2>4, <2>5, <2>6, <2>7, <3>1
  <2>8. CASE f.request # "remove"
    BY <2>1, <2>2, <2>4, <2>5, <2>6, <2>8
  <2> QED BY <2>7, <2>8
<1>9. HandleTyped'
  BY <1>3, <1>7, <1>8 DEF ContainersInv, HandleTyped
<1>10. ASSUME NEW l \in DOMAIN stack' PROVE FrameInv(l)'
  <2>1. stack'[l] = stack[l] /\ \A k \in 1..(l - 1) : k \in DOMAIN stack' /\ stack'[k] = stack[k]
    BY <1>1, <1>3
  <2> QED BY <1>6, <1>7, <2>1 DEF FrameInv, H!Object
<1>11. ASSUME NEW c \in Started PROVE ContainerInv(c)'
  <2>1. ContainerInv(c) /\ hooks[c] \in Nat /\ removals[c] \in Nat
    BY DEF ContainersInv, HandleTyped
  <2>2. \A e \in Slots : Refers(e, c)' => \E d \in Slots : Refers(d, c) /\ handles'[e] = handles[d]
    BY <1>7
  <2>3. \A a, b \in Slots : Refers(a, c)' /\ Refers(b, c)' => a = b
    BY <1>7, <2>1 DEF ContainerInv
  <2>4. \A l \in DOMAIN stack' : Removes(l, c)' <=> Removes(l, c)
    BY <1>3, <1>7 DEF Removes
  <2>5. CASE Removes(n, c)
    <3>1. /\ Refers(f.h, c) /\ handles[f.h].fired /\ handles[f.h].dropped
          /\ \A d \in Slots : Refers(d, c) => d = f.h
      BY <1>2, <1>4, <2>1, <2>5 DEF Removes, Refers, ContainerInv
    <3>2. removals[c] = 0 /\ removals'[c] = 1 /\ hooks[c] = 1 /\ state[c] # "none"
      BY <1>2, <1>4, <1>8, <2>1, <2>5, <3>1 DEF ContainerInv
    <3>3. \A l \in DOMAIN stack' : ~Removes(l, c)'
      BY <1>1, <1>2, <1>3, <2>1, <2>4, <2>5 DEF ContainerInv
    <3>4. \A e \in Slots : Refers(e, c)' => handles'[e].fired /\ handles'[e].dropped
      BY <2>2, <3>1
    <3> QED BY <1>8, <2>3, <3>2, <3>3, <3>4 DEF ContainerInv
  <2>6. CASE ~Removes(n, c)
    <3>1. removals'[c] = removals[c]
      BY <1>8, <2>1, <2>6
    <3>2. \A l, j \in DOMAIN stack' : Removes(l, c)' /\ Removes(j, c)' => l = j /\ removals'[c] = 0
      BY <1>3, <2>1, <2>4, <3>1 DEF ContainerInv
    <3>3. state'[c] = "none" => state[c] = "none" /\ \A e \in Slots : ~Refers(e, c)'
      BY <1>8, <2>1, <2>2 DEF ContainerInv
    <3>4. \A e \in Slots : Refers(e, c)' => /\ hooks[c] = IF handles'[e].fired THEN 1 ELSE 0
                                            /\ removals[c] > 0 => handles'[e].dropped
      BY <2>1, <2>2 DEF ContainerInv
    <3> QED BY <1>8, <2>1, <2>3, <3>1, <3>2, <3>3, <3>4 DEF ContainerInv
  <2> QED BY <2>5, <2>6
<1> QED BY <1>9, <1>10, <1>11 DEF ContainersInv

\* Every step of handles, hooks and containers keeps the invariant.
LEMMA ContainerStep == ASSUME H!HandleAssumption PROVE ContainersInv /\ [H!Next]_(H!vars) => ContainersInv'
<1> SUFFICES ASSUME ContainersInv, [H!Next]_(H!vars) PROVE ContainersInv'
  OBVIOUS
<1>1. ASSUME NEW h \in Slots, H!Stop(h) \/ H!Remove(h) \/ H!Destroy(h) PROVE ContainersInv'
  <2>1. H!Object(h)
    BY <1>1 DEF H!Stop, H!Remove, H!Destroy, H!Enter
  <2> QED BY <1>1, <2>1, OperationStep DEF H!Stop, H!Remove, H!Destroy
<1>2. ASSUME NEW h \in Slots, NEW g \in Slots, H!Assign(h, g) PROVE ContainersInv'
  BY <1>2, OperationStep DEF H!Assign
<1>3. CASE UNCHANGED H!vars
  BY <1>3 DEF H!vars, ContainersInv, HandleTyped, FrameInv, ContainerInv, Refers, Removes, H!Object
<1> QED BY <1>1, <1>2, <1>3, ObtainStep, HandleMoves, QuietStep, ReturnStep DEF H!Next

-----------------------------------------------------------------------------
\* The invariant holds in every state of the handles.
THEOREM HandleInvariant == ASSUME H!HandleAssumption PROVE H!Spec => []ContainersInv
BY HandleInit, ContainerStep, PTL DEF H!Spec

\* The number of owners is the standard modules' in both modules.
LEMMA CountedAlike == \A S : H!Cardinality(S) = Cardinality(S)
BY DEF H!Cardinality, Cardinality

\* "Copying is deleted so the removal happens exactly once" (Container.hpp): a started
\* container has at most one owner, none once its removal is under way, and drop() asks
\* for the removal at most once, whatever the hooks do with the handle.
THEOREM RemovalOnce == ASSUME H!HandleAssumption PROVE H!Spec => []H!RemovedOnce
<1>1. ContainersInv => H!RemovedOnce
  <2> SUFFICES ASSUME ContainersInv, NEW c \in Started
               PROVE  /\ removals[c] + Cardinality(H!Owners(c)) <= 1
                      /\ H!Removing(c) => H!Owners(c) = {} /\ removals[c] = 0
    BY CountedAlike DEF H!RemovedOnce
  <2>1. ContainerInv(c) /\ removals[c] \in Nat
    BY DEF ContainersInv, HandleTyped
  <2>2. \A h \in H!Owners(c) : h \in Slots /\ Refers(h, c) /\ ~handles[h].dropped
    BY DEF H!Owners, Refers
  <2>3. removals[c] + Cardinality(H!Owners(c)) <= 1
    <3>1. CASE H!Owners(c) = {}
      BY <2>1, <3>1, FS_EmptySet DEF ContainerInv
    <3>2. CASE H!Owners(c) # {}
      <4>1. PICK h \in H!Owners(c) : H!Owners(c) = {h}
        BY <2>1, <2>2, <3>2 DEF ContainerInv
      <4>2. Cardinality(H!Owners(c)) = 1
        BY <4>1, FS_Singleton
      <4>3. removals[c] = 0
        BY <2>1, <2>2, <4>1 DEF ContainerInv
      <4> QED BY <4>2, <4>3
    <3> QED BY <3>1, <3>2
  <2>4. ASSUME H!Removing(c) PROVE H!Owners(c) = {} /\ removals[c] = 0
    <3>1. PICK l \in DOMAIN stack : Removes(l, c)
      BY <2>4 DEF H!Removing, Removes
    <3>2. stack[l] \in H!Frame /\ FrameInv(l)
      BY DEF ContainersInv, HandleTyped
    <3>3. Refers(stack[l].h, c) /\ handles[stack[l].h].dropped /\ stack[l].h \in Slots
      BY <3>1, <3>2 DEF FrameInv, Removes, Refers, H!Frame
    <3>4. H!Owners(c) = {}
      BY <2>1, <2>2, <3>3 DEF ContainerInv
    <3> QED BY <2>1, <3>1, <3>4 DEF ContainerInv
  <2> QED BY <2>3, <2>4
<1> QED BY <1>1, HandleInvariant, PTL

\* The stopping hooks of a started container run at most once over all its handles, and
\* have run before its removal is asked for (fire_stopping in drop() and stop()).
THEOREM HooksOnceAndBefore == ASSUME H!HandleAssumption PROVE H!Spec => []H!HooksBeforeRemoval
<1>1. ContainersInv => H!HooksBeforeRemoval
  BY DEF ContainersInv, ContainerInv, H!HooksBeforeRemoval
<1> QED BY <1>1, HandleInvariant, PTL

\* Both: what a handle owes its container, once, and in that order.
THEOREM OwedOnce == ASSUME H!HandleAssumption PROVE H!Spec => []H!OwnedOnce
BY RemovalOnce, HooksOnceAndBefore, PTL DEF H!OwnedOnce

-----------------------------------------------------------------------------
(* What a step may never do.                                               *)

Owner(h, c) == h \in Slots /\ Refers(h, c) /\ ~handles[h].dropped

LEMMA OwnersAre == \A c, h : h \in H!Owners(c) <=> Owner(h, c)
BY DEF H!Owners, Owner, Refers

\* A container that is owned is still owned, perhaps from another place, unless its owner's
\* drop() begins; that one is about to remove it, or was told to keep it.
LEMMA OwnerStays ==
  ASSUME H!HandleAssumption, ContainersInv, H!Next, NEW c \in Started, NEW h, Owner(h, c)
  PROVE  (\E g : Owner(g, c)') \/ H!Removing(c)' \/ ~handles[h].armed
<1>0. /\ h \in Slots /\ H!Object(h) /\ handles[h].id = c /\ ~handles[h].dropped
      /\ handles[h] \in H!Handle /\ handles \in [Slots -> H!Handle \cup {Void}]
  BY DEF Owner, Refers, H!Object, ContainersInv, HandleTyped
<1>1. ASSUME handles'[h] = handles[h] PROVE Owner(h, c)'
  BY <1>0, <1>1 DEF Owner, Refers, H!Object
<1>2. ASSUME NEW g \in Slots, NEW k \in H!Containers, NEW armed \in BOOLEAN,
             H!Start(g, k, armed) \/ H!Adopt(g, k, armed)
      PROVE  Owner(h, c)'
  <2>1. handles'[h] = handles[h]
    BY <1>0, <1>2 DEF H!Start, H!Adopt, H!Object
  <2> QED BY <1>1, <2>1
<1>3. ASSUME NEW x \in Slots, NEW g \in Slots, H!Move(x, g) PROVE \E e : Owner(e, c)'
  <2>1. x # h /\ handles' = [handles EXCEPT ![x] = handles[g], ![g] = H!MovedFrom(handles[g])] /\ x # g
    BY <1>0, <1>3 DEF H!Move
  <2>2. CASE g = h
    <3>1. handles'[x] = handles[h]
      BY <1>0, <2>1, <2>2
    <3> QED BY <1>0, <3>1 DEF Owner, Refers, H!Object
  <2>3. CASE g # h
    <3>1. handles'[h] = handles[h]
      BY <1>0, <2>1, <2>3
    <3> QED BY <1>1, <3>1
  <2> QED BY <2>2, <2>3
<1>4. ASSUME NEW x \in Slots, NEW g \in Slots, NEW then \in {"stop", "remove", "destroy", "assign"},
             H!Enter(x, g, then)
      PROVE  Owner(h, c)' \/ H!Removing(c)' \/ ~handles[h].armed
  <2> DEFINE o == [handles[x] EXCEPT !.dropped = (then # "stop") \/ @, !.fired = H!TearsDown(x, then) \/ @]
  <2>1. handles' = [handles EXCEPT ![x] = o] /\ handles[x] \in H!Handle
    BY <1>0, <1>4 DEF H!Enter, H!Object
  <2>2. CASE x # h
    <3>1. handles'[h] = handles[h]
      BY <1>0, <2>1, <2>2
    <3> QED BY <1>1, <3>1
  <2>3. CASE x = h
    <3>1. /\ o \in H!Handle /\ o.id = c /\ (o.dropped <=> then # "stop")
      <4>1. H!TearsDown(x, then) \in BOOLEAN /\ (then # "stop") \in BOOLEAN
        BY DEF H!TearsDown
      <4>2. ((then # "stop") \/ handles[x].dropped) \in BOOLEAN
            /\ (H!TearsDown(x, then) \/ handles[x].fired) \in BOOLEAN
        BY <4>1
      <4> QED BY <1>0, <2>3, <4>2 DEF H!Handle
    <3>2. handles'[h] = o
      BY <1>0, <2>1, <2>3
    <3> HIDE DEF o
    <3>3. Refers(h, c)'
      BY <3>1, <3>2 DEF Refers, H!Object, H!HandleAssumption
    <3>4. CASE then = "stop"
      BY <1>0, <3>1, <3>2, <3>3, <3>4 DEF Owner
    <3>5. CASE then # "stop" /\ handles[h].armed
      <4>1. H!TearsDown(x, then)
        BY <1>0, <2>3, <3>5 DEF H!TearsDown
      <4>2. PICK f \in H!Frame : stack' = Append(stack, f) /\ f.h = x /\ f.request = "remove"
        <5> DEFINE d == [h |-> x, g |-> g, then |-> then, hook |-> H!TearsDown(x, then) /\ H!FiresHooks(x),
                         request |-> IF then = "stop" THEN "stop"
                                     ELSE IF H!TearsDown(x, then) THEN "remove" ELSE "none"]
        <5>1. d \in H!Frame
          BY DEF H!Frame, H!FiresHooks
        <5>2. stack' = Append(stack, d) /\ d.h = x /\ d.request = "remove"
          BY <1>4, <3>5, <4>1 DEF H!Enter
        <5> QED BY <5>1, <5>2
      <4>3. PICK n \in Nat : n = Len(stack) + 1
        BY DEF ContainersInv, HandleTyped
      <4>4. n \in DOMAIN stack' /\ stack'[n] = f
        BY <4>2, <4>3, Push DEF ContainersInv
      <4> QED BY <2>3, <3>3, <4>2, <4>4 DEF H!Removing, Refers
    <3> QED BY <3>4, <3>5
  <2> QED BY <2>2, <2>3
<1>5. CASE H!Return
  <2>1. PICK n \in Nat : n = Len(stack)
    BY DEF ContainersInv, HandleTyped
  <2>2. PICK f \in H!Frame : f = stack[n] /\ n \in DOMAIN stack /\ f = H!Top
    BY <1>5, <2>1, Pop DEF H!Return, H!Idle, ContainersInv, HandleTyped, H!Top
  <2>3. /\ f.h \in Slots /\ f.g \in Slots /\ (f.then # "stop" => handles[f.h].dropped)
        /\ f.then = "assign" => f.h # f.g
    BY <2>2 DEF H!Frame, ContainersInv, FrameInv
  <2>4. handles' = CASE f.then = "destroy" -> [handles EXCEPT ![f.h] = Void]
                     [] f.then = "assign"  -> [handles EXCEPT ![f.h] = handles[f.g],
                                                              ![f.g] = H!MovedFrom(handles[f.g])]
                     [] OTHER -> handles
    BY <1>5, <2>2 DEF H!Return
  <2>5. CASE f.then = "assign" /\ f.g = h
    <3>1. handles'[f.h] = handles[h]
      BY <1>0, <2>3, <2>4, <2>5
    <3> QED BY <1>0, <2>3, <3>1 DEF Owner, Refers, H!Object
  <2>6. CASE ~(f.then = "assign" /\ f.g = h)
    <3>1. handles'[h] = handles[h]
      BY <1>0, <2>3, <2>4, <2>6
    <3> QED BY <1>1, <3>1
  <2> QED BY <2>5, <2>6
<1>6. ASSUME NEW g \in Slots, NEW keep \in BOOLEAN, H!Keep(g, keep) PROVE Owner(h, c)'
  <2>1. CASE g = h
    <3> DEFINE o == [handles[h] EXCEPT !.armed = ~keep]
    <3>1. handles'[h] = o
      BY <1>0, <1>6, <2>1 DEF H!Keep
    <3>2. o \in H!Handle /\ o.id = c /\ o.dropped = handles[h].dropped
      BY <1>0 DEF H!Handle
    <3> HIDE DEF o
    <3> QED BY <1>0, <3>1, <3>2 DEF Owner, Refers, H!Object, H!HandleAssumption
  <2>2. CASE g # h
    <3>1. handles'[h] = handles[h]
      BY <1>0, <1>6, <2>2 DEF H!Keep
    <3> QED BY <1>1, <3>1
  <2> QED BY <2>1, <2>2
<1>7. ASSUME UNCHANGED handles PROVE Owner(h, c)'
  BY <1>1, <1>7
<1> QED BY <1>2, <1>3, <1>4, <1>5, <1>6, <1>7
    DEF H!Next, H!Stop, H!Remove, H!Destroy, H!Assign, H!Restart, H!Exit

\* While its owner is told to keep it, a container is neither removed nor are its hooks run,
\* except by an explicit stop().
LEMMA KeptStays ==
  ASSUME H!HandleAssumption, ContainersInv, H!Next, NEW c \in Started, NEW h, Owner(h, c), ~handles[h].armed
  PROVE  /\ state[c] # "gone" => state'[c] # "gone"
         /\ hooks'[c] = hooks[c] \/ stack'[Len(stack')].then = "stop"
<1>0. /\ h \in Slots /\ Refers(h, c) /\ ~handles[h].dropped /\ c \in H!Containers
      /\ state \in [H!Containers -> {"none", "running", "stopped", "gone"}]
      /\ hooks \in [Started -> Nat]
  BY DEF Owner, ContainersInv, HandleTyped, H!Containers
<1>1. \A e \in Slots : Refers(e, c) => e = h
  BY <1>0 DEF ContainersInv, ContainerInv
<1>2. ASSUME NEW g \in Slots, NEW k \in H!Containers, NEW armed \in BOOLEAN,
             H!Start(g, k, armed) \/ H!Adopt(g, k, armed)
      PROVE  hooks' = hooks /\ (state[c] # "gone" => state'[c] # "gone")
  BY <1>0, <1>2 DEF H!Start, H!Adopt
<1>3. ASSUME NEW x \in Slots, NEW g \in Slots, NEW then \in {"stop", "remove", "destroy", "assign"},
             H!Enter(x, g, then)
      PROVE  state' = state /\ (hooks'[c] = hooks[c] \/ stack'[Len(stack')].then = "stop")
  <2>1. CASE then = "stop"
    <3> DEFINE d == [h |-> x, g |-> g, then |-> then, hook |-> H!TearsDown(x, then) /\ H!FiresHooks(x),
                     request |-> IF then = "stop" THEN "stop"
                                 ELSE IF H!TearsDown(x, then) THEN "remove" ELSE "none"]
    <3>1. d \in H!Frame /\ stack' = Append(stack, d) /\ d.then = "stop" /\ state' = state
      BY <1>3, <2>1 DEF H!Enter, H!Frame, H!FiresHooks
    <3> HIDE DEF d
    <3>2. stack'[Len(stack')] = d
      BY <3>1, Push DEF ContainersInv
    <3> QED BY <3>1, <3>2
  <2>2. CASE then # "stop"
    <3>1. state' = state
      BY <1>3 DEF H!Enter
    <3>2. CASE H!TearsDown(x, then) /\ H!FiresHooks(x)
      <4>1. handles[x].armed /\ H!Object(x)
        BY <1>3, <2>2, <3>2 DEF H!TearsDown, H!Enter
      <4>2. handles[x].id # c
        BY <1>1, <4>1 DEF Refers
      <4>3. hooks' = [hooks EXCEPT ![handles[x].id] = @ + 1]
        BY <1>3, <3>2 DEF H!Enter
      <4> QED BY <1>0, <3>1, <4>2, <4>3
    <3>3. CASE ~(H!TearsDown(x, then) /\ H!FiresHooks(x))
      BY <1>3, <3>1, <3>3 DEF H!Enter
    <3> QED BY <3>2, <3>3
  <2> QED BY <2>1, <2>2
<1>4. CASE H!Return
  <2>1. PICK n \in Nat : n = Len(stack)
    BY DEF ContainersInv, HandleTyped
  <2>2. PICK f \in H!Frame : f = stack[n] /\ n \in DOMAIN stack /\ f = H!Top
    BY <1>4, <2>1, Pop DEF H!Return, H!Idle, ContainersInv, HandleTyped, H!Top
  <2>3. /\ f.h \in Slots /\ H!Object(f.h)
        /\ f.request = "remove" => handles[f.h].dropped
    BY <2>2 DEF H!Frame, ContainersInv, FrameInv
  <2>4. f.request = "remove" => handles[f.h].id # c
    BY <1>0, <1>1, <2>3 DEF Refers
  <2>5. \/ UNCHANGED state
        \/ state' = [state EXCEPT ![handles[f.h].id] = "stopped"]
        \/ f.request = "remove" /\ state' = [state EXCEPT ![handles[f.h].id] = "gone"]
    BY <1>4, <2>2 DEF H!Return
  <2> QED BY <1>0, <1>4, <2>4, <2>5 DEF H!Return
<1>5. ASSUME NEW x \in H!Containers,
             state' \in {state, [state EXCEPT ![x] = "running"], [state EXCEPT ![x] = "stopped"]}
      PROVE  state[c] # "gone" => state'[c] # "gone"
  BY <1>0, <1>5
<1>6. ASSUME NEW g \in Slots, H!Restart(g) PROVE hooks' = hooks /\ (state[c] # "gone" => state'[c] # "gone")
  <2>1. handles[g].id \in H!Containers
    BY <1>6 DEF H!Restart, H!Object, ContainersInv, HandleTyped, H!Handle
  <2> QED BY <1>5, <1>6, <2>1 DEF H!Restart
<1>7. ASSUME NEW k \in H!Containers, H!Exit(k) PROVE hooks' = hooks /\ (state[c] # "gone" => state'[c] # "gone")
  BY <1>5, <1>7 DEF H!Exit
<1>8. ASSUME NEW g \in Slots, NEW x \in Slots, H!Move(x, g) PROVE hooks' = hooks /\ state' = state
  BY <1>8 DEF H!Move
<1>9. ASSUME NEW g \in Slots, NEW keep \in BOOLEAN, H!Keep(g, keep) PROVE hooks' = hooks /\ state' = state
  BY <1>9 DEF H!Keep
<1> QED BY <1>2, <1>3, <1>4, <1>6, <1>7, <1>8, <1>9 DEF H!Next, H!Stop, H!Remove, H!Destroy, H!Assign

\* No leak, and nothing happens to a kept container (drop(), keep() and the moves of
\* Container.hpp): an owned container is let go of only to be removed or because it is kept,
\* and while it is kept only an explicit stop() runs its hooks.
THEOREM OwnersAnswer == ASSUME H!HandleAssumption PROVE H!Spec => [][H!OwnerSteps]_(H!vars)
<1>1. ContainersInv /\ [H!Next]_(H!vars) => [H!OwnerSteps]_(H!vars)
  <2> SUFFICES ASSUME ContainersInv, H!Next PROVE H!KeepsOwner /\ H!LeavesKept
    BY DEF H!OwnerSteps
  <2>1. H!KeepsOwner
    <3> SUFFICES ASSUME NEW c \in Started, NEW h \in H!Owners(c), H!Owners(c)' = {}, ~H!Removing(c)'
                 PROVE  ~handles[h].armed
      BY DEF H!KeepsOwner
    <3>1. \A g : ~Owner(g, c)'
      BY DEF H!Owners, Owner, Refers, H!Object
    <3> QED BY <3>1, OwnersAre, OwnerStays
  <2>2. H!LeavesKept
    <3> SUFFICES ASSUME NEW c \in Started, NEW h \in H!Owners(c), ~handles[h].armed
                 PROVE  /\ state[c] # "gone" => state'[c] # "gone"
                        /\ hooks'[c] = hooks[c] \/ stack'[Len(stack)'].then = "stop"
      BY DEF H!LeavesKept
    <3> QED BY OwnersAre, KeptStays
  <2> QED BY <2>1, <2>2
<1> QED BY <1>1, HandleInvariant, PTL DEF H!Spec

-----------------------------------------------------------------------------
(* How deep hooks nest: an operation that waits for its hooks has a        *)
(* container of its own, whose hooks run this once.                        *)

Hooked(l) == handles[stack[l].h].id

Nesting ==
  /\ \A l \in DOMAIN stack : l # Len(stack) => stack[l].hook
  /\ \A l \in DOMAIN stack : stack[l].hook => Hooked(l) \in Started /\ handles[stack[l].h].fired
  /\ \A l, j \in DOMAIN stack : stack[l].hook /\ stack[j].hook /\ Hooked(l) = Hooked(j) => l = j

\* What is in use below keeps its name, and its hooks have run.
LEMMA NestingKept ==
  ASSUME Nesting, HandleTyped,
         \A l \in DOMAIN stack : /\ handles'[stack[l].h].id = handles[stack[l].h].id
                                 /\ handles[stack[l].h].fired => handles'[stack[l].h].fired,
         stack' = stack
  PROVE  Nesting'
BY DEF Nesting, Hooked

LEMMA NestingEnter ==
  ASSUME H!HandleAssumption, ContainersInv, Nesting, NEW h \in Slots, NEW g \in Slots,
         NEW then \in {"stop", "remove", "destroy", "assign"}, H!Enter(h, g, then)
  PROVE  Nesting'
<1> DEFINE hook == H!TearsDown(h, then) /\ H!FiresHooks(h)
           o == [handles[h] EXCEPT !.dropped = (then # "stop") \/ @, !.fired = H!TearsDown(h, then) \/ @]
<1>0. PICK n \in Nat : n = Len(stack) + 1
  BY DEF ContainersInv, HandleTyped
<1>1. PICK f \in H!Frame : stack' = Append(stack, f) /\ f.h = h /\ (f.hook <=> hook)
  <2> DEFINE d == [h |-> h, g |-> g, then |-> then, hook |-> hook,
                   request |-> IF then = "stop" THEN "stop"
                               ELSE IF H!TearsDown(h, then) THEN "remove" ELSE "none"]
  <2>1. d \in H!Frame /\ d.h = h /\ (d.hook <=> hook)
    BY DEF H!Frame, H!FiresHooks
  <2>2. stack' = Append(stack, d)
    BY DEF H!Enter
  <2> QED BY <2>1, <2>2
<1>2. /\ DOMAIN stack' = 1..n /\ DOMAIN stack = 1..(n - 1) /\ stack'[n] = f /\ Len(stack') = n
      /\ \A l \in DOMAIN stack : stack'[l] = stack[l]
  BY <1>0, <1>1, Push DEF ContainersInv
<1>3. handles[h] \in H!Handle /\ H!Object(h) /\ handles' = [handles EXCEPT ![h] = o]
  BY DEF H!Enter, H!Object, ContainersInv, HandleTyped
<1>4. /\ o.id = handles[h].id /\ (o.fired <=> H!TearsDown(h, then) \/ handles[h].fired)
  <2>1. ((then # "stop") \/ handles[h].dropped) \in BOOLEAN
        /\ (H!TearsDown(h, then) \/ handles[h].fired) \in BOOLEAN
    BY <1>3 DEF H!TearsDown, H!Handle
  <2> QED BY <1>3, <2>1 DEF H!Handle
<1>5. handles'[h] = o /\ \A e \in Slots : e # h => handles'[e] = handles[e]
  BY <1>3 DEF ContainersInv, HandleTyped
<1> HIDE DEF o
<1>6. ASSUME NEW l \in DOMAIN stack
      PROVE  /\ stack[l].h \in Slots /\ H!Object(stack[l].h)
             /\ handles'[stack[l].h].id = handles[stack[l].h].id
             /\ handles[stack[l].h].fired => handles'[stack[l].h].fired
  <2>1. stack[l] \in H!Frame /\ FrameInv(l)
    BY DEF ContainersInv, HandleTyped
  <2>2. stack[l].h \in Slots /\ H!Object(stack[l].h)
    BY <2>1 DEF FrameInv, H!Frame
  <2> QED BY <1>4, <1>5, <2>2
<1>7. \A l \in DOMAIN stack : stack[l].hook
  <2>1. ASSUME NEW l \in DOMAIN stack PROVE stack[l].hook
    <3>1. stack # <<>>
      OBVIOUS
    <3>2. stack[Len(stack)].hook
      BY <3>1 DEF H!Enter, H!UserRuns, H!Idle, H!Top
    <3> QED BY <3>2 DEF Nesting
  <2> QED BY <2>1
<1>8. ASSUME hook
      PROVE  /\ handles[h].id \in Started /\ handles'[h].fired
             /\ \A l \in DOMAIN stack : Hooked(l) # handles[h].id
  <2>1. handles[h].id \in Started /\ ~handles[h].fired /\ H!TearsDown(h, then)
    BY <1>8 DEF H!FiresHooks
  <2>2. ASSUME NEW l \in DOMAIN stack, Hooked(l) = handles[h].id PROVE FALSE
    <3>1. Refers(stack[l].h, handles[h].id) /\ Refers(h, handles[h].id)
      BY <1>3, <1>6, <2>2 DEF Refers, Hooked
    <3>2. stack[l].h = h
      BY <1>6, <2>1, <3>1 DEF ContainersInv, ContainerInv
    <3> QED BY <1>7, <2>1, <3>2 DEF Nesting
  <2> QED BY <1>4, <1>5, <2>1, <2>2
<1>9. /\ \A l \in DOMAIN stack : Hooked(l)' = Hooked(l)
      /\ Hooked(n)' = handles[h].id
  BY <1>1, <1>2, <1>4, <1>5, <1>6 DEF Hooked
<1>10. \A l \in DOMAIN stack' : l = n \/ l \in DOMAIN stack
  BY <1>0, <1>2
<1> HIDE DEF hook
<1>11. \A l \in DOMAIN stack' : l # Len(stack') => stack'[l].hook
  BY <1>2, <1>7, <1>10
<1>12. \A l \in DOMAIN stack' : stack'[l].hook => Hooked(l)' \in Started /\ handles'[stack'[l].h].fired
  BY <1>1, <1>2, <1>6, <1>8, <1>9, <1>10 DEF Nesting
<1>13. \A l, j \in DOMAIN stack' :
         stack'[l].hook /\ stack'[j].hook /\ Hooked(l)' = Hooked(j)' => l = j
  BY <1>1, <1>2, <1>8, <1>9, <1>10 DEF Nesting
<1> QED BY <1>11, <1>12, <1>13 DEF Nesting

\* What an operation destroys or assigns at its end is in use no further down.
LEMMA NestingReturn ==
  ASSUME H!HandleAssumption, ContainersInv, Nesting, H!Return
  PROVE  Nesting'
<1>1. PICK n \in Nat : n = Len(stack)
  BY DEF ContainersInv, HandleTyped
<1>2. PICK f \in H!Frame : f = stack[n] /\ n \in DOMAIN stack /\ f = H!Top
  BY <1>1, Pop DEF H!Return, H!Idle, ContainersInv, HandleTyped, H!Top
<1>3. /\ stack' \in Seq(H!Frame) /\ DOMAIN stack' = 1..(n - 1) /\ DOMAIN stack = 1..n
      /\ \A l \in DOMAIN stack' : stack'[l] = stack[l]
  BY <1>1, Pop DEF H!Return, H!Idle, ContainersInv
<1>4. ASSUME NEW k \in DOMAIN stack' PROVE handles'[stack[k].h] = handles[stack[k].h]
  <2>1. k \in DOMAIN stack /\ k \in 1..(n - 1)
    BY <1>3
  <2>2. stack[k].h \in Slots
    <3>1. stack[k] \in H!Frame
      BY <2>1 DEF ContainersInv, HandleTyped
    <3> QED BY <3>1 DEF H!Frame
  <2>3. f.then \in {"destroy", "assign"} => stack[k].h \notin {f.h, f.g}
    BY <1>2, <2>1 DEF ContainersInv, FrameInv
  <2>4. handles' = CASE f.then = "destroy" -> [handles EXCEPT ![f.h] = Void]
                     [] f.then = "assign"  -> [handles EXCEPT ![f.h] = handles[f.g],
                                                              ![f.g] = H!MovedFrom(handles[f.g])]
                     [] OTHER -> handles
    BY <1>2 DEF H!Return
  <2> QED BY <2>2, <2>3, <2>4 DEF ContainersInv, HandleTyped
<1>5. \A l \in DOMAIN stack' : Hooked(l)' = Hooked(l) /\ l \in DOMAIN stack /\ l # n
  BY <1>3, <1>4 DEF Hooked
<1> QED BY <1>1, <1>3, <1>4, <1>5 DEF Nesting

LEMMA NestingStep ==
  ASSUME H!HandleAssumption, ContainersInv, Nesting, [H!Next]_(H!vars)
  PROVE  Nesting'
<1>1. ASSUME stack = <<>>, UNCHANGED stack PROVE Nesting'
  BY <1>1 DEF Nesting
<1>2. ASSUME NEW h \in Slots, NEW c \in H!Containers, NEW armed \in BOOLEAN,
             H!Start(h, c, armed) \/ H!Adopt(h, c, armed)
      PROVE  Nesting'
  BY <1>1, <1>2 DEF H!Start, H!Adopt, H!Idle
<1>3. ASSUME NEW h \in Slots, NEW g \in Slots, H!Move(h, g) PROVE Nesting'
  BY <1>1, <1>3 DEF H!Move, H!Idle
<1>4. ASSUME NEW h \in Slots, NEW keep \in BOOLEAN, H!Keep(h, keep) PROVE Nesting'
  <2>1. handles[h] \in H!Handle /\ handles' = [handles EXCEPT ![h] = [handles[h] EXCEPT !.armed = ~keep]]
    BY <1>4 DEF H!Keep, H!Object, ContainersInv, HandleTyped
  <2>2. \A e \in Slots : handles'[e].id = handles[e].id /\ handles'[e].fired = handles[e].fired
    BY <2>1 DEF ContainersInv, HandleTyped, H!Handle
  <2>3. \A l \in DOMAIN stack : stack[l].h \in Slots
    <3>1. \A l \in DOMAIN stack : stack[l] \in H!Frame
      BY DEF ContainersInv, HandleTyped
    <3> QED BY <3>1 DEF H!Frame
  <2> QED BY <1>4, <2>2, <2>3, NestingKept DEF H!Keep, ContainersInv
<1>5. CASE UNCHANGED <<handles, stack>>
  BY <1>5 DEF Nesting, Hooked
<1> QED BY <1>2, <1>3, <1>4, <1>5, NestingEnter, NestingReturn
    DEF H!Next, H!Stop, H!Remove, H!Destroy, H!Assign, H!Restart, H!Exit, H!vars

\* The state of the handles keeps its types, and hooks that use handles nest at most once per
\* container (fire_stopping, before the user's code runs, sets the flag that stops it).
THEOREM HandleTypeCorrect ==
  ASSUME H!HandleAssumption, IsFiniteSet(Started)
  PROVE  H!Spec => []H!TypeOK
<1>1. ASSUME ContainersInv, Nesting PROVE H!TypeOK
  <2>1. PICK n \in Nat : n = Len(stack) /\ DOMAIN stack = 1..n
    BY <1>1 DEF ContainersInv, HandleTyped
  <2>2. n <= Cardinality(Started) + 1
    <3>0. Cardinality(Started) \in Nat
      BY FS_CardinalityType
    <3>1. CASE n = 0
      BY <3>0, <3>1
    <3>2. CASE n # 0
      <4> DEFINE own == [l \in 1..(n - 1) |-> Hooked(l)]
      <4>1. \A l \in 1..(n - 1) : stack[l].hook /\ l \in DOMAIN stack
        BY <1>1, <2>1 DEF Nesting
      <4>2. own \in Injection(1..(n - 1), Started)
        BY <1>1, <4>1, Zenon DEF Nesting, Injection, IsInjective
      <4>3. Cardinality(1..(n - 1)) <= Cardinality(Started)
        BY <4>2, FS_Injection
      <4>4. Cardinality(1..(n - 1)) = n - 1
        BY <3>2, FS_Interval
      <4> QED BY <3>0, <4>3, <4>4
    <3> QED BY <3>1, <3>2
  <2>3. HandleTyped
    BY <1>1 DEF ContainersInv
  <2>4. \A h \in Slots : handles[h] = Void \/ handles[h] \in H!Handle
    BY <2>3 DEF HandleTyped
  <2>5. Len(stack) <= H!Cardinality(Started) + 1
    <3>1. H!Cardinality(Started) = Cardinality(Started)
      BY Zenon DEF H!Cardinality, Cardinality
    <3> QED BY <2>1, <2>2, <3>1
  <2>6. /\ stack \in Seq(H!Frame)
        /\ state \in [H!Containers -> {"none", "running", "stopped", "gone"}]
        /\ hooks \in [Started -> Nat] /\ removals \in [Started -> Nat]
    BY <2>3 DEF HandleTyped
  <2> QED BY <2>4, <2>5, <2>6 DEF H!TypeOK
<1>2. H!Init => Nesting
  BY DEF H!Init, Nesting
<1>3. ContainersInv /\ Nesting /\ [H!Next]_(H!vars) => Nesting'
  BY NestingStep
<1> QED BY <1>1, <1>2, <1>3, HandleInvariant, PTL DEF H!Spec

-----------------------------------------------------------------------------
(* Networks and volumes.                                                   *)

(* The inductive invariant. The ids given out are 1, 2, ..., so that a new *)
(* one is nobody's; a creator of a reuse network has seen no namesake and  *)
(* has no helper; a helper in a job has been made.                         *)
Seeding == {"copy", "start", "exec", "cleanup"}
IdsInv  == \E k \in Nat : N!Made = 1..k
JobInv  == \A t \in Threads :
             /\ job[t].pc = "create" => job[t].seen = {} /\ job[t].helper = 0
             /\ job[t].pc \in Seeding => job[t].helper \in N!Made
SeenInv == \A r \in N!Made : made[r].seen = {}
NamedTyped == N!TypeOK /\ handles \in [Slots -> N!Handle \cup {Void}]

NamedInv == NamedTyped /\ IdsInv /\ JobInv /\ SeenInv /\ N!OneOwner /\ N!NoneLost

Record(kind, name, hash, known) == [kind |-> kind, name |-> name, hash |-> hash, seen |-> known]

-----------------------------------------------------------------------------
\* The cardinality of NamedResources is the one the library's theorems are about.
LEMMA SameCardinality == \A S : N!Cardinality(S) = Cardinality(S)
BY DEF N!Cardinality, Cardinality

\* What the daemon creates is new, and changes nothing of what there is.
LEMMA MakeStep ==
  ASSUME N!NamedAssumption, NamedInv, NEW kind, NEW name, NEW hash, NEW known,
         Record(kind, name, hash, known) \in N!Resource, N!Make(kind, name, hash, known)
  PROVE  /\ N!New \in N!Ids /\ N!New \notin N!Made /\ N!Made' = N!Made \cup {N!New} /\ up' = up \cup {N!New}
         /\ made'[N!New] = Record(kind, name, hash, known)
         /\ \A r \in N!Made : made'[r] = made[r]
         /\ IdsInv' /\ N!Made' \subseteq N!Ids /\ up' \subseteq N!Made'
         /\ \A r \in N!Made' : made'[r] \in N!Resource
<1>1. PICK k \in Nat : N!Made = 1..k
  BY DEF NamedInv, IdsInv
<1>2. Cardinality(N!Made) = k
  BY <1>1, FS_Interval
<1>3. N!New = k + 1 /\ N!New \in N!Ids
  BY <1>2, SameCardinality DEF N!New, N!Make
<1>4. made' = [r \in N!Made \cup {N!New} |-> IF r = N!New THEN Record(kind, name, hash, known) ELSE made[r]]
  BY DEF N!Make, Record
<1>5. N!Made' = N!Made \cup {N!New} /\ N!New \notin N!Made
  BY <1>1, <1>3, <1>4 DEF N!Made
<1>6. N!Made' = 1..(k + 1)
  BY <1>1, <1>3, <1>5
<1>7. made'[N!New] = Record(kind, name, hash, known) /\ \A r \in N!Made : made'[r] = made[r]
  BY <1>4, <1>5
<1>8. up' = up \cup {N!New} /\ up \subseteq N!Made /\ N!Made \subseteq N!Ids /\ \A r \in N!Made : made[r] \in N!Resource
  BY DEF N!Make, NamedInv, NamedTyped, N!TypeOK
<1> QED BY <1>1, <1>3, <1>5, <1>6, <1>7, <1>8 DEF IdsInv

\* Before the first resource there are no handles.
LEMMA NamedInit == ASSUME N!NamedAssumption PROVE N!Init => NamedInv
<1> SUFFICES ASSUME N!Init PROVE NamedInv
  OBVIOUS
<1>1. N!NoJob \in N!Job /\ N!NoJob.pc = "idle" /\ N!NoJob.helper = 0
  BY DEF N!NoJob, N!Job, N!NamedAssumption
<1> HIDE DEF N!NoJob
<1>2. N!Made = {}
  BY DEF N!Init, N!Made
<1>3. IdsInv
  <2>1. N!Made = 1..0
    BY <1>2
  <2> QED BY <2>1 DEF IdsInv
<1>4. NamedTyped
  BY <1>1, <1>2 DEF N!Init, NamedTyped, N!TypeOK, N!Free
<1> QED BY <1>1, <1>2, <1>3, <1>4 DEF N!Init, NamedInv, JobInv, Seeding, SeenInv, N!OneOwner, N!NoneLost

\* A handle given to a slot that was free.
Given(h, o) == N!Free(h) /\ o \in N!Handle /\ ~o.dropped /\ handles' = [handles EXCEPT ![h] = o]

\* It owns what it names, and the others own what they did.
LEMMA TakeStep ==
  ASSUME N!NamedAssumption, NamedInv, NEW h \in Slots, NEW o, Given(h, o)
  PROVE  /\ handles' \in [Slots -> N!Handle \cup {Void}] /\ handles'[h] = o /\ N!Owner(h, o.id)'
         /\ \A g \in Slots : g # h => handles'[g] = handles[g]
         /\ \A g \in Slots, r \in N!Ids : N!Owner(g, r)' <=> (N!Owner(g, r) \/ (g = h /\ r = o.id))
<1>1. /\ handles \in [Slots -> N!Handle \cup {Void}] /\ o # Void
      /\ N!Free(h) /\ o \in N!Handle /\ ~o.dropped /\ handles' = [handles EXCEPT ![h] = o]
  BY DEF NamedInv, NamedTyped, Given, N!NamedAssumption
<1>2. /\ handles' \in [Slots -> N!Handle \cup {Void}] /\ handles'[h] = o
      /\ \A g \in Slots : g # h => handles'[g] = handles[g]
  BY <1>1
<1> QED BY <1>1, <1>2 DEF N!Owner, N!Free

-----------------------------------------------------------------------------
\* A resource that is created for a handle, or left to a helper's job: the handle, or the
\* job, is there for it from the start.
LEMMA NewStep ==
  ASSUME N!NamedAssumption, NamedInv, NEW kind, NEW name, NEW hash, NEW known,
         Record(kind, name, hash, known) \in N!Resource, N!Make(kind, name, hash, known), known = {},
         UNCHANGED <<windows, failed, given>>, job' \in [Threads -> N!Job], JobInv',
         \/ \E h \in Slots, armed \in BOOLEAN : N!Free(h) /\ N!Take(h, N!New, armed)
         \/ kind = "helper" /\ UNCHANGED handles /\ \E t \in Threads : ~N!Idle(t)' /\ job'[t].helper = N!New,
         \A t \in Threads : job'[t] = job[t] \/ N!Idle(t) \/ job[t].pc = "create"
  PROVE  NamedInv'
<1>1. /\ N!New \in N!Ids /\ N!New \notin N!Made /\ N!Made' = N!Made \cup {N!New} /\ up' = up \cup {N!New}
      /\ made'[N!New] = Record(kind, name, hash, known)
      /\ \A r \in N!Made : made'[r] = made[r]
      /\ IdsInv' /\ N!Made' \subseteq N!Ids /\ up' \subseteq N!Made'
      /\ \A r \in N!Made' : made'[r] \in N!Resource
  BY MakeStep
<1>2. PICK n \in N!Ids : n = N!New
  BY <1>1
<1>3. /\ handles' \in [Slots -> N!Handle \cup {Void}]
      /\ \A h \in Slots : handles'[h] = handles[h] \/ (handles'[h] \in N!Handle /\ handles'[h].id = n)
      /\ \A h \in Slots, r \in N!Ids : N!Owner(h, r) => N!Owner(h, r)'
      /\ \A h \in Slots, r \in N!Ids : N!Owner(h, r)' => N!Owner(h, r) \/ r = n
      /\ kind # "helper" => \E h \in Slots : \A g \in Slots : N!Owner(g, n)' => N!Owner(g, n) \/ g = h
      /\ \/ \E h \in Slots : N!Owner(h, n)'
         \/ \E t \in Threads : ~N!Idle(t)' /\ job'[t].helper = n
  <2>1. ASSUME NEW h \in Slots, NEW armed \in BOOLEAN, N!Free(h), N!Take(h, N!New, armed) PROVE <1>3!:
    <3> DEFINE o == [id |-> n, dropped |-> FALSE, armed |-> armed]
    <3>1. o \in N!Handle /\ ~o.dropped /\ o.id = n
      BY DEF N!Handle
    <3>2. Given(h, o)
      BY <1>2, <2>1, <3>1 DEF Given, N!Take
    <3> HIDE DEF o
    <3> QED BY <3>1, <3>2, TakeStep
  <2>2. CASE /\ kind = "helper" /\ UNCHANGED handles
             /\ \E t \in Threads : ~N!Idle(t)' /\ job'[t].helper = N!New
    BY <1>2, <2>2 DEF NamedInv, NamedTyped, N!Owner, N!Free
  <2> QED BY <2>1, <2>2
<1>4. NamedTyped'
  <2>1. \A h \in Slots : N!Free(h)' \/ (handles'[h] \in N!Handle /\ handles'[h].id \in N!Made')
    BY <1>1, <1>2, <1>3 DEF NamedInv, NamedTyped, N!TypeOK, N!Free
  <2>2. failed' \subseteq N!Made' /\ given' \subseteq N!Made' /\ windows' \in BOOLEAN
    BY <1>1 DEF NamedInv, NamedTyped, N!TypeOK
  <2>3. \A h \in Slots : (N!Free(h) \/ (handles[h] \in N!Handle /\ handles[h].id \in N!Made))'
    BY <2>1
  <2>4. (N!Made \subseteq N!Ids /\ \A r \in N!Made : made[r] \in N!Resource)' /\ (up \subseteq N!Made)'
    BY <1>1 DEF N!Ids
  <2> QED BY <1>3, <2>2, <2>3, <2>4 DEF NamedTyped, N!TypeOK
<1>5. SeenInv'
  BY <1>1 DEF SeenInv, NamedInv, Record
<1>6. \A h \in Slots : ~N!Owner(h, n)
  BY <1>1, <1>2 DEF NamedInv, NamedTyped, N!TypeOK, N!Owner
<1>7. N!OneOwner'
  <2> SUFFICES ASSUME NEW g \in Slots, NEW h \in Slots, NEW r \in N!Made', g # h,
                      made'[r].kind = "network", made'[r].hash = 0, N!Owner(g, r)', N!Owner(h, r)'
               PROVE  FALSE
    BY DEF N!OneOwner
  <2>1. CASE r = n
    <3>1. kind = "network"
      BY <1>1, <1>2, <2>1 DEF Record
    <3> QED BY <1>3, <1>6, <2>1, <3>1
  <2>2. CASE r # n
    <3>1. r \in N!Made /\ r \in N!Ids /\ made'[r] = made[r]
      BY <1>1, <1>2, <2>2
    <3> QED BY <1>3, <2>2, <3>1 DEF NamedInv, N!OneOwner
  <2> QED BY <2>1, <2>2
<1>8. N!NoneLost'
  <2> SUFFICES ASSUME NEW r \in up', made'[r].hash = 0
               PROVE  \/ \E h \in Slots : N!Owner(h, r)'
                      \/ \E t \in Threads : ~N!Idle(t)' /\ job'[t].helper = r
                      \/ r \in failed' \cup given'
    BY DEF N!NoneLost
  <2>1. CASE r = n
    BY <1>2, <1>3, <2>1
  <2>2. CASE r # n
    <3>1. r \in up /\ r \in N!Made /\ r \in N!Ids /\ made[r].hash = 0
      BY <1>1, <1>2, <2>2 DEF NamedInv, NamedTyped, N!TypeOK
    <3>2. ASSUME NEW t \in Threads, ~N!Idle(t), job[t].helper = r
          PROVE  ~N!Idle(t)' /\ job'[t].helper = r
      <4>1. job[t].pc # "create"
        BY <3>1, <3>2 DEF NamedInv, JobInv, Seeding, N!Ids
      <4>2. job'[t] = job[t]
        BY <3>2, <4>1
      <4> QED BY <3>2, <4>2 DEF N!Idle
    <3> QED BY <1>3, <3>1, <3>2 DEF NamedInv, N!NoneLost
  <2> QED BY <2>1, <2>2
<1> QED BY <1>1, <1>4, <1>5, <1>7, <1>8 DEF NamedInv

\* The creations that go through: of a network, a volume, a reuse network, and a helper.
LEMMA CreateStep ==
  ASSUME N!NamedAssumption, NamedInv, UNCHANGED windows, NEW t \in Threads, NEW h \in Slots,
         \/ \E n \in Names : N!CreateNetwork(t, h, n) \/ N!CreateVolume(t, h, n)
         \/ N!CreateReuse(t, h) \/ N!Populate(t, h)
  PROVE  NamedInv'
<1>1. /\ N!NoJob \in N!Job /\ N!NoJob.pc = "idle" /\ N!NoJob.helper = 0 /\ job \in [Threads -> N!Job] /\ job[t] \in N!Job
      /\ \A n \in Names, k \in {"network", "volume", "helper"} : Record(k, n, 0, {}) \in N!Resource
  BY DEF N!NoJob, N!Job, N!NamedAssumption, Record, N!Resource, NamedInv, NamedTyped, N!TypeOK
<1> HIDE DEF N!NoJob
<1>2. ASSUME NEW n \in Names, N!CreateNetwork(t, h, n) PROVE NamedInv'
  <2>1. N!Make("network", n, 0, {}) /\ N!Free(h) /\ N!Take(h, N!New, TRUE) /\ UNCHANGED <<job, failed, given>>
    BY <1>2 DEF N!CreateNetwork
  <2>2. JobInv'
    BY <1>1, <2>1, MakeStep DEF NamedInv, JobInv, Seeding
  <2> QED BY <1>1, <2>1, <2>2, NewStep
<1>3. ASSUME NEW n \in Names, N!CreateVolume(t, h, n) PROVE NamedInv'
  <2>1. N!Free(h) /\ UNCHANGED <<job, failed, given>>
    BY <1>3 DEF N!CreateVolume
  <2>3. CASE N!Make("volume", n, 0, {}) /\ N!Take(h, N!New, TRUE)
    <3>1. JobInv'
      BY <1>1, <2>1, <2>3, MakeStep DEF NamedInv, JobInv, Seeding
    <3> QED BY <1>1, <2>1, <2>3, <3>1, NewStep
  <2>4. CASE \E v \in N!Of("volume", n) : N!Take(h, v, TRUE) /\ UNCHANGED <<made, up>>
    <3>1. PICK v \in N!Of("volume", n) : N!Take(h, v, TRUE) /\ UNCHANGED <<made, up>>
      BY <2>4
    <3>2. v \in N!Made /\ v \in N!Ids /\ made[v].kind = "volume"
      BY DEF N!Of, NamedInv, NamedTyped, N!TypeOK
    <3> DEFINE o == [id |-> v, dropped |-> FALSE, armed |-> TRUE]
    <3>3. Given(h, o) /\ o.id = v /\ o \in N!Handle
      BY <2>1, <3>1, <3>2 DEF Given, N!Take, N!Handle
    <3> HIDE DEF o
    <3>4. /\ handles' \in [Slots -> N!Handle \cup {Void}] /\ handles'[h] = o
          /\ \A g \in Slots : g # h => handles'[g] = handles[g]
          /\ \A g \in Slots, r \in N!Ids : N!Owner(g, r)' <=> (N!Owner(g, r) \/ (g = h /\ r = v))
      BY <3>3, TakeStep
    <3>5. NamedTyped'
      BY <2>1, <3>1, <3>2, <3>3, <3>4 DEF NamedInv, NamedTyped, N!TypeOK, N!Free, N!Made
    <3>6. N!OneOwner' /\ N!NoneLost'
      BY <2>1, <3>1, <3>2, <3>4 DEF NamedInv, NamedTyped, N!TypeOK, N!OneOwner, N!NoneLost, N!Made, N!Idle
    <3> QED BY <2>1, <3>1, <3>5, <3>6 DEF NamedInv, IdsInv, JobInv, Seeding, SeenInv, N!Made
  <2> QED BY <1>3, <2>3, <2>4 DEF N!CreateVolume
<1>4. ASSUME N!CreateReuse(t, h) PROVE NamedInv'
  <2>1. /\ job[t].pc = "create" /\ job' = [job EXCEPT ![t] = N!NoJob] /\ UNCHANGED <<failed, given>>
        /\ job[t].seen = {} /\ job[t].helper = 0
    BY <1>4 DEF N!CreateReuse, NamedInv, JobInv, Seeding
  <2>2. job' \in [Threads -> N!Job] /\ job'[t] = N!NoJob /\ \A u \in Threads : u # t => job'[u] = job[u]
    BY <1>1, <2>1
  <2>3. CASE N!Free(h) /\ N!Make("network", job[t].name, job[t].hash, job[t].seen) /\ N!Take(h, N!New, FALSE)
    <3>1. Record("network", job[t].name, job[t].hash, job[t].seen) \in N!Resource
      BY <1>1, <2>1 DEF Record, N!Resource, N!Job
    <3>2. JobInv'
      BY <1>1, <2>2, <2>3, <3>1, MakeStep DEF NamedInv, JobInv, Seeding
    <3> QED BY <2>1, <2>2, <2>3, <3>1, <3>2, NewStep
  <2>4. CASE UNCHANGED <<handles, made, up>>
    <3>1. ASSUME NEW r \in up, NEW u \in Threads, ~N!Idle(u), job[u].helper = r
          PROVE  ~N!Idle(u)' /\ job'[u].helper = r
      <4>1. u # t
        BY <2>1, <3>1 DEF NamedInv, NamedTyped, N!TypeOK, N!Ids
      <4> QED BY <2>2, <3>1, <4>1 DEF N!Idle
    <3>2. N!NoneLost'
      BY <2>1, <2>4, <3>1 DEF NamedInv, N!NoneLost, N!Owner, N!Free
    <3>3. JobInv'
      BY <1>1, <2>2, <2>4 DEF NamedInv, JobInv, Seeding, N!Made
    <3> QED BY <2>1, <2>2, <2>4, <3>2, <3>3
            DEF NamedInv, NamedTyped, N!TypeOK, N!Free, N!Made, IdsInv, SeenInv, N!OneOwner, N!Owner
  <2> QED BY <1>4, <2>3, <2>4 DEF N!CreateReuse
<1>5. ASSUME N!Populate(t, h) PROVE NamedInv'
  <2>1. /\ N!Idle(t) /\ N!Make("helper", made[handles[h].id].name, 0, {})
        /\ handles[h].id \in N!Made /\ UNCHANGED <<handles, failed, given>>
    BY <1>5 DEF N!Populate, NamedInv, NamedTyped, N!TypeOK
  <2>2. Record("helper", made[handles[h].id].name, 0, {}) \in N!Resource
    BY <1>1, <2>1 DEF NamedInv, NamedTyped, N!TypeOK, N!Resource
  <2>3. N!New \in N!Ids /\ N!New \in N!Made' /\ N!Made \subseteq N!Made'
    BY <2>1, <2>2, MakeStep
  <2> DEFINE j == [N!NoJob EXCEPT !.pc = IF windows THEN "copy" ELSE "start", !.helper = N!New]
  <2>4. job' = [job EXCEPT ![t] = j]
    BY <1>5 DEF N!Populate
  <2>5. j \in N!Job /\ j.pc \in {"copy", "start"} /\ j.helper = N!New
    BY <1>1, <2>3 DEF N!Job
  <2> HIDE DEF j
  <2>6. job' \in [Threads -> N!Job] /\ job'[t] = j /\ \A u \in Threads : u # t => job'[u] = job[u]
    BY <1>1, <2>4, <2>5
  <2>7. JobInv'
    BY <2>3, <2>5, <2>6 DEF NamedInv, JobInv, Seeding
  <2>8. ~N!Idle(t)' /\ job'[t].helper = N!New
    BY <2>5, <2>6 DEF N!Idle
  <2> QED BY <2>1, <2>2, <2>6, <2>7, <2>8, NewStep
<1> QED BY <1>2, <1>3, <1>4, <1>5

\* A reuse network is adopted, or its creation is decided, with no namesake in sight.
LEMMA LookupStep ==
  ASSUME N!NamedAssumption, NamedInv, UNCHANGED windows, NEW t \in Threads, NEW h \in Slots,
         NEW n \in Names, NEW c \in Configs, N!FindReuse(t, h, n, c)
  PROVE  NamedInv'
<1>1. N!Idle(t) /\ N!Free(h) /\ UNCHANGED <<made, up, failed, given>> /\ c # 0
  BY DEF N!FindReuse, N!NamedAssumption
<1>2. ASSUME NEW m \in N!Of("network", n), made[m].hash = c, N!Take(h, m, FALSE), UNCHANGED job
      PROVE  NamedInv'
  <2>1. m \in N!Made /\ m \in N!Ids
    BY DEF N!Of, NamedInv, NamedTyped, N!TypeOK
  <2> DEFINE o == [id |-> m, dropped |-> FALSE, armed |-> FALSE]
  <2>2. Given(h, o) /\ o.id = m /\ o \in N!Handle
    BY <1>1, <1>2, <2>1 DEF Given, N!Take, N!Handle
  <2> HIDE DEF o
  <2>3. /\ handles' \in [Slots -> N!Handle \cup {Void}] /\ handles'[h] = o
        /\ \A g \in Slots : g # h => handles'[g] = handles[g]
        /\ \A g \in Slots, r \in N!Ids : N!Owner(g, r)' <=> (N!Owner(g, r) \/ (g = h /\ r = m))
    BY <2>2, TakeStep
  <2>4. NamedTyped'
    BY <1>1, <1>2, <2>1, <2>2, <2>3 DEF NamedInv, NamedTyped, N!TypeOK, N!Free, N!Made
  <2>5. N!OneOwner' /\ N!NoneLost'
    BY <1>1, <1>2, <2>1, <2>3 DEF NamedInv, NamedTyped, N!TypeOK, N!OneOwner, N!NoneLost, N!Made, N!Idle
  <2> QED BY <1>1, <1>2, <2>4, <2>5 DEF NamedInv, IdsInv, JobInv, Seeding, SeenInv, N!Made
<1>3. ASSUME ~N!NameTaken(n), UNCHANGED handles,
             job' = [job EXCEPT ![t] = [N!NoJob EXCEPT !.pc = "create", !.name = n, !.hash = c,
                                                     !.seen = N!Of("network", n)]]
      PROVE  NamedInv'
  <2> DEFINE j == [N!NoJob EXCEPT !.pc = "create", !.name = n, !.hash = c, !.seen = N!Of("network", n)]
  <2>1. N!Of("network", n) = {}
    BY <1>3 DEF N!NameTaken
  <2>2. j \in N!Job /\ j.pc = "create" /\ j.seen = {} /\ j.helper = 0
    BY <2>1 DEF N!NoJob, N!Job
  <2>3. job' = [job EXCEPT ![t] = j]
    BY <1>3
  <2> HIDE DEF j
  <2>4. job' \in [Threads -> N!Job] /\ job'[t] = j /\ \A u \in Threads : u # t => job'[u] = job[u]
    BY <2>2, <2>3 DEF NamedInv, NamedTyped, N!TypeOK
  <2>5. JobInv'
    BY <1>1, <2>2, <2>4 DEF NamedInv, JobInv, Seeding, N!Made
  <2>6. NamedTyped'
    BY <1>1, <1>3, <2>4 DEF NamedInv, NamedTyped, N!TypeOK, N!Free, N!Made
  <2>7. N!NoneLost'
    BY <1>1, <1>3, <2>4 DEF NamedInv, N!NoneLost, N!Idle, N!Owner, N!Free
  <2> QED BY <1>1, <1>3, <2>5, <2>6, <2>7 DEF NamedInv, IdsInv, SeenInv, N!Made, N!OneOwner, N!Owner, N!Free
<1> QED BY <1>2, <1>3 DEF N!FindReuse

-----------------------------------------------------------------------------
\* The handles change hands: what is not owned any more was given away or its removal has
\* been tried, and nothing gets a second owner.
LEMMA HandleStep ==
  ASSUME NamedInv, UNCHANGED <<windows, job, made>>,
         up' \subseteq up, failed' \subseteq N!Made, given' \subseteq N!Made,
         failed \subseteq failed', given \subseteq given',
         handles' \in [Slots -> N!Handle \cup {Void}],
         \A h \in Slots : N!Free(h)' \/ handles'[h].id \in N!Made,
         \A h \in Slots, r \in up' : N!Owner(h, r) => (\E g \in Slots : N!Owner(g, r)') \/ r \in failed' \cup given',
         \A g, h \in Slots, r \in N!Made : g # h /\ N!Owner(g, r)' /\ N!Owner(h, r)' =>
           \E a, b \in Slots : a # b /\ N!Owner(a, r) /\ N!Owner(b, r)
  PROVE  NamedInv'
<1>1. NamedTyped'
  <2>1. \A h \in Slots : (N!Free(h) \/ (handles[h] \in N!Handle /\ handles[h].id \in N!Made))'
    BY DEF N!Free, N!Made
  <2> QED BY <2>1 DEF NamedInv, NamedTyped, N!TypeOK, N!Made
<1>2. N!OneOwner'
  BY DEF NamedInv, N!OneOwner, N!Made
<1>3. N!NoneLost'
  <2> SUFFICES ASSUME NEW r \in up', made[r].hash = 0
               PROVE  \/ \E h \in Slots : N!Owner(h, r)'
                      \/ \E t \in Threads : ~N!Idle(t) /\ job[t].helper = r
                      \/ r \in failed' \cup given'
    BY DEF N!NoneLost, N!Idle
  <2> QED BY DEF NamedInv, N!NoneLost
<1> QED BY <1>1, <1>2, <1>3 DEF NamedInv, IdsInv, JobInv, Seeding, SeenInv, N!Made

\* drop(): what its handle owned is gone, or tried, or left to others.
LEMMA DropStep ==
  ASSUME NamedInv, NEW h \in Slots, ~N!Free(h), N!DropOf(h)
  PROVE  /\ up' \subseteq up /\ failed' \subseteq N!Made /\ given' \subseteq N!Made
         /\ failed \subseteq failed' /\ given \subseteq given'
         /\ \A r \in up' : N!Owner(h, r) => r \in failed' \cup given'
<1>1. handles[h].id \in N!Made /\ failed \subseteq N!Made /\ given \subseteq N!Made
  BY DEF NamedInv, NamedTyped, N!TypeOK
<1>2. \/ (handles[h].dropped \/ ~handles[h].armed \/ handles[h].id \notin up) /\ UNCHANGED <<up, failed>>
      \/ up' = up \ {handles[h].id} /\ UNCHANGED failed
      \/ failed' = failed \cup {handles[h].id} /\ UNCHANGED up
  BY DEF N!DropOf
<1>3. given' = given \cup {r \in {handles[h].id} : ~handles[h].dropped /\ ~handles[h].armed}
  BY DEF N!DropOf
<1> QED BY <1>1, <1>2, <1>3 DEF N!Owner

\* drop, destruction, moves and keep.
LEMMA OwnStep ==
  ASSUME N!NamedAssumption, NamedInv, UNCHANGED windows, NEW h \in Slots,
         \/ N!Remove(h) \/ N!Destroy(h)
         \/ \E g \in Slots : N!MoveConstruct(h, g) \/ N!MoveAssign(h, g)
         \/ \E keep \in BOOLEAN : N!Keep(h, keep)
  PROVE  NamedInv'
<1>1. handles \in [Slots -> N!Handle \cup {Void}] /\ \A g \in Slots : N!Free(g) \/ handles[g].id \in N!Made
  BY DEF NamedInv, NamedTyped, N!TypeOK
<1>2. \A g \in Slots : ~N!Free(g) => handles[g] \in N!Handle
  BY <1>1 DEF N!Free
<1>3. ASSUME N!Remove(h) PROVE NamedInv'
  <2>1. /\ ~N!Free(h) /\ N!DropOf(h) /\ handles' = [handles EXCEPT ![h].dropped = TRUE]
        /\ UNCHANGED <<job, made>>
    BY <1>3 DEF N!Remove
  <2> DEFINE o == [handles[h] EXCEPT !.dropped = TRUE]
  <2>2. o \in N!Handle /\ o.dropped /\ o.id = handles[h].id /\ handles' = [handles EXCEPT ![h] = o]
    BY <1>1, <1>2, <2>1 DEF N!Handle
  <2> HIDE DEF o
  <2>3. /\ handles' \in [Slots -> N!Handle \cup {Void}] /\ handles'[h] = o
        /\ \A g \in Slots : g # h => handles'[g] = handles[g]
    BY <1>1, <2>2
  <2>4. \A g \in Slots, r \in N!Ids : N!Owner(g, r)' <=> (N!Owner(g, r) /\ g # h)
    BY <2>2, <2>3 DEF N!Owner, N!Free
  <2>5. N!Made \subseteq N!Ids /\ up \subseteq N!Ids
    BY DEF NamedInv, NamedTyped, N!TypeOK
  <2>6. \A g \in Slots : N!Free(g)' \/ handles'[g].id \in N!Made
    BY <1>1, <2>1, <2>2, <2>3 DEF N!Free
  <2> QED BY <2>1, <2>3, <2>4, <2>5, <2>6, DropStep, HandleStep
<1>4. ASSUME N!Destroy(h) PROVE NamedInv'
  <2>1. /\ ~N!Free(h) /\ N!DropOf(h) /\ handles' = [handles EXCEPT ![h] = Void]
        /\ UNCHANGED <<job, made>>
    BY <1>4 DEF N!Destroy
  <2>2. /\ handles' \in [Slots -> N!Handle \cup {Void}] /\ handles'[h] = Void
        /\ \A g \in Slots : g # h => handles'[g] = handles[g]
    BY <1>1, <2>1
  <2>3. \A g \in Slots, r \in N!Ids : N!Owner(g, r)' <=> (N!Owner(g, r) /\ g # h)
    BY <2>2 DEF N!Owner, N!Free
  <2>4. N!Made \subseteq N!Ids /\ up \subseteq N!Ids
    BY DEF NamedInv, NamedTyped, N!TypeOK
  <2>5. \A g \in Slots : N!Free(g)' \/ handles'[g].id \in N!Made
    BY <1>1, <2>2 DEF N!Free
  <2> QED BY <2>1, <2>2, <2>3, <2>4, <2>5, DropStep, HandleStep
<1>5. ASSUME NEW g \in Slots, g # h, ~N!Free(g),
             handles' = [handles EXCEPT ![h] = handles[g], ![g] = N!MovedFrom(g)]
      PROVE  /\ handles' \in [Slots -> N!Handle \cup {Void}]
             /\ \A e \in Slots : N!Free(e)' \/ handles'[e].id \in N!Made
             /\ \A e \in Slots, r \in N!Ids : N!Owner(e, r)' <=> \/ N!Owner(e, r) /\ e \notin {g, h}
                                                                 \/ N!Owner(g, r) /\ e = h
  <2> DEFINE o == N!MovedFrom(g)
  <2>1. o \in N!Handle /\ o.dropped /\ o.id = handles[g].id
    BY <1>2, <1>5 DEF N!Handle, N!MovedFrom
  <2> HIDE DEF o
  <2>2. handles' = [handles EXCEPT ![h] = handles[g], ![g] = o]
    BY <1>5 DEF o
  <2>3. /\ handles' \in [Slots -> N!Handle \cup {Void}] /\ handles'[h] = handles[g] /\ handles'[g] = o
        /\ \A e \in Slots : e \notin {g, h} => handles'[e] = handles[e]
    BY <1>1, <1>5, <2>1, <2>2
  <2> QED BY <1>1, <1>5, <2>1, <2>3 DEF N!Owner, N!Free
<1>6. ASSUME NEW g \in Slots, N!MoveConstruct(h, g) PROVE NamedInv'
  <2>1. /\ N!Free(h) /\ ~N!Free(g) /\ g # h /\ UNCHANGED <<job, made, up, failed, given>>
        /\ handles' = [handles EXCEPT ![h] = handles[g], ![g] = N!MovedFrom(g)]
    BY <1>6 DEF N!MoveConstruct
  <2>2. \A r : ~N!Owner(h, r)
    BY <2>1 DEF N!Owner
  <2>3. N!Made \subseteq N!Ids /\ up \subseteq N!Ids /\ failed \subseteq N!Made /\ given \subseteq N!Made
    BY DEF NamedInv, NamedTyped, N!TypeOK
  <2>4. \A e \in Slots, r \in up' : N!Owner(e, r) => \E d \in Slots : N!Owner(d, r)'
    <3> SUFFICES ASSUME NEW e \in Slots, NEW r \in up', N!Owner(e, r)
                 PROVE  \E d \in Slots : N!Owner(d, r)'
      OBVIOUS
    <3>1. r \in N!Ids /\ e # h
      BY <2>1, <2>2, <2>3
    <3>2. N!Owner(e, r)' \/ N!Owner(h, r)'
      BY <1>5, <2>1, <3>1
    <3> QED BY <3>2
  <2>5. \A d, e \in Slots, r \in N!Made : d # e /\ N!Owner(d, r)' /\ N!Owner(e, r)' =>
          \E a, b \in Slots : a # b /\ N!Owner(a, r) /\ N!Owner(b, r)
    BY <1>5, <2>1, <2>3
  <2> QED BY <1>5, <2>1, <2>3, <2>4, <2>5, HandleStep
<1>7. ASSUME NEW g \in Slots, N!MoveAssign(h, g) PROVE NamedInv'
  <2>1. /\ ~N!Free(h) /\ ~N!Free(g) /\ g # h /\ N!DropOf(h) /\ UNCHANGED <<job, made>>
        /\ handles' = [handles EXCEPT ![h] = handles[g], ![g] = N!MovedFrom(g)]
    BY <1>7 DEF N!MoveAssign
  <2>2. N!Made \subseteq N!Ids /\ up \subseteq N!Ids
    BY DEF NamedInv, NamedTyped, N!TypeOK
  <2>3. /\ up' \subseteq up /\ failed' \subseteq N!Made /\ given' \subseteq N!Made
        /\ failed \subseteq failed' /\ given \subseteq given'
        /\ \A r \in up' : N!Owner(h, r) => r \in failed' \cup given'
    BY <2>1, DropStep
  <2>4. \A e \in Slots, r \in N!Ids :
            N!Owner(e, r)' <=> \/ N!Owner(e, r) /\ e \notin {g, h}
                               \/ N!Owner(g, r) /\ e = h
    BY <1>5, <2>1
  <2>5. \A e \in Slots, r \in up' :
          N!Owner(e, r) => (\E d \in Slots : N!Owner(d, r)') \/ r \in failed' \cup given'
    <3> SUFFICES ASSUME NEW e \in Slots, NEW r \in up', N!Owner(e, r)
                 PROVE  (\E d \in Slots : N!Owner(d, r)') \/ r \in failed' \cup given'
      OBVIOUS
    <3>1. r \in N!Ids
      BY <2>2, <2>3
    <3>2. CASE e = h
      BY <2>3, <3>2
    <3>3. CASE e = g
      <4>1. N!Owner(h, r)'
        BY <2>4, <3>1, <3>3
      <4> QED BY <4>1
    <3>4. CASE e \notin {g, h}
      <4>1. N!Owner(e, r)'
        BY <2>4, <3>1, <3>4
      <4> QED BY <4>1
    <3> QED BY <3>2, <3>3, <3>4
  <2>6. \A d, e \in Slots, r \in N!Made : d # e /\ N!Owner(d, r)' /\ N!Owner(e, r)' =>
          \E a, b \in Slots : a # b /\ N!Owner(a, r) /\ N!Owner(b, r)
    BY <2>1, <2>2, <2>4
  <2> QED BY <1>5, <2>1, <2>3, <2>5, <2>6, HandleStep
<1>8. ASSUME NEW keep \in BOOLEAN, N!Keep(h, keep) PROVE NamedInv'
  <2>1. /\ ~N!Free(h) /\ handles' = [handles EXCEPT ![h].armed = ~keep]
        /\ UNCHANGED <<job, made, up, failed, given>>
    BY <1>8 DEF N!Keep
  <2> DEFINE o == [handles[h] EXCEPT !.armed = ~keep]
  <2>2. /\ o \in N!Handle /\ o.dropped = handles[h].dropped /\ o.id = handles[h].id
        /\ handles' = [handles EXCEPT ![h] = o]
    BY <1>1, <1>2, <2>1 DEF N!Handle
  <2>3. o # Void
    BY <2>2 DEF N!NamedAssumption
  <2> HIDE DEF o
  <2>4. /\ handles' \in [Slots -> N!Handle \cup {Void}] /\ handles'[h] = o
        /\ \A g \in Slots : g # h => handles'[g] = handles[g]
    BY <1>1, <2>2
  <2>5. \A g \in Slots, r \in N!Ids : N!Owner(g, r)' <=> N!Owner(g, r)
    BY <2>1, <2>2, <2>3, <2>4 DEF N!Owner, N!Free
  <2>6. N!Made \subseteq N!Ids /\ up \subseteq N!Ids /\ failed \subseteq N!Made /\ given \subseteq N!Made
    BY DEF NamedInv, NamedTyped, N!TypeOK
  <2>7. \A g \in Slots : N!Free(g)' \/ handles'[g].id \in N!Made
    BY <1>1, <2>1, <2>2, <2>4 DEF N!Free
  <2> QED BY <2>1, <2>4, <2>5, <2>6, <2>7, HandleStep
<1> QED BY <1>3, <1>4, <1>6, <1>7, <1>8

-----------------------------------------------------------------------------
\* A step of a seed keeps its helper in hand, and its end removes it or has tried.
LEMMA SeedInv ==
  ASSUME N!NamedAssumption, NamedInv, UNCHANGED windows, NEW t \in Threads, N!SeedStep(t) \/ N!RemoveHelper(t)
  PROVE  NamedInv'
<1>1. /\ N!NoJob \in N!Job /\ N!NoJob.pc = "idle" /\ N!NoJob.helper = 0 /\ job \in [Threads -> N!Job] /\ job[t] \in N!Job
      /\ failed \subseteq N!Made /\ up \subseteq N!Made
  BY DEF N!NoJob, N!Job, N!NamedAssumption, NamedInv, NamedTyped, N!TypeOK
<1> HIDE DEF N!NoJob
<1>2. ASSUME N!SeedStep(t) PROVE NamedInv'
  <2>1. job[t].pc \in {"copy", "start", "exec"} /\ UNCHANGED <<handles, made, up, failed, given>>
    BY <1>2 DEF N!SeedStep
  <2>2. PICK p \in {"copy", "start", "exec", "cleanup"} : N!Goto(t, p)
    BY <1>2, <2>1 DEF N!SeedStep, N!Following, N!AfterError
  <2> DEFINE j == [job[t] EXCEPT !.pc = p]
  <2>3. j \in N!Job /\ j.pc = p /\ j.helper = job[t].helper
    BY <1>1, <2>2 DEF N!Job
  <2>4. job' = [job EXCEPT ![t] = j]
    BY <2>2 DEF N!Goto
  <2> HIDE DEF j
  <2>5. job' \in [Threads -> N!Job] /\ job'[t] = j /\ \A u \in Threads : u # t => job'[u] = job[u]
    BY <1>1, <2>3, <2>4
  <2>6. JobInv'
    BY <2>1, <2>2, <2>3, <2>5 DEF NamedInv, JobInv, Seeding, N!Made
  <2>7. \A u \in Threads : ~N!Idle(u) => ~N!Idle(u)' /\ job'[u].helper = job[u].helper
    BY <2>2, <2>3, <2>5 DEF N!Idle
  <2>8. N!NoneLost'
    BY <2>1, <2>7 DEF NamedInv, N!NoneLost, N!Owner, N!Free
  <2> QED BY <2>1, <2>5, <2>6, <2>8 DEF NamedInv, NamedTyped, N!TypeOK, N!Free, N!Made, IdsInv, SeenInv, N!OneOwner, N!Owner
<1>3. ASSUME N!RemoveHelper(t) PROVE NamedInv'
  <2>1. /\ job[t].pc = "cleanup" /\ job' = [job EXCEPT ![t] = N!NoJob] /\ UNCHANGED <<handles, made, given>>
        /\ \/ up' = up \ {job[t].helper} /\ UNCHANGED failed
           \/ failed' = failed \cup {job[t].helper} /\ UNCHANGED up
    BY <1>3 DEF N!RemoveHelper
  <2>2. job' \in [Threads -> N!Job] /\ job'[t] = N!NoJob /\ \A u \in Threads : u # t => job'[u] = job[u]
    BY <1>1, <2>1
  <2>3. JobInv'
    BY <1>1, <2>1, <2>2 DEF NamedInv, JobInv, Seeding, N!Made
  <2>4. up' \subseteq up /\ failed \subseteq failed' /\ (job[t].helper \in up' => job[t].helper \in failed')
    BY <2>1
  <2>5. N!NoneLost'
    BY <2>1, <2>2, <2>4 DEF NamedInv, N!NoneLost, N!Owner, N!Free, N!Idle
  <2>6. NamedTyped'
    <3>1. failed' \subseteq N!Made /\ up' \subseteq N!Made
      BY <1>1, <2>1 DEF NamedInv, JobInv, Seeding
    <3> QED BY <2>1, <2>2, <3>1 DEF NamedInv, NamedTyped, N!TypeOK, N!Free, N!Made
  <2> QED BY <2>1, <2>3, <2>5, <2>6 DEF NamedInv, NamedTyped, N!TypeOK, N!Free, N!Made, IdsInv, SeenInv, N!OneOwner, N!Owner
<1> QED BY <1>2, <1>3

\* Every step of the threads keeps the invariant.
LEMMA NamedStep == ASSUME N!NamedAssumption PROVE NamedInv /\ [N!Next]_(N!vars) => NamedInv'
<1> SUFFICES ASSUME NamedInv, [N!Next]_(N!vars) PROVE NamedInv'
  OBVIOUS
<1>1. CASE N!Step /\ UNCHANGED windows
  BY <1>1, CreateStep, LookupStep, OwnStep, SeedInv DEF N!Step
<1>2. CASE UNCHANGED N!vars
  BY <1>2 DEF N!vars, NamedInv, NamedTyped, N!TypeOK, N!Free, N!Made, IdsInv, JobInv, Seeding, SeenInv, N!OneOwner, N!NoneLost, N!Owner, N!Idle
<1> QED BY <1>1, <1>2 DEF N!Next

-----------------------------------------------------------------------------
\* The invariant holds in every state of networks and volumes.
THEOREM NamedInvariant == ASSUME N!NamedAssumption PROVE N!Spec => []NamedInv
BY NamedInit, NamedStep, PTL DEF N!Spec

\* What is not persistent is never lost: it has a handle that will remove it, is the helper
\* of a seed in progress, or its removal was tried (drop of Network and Volume, populate).
THEOREM NothingLost == ASSUME N!NamedAssumption PROVE N!Spec => []N!NoneLost
<1>1. NamedInv => N!NoneLost
  BY DEF NamedInv
<1> QED BY <1>1, NamedInvariant, PTL

\* A network has at most one owner, so that drop() removes it once, wherever it was moved,
\* unless reuse has adopted it twice (Network.cpp: create, the moves).
THEOREM OwnedByOne == ASSUME N!NamedAssumption PROVE N!Spec => []N!OneOwner
<1>1. NamedInv => N!OneOwner
  BY DEF NamedInv
<1> QED BY <1>1, NamedInvariant, PTL

\* A reuse network is not created next to a namesake that the find of its creator has
\* listed (Network.cpp: Builder::create).
THEOREM NoneNextToSeen == ASSUME N!NamedAssumption PROVE N!Spec => []N!NotNextToSeen
<1>1. NamedInv => N!NotNextToSeen
  BY DEF NamedInv, SeenInv, N!NotNextToSeen
<1> QED BY <1>1, NamedInvariant, PTL

\* The three together: what a handle of a network or a volume owes its resource.
THEOREM NamedOwedOnce == ASSUME N!NamedAssumption PROVE N!Spec => []N!OwnedOnce
BY NothingLost, OwnedByOne, NoneNextToSeen, PTL DEF N!OwnedOnce

\* Types: a handle names a resource that was made, and a job is about names and
\* configurations there are (Network.cpp, Volume.cpp).
THEOREM NamedTypeCorrect == ASSUME N!NamedAssumption PROVE N!Spec => []N!TypeOK
<1>1. NamedInv => N!TypeOK
  BY DEF NamedInv, NamedTyped
<1> QED BY <1>1, NamedInvariant, PTL
=============================================================================
