--------------------------- MODULE ResourceProofs ---------------------------
(***************************************************************************)
(* Theorems about what waits for containers and what configures them, and  *)
(* about the components of Resources together. A wait chain: what it       *)
(* passed on was met, and its one budget bounds the whole chain. A         *)
(* technology module: the container that was rendered is the one that was  *)
(* described, the scripts it was given run in their order, and whoever is  *)
(* handed a server finds it up, provisioned and as the getters say. Last,  *)
(* the properties that MCResources checks, for every value of the          *)
(* constants: each is one of its components' theorems, which HandleProofs  *)
(* and WiringProofs prove for the other four.                              *)
(***************************************************************************)
EXTENDS HandleProofs, WiringProofs, NaturalsInduction, WellFoundedInduction

\* That long after the deadline.
Late(delta) == SaturatedAdd(deadline, delta)

(* The inductive invariant. What the thread is at belongs to the condition *)
(* waited for.                                                             *)
KindInv ==
  /\ deadline = SaturatedAdd(0, timeout)
  /\ Running => i <= Len(waits)
  /\ pc = "ready" => i = Len(waits) + 1
  /\ pc = "follow" => W.kind = "log"
  /\ pc = "sleep" => W.kind \in Polled \cup {"log"}
  /\ pc = "nap" => W.kind = "duration" /\ call \in {"probe", "snapshot"}
  /\ pc = "busy" => /\ call = "resolve" => W.kind \in {"http", "port"}
                    /\ call = "probe" => W.kind \in Polled \ {"command"}
                    /\ call \in {"snapshot", "connect"} => W.kind = "log"
                    /\ call \in Trips => W.kind = "command"
                    /\ call = "passed" => i \in met

\* How long after the deadline a call may end: an attempt begins a poll after it at the
\* latest, and each of its round-trips follows the one before.
BoundOf(what) == CASE what = "resolve"            -> Io
                  [] what = "create"             -> Poll + 2 * Io
                  [] what = "start"              -> Poll + 3 * Io
                  [] what = "run"                -> 0
                  [] what \in {"inspect", "passed"} -> Poll + 4 * Io
                  [] OTHER                       -> Poll + Io

\* No call or sleep begins that would end later than that.
TimeInv ==
  /\ now <= Late(Overrun)
  /\ pc = "enter" => IF i = 1 THEN now = 0 ELSE now < deadline
  /\ pc = "nap" => /\ now <= until /\ until <= deadline
                   /\ call = "snapshot" => until = deadline /\ (i = 1 => timeout < W.value)
  /\ pc = "sleep" => now <= until /\ until <= Late(Poll)
  /\ pc = "busy" => /\ now <= until /\ until <= Late(BoundOf(call))
                    /\ call = "snapshot" => now >= deadline

\* What a follow stream has counted are the occurrences it has delivered.
LogInv ==
  /\ Len(log) <= MaxLog
  /\ pc = "follow" => pos <= Len(log) /\ seen = Count(W, pos)

WaitInv == TypeOK /\ KindInv /\ TimeInv /\ LogInv /\ PassedWasMet /\ TimeoutIsReal

-----------------------------------------------------------------------------
(* Time.                                                                   *)

\* Addition that stops at the end of the clock is monotonic, and never more than addition.
LEMMA Saturates ==
  ASSUME NEW a \in 0..MaxTime, NEW b \in 0..MaxTime, NEW d \in Nat, NEW e \in Nat
  PROVE  /\ SaturatedAdd(a, d) \in 0..MaxTime
         /\ a <= SaturatedAdd(a, d)
         /\ SaturatedAdd(a, d) <= a + d
         /\ a <= b /\ d <= e => SaturatedAdd(a, d) <= SaturatedAdd(b, e)
         /\ SaturatedAdd(SaturatedAdd(a, d), e) <= SaturatedAdd(a, d + e)
  BY WaitAssumption DEF SaturatedAdd

\* What the chain may be late by does not change.
LEMMA OverrunKept ==
  ASSUME UNCHANGED waits
  PROVE  Overrun' = Overrun
  BY DEF Overrun, Cares

\* No call is bounded by more than that.
LEMMA BoundOfTrip ==
  ASSUME WaitInv
  PROVE  /\ Overrun \in Nat /\ Poll + Io <= Overrun /\ Io <= Overrun
         /\ pc = "busy" => BoundOf(call) \in Nat /\ BoundOf(call) <= Overrun
  <1>1. Overrun \in Nat /\ Poll + Io <= Overrun /\ Io <= Overrun
    BY WaitAssumption DEF Overrun
  <1>2. ASSUME pc = "busy", call \notin Trips  PROVE BoundOf(call) \in {Io, Poll + Io}
    BY <1>2 DEF BoundOf, Trips
  <1>3. ASSUME pc = "busy", call \in Trips  PROVE BoundOf(call) \in Nat /\ BoundOf(call) <= Overrun
    <2>1. i \in DOMAIN waits /\ waits[i].kind = "command"
      BY <1>3, WaitAssumption DEF WaitInv, TypeOK, KindInv, Running, W
    <2>2. Overrun = Poll + 4 * Io
      BY <2>1 DEF Overrun, Cares
    <2> QED
      BY SMTT(30), <1>3, <2>2, WaitAssumption DEF BoundOf, Trips
  <1> QED
    BY <1>1, <1>2, <1>3, WaitAssumption

\* The chain and the condition waited for.
LEMMA Waiting ==
  ASSUME WaitInv, Running
  PROVE  i \in 1..Len(waits) /\ waits \in Seq(WaitFor) /\ W \in WaitFor /\ W.kind \in Kinds
  <1>1. waits \in Seq(WaitFor)
    BY WaitAssumption DEF WaitInv, TypeOK
  <1>2. i \in 1..Len(waits)
    BY <1>1 DEF WaitInv, TypeOK, KindInv
  <1>3. W \in WaitFor
    BY <1>1, <1>2 DEF W
  <1> QED
    BY <1>1, <1>2, <1>3 DEF WaitFor

-----------------------------------------------------------------------------
(* Counting.                                                               *)

\* The occurrences are counted one by one, and more of the log has no fewer.
LEMMA Counted ==
  ASSUME NEW w, NEW p \in Nat, NEW q \in Nat, p <= q
  PROVE  /\ Count(w, p) \in Nat /\ Count(w, q) \in Nat /\ Count(w, p) <= Count(w, q)
         /\ Count(w, p + 1) = Count(w, p) + Cardinality({k \in {p + 1} : Selected(w, log[k])})
         /\ Cardinality({k \in {p + 1} : Selected(w, log[k])}) \in 0..1
  <1> DEFINE S(n) == {k \in 1..n : Selected(w, log[k])}
             New == {k \in {p + 1} : Selected(w, log[k])}
  <1>1. \A n \in Nat : IsFiniteSet(S(n))
    <2> TAKE n \in Nat
    <2>1. IsFiniteSet(1..n) /\ S(n) \subseteq 1..n
      BY FS_Interval
    <2> QED
      BY <2>1, FS_Subset
  <1>2. IsFiniteSet({p + 1}) /\ Cardinality({p + 1}) = 1
    BY FS_Singleton
  <1>3. IsFiniteSet(New) /\ Cardinality(New) \in 0..1
    <2>1. New \subseteq {p + 1}
      OBVIOUS
    <2>2. IsFiniteSet(New) /\ Cardinality(New) <= Cardinality({p + 1})
      BY <1>2, <2>1, FS_Subset
    <2> QED
      BY <1>2, <2>2, FS_CardinalityType
  <1>4. S(p + 1) = S(p) \cup New /\ S(p) \cap New = {}
    OBVIOUS
  <1>5. Cardinality(S(p + 1)) = Cardinality(S(p)) + Cardinality(New)
    <2>1. IsFiniteSet(S(p))
      BY <1>1
    <2>2. Cardinality(S(p) \cap New) = 0
      BY <1>4, FS_EmptySet
    <2>3. Cardinality(S(p)) \in Nat /\ Cardinality(New) \in Nat
      BY <2>1, <1>3, FS_CardinalityType
    <2> HIDE DEF S, New
    <2>4. Cardinality(S(p) \cup New) = Cardinality(S(p)) + Cardinality(New) - Cardinality(S(p) \cap New)
      BY <2>1, <1>3, FS_Union
    <2>5. Cardinality(S(p + 1)) = Cardinality(S(p) \cup New)
      BY <1>4
    <2> QED
      BY <2>2, <2>3, <2>4, <2>5
  <1>6. /\ Cardinality(S(p)) \in Nat /\ Cardinality(S(q)) \in Nat
        /\ Cardinality(S(p)) <= Cardinality(S(q))
    <2>1. S(p) \subseteq S(q)
      OBVIOUS
    <2>2. IsFiniteSet(S(p)) /\ IsFiniteSet(S(q))
      BY <1>1
    <2> HIDE DEF S
    <2> QED
      BY <2>1, <2>2, FS_Subset, FS_CardinalityType
  <1> QED
    BY <1>3, <1>5, <1>6 DEF Count

LEMMA NoneCounted ==
  ASSUME NEW w
  PROVE  Count(w, 0) = 0
  <1>1. {k \in 1..0 : Selected(w, log[k])} = {}
    OBVIOUS
  <1> QED
    BY <1>1, FS_EmptySet DEF Count

-----------------------------------------------------------------------------
(* The ends of a step of the chain.                                        *)

\* What the world looked like is remembered.
LEMMA Observed ==
  ASSUME WaitInv, Observe
  PROVE  /\ met \subseteq met' /\ met' \subseteq 1..Len(waits)
         /\ Running /\ Holds(W) => i \in met'
  <1>1. met \subseteq 1..Len(waits) /\ i \in 1..(Len(waits) + 1) /\ Len(waits) \in Nat
    BY WaitAssumption DEF WaitInv, TypeOK
  <1>2. met' = met \cup {k \in {i} : i <= Len(waits) /\ Holds(W)}
    BY DEF Observe
  <1>3. met \subseteq met' /\ met' \subseteq 1..Len(waits)
    <2>1. \A k \in met' : k \in met \/ (k = i /\ i <= Len(waits))
      BY <1>2, Zenon
    <2>2. met \subseteq met'
      BY <1>2, Zenon
    <2> QED
      BY <1>1, <2>1, <2>2
  <1>4. ASSUME Running, Holds(W)  PROVE i \in met'
    BY <1>1, <1>2, <1>4 DEF WaitInv, KindInv
  <1> QED
    BY <1>3, <1>4

LEMMA AfterSatisfied ==
  ASSUME WaitInv, Running, Step, Satisfied, Holds(W) \/ i \in met
  PROVE  WaitInv'
  <1>1. /\ i \in 1..Len(waits) /\ i \in met' /\ met \subseteq met' /\ met' \subseteq 1..Len(waits)
        /\ deadline \in 0..MaxTime /\ now \in 0..MaxTime /\ timeout \in Nat
    BY Waiting, Observed, WaitAssumption DEF Step, WaitInv, TypeOK
  <1>2. /\ UNCHANGED <<waits, tty, timeout, deadline, now, container, call, until>>
        /\ i' = i + 1 /\ pos' = 0 /\ seen' = 0
        /\ pc' \in {"timeout", "ready", "enter"}
        /\ pc' = "timeout" => now >= deadline
        /\ pc' = "ready" => i = Len(waits)
        /\ pc' = "enter" => i < Len(waits) /\ now < deadline
    BY <1>1 DEF Step, Satisfied, SpentBetween, Expired
  <1>3. TypeOK'
    BY <1>1, <1>2, WaitAssumption DEF WaitInv, TypeOK, container
  <1>4. KindInv'
    BY <1>1, <1>2 DEF WaitInv, KindInv, Running
  <1>5. TimeInv'
    BY <1>1, <1>2, OverrunKept DEF WaitInv, TimeInv, Late
  <1>6. LogInv'
    BY <1>2 DEF WaitInv, LogInv, container
  <1>7. PassedWasMet'
    BY <1>1, <1>2 DEF WaitInv, PassedWasMet
  <1>8. TimeoutIsReal'
    BY <1>1, <1>2, WaitAssumption DEF WaitInv, KindInv, TimeoutIsReal, SaturatedAdd
  <1> QED
    BY <1>3, <1>4, <1>5, <1>6, <1>7, <1>8 DEF WaitInv

LEMMA AfterThrow ==
  ASSUME WaitInv, Running, Step, NEW p \in {"timeout", "failed"}, To(p),
         p = "timeout" => Expired /\ ((i = 1 /\ W.kind = "duration") => timeout < W.value)
  PROVE  WaitInv'
  <1>1. /\ i \in 1..Len(waits) /\ met \subseteq met' /\ met' \subseteq 1..Len(waits)
        /\ deadline \in 0..MaxTime /\ now \in 0..MaxTime /\ timeout \in Nat
    BY Waiting, Observed, WaitAssumption DEF Step, WaitInv, TypeOK
  <1>2. /\ UNCHANGED <<waits, tty, timeout, deadline, now, container, i, call, until, seen, pos>>
        /\ pc' = p
    BY DEF Step, To
  <1>3. TypeOK'
    BY <1>1, <1>2 DEF WaitInv, TypeOK, container
  <1>4. KindInv'
    BY <1>1, <1>2 DEF WaitInv, KindInv, Running
  <1>5. TimeInv'
    BY <1>1, <1>2, OverrunKept DEF WaitInv, TimeInv, Late
  <1>6. LogInv'
    BY <1>2 DEF WaitInv, LogInv, container
  <1>7. PassedWasMet'
    BY <1>1, <1>2 DEF WaitInv, PassedWasMet
  <1>8. TimeoutIsReal'
    BY <1>1, <1>2, WaitAssumption DEF WaitInv, KindInv, TimeoutIsReal, SaturatedAdd, Expired, W
  <1> QED
    BY <1>3, <1>4, <1>5, <1>6, <1>7, <1>8 DEF WaitInv

\* The kinds of conditions that make a call.
Calls(what) == CASE what = "resolve"   -> {"http", "port"}
                 [] what = "probe"     -> Polled \ {"command"}
                 [] what \in Trips     -> {"command"}
                 [] OTHER              -> {"log"}

LEMMA AfterBusy ==
  ASSUME WaitInv, Running, Step, NEW what \in {"resolve", "probe", "snapshot", "connect"} \cup Trips,
         NEW bound \in Nat, Busy(what, bound), W.kind \in Calls(what),
         SaturatedAdd(now, bound) <= Late(BoundOf(what)),
         what = "snapshot" => Expired, what = "passed" => Holds(W)
  PROVE  WaitInv'
  <1>1. /\ i \in 1..Len(waits) /\ met \subseteq met' /\ met' \subseteq 1..Len(waits)
        /\ deadline \in 0..MaxTime /\ now \in 0..MaxTime
    BY Waiting, Observed DEF Step, WaitInv, TypeOK
  <1>2. /\ UNCHANGED <<waits, tty, timeout, deadline, now, container, i, seen, pos>>
        /\ pc' = "busy" /\ call' = what /\ until' = SaturatedAdd(now, bound)
    BY DEF Step, Busy
  <1>3. until' \in 0..MaxTime /\ now <= until'
    BY <1>1, <1>2, Saturates
  <1>4. TypeOK'
    BY <1>1, <1>2, <1>3 DEF WaitInv, TypeOK, container
  <1>5. KindInv'
    <2>1. what = "passed" => i \in met'
      BY Observed DEF Step
    <2>2. \A k \in Calls(what) : /\ what = "resolve" => k \in {"http", "port"}
                                 /\ what = "probe" => k \in Polled \ {"command"}
                                 /\ what \in {"snapshot", "connect"} => k = "log"
                                 /\ what \in Trips => k = "command"
      BY DEF Calls, Trips
    <2> QED
      BY <1>1, <1>2, <2>1, <2>2 DEF WaitInv, KindInv, Running, W
  <1>6. TimeInv'
    <2>1. Late(Overrun)' = Late(Overrun) /\ Late(BoundOf(call))' = Late(BoundOf(what))
      BY <1>2 DEF Late, Overrun, Cares, BoundOf, SaturatedAdd
    <2> QED
      BY <1>1, <1>2, <1>3, <2>1 DEF WaitInv, TimeInv, Expired
  <1>7. LogInv'
    BY <1>2 DEF WaitInv, LogInv, container
  <1>8. PassedWasMet'
    BY <1>1, <1>2 DEF WaitInv, PassedWasMet
  <1>9. TimeoutIsReal'
    BY <1>2 DEF TimeoutIsReal
  <1> QED
    BY <1>4, <1>5, <1>6, <1>7, <1>8, <1>9 DEF WaitInv

-----------------------------------------------------------------------------
(* The steps of the chain.                                                 *)

\* What is left of the budget, with the bound of a call, ends in time.
LEMMA InTime ==
  ASSUME WaitInv
  PROVE  /\ deadline \in 0..MaxTime /\ now \in 0..MaxTime /\ timeout \in Nat
         /\ ProbeBudget \in Nat
         /\ now <= Late(Io) => SaturatedAdd(now, ProbeBudget) <= Late(Poll + Io)
         /\ now <= Late(Poll) => /\ SaturatedAdd(now, ProbeBudget) <= Late(Poll + Io)
                                 /\ SaturatedAdd(now, Io) <= Late(Poll + Io)
         /\ now <= deadline => SaturatedAdd(now, Io) <= Late(Io) /\ now <= Late(Poll)
         /\ ~Expired => deadline - now \in Nat /\ SaturatedAdd(now, deadline - now) <= Late(0)
  BY WaitAssumption DEF WaitInv, TypeOK, ProbeBudget, After, Before, Late, SaturatedAdd, Expired

\* The log is followed, or looked at for the last time.
LEMMA AfterLookAtLog ==
  ASSUME WaitInv, Running, Step, LookAtLog, W.kind = "log", now <= Late(Poll)
  PROVE  WaitInv'
  <1>1. PICK what \in {"snapshot", "connect"} : Busy(what, Io) /\ (what = "snapshot" => Expired)
    BY DEF LookAtLog
  <1> QED
    BY <1>1, AfterBusy, InTime, WaitAssumption DEF Calls, BoundOf, Trips

LEMMA AfterRunCommand ==
  ASSUME WaitInv, Running, Step, RunCommand, W.kind = "command", now <= Late(Poll)
  PROVE  WaitInv'
  BY AfterBusy, InTime, WaitAssumption DEF RunCommand, Calls, BoundOf, Trips

LEMMA EnterStep ==
  ASSUME WaitInv, Enter
  PROVE  WaitInv'
  <1>1. /\ pc = "enter" /\ Running /\ Step /\ now <= deadline /\ now <= Late(Poll)
        /\ i \in 1..Len(waits) /\ W \in WaitFor /\ W.kind \in Kinds
    BY Waiting, InTime DEF Enter, Running, WaitInv, TypeOK, TimeInv
  <1>2. CASE W.kind = "none"
    <2>1. Satisfied
      BY <1>2 DEF Enter
    <2>2. Holds(W)
      BY <1>2 DEF Holds
    <2> QED
      BY <1>1, <2>1, <2>2, AfterSatisfied
  <1>3. CASE W.kind = "duration"
    <2>1. /\ pc' = "nap" /\ UNCHANGED <<i, seen, pos>>
          /\ until' = Before(SaturatedAdd(now, W.value), deadline)
          /\ call' = IF Overspent THEN "snapshot" ELSE "probe"
      BY <1>3 DEF Enter
    <2>2. W.value \in Nat /\ deadline \in 0..MaxTime /\ now \in 0..MaxTime /\ timeout \in Nat
      BY <1>1, InTime DEF WaitFor
    <2>3. /\ until' \in 0..MaxTime /\ now <= until' /\ until' <= deadline
          /\ call' = "snapshot" => until' = deadline /\ (i = 1 => timeout < W.value)
      <3>1. i = 1 => now = 0
        BY <1>1 DEF WaitInv, TimeInv
      <3> QED
        BY <1>1, <2>1, <2>2, <3>1, WaitAssumption DEF Overspent, SaturatedAdd, Before, WaitInv,
           KindInv
    <2>4. /\ UNCHANGED <<waits, tty, timeout, deadline, now, container>> /\ met \subseteq met'
          /\ met' \subseteq 1..Len(waits)
      BY <1>1, Observed DEF Step
    <2>5. TypeOK'
      BY <2>1, <2>3, <2>4 DEF WaitInv, TypeOK, container
    <2>6. KindInv' /\ TimeInv'
      BY <1>1, <1>3, <2>1, <2>3, <2>4, OverrunKept DEF WaitInv, KindInv, TimeInv, Late, Running, W
    <2>7. LogInv' /\ PassedWasMet' /\ TimeoutIsReal'
      BY <1>1, <2>1, <2>4 DEF WaitInv, LogInv, PassedWasMet, TimeoutIsReal, container
    <2> QED
      BY <2>5, <2>6, <2>7 DEF WaitInv
  <1>4. CASE W.kind = "log"
    <2>1. LookAtLog
      BY <1>4 DEF Enter
    <2> QED
      BY <1>1, <1>4, <2>1, AfterLookAtLog
  <1>5. CASE W.kind \in {"http", "port"}
    <2>1. Busy("resolve", Io)
      BY <1>5 DEF Enter
    <2> QED
      BY <1>1, <1>5, <2>1, AfterBusy, InTime, WaitAssumption DEF Calls, BoundOf, Trips
  <1>6. CASE W.kind \in {"exit", "health"}
    <2>1. Busy("probe", Io)
      BY <1>6 DEF Enter
    <2> QED
      BY <1>1, <1>6, <2>1, AfterBusy, InTime, WaitAssumption DEF Calls, Polled, BoundOf, Trips
  <1>7. CASE W.kind = "command"
    <2>1. RunCommand
      BY <1>7 DEF Enter
    <2> QED
      BY <1>1, <1>7, <2>1, AfterRunCommand
  <1> QED
    BY <1>1, <1>2, <1>3, <1>4, <1>5, <1>6, <1>7 DEF Kinds

LEMMA NapStep ==
  ASSUME WaitInv, NapEnds
  PROVE  WaitInv'
  <1>1. /\ pc = "nap" /\ Running /\ Step /\ now = until /\ W.kind = "duration"
        /\ call = "snapshot" => until = deadline /\ (i = 1 => timeout < W.value)
        /\ now \in 0..MaxTime
    BY DEF NapEnds, Running, WaitInv, KindInv, TimeInv, TypeOK
  <1>2. CASE call = "snapshot"
    BY <1>1, <1>2, AfterThrow DEF NapEnds, Expired
  <1>3. CASE call # "snapshot"
    <2>1. Holds(W)
      BY <1>1 DEF Holds
    <2> QED
      BY <1>1, <1>3, <2>1, AfterSatisfied DEF NapEnds
  <1> QED
    BY <1>2, <1>3

LEMMA FailStep ==
  ASSUME WaitInv, CallFails
  PROVE  WaitInv'
  <1>1. pc = "busy" /\ Running /\ Step /\ W.kind # "duration"
    BY DEF CallFails, Running, WaitInv, KindInv, Polled, TypeOK
  <1>2. PICK p \in {"timeout", "failed"} : To(p) /\ (p = "timeout" => Expired)
    BY DEF CallFails
  <1> QED
    BY <1>1, <1>2, AfterThrow

LEMMA ResolvedStep ==
  ASSUME WaitInv, Resolved
  PROVE  WaitInv'
  <1>1. /\ pc = "busy" /\ Running /\ Step /\ W.kind \in {"http", "port"} /\ now <= Late(Io)
    BY SMTT(30), WaitAssumption DEF Resolved, Running, WaitInv, KindInv, TimeInv, TypeOK, Late, BoundOf,
       SaturatedAdd
  <1>2. CASE To("failed")
    BY <1>1, <1>2, AfterThrow
  <1>3. CASE Busy("probe", ProbeBudget)
    BY <1>1, <1>3, AfterBusy, InTime DEF Calls, Polled, BoundOf, Trips
  <1> QED
    BY <1>2, <1>3 DEF Resolved

\* To sleep until until', which is a poll after the deadline at the latest.
LEMMA AfterSleep ==
  ASSUME WaitInv, Running, Step, W.kind \in Polled \cup {"log"},
         pc' = "sleep", UNCHANGED <<i, call, seen, pos>>,
         until' \in 0..MaxTime, now <= until', until' <= Late(Poll)
  PROVE  WaitInv'
  <1>1. /\ UNCHANGED <<waits, tty, timeout, deadline, now, container>> /\ met \subseteq met'
        /\ met' \subseteq 1..Len(waits)
    BY Observed DEF Step
  <1>2. TypeOK'
    BY <1>1 DEF WaitInv, TypeOK, container
  <1>3. KindInv' /\ TimeInv'
    BY <1>1, OverrunKept DEF WaitInv, KindInv, TimeInv, Late, Running, W
  <1>4. LogInv' /\ PassedWasMet' /\ TimeoutIsReal'
    <2>1. i \in 1..Len(waits)
      BY Waiting
    <2> QED
      BY <1>1, <2>1 DEF WaitInv, LogInv, PassedWasMet, TimeoutIsReal, container
  <1> QED
    BY <1>2, <1>3, <1>4 DEF WaitInv

\* A probe is ready only where the condition holds.
LEMMA ReadyHolds ==
  ASSUME WaitInv, Running, W.kind \in Polled, Ready \in Verdicts(W), call # "passed"
  PROVE  Holds(W)
  <1>1. CASE W.kind = "exit"
    BY <1>1 DEF Verdicts, ExitVerdict, Holds, Ready, NotYet, Fatal, WaitInv, TypeOK
  <1>2. CASE W.kind = "health"
    BY <1>2 DEF Verdicts, HealthVerdict, Holds, Ready, NotYet, Fatal
  <1>3. CASE W.kind = "http"
    BY <1>3 DEF Verdicts, HttpVerdict, Answers200, Holds, Ready, NotYet
  <1>4. CASE W.kind = "port"
    BY <1>4 DEF Verdicts, PortVerdict, Holds, Ready, NotYet
  <1>5. CASE W.kind = "command"
    BY <1>5 DEF Verdicts, CommandVerdicts, Exits0, Holds, Ready, NotYet, Fatal
  <1> QED
    BY <1>1, <1>2, <1>3, <1>4, <1>5 DEF Polled

LEMMA AgainStep ==
  ASSUME WaitInv, Running, Step, W.kind \in Polled, Again
  PROVE  WaitInv'
  <1>1. now \in 0..MaxTime /\ deadline \in 0..MaxTime
    BY InTime
  <1>2. CASE Expired
    <2>1. To("timeout") /\ W.kind # "duration"
      BY <1>2 DEF Again, Polled
    <2> QED
      BY <1>2, <2>1, AfterThrow
  <1>3. CASE ~Expired
    <2>1. /\ pc' = "sleep" /\ UNCHANGED <<i, call, seen, pos>>
          /\ until' = IF W.kind = "command"
                      THEN Before(SaturatedAdd(now, Poll), SaturatedAdd(deadline, 1))
                      ELSE SaturatedAdd(now, Poll)
      BY <1>3 DEF Again
    <2>2. until' \in 0..MaxTime /\ now <= until' /\ until' <= Late(Poll)
      BY <1>1, <1>3, <2>1, WaitAssumption DEF Expired, Before, SaturatedAdd, Late
    <2> QED
      BY <2>1, <2>2, AfterSleep
  <1> QED
    BY <1>2, <1>3

LEMMA ProbedStep ==
  ASSUME WaitInv, Probed
  PROVE  WaitInv'
  <1>1. Running /\ Step /\ W.kind \in Polled /\ pc = "busy"
    BY DEF Probed, Running
  <1>2. PICK v \in Verdicts(W) : /\ v = Ready => Satisfied
                                 /\ v = NotYet => Again
                                 /\ v = Fatal => To("failed")
    BY DEF Probed, Ready, NotYet, Fatal
  <1>3. CASE v = Ready
    <2>1. Holds(W) \/ i \in met
      <3>1. CASE call = "passed"
        BY <1>1, <3>1 DEF WaitInv, KindInv
      <3>2. CASE call # "passed"
        BY <1>1, <1>2, <1>3, <3>2, ReadyHolds
      <3> QED
        BY <3>1, <3>2
    <2> QED
      BY <1>1, <1>2, <1>3, <2>1, AfterSatisfied
  <1>4. CASE v = NotYet
    BY <1>1, <1>2, <1>4, AgainStep
  <1>5. CASE v = Fatal
    BY <1>1, <1>2, <1>5, AfterThrow
  <1>6. v \in {Ready, NotYet, Fatal}
    BY <1>1, <1>2 DEF Verdicts, ExitVerdict, HealthVerdict, HttpVerdict, PortVerdict,
       CommandVerdicts, Polled
  <1> QED
    BY <1>3, <1>4, <1>5, <1>6

\* The round-trips of an attempt follow one another, each within its own bound.
LEMMA TripStep ==
  ASSUME WaitInv, NextTrip
  PROVE  WaitInv'
  <1>1. /\ pc = "busy" /\ Running /\ Step /\ call \in Trips /\ W.kind = "command"
        /\ now <= until /\ until \in 0..MaxTime /\ until <= Late(BoundOf(call))
    BY DEF NextTrip, Running, Trips, WaitInv, TypeOK, KindInv, TimeInv
  <1>2. now \in 0..MaxTime /\ deadline \in 0..MaxTime /\ Io \in Nat /\ Poll \in Nat
    BY InTime, WaitAssumption
  <1>3. W.kind \in Calls("create") /\ W.kind \in Calls("start") /\ W.kind \in Calls("run")
        /\ W.kind \in Calls("inspect") /\ W.kind \in Calls("passed")
    BY <1>1 DEF Calls, Trips
  <1>. /\ BoundOf("attach") = Poll + Io /\ BoundOf("create") = Poll + 2 * Io
       /\ BoundOf("start") = Poll + 3 * Io /\ BoundOf("run") = 0
       /\ BoundOf("inspect") = Poll + 4 * Io /\ BoundOf("passed") = Poll + 4 * Io
    BY DEF BoundOf
  <1>4. ASSUME NEW d \in Nat, NEW e \in Nat, now <= Late(d), d + Io <= e
        PROVE  SaturatedAdd(now, Io) <= Late(e)
    BY <1>2, <1>4, WaitAssumption DEF Late, SaturatedAdd
  <1>5. now <= Late(BoundOf(call)) /\ BoundOf(call) \in Nat
    <2>1. BoundOf(call) \in Nat
      BY <1>1, BoundOfTrip
    <2> QED
      BY <1>1, <1>2, <2>1, WaitAssumption DEF Late, SaturatedAdd
  <1>6. CASE call = "attach" /\ Busy("create", Io)
    <2>1. SaturatedAdd(now, Io) <= Late(BoundOf("create"))
      BY <1>2, <1>6, <1>4, <1>5
    <2> QED
      BY <1>1, <1>2, <1>3, <1>6, <2>1, AfterBusy DEF Trips
  <1>7. CASE call = "create" /\ Busy("start", Io)
    <2>1. SaturatedAdd(now, Io) <= Late(BoundOf("start"))
      BY <1>2, <1>7, <1>4, <1>5
    <2> QED
      BY <1>1, <1>2, <1>3, <1>7, <2>1, AfterBusy DEF Trips
  <1>8. CASE call \in {"start", "run"} /\ Busy("inspect", Io)
    <2>1. SaturatedAdd(now, Io) <= Late(BoundOf("inspect"))
      BY <1>2, <1>8, <1>4, <1>5
    <2> QED
      BY <1>1, <1>2, <1>3, <1>8, <2>1, AfterBusy DEF Trips
  <1>9. CASE call = "start" /\ ~Expired /\ Busy("run", deadline - now)
    <2>1. deadline - now \in Nat
      BY <1>9, InTime
    <2>2. SaturatedAdd(now, deadline - now) <= Late(BoundOf("run"))
      BY <1>9, <2>1, InTime
    <2> QED
      BY <1>1, <1>3, <1>9, <2>1, <2>2, AfterBusy DEF Trips
  <1>10. CASE call = "run" /\ Exits0 /\ Busy("passed", Io)
    <2>1. SaturatedAdd(now, Io) <= Late(BoundOf("passed"))
      BY <1>2, <1>10, <1>4, <1>5
    <2>2. Holds(W)
      BY <1>1, <1>10 DEF Holds
    <2> QED
      BY <1>1, <1>2, <1>3, <1>10, <2>1, <2>2, AfterBusy DEF Trips
  <1> QED
    BY <1>6, <1>7, <1>8, <1>9, <1>10 DEF NextTrip

LEMMA RefusedStep ==
  ASSUME WaitInv, TripRefused
  PROVE  WaitInv'
  <1>1. Running /\ Step /\ W.kind \in Polled
    BY DEF TripRefused, Running, Trips, Polled, WaitInv, KindInv
  <1>2. CASE Again
    BY <1>1, <1>2, AgainStep
  <1>3. CASE To("failed")
    BY <1>1, <1>3, AfterThrow
  <1> QED
    BY <1>2, <1>3 DEF TripRefused

LEMMA SleepStep ==
  ASSUME WaitInv, SleepEnds
  PROVE  WaitInv'
  <1>1. /\ Running /\ Step /\ W.kind \in Polled \cup {"log"} /\ now <= Late(Poll)
    BY DEF SleepEnds, Running, WaitInv, KindInv, TimeInv
  <1>2. CASE W.kind = "log"
    BY <1>1, <1>2, AfterLookAtLog DEF SleepEnds
  <1>3. CASE W.kind \in {"http", "port"}
    <2>1. Busy("probe", ProbeBudget)
      BY <1>3 DEF SleepEnds
    <2> QED
      BY <1>1, <1>3, <2>1, AfterBusy, InTime DEF Calls, Polled, BoundOf, Trips
  <1>4. CASE W.kind \in {"exit", "health"}
    <2>1. Busy("probe", Io)
      BY <1>4 DEF SleepEnds
    <2> QED
      BY <1>1, <1>4, <2>1, AfterBusy, InTime, WaitAssumption DEF Calls, Polled, BoundOf, Trips
  <1>5. CASE W.kind = "command"
    <2>1. RunCommand
      BY <1>5 DEF SleepEnds
    <2> QED
      BY <1>1, <1>5, <2>1, AfterRunCommand
  <1> QED
    BY <1>1, <1>2, <1>3, <1>4, <1>5 DEF Polled

-----------------------------------------------------------------------------
(* The steps of a log wait.                                                *)

LEMMA SnapshotStep ==
  ASSUME WaitInv, Snapshot
  PROVE  WaitInv'
  <1>1. Running /\ Step /\ W.kind = "log"
    BY DEF Snapshot, Running, WaitInv, KindInv
  <1>2. CASE Count(W, Len(log)) >= Needed(W)
    BY <1>1, <1>2, AfterSatisfied DEF Snapshot, Holds
  <1>3. CASE ~(Count(W, Len(log)) >= Needed(W))
    <2>1. To("timeout")
      BY <1>3 DEF Snapshot
    <2>2. Expired
      BY DEF Snapshot, WaitInv, TimeInv, Expired
    <2> QED
      BY <1>1, <2>1, <2>2, AfterThrow
  <1> QED
    BY <1>2, <1>3

LEMMA FollowStep ==
  ASSUME WaitInv, Follow
  PROVE  WaitInv'
  <1>1. /\ Running /\ Step /\ W.kind = "log" /\ i \in 1..Len(waits)
        /\ pc' = "follow" /\ pos' = 0 /\ seen' = 0 /\ UNCHANGED <<i, call, until>>
    BY Waiting DEF Follow, Running, WaitInv, KindInv, FreshCounters
  <1>2. /\ UNCHANGED <<waits, tty, timeout, deadline, now, container>> /\ met \subseteq met'
        /\ met' \subseteq 1..Len(waits)
    BY <1>1, Observed DEF Step
  <1>3. TypeOK'
    BY <1>1, <1>2, WaitAssumption DEF WaitInv, TypeOK, container
  <1>4. KindInv' /\ TimeInv'
    BY <1>1, <1>2, OverrunKept DEF WaitInv, KindInv, TimeInv, Late, Running, W
  <1>5. LogInv'
    <2>1. Count(W, 0) = 0
      BY NoneCounted
    <2>2. Count(W, 0)' = 0
      BY <1>1, <1>2, <2>1 DEF W, Count, Selected, Shown, container
    <2> QED
      BY <1>1, <1>2, <2>2 DEF WaitInv, TypeOK, LogInv, container
  <1>6. PassedWasMet' /\ TimeoutIsReal'
    BY <1>1, <1>2 DEF WaitInv, PassedWasMet, TimeoutIsReal
  <1> QED
    BY <1>3, <1>4, <1>5, <1>6 DEF WaitInv

LEMMA DeliverStep ==
  ASSUME WaitInv, Deliver
  PROVE  WaitInv'
  <1> DEFINE more == Cardinality({k \in {pos + 1} : Selected(W, log[k])})
  <1>1. /\ Running /\ Step /\ W.kind = "log" /\ i \in 1..Len(waits)
        /\ pos \in Nat /\ Len(log) \in Nat /\ pos < Len(log) /\ Len(log) <= MaxLog
        /\ seen = Count(W, pos) /\ seen \in 0..pos
    BY Waiting, WaitAssumption DEF Deliver, Running, WaitInv, TypeOK, KindInv, LogInv
  <1>2. /\ more \in 0..1 /\ seen + more = Count(W, pos + 1)
        /\ Count(W, pos + 1) \in Nat /\ Count(W, Len(log)) \in Nat
        /\ Count(W, pos + 1) <= Count(W, Len(log))
    <2>1. more \in 0..1 /\ seen + more = Count(W, pos + 1)
      BY <1>1, Counted
    <2>2. pos + 1 \in Nat /\ pos + 1 <= Len(log)
      BY <1>1
    <2> QED
      BY <1>1, <2>1, <2>2, Counted
  <1>3. IF seen + more >= Needed(W) THEN Satisfied
        ELSE /\ pos' = pos + 1 /\ seen' = seen + more
             /\ pc' = IF Expired THEN "timeout" ELSE "follow"
             /\ UNCHANGED <<i, call, until>>
    BY DEF Deliver
  <1> HIDE DEF more
  <1>4. CASE seen + more >= Needed(W)
    <2>1. W \in WaitFor
      BY <1>1, Waiting
    <2>2. Needed(W) \in Nat
      BY <2>1 DEF Needed, After, WaitFor
    <2>4. Holds(W)
      BY <1>1, <1>2, <1>4, <2>2 DEF Holds
    <2> QED
      BY <1>1, <1>3, <1>4, <2>4, AfterSatisfied
  <1>5. CASE ~(seen + more >= Needed(W))
    <2>1. /\ pos' = pos + 1 /\ seen' = Count(W, pos + 1) /\ seen' \in 0..pos'
          /\ pc' = IF Expired THEN "timeout" ELSE "follow"
          /\ UNCHANGED <<i, call, until>>
      BY <1>1, <1>2, <1>3, <1>5
    <2>2. /\ UNCHANGED <<waits, tty, timeout, deadline, now, container>> /\ met \subseteq met'
          /\ met' \subseteq 1..Len(waits)
      BY <1>1, Observed DEF Step
    <2>3. TypeOK'
      BY <1>1, <2>1, <2>2, WaitAssumption DEF WaitInv, TypeOK, container
    <2>4. KindInv' /\ TimeInv'
      BY <1>1, <2>1, <2>2, OverrunKept DEF WaitInv, KindInv, TimeInv, Late, Running, W
    <2>5. LogInv'
      <3>1. seen' = Count(W, pos)'
        BY <2>1, <2>2 DEF W, Count, Selected, Shown, container
      <3> QED
        BY <1>1, <2>1, <2>2, <3>1 DEF WaitInv, LogInv, container
    <2>6. PassedWasMet'
      BY <1>1, <2>1, <2>2 DEF WaitInv, PassedWasMet
    <2>7. TimeoutIsReal'
      <3>1. deadline \in 0..MaxTime /\ now \in 0..MaxTime /\ timeout \in Nat
        BY InTime
      <3> QED
        BY <1>1, <2>1, <2>2, <3>1, WaitAssumption DEF WaitInv, KindInv, TimeoutIsReal,
           SaturatedAdd, Expired, W
    <2> QED
      BY <2>3, <2>4, <2>5, <2>6, <2>7 DEF WaitInv
  <1> QED
    BY <1>4, <1>5

LEMMA FollowExpiresStep ==
  ASSUME WaitInv, FollowExpires
  PROVE  WaitInv'
  <1>1. Running /\ Step /\ W.kind = "log" /\ Expired /\ To("timeout")
    BY DEF FollowExpires, Running, WaitInv, KindInv
  <1> QED
    BY <1>1, AfterThrow

LEMMA StreamEndsStep ==
  ASSUME WaitInv, StreamEnds
  PROVE  WaitInv'
  <1>1. Running /\ Step /\ W.kind = "log"
    BY DEF StreamEnds, Running, WaitInv, KindInv
  <1>2. CASE Expired
    BY <1>1, <1>2, AfterThrow DEF StreamEnds
  <1>3. CASE ~Expired
    <2>1. /\ pc' = "sleep" /\ UNCHANGED <<i, call, seen, pos>>
          /\ until' = Before(now + Poll, SaturatedAdd(deadline, 1))
      BY <1>3 DEF StreamEnds
    <2>2. until' \in 0..MaxTime /\ now <= until' /\ until' <= Late(Poll)
      <3>1. deadline \in 0..MaxTime /\ now \in 0..MaxTime
        BY InTime
      <3> QED
        BY <1>3, <2>1, <3>1, WaitAssumption DEF Expired, Before, SaturatedAdd, Late
    <2> QED
      BY <1>1, <2>1, <2>2, AfterSleep
  <1> QED
    BY <1>2, <1>3

-----------------------------------------------------------------------------
(* The clock and the world.                                                *)

LEMMA TickStep ==
  ASSUME WaitInv, Tick
  PROVE  WaitInv'
  <1>1. /\ Running /\ pc \notin {"enter", "timeout"} /\ i \in 1..Len(waits)
        /\ now' = now + 1 /\ now' \in 0..MaxTime /\ UNCHANGED <<program, container>>
        /\ pc \in {"busy", "sleep", "nap"} => now' <= until
        /\ pc = "follow" => now' <= deadline
    <2>1. Running /\ pc \notin {"enter", "timeout"}
      BY DEF Tick, Running
    <2> QED
      BY <2>1, Waiting, WaitAssumption DEF Tick, WaitInv, TypeOK
  <1>2. met \subseteq met' /\ met' \subseteq 1..Len(waits)
    BY Observed DEF Tick
  <1>3. TypeOK'
    BY <1>1, <1>2 DEF WaitInv, TypeOK, program, container
  <1>4. KindInv'
    BY <1>1, <1>2 DEF WaitInv, KindInv, Running, W, program
  <1>5. TimeInv'
    <2>1. /\ until \in 0..MaxTime /\ deadline <= Late(Overrun) /\ Late(Poll) <= Late(Overrun)
          /\ Late(Overrun) \in 0..MaxTime
      <3>1. Overrun \in Nat /\ Poll <= Overrun /\ Poll \in Nat
        BY BoundOfTrip, WaitAssumption
      <3> QED
        BY <3>1, InTime, WaitAssumption DEF WaitInv, TypeOK, Late, SaturatedAdd
    <2>2. /\ Late(Overrun)' = Late(Overrun) /\ Late(Poll)' = Late(Poll)
          /\ Late(BoundOf(call))' = Late(BoundOf(call))
      BY <1>1, OverrunKept DEF Late, program, SaturatedAdd, BoundOf
    <2>3. now' <= Late(Overrun)
      <3>1. pc \in {"busy", "sleep", "nap", "follow"}
        BY DEF Tick
      <3>2. CASE pc = "follow"
        BY <1>1, <2>1, <3>2, InTime
      <3>3. CASE pc = "nap"
        BY <1>1, <2>1, <3>3, InTime DEF WaitInv, TimeInv
      <3>4. CASE pc = "sleep"
        BY <1>1, <2>1, <3>4, WaitAssumption DEF WaitInv, TimeInv, Late, SaturatedAdd, TypeOK
      <3>5. CASE pc = "busy"
        <4>1. Late(BoundOf(call)) <= Late(Overrun)
          BY <3>5, InTime, BoundOfTrip, WaitAssumption DEF Late, SaturatedAdd
        <4>2. until <= Late(BoundOf(call)) /\ Late(BoundOf(call)) \in Int
          BY <3>5, InTime, BoundOfTrip, WaitAssumption DEF WaitInv, TimeInv, Late, SaturatedAdd
        <4> QED
          BY <1>1, <2>1, <3>5, <4>1, <4>2
      <3> QED
        BY <3>1, <3>2, <3>3, <3>4, <3>5
    <2> QED
      BY <1>1, <2>2, <2>3, InTime DEF WaitInv, TimeInv, program, W
  <1>6. LogInv'
    BY <1>1 DEF WaitInv, LogInv, program, container, W, Count, Selected, Shown
  <1>7. PassedWasMet' /\ TimeoutIsReal'
    BY <1>1, <1>2 DEF WaitInv, PassedWasMet, TimeoutIsReal, program
  <1> QED
    BY <1>3, <1>4, <1>5, <1>6, <1>7 DEF WaitInv

\* The container changes; of its log nothing but what is appended.
LEMMA OutsideStep ==
  ASSUME WaitInv, World
  PROVE  WaitInv'
  <1>1. /\ Running /\ UNCHANGED <<program, now>> /\ Observe
        /\ \/ log' = log
           \/ (\E s \in Sources : log' = Append(log, s)) /\ Len(log) < MaxLog
    BY DEF World, Stops, Restarts, Removed, HealthChanges, PortChanges, Logs, Watched, Changes
  <1>2. /\ running' \in {"yes", "no", "gone"} /\ code' \in {"0", "1"} /\ lived' \in 1..2
        /\ health' \in {"none", "starting", "healthy", "unhealthy"}
        /\ port' \in {"unpublished", "closed", "mute", "drops", "unready", "serving"}
    BY DEF World, Stops, Restarts, Removed, HealthChanges, PortChanges, Logs, WaitInv, TypeOK
  <1>3. /\ i \in 1..Len(waits) /\ met \subseteq met' /\ met' \subseteq 1..Len(waits)
    BY <1>1, Observed, Waiting
  <1>4. /\ log' \in Seq(Sources) /\ Len(log') <= MaxLog /\ Len(log) <= Len(log')
        /\ \A k \in 1..Len(log) : log'[k] = log[k]
    <2>1. log \in Seq(Sources) /\ Len(log) <= MaxLog /\ MaxLog \in Nat
      BY WaitAssumption DEF WaitInv, TypeOK, LogInv
    <2>2. CASE log' = log
      BY <2>1, <2>2
    <2>3. CASE (\E s \in Sources : log' = Append(log, s)) /\ Len(log) < MaxLog
      BY <2>1, <2>3
    <2> QED
      BY <1>1, <2>2, <2>3
  <1>5. TypeOK'
    BY <1>1, <1>2, <1>3, <1>4 DEF WaitInv, TypeOK, program
  <1>6. KindInv' /\ TimeInv'
    BY <1>1, <1>3, OverrunKept DEF WaitInv, KindInv, TimeInv, Late, Running, W, program
  <1>7. LogInv'
    <2>1. CASE pc = "follow"
      <3>1. pos \in Nat /\ pos <= Len(log) /\ Len(log) \in Nat /\ seen = Count(W, pos)
        BY <2>1, WaitAssumption DEF WaitInv, TypeOK, LogInv
      <3>2. {k \in 1..pos : Selected(W, log'[k])} = {k \in 1..pos : Selected(W, log[k])}
        BY <1>4, <3>1
      <3>3. Count(W, pos)' = Count(W, pos)
        BY <1>1, <3>2 DEF Count, Selected, Shown, W, program
      <3> QED
        BY <1>1, <1>4, <3>1, <3>3 DEF LogInv, program
    <2>2. CASE pc # "follow"
      BY <1>1, <1>4, <2>2 DEF LogInv, program
    <2> QED
      BY <2>1, <2>2
  <1>8. PassedWasMet' /\ TimeoutIsReal'
    BY <1>1, <1>3 DEF WaitInv, PassedWasMet, TimeoutIsReal, program, Running
  <1> QED
    BY <1>5, <1>6, <1>7, <1>8 DEF WaitInv

-----------------------------------------------------------------------------
(* The theorems.                                                           *)

LEMMA Initially ==
  ASSUME Init
  PROVE  WaitInv
  <1>1. /\ waits \in Seq(WaitFor) /\ waits # <<>> /\ Len(waits) \in Nat \ {0} /\ timeout \in Nat
        /\ deadline = SaturatedAdd(0, timeout) /\ deadline \in 0..MaxTime
        /\ now = 0 /\ i = 1 /\ pc = "enter" /\ met = {}
    BY WaitAssumption, Saturates DEF Init
  <1>2. log \in Seq(Sources) /\ Len(log) <= 1
    <2>1. log \in {<<>>, <<"out">>, <<"err">>}
      BY DEF Init
    <2>2. CASE log = <<>>
      BY <2>2
    <2>3. CASE log = <<"out">>
      BY <2>3 DEF Sources
    <2>4. CASE log = <<"err">>
      BY <2>4 DEF Sources
    <2> QED
      BY <2>1, <2>2, <2>3, <2>4
  <1>3. TypeOK
    <2>1. /\ waits \in Chains /\ tty \in BOOLEAN /\ timeout \in Timeouts
          /\ health \in {"none", "starting"} /\ port \in {"unpublished", "closed", "mute"}
      BY DEF Init
    <2>2. /\ call = "probe" /\ until = 0 /\ seen = 0 /\ pos = 0
          /\ running = "yes" /\ lived = 1 /\ code = "0"
      BY DEF Init
    <2> QED
      BY <1>1, <1>2, <2>1, <2>2, WaitAssumption DEF TypeOK
  <1>4. KindInv
    BY <1>1 DEF KindInv
  <1>5. TimeInv
    <2>1. Overrun \in Nat
      BY WaitAssumption DEF Overrun
    <2> QED
      BY <1>1, <2>1, WaitAssumption DEF TimeInv, Late, SaturatedAdd
  <1>6. LogInv /\ PassedWasMet /\ TimeoutIsReal
    BY <1>1, <1>2, WaitAssumption DEF LogInv, PassedWasMet, TimeoutIsReal
  <1> QED
    BY <1>3, <1>4, <1>5, <1>6 DEF WaitInv

\* A step of anybody keeps the invariant.
LEMMA Stepwise ==
  ASSUME WaitInv, [Next]_vars
  PROVE  WaitInv'
  <1>1. CASE Caller
    BY <1>1, EnterStep, NapStep, FailStep, ResolvedStep, ProbedStep, TripStep, RefusedStep,
       SleepStep, SnapshotStep, FollowStep, DeliverStep, FollowExpiresStep, StreamEndsStep DEF Caller
  <1>2. CASE Tick
    BY <1>2, TickStep
  <1>3. CASE World
    BY <1>3, OutsideStep
  <1>4. CASE UNCHANGED vars
    <2>1. UNCHANGED <<waits, tty, timeout, deadline, i, pc, call, until, seen, pos, now,
                      running, code, health, port, log, lived, met>>
      BY <1>4 DEF vars, program, container
    <2>2. TypeOK' /\ KindInv' /\ TimeInv'
      BY <2>1, OverrunKept DEF WaitInv, TypeOK, KindInv, TimeInv, Late, Running, W
    <2>3. LogInv' /\ PassedWasMet' /\ TimeoutIsReal'
      BY <2>1 DEF WaitInv, LogInv, Count, Selected, Shown, PassedWasMet, TimeoutIsReal, W
    <2> QED
      BY <2>2, <2>3 DEF WaitInv
  <1> QED
    BY <1>1, <1>2, <1>3, <1>4 DEF Next, Done

\* The inductive invariant of wait_until_ready holds in every behaviour.
THEOREM WaitInvariant == Spec => []WaitInv
  BY Initially, Stepwise, PTL DEF Spec

\* Every variable keeps its type; the clock and the counters stay in their range.
THEOREM WaitTypeCorrect == Spec => []TypeOK
  <1>1. WaitInv => TypeOK
    BY DEF WaitInv
  <1> QED
    BY <1>1, WaitInvariant, PTL

\* A condition that wait_until_ready has passed has held while it waited for it, over
\* every re-follow of a log and whatever a port, a process or the daemon did.
THEOREM PassedIsMet == Spec => []PassedWasMet
  <1>1. WaitInv => PassedWasMet
    BY DEF WaitInv
  <1> QED
    BY <1>1, WaitInvariant, PTL

\* The startup timeout is one budget of the whole chain: wait_until_ready ends within a
\* poll and a round-trip of it, or a poll and the four of a command, enters no later
\* condition without any of it, and reports it only when it is over.
THEOREM BudgetIsOne == Spec => []OneBudget
  <1>1. WaitInv => OneBudget
    <2>1. ASSUME WaitInv  PROVE NoBudgetNoEntry
      BY <2>1, InTime DEF WaitInv, TimeInv, NoBudgetNoEntry, Expired
    <2> QED
      BY <2>1 DEF WaitInv, TimeInv, Late, OneBudget, EndsInTime
  <1> QED
    BY <1>1, WaitInvariant, PTL

-----------------------------------------------------------------------------
(* Positions.                                                              *)

Below == {p \in Nat \X Nat : p[1] < p[2]}

\* A set of naturals has a least element.
LEMMA Least ==
  ASSUME NEW S \in SUBSET Nat, S # {}
  PROVE  \E n \in S : \A m \in S : n <= m
<1>1. IsWellFoundedOn(Below, Nat)
  BY NatLessThanWellFounded DEF OpToRel, Below
<1>2. PICK n \in S : \A m \in S : ~(<<m, n>> \in Below)
  BY <1>1, WFMin
<1>3. ASSUME NEW m \in S PROVE n <= m
  <2>1. n \in Nat /\ m \in Nat /\ (<<m, n>> \in Below <=> m < n)
    BY DEF Below
  <2> QED BY <1>2, <2>1
<1> QED BY <1>3

\* A set of positions has a last one.
LEMMA Greatest ==
  ASSUME NEW n \in Nat, NEW S \in SUBSET (1..n), S # {}
  PROVE  \E j \in S : \A k \in S : k <= j
<1> DEFINE D == {n - k : k \in S}
<1>1. D \in SUBSET Nat /\ D # {}
  <2>1. \A k \in S : k \in 1..n /\ n - k \in Nat
    OBVIOUS
  <2> QED BY <2>1
<1>2. PICK d \in D : \A e \in D : d <= e
  <2> HIDE DEF D
  <2> QED BY <1>1, Least
<1>3. PICK j \in S : d = n - j
  OBVIOUS
<1>4. ASSUME NEW k \in S PROVE k <= j
  <2>1. n - k \in D /\ k \in 1..n /\ j \in 1..n
    OBVIOUS
  <2>2. n - j <= n - k
    <3> HIDE DEF D
    <3> QED BY <1>2, <1>3, <2>1
  <2> QED BY <2>1, <2>2
<1> QED BY <1>4

\* Positions that only grow, as many as there are, are all of them in order.
LEMMA OnlyInOrder ==
  ASSUME NEW n \in Nat, NEW f \in [1..n -> 1..n], \A l, j \in 1..n : l < j => f[l] < f[j]
  PROVE  \A l \in 1..n : f[l] = l
<1>1. \A l \in 1..n : f[l] >= l
  <2> DEFINE S == {l \in 1..n : f[l] < l}
  <2>1. SUFFICES ASSUME S # {} PROVE FALSE
    OBVIOUS
  <2>2. PICK l \in S : \A j \in S : l <= j
    <3>1. S \in SUBSET Nat
      OBVIOUS
    <3> HIDE DEF S
    <3> QED BY <2>1, <3>1, Least
  <2>3. f[l] \in 1..n /\ f[l] < l /\ f[f[l]] < f[l]
    BY <2>2
  <2> QED BY <2>2, <2>3
<1>2. \A l \in 1..n : f[l] <= l
  <2> DEFINE S == {l \in 1..n : f[l] > l}
  <2>1. SUFFICES ASSUME S # {} PROVE FALSE
    OBVIOUS
  <2>2. PICK l \in S : \A j \in S : j <= l
    <3>1. S \in SUBSET (1..n)
      OBVIOUS
    <3> HIDE DEF S
    <3> QED BY <2>1, <3>1, Greatest
  <2>3. f[l] \in 1..n /\ f[l] > l /\ f[f[l]] > f[l]
    BY <2>2
  <2> QED BY <2>2, <2>3
<1> QED BY <1>1, <1>2

-----------------------------------------------------------------------------
(* What a server reads.                                                    *)

\* The keys and values that modules, users and servers exchange.
Word ==
  {"", "user", "pass", "name", "auth", "rootpass", "empty", "charset", "security", "tuning", "cli",
   "smp", "maxmemory", "max", "console", "await", "http_port",
   "u", "Root", "root", "p", "d", "v", "raw", "trust", "md5", "yes", "utf8", "ab", "key", "short",
   "longenough", "secret", "bad", "id1", "id2", "on", "off", "default", "rs0", "rs1", "1", "2", "dc1",
   "unset", "64mb", "test", "guest", "/", "minioadmin", "rustfsadmin", "9001", "starter", "8222"}
Entry == Word \X Word
Pairs == Seq(Entry)

\* The last of a key.
LEMMA LastIs ==
  ASSUME NEW env \in Pairs, NEW key, NEW j \in DOMAIN env, env[j][1] = key,
         \A k \in DOMAIN env : env[k][1] = key => k <= j
  PROVE  T!LastOf(env, key) = env[j][2]
<1> DEFINE is == {k \in DOMAIN env : env[k][1] = key}
<1>1. j \in is /\ \A k \in is : k <= j
  OBVIOUS
<1>2. is \subseteq Nat
  BY DEF Pairs
<1>3. (CHOOSE l \in is : \A k \in is : k <= l) = j
  BY <1>1, <1>2
<1> QED BY <1>1, <1>3 DEF T!LastOf

LEMMA NoneIs ==
  ASSUME NEW env, NEW key, ~T!Has(env, key)
  PROVE  T!LastOf(env, key) = ""
BY DEF T!LastOf, T!Has

LEMMA Joined ==
  ASSUME NEW env \in Pairs, NEW more \in Pairs
  PROVE  /\ env \o more \in Pairs /\ Len(env \o more) = Len(env) + Len(more)
         /\ DOMAIN env = 1..Len(env) /\ DOMAIN more = 1..Len(more)
         /\ DOMAIN (env \o more) = 1..(Len(env) + Len(more))
         /\ Len(env) \in Nat /\ Len(more) \in Nat
         /\ \A j \in 1..Len(env) : (env \o more)[j] = env[j]
         /\ \A j \in 1..(Len(env) + Len(more)) : j > Len(env) => (env \o more)[j] = more[j - Len(env)]
BY DEF Pairs

\* What is appended under other keys does not change it.
LEMMA LastStays ==
  ASSUME NEW env \in Pairs, NEW more \in Pairs, NEW key, ~T!Has(more, key)
  PROVE  /\ env \o more \in Pairs
         /\ T!LastOf(env \o more, key) = T!LastOf(env, key)
         /\ T!Has(env \o more, key) <=> T!Has(env, key)
<1>1. /\ env \o more \in Pairs /\ Len(env \o more) = Len(env) + Len(more)
      /\ DOMAIN env = 1..Len(env) /\ DOMAIN more = 1..Len(more)
      /\ DOMAIN (env \o more) = 1..(Len(env) + Len(more))
      /\ Len(env) \in Nat /\ Len(more) \in Nat
      /\ \A j \in 1..Len(env) : (env \o more)[j] = env[j]
      /\ \A j \in 1..(Len(env) + Len(more)) : j > Len(env) => (env \o more)[j] = more[j - Len(env)]
  BY Joined
<1>2. \A j \in DOMAIN (env \o more) : (env \o more)[j][1] = key => j \in DOMAIN env
  <2> SUFFICES ASSUME NEW j \in 1..(Len(env) + Len(more)), (env \o more)[j][1] = key, j > Len(env)
               PROVE FALSE
    BY <1>1
  <2>1. j - Len(env) \in DOMAIN more /\ more[j - Len(env)][1] = key
    BY <1>1
  <2> QED BY <2>1 DEF T!Has
<1>3. T!Has(env \o more, key) <=> T!Has(env, key)
  BY <1>1, <1>2 DEF T!Has
<1>4. CASE ~T!Has(env, key)
  BY <1>1, <1>3, <1>4, NoneIs
<1>5. CASE T!Has(env, key)
  <2> DEFINE S == {k \in 1..Len(env) : env[k][1] = key}
  <2>1. S # {} /\ S \in SUBSET (1..Len(env))
    BY <1>1, <1>5 DEF T!Has
  <2>2. PICK j \in S : \A k \in S : k <= j
    <3> HIDE DEF S
    <3> QED BY <1>1, <2>1, Greatest
  <2>3. T!LastOf(env, key) = env[j][2]
    BY <1>1, <2>2, LastIs
  <2>4. T!LastOf(env \o more, key) = (env \o more)[j][2]
    <3>1. \A k \in DOMAIN (env \o more) : (env \o more)[k][1] = key => k <= j
      BY <1>1, <1>2, <2>2
    <3>2. j \in DOMAIN (env \o more) /\ (env \o more)[j][1] = key /\ env \o more \in Pairs
      BY <1>1, <2>2
    <3> DEFINE all == env \o more
    <3> HIDE DEF all
    <3>3. T!LastOf(all, key) = all[j][2]
      BY <3>1, <3>2, LastIs DEF all
    <3> QED BY <3>3 DEF all
  <2> QED BY <1>1, <1>3, <2>2, <2>3, <2>4
<1> QED BY <1>1, <1>3, <1>4, <1>5

\* What is appended last is read.
LEMMA LastWins ==
  ASSUME NEW env \in Pairs, NEW key \in Word, NEW value \in Word
  PROVE  /\ env \o T!Pair(key, value) \in Pairs /\ T!Pair(key, value) \in Pairs
         /\ T!LastOf(env \o T!Pair(key, value), key) = value
         /\ T!Has(env \o T!Pair(key, value), key)
         /\ \A other : other # key => ~T!Has(T!Pair(key, value), other)
<1> DEFINE more == T!Pair(key, value)
           n == Len(env) + 1
<1>1. more \in Pairs /\ Len(more) = 1 /\ DOMAIN more = {1} /\ more[1] = <<key, value>>
  <2>1. <<key, value>> \in Entry
    BY DEF Entry
  <2>2. more = <<<<key, value>>>>
    BY DEF T!Pair
  <2> HIDE DEF more
  <2> DEFINE one == <<key, value>>
  <2> HIDE DEF one
  <2>3. one \in Entry /\ more = <<one>>
    BY <2>1, <2>2 DEF one
  <2>4. more \in Seq(Entry) /\ Len(more) = 1 /\ DOMAIN more = {1} /\ more[1] = one
    BY <2>3
  <2> QED BY <2>4 DEF Pairs, one
<1> HIDE DEF more
<1>0. /\ Len(env) \in Nat /\ DOMAIN env = 1..Len(env) /\ n \in Nat /\ n > Len(env)
      /\ n - Len(env) = 1 /\ n \in 1..n
  BY DEF Pairs
<1>2. /\ env \o more \in Pairs /\ Len(env \o more) = n /\ DOMAIN (env \o more) = 1..n /\ n \in Nat
      /\ (env \o more)[n] = <<key, value>>
  <2> DEFINE all == env \o more
  <2>1. all \in Pairs /\ Len(all) = n /\ DOMAIN all = 1..n
    <3>1. all \in Pairs /\ Len(all) = Len(env) + Len(more) /\ DOMAIN all = 1..(Len(env) + Len(more))
      BY <1>1, Joined
    <3>2. Len(env) + Len(more) = n
      BY <1>1
    <3> QED BY <3>1, <3>2
  <2>2. \A j \in 1..n : j > Len(env) => all[j] = more[j - Len(env)]
    BY <1>1, Joined
  <2>3. all[n] = more[1]
    BY <2>2, <1>0
  <2> QED BY <2>1, <2>3, <1>0, <1>1
<1>3. T!LastOf(env \o more, key) = value
  <2> DEFINE all == env \o more
  <2>1. all \in Pairs /\ n \in DOMAIN all /\ all[n] = <<key, value>> /\ \A k \in DOMAIN all : k <= n
    BY <1>2
  <2> HIDE DEF all
  <2>2. all[n][1] = key /\ all[n][2] = value
    BY <2>1
  <2>3. T!LastOf(all, key) = all[n][2]
    BY <2>1, <2>2, LastIs
  <2> QED BY <2>2, <2>3 DEF all
<1>4. T!Has(env \o more, key)
  <2>1. n \in DOMAIN (env \o more) /\ (env \o more)[n][1] = key
    BY <1>0, <1>2
  <2> QED BY <2>1 DEF T!Has
<1>5. \A other : other # key => ~T!Has(more, other)
  <2>1. \A j \in DOMAIN more : more[j][1] = key
    <3>1. more[1][1] = key
      BY <1>1
    <3> QED BY <1>1, <3>1
  <2> QED BY <2>1 DEF T!Has
<1> QED BY <1>1, <1>2, <1>3, <1>4, <1>5 DEF more

-----------------------------------------------------------------------------
(* What a module stages.                                                   *)

Script == [name : 1..2, ext : {"sql", "sql.xz", "sh", "cql", "json"}]

\* The instance's cardinality is the one the library's theorems are about.
LEMMA SameCount == ASSUME NEW S PROVE T!Cardinality(S) = Cardinality(S)
BY DEF T!Cardinality, Cardinality

\* Scripts are staged under the numbers of their order, so that no two are one file and the
\* entrypoint runs all it knows, in that order.
LEMMA RunsInOrder ==
  ASSUME NEW m, NEW scripts \in Seq(Script),
         \A j \in DOMAIN scripts : scripts[j].ext \in T!KnownTo(m)
  PROVE  T!RunsScripts(m, T!Staged(scripts, 0)) = T!Staged(scripts, 0)
<1> DEFINE n == Len(scripts)
           staged == T!Staged(scripts, 0)
           known == {staged[j] : j \in {k \in DOMAIN staged : staged[k].ext \in T!KnownTo(m)}}
           InOrder(run) == \A l, j \in DOMAIN run : l < j => T!Before(run[l], run[j])
<1>1. n \in Nat /\ DOMAIN scripts = 1..n
  OBVIOUS
<1>2. /\ DOMAIN staged = 1..n
      /\ \A j \in 1..n : staged[j].at = j - 1 /\ staged[j].ext = scripts[j].ext
  BY <1>1 DEF T!Staged, T!Target
<1>3. staged = [j \in 1..n |-> staged[j]]
  BY <1>1 DEF T!Staged
<1> HIDE DEF staged
<1>4. known = {staged[j] : j \in 1..n}
  BY <1>1, <1>2
<1> HIDE DEF known
<1>5. staged \in Bijection(1..n, known)
  <2>1. staged \in [1..n -> known]
    BY <1>3, <1>4
  <2>2. \A l, j \in 1..n : staged[l] = staged[j] => l = j
    BY <1>2
  <2>3. \A f \in known : \E j \in 1..n : staged[j] = f
    BY <1>4
  <2> QED BY <2>1, <2>2, <2>3 DEF Bijection, Injection, Surjection, IsInjective
<1>6. Cardinality(known) = n
  <2>1. IsFiniteSet(1..n) /\ Cardinality(1..n) = n
    <3>1. IsFiniteSet(1..n) /\ Cardinality(1..n) = IF 1 > n THEN 0 ELSE n - 1 + 1
      BY <1>1, FS_Interval
    <3> QED BY <1>1, <3>1
  <2>2. ExistsBijection(1..n, known)
    BY <1>5 DEF ExistsBijection
  <2> QED BY <2>1, <2>2, FS_Bijection
<1>7. staged \in [1..n -> known] /\ InOrder(staged)
  BY <1>2, <1>3, <1>4 DEF T!Before
<1>8. ASSUME NEW run \in [1..n -> known], InOrder(run) PROVE run = staged
  <2> DEFINE place == [l \in 1..n |-> run[l].at + 1]
  <2>1. \A l \in 1..n : \E j \in 1..n : run[l] = staged[j]
    BY <1>4
  <2>2. \A l \in 1..n : run[l].at + 1 \in 1..n /\ run[l] = staged[run[l].at + 1]
    <3> SUFFICES ASSUME NEW l \in 1..n
                 PROVE run[l].at + 1 \in 1..n /\ run[l] = staged[run[l].at + 1]
      OBVIOUS
    <3>1. PICK j \in 1..n : run[l] = staged[j]
      BY <2>1
    <3>2. run[l].at + 1 = j
      BY <1>2, <3>1
    <3> QED BY <3>1, <3>2
  <2>3. place \in [1..n -> 1..n]
    BY <2>2
  <2>4. \A l, j \in 1..n : l < j => run[l].at < run[j].at
    <3> SUFFICES ASSUME NEW l \in 1..n, NEW j \in 1..n, l < j PROVE run[l].at < run[j].at
      OBVIOUS
    <3>1. T!Before(run[l], run[j])
      BY <1>8
    <3>2. PICK a \in 1..n : run[l] = staged[a]
      BY <2>1
    <3>3. PICK b \in 1..n : run[j] = staged[b]
      BY <2>1
    <3>4. run[l].at \in Int /\ run[j].at \in Int
      BY <1>2, <3>2, <3>3
    <3>5. run[l].at = run[j].at => staged[a] = staged[b]
      BY <1>2, <3>2, <3>3
    <3>6. ~(run[l].name < run[j].name) \/ run[l].at # run[j].at
      <4>1. staged[a].name \in 1..2
        <5>1. scripts[a] \in Script
          BY <1>1
        <5> QED BY <1>1, <5>1 DEF staged, T!Staged, T!Target, Script
      <4> QED BY <3>2, <3>3, <3>5, <4>1
    <3> QED BY <3>1, <3>4, <3>6 DEF T!Before
  <2>5. \A l, j \in 1..n : l < j => place[l] < place[j]
    <3> SUFFICES ASSUME NEW l \in 1..n, NEW j \in 1..n, l < j PROVE place[l] < place[j]
      OBVIOUS
    <3>1. run[l].at + 1 \in 1..n /\ run[j].at + 1 \in 1..n /\ run[l].at < run[j].at
      BY <2>2, <2>4
    <3>2. PICK a \in 1..n : run[l] = staged[a]
      BY <2>1
    <3>3. PICK b \in 1..n : run[j] = staged[b]
      BY <2>1
    <3>4. run[l].at \in Int /\ run[j].at \in Int
      BY <1>2, <3>2, <3>3
    <3> QED BY <3>1, <3>4
  <2>6. \A l \in 1..n : place[l] = l
    <3> HIDE DEF place
    <3> QED BY <1>1, <2>3, <2>5, OnlyInOrder
  <2>7. \A l \in 1..n : run[l] = staged[l]
    BY <2>2, <2>6
  <2> QED BY <1>3, <2>7
<1>9. T!RunsScripts(m, staged) = CHOOSE run \in [1..n -> known] : InOrder(run)
  BY <1>6, SameCount DEF T!RunsScripts, known
<1>10. (CHOOSE run \in [1..n -> known] : InOrder(run)) = staged
  <2> HIDE DEF InOrder
  <2> QED BY <1>7, <1>8
<1> QED BY <1>9, <1>10 DEF staged

\* A staged script keeps its name.
LEMMA StagedNames ==
  ASSUME NEW scripts \in Seq(Script)
  PROVE  T!Listed(T!Staged(scripts, 0)) = T!Listed(scripts)
BY DEF T!Listed, T!Staged, T!Target

-----------------------------------------------------------------------------
(* The builders.                                                           *)

All == {"PostgreSQL", "MySQL", "MariaDB", "ClickHouse", "RabbitMQ", "MinIO", "RustFS",
        "Kafka", "OpenSearch", "MongoDB", "ScyllaDB", "Redis", "NATS", "Mosquitto"}

Builder ==
  [user : Word, pass : Word, name : Word, env : Pairs, args : Pairs, scripts : Seq(Script),
   extras : Seq(Nat), waits : Seq({"own"}), reuse : BOOLEAN]

\* What the setters of a module keep out of its builder.
Sane(m, c) ==
  /\ m \in {"MySQL", "MariaDB"} => c.user # "Root"
  /\ m = "Kafka" => ~T!Has(c.env, "name")
  /\ m = "ScyllaDB" => ~T!Has(c.args, "name")
  /\ m = "Redis" => ~T!Has(c.args, "user") /\ ~T!Has(c.args, "pass")
  /\ T!Initdb(m) => \A j \in DOMAIN c.scripts : c.scripts[j].ext \in T!KnownTo(m)

CallInv(m, setter) ==
  /\ \/ setter[1] \in {"user", "pass", "name"} /\ setter[2] \in Word
     \/ setter[1] = "reuse" /\ setter[2] \in BOOLEAN
     \/ setter[1] \in {"env", "args"} /\ setter[2] \in Entry
     \/ setter[1] = "scripts" /\ setter[2] \in Script
     \/ setter[1] = "extras" /\ setter[2] \in Nat
     \/ setter[1] = "waits" /\ setter[2] = "own"
  /\ m = "Kafka" /\ setter[1] = "env" => setter[2][1] # "name"
  /\ m = "ScyllaDB" /\ setter[1] = "args" => setter[2][1] # "name"
  /\ m = "Redis" /\ setter[1] = "args" => setter[2][1] \notin {"user", "pass"}

\* The calls by their kind.
LEMMA SetterKinds ==
  ASSUME NEW setter
  PROVE  /\ \A field, values : setter \in T!Call(field, values)
              => setter[1] = field /\ setter[2] \in values
         /\ \A U, P, D \in SUBSET Word : setter \in T!Credentials(U, P, D) =>
              setter[1] \in {"user", "pass", "name"} /\ setter[2] \in Word
         /\ \A K \in SUBSET Word : setter \in T!Raw(K) =>
              setter[1] = "env" /\ setter[2] \in Entry /\ setter[2][1] \in K
         /\ \A E \in SUBSET {"sql", "sql.xz", "sh", "cql", "json"} : setter \in T!Scripts(E)
               => setter[1] = "scripts" /\ setter[2] \in Script
         /\ setter \in T!OwnWait => setter[1] = "waits" /\ setter[2] = "own"
<1>1. \A field, values : setter \in T!Call(field, values) => setter[1] = field /\ setter[2] \in values
  BY DEF T!Call
<1>2. ASSUME NEW K \in SUBSET Word, setter \in T!Raw(K)
      PROVE  setter[1] = "env" /\ setter[2] \in Entry /\ setter[2][1] \in K
  <2>1. PICK k \in K : setter = <<"env", <<k, "raw">>>>
    BY <1>2 DEF T!Raw
  <2>2. setter[1] = "env" /\ setter[2] = <<k, "raw">>
    BY <2>1
  <2>3. k \in Word /\ <<k, "raw">> \in Entry
    <3>1. k \in Word /\ "raw" \in Word
      BY DEF Word
    <3> QED BY <3>1 DEF Entry
  <2> QED BY <2>2, <2>3
<1>3. ASSUME NEW E \in SUBSET {"sql", "sql.xz", "sh", "cql", "json"}, setter \in T!Scripts(E)
      PROVE setter[1] = "scripts" /\ setter[2] \in Script
  <2>1. PICK n \in 1..2, e \in E : setter = <<"scripts", [name |-> n, ext |-> e]>>
    BY <1>3 DEF T!Scripts
  <2> QED BY <2>1 DEF Script
<1>4. ASSUME NEW U \in SUBSET Word, NEW P \in SUBSET Word, NEW D \in SUBSET Word,
             setter \in T!Credentials(U, P, D)
      PROVE  setter[1] \in {"user", "pass", "name"} /\ setter[2] \in Word
  <2>1. setter \in T!Call("user", U) \/ setter \in T!Call("pass", P) \/ setter \in T!Call("name", D)
    BY <1>4 DEF T!Credentials
  <2> QED BY <1>1, <2>1
<1> QED BY <1>1, <1>2, <1>3, <1>4 DEF T!OwnWait

LEMMA OfText ==
  ASSUME NEW m, NEW setter, NEW field \in {"user", "pass", "name"}, NEW V \in SUBSET Word,
         setter \in T!Call(field, V)
  PROVE  CallInv(m, setter)
<1>1. setter[1] = field /\ setter[2] \in V
  BY SetterKinds
<1> QED BY <1>1 DEF CallInv

LEMMA OfCredentials ==
  ASSUME NEW m, NEW setter, NEW U \in SUBSET Word, NEW P \in SUBSET Word, NEW D \in SUBSET Word,
         setter \in T!Credentials(U, P, D)
  PROVE  CallInv(m, setter)
BY OfText DEF T!Credentials

LEMMA OfRaw ==
  ASSUME NEW m, NEW setter, NEW K \in SUBSET Word, setter \in T!Raw(K),
         m = "Kafka" => "name" \notin K
  PROVE  CallInv(m, setter)
<1>1. setter[1] = "env" /\ setter[2] \in Entry /\ setter[2][1] \in K
  BY SetterKinds
<1> QED BY <1>1 DEF CallInv

LEMMA OfPairs ==
  ASSUME NEW m, NEW setter, NEW field \in {"env", "args"}, NEW k \in Word, NEW v \in Word,
         m \in {"Kafka", "ScyllaDB"} => k # "name",
         m = "Redis" => k \notin {"user", "pass"}, setter = <<field, <<k, v>>>>
  PROVE  CallInv(m, setter)
<1>1. setter[1] = field /\ setter[2] = <<k, v>> /\ <<k, v>> \in Entry
  BY DEF Entry
<1> QED BY <1>1 DEF CallInv

LEMMA OfScripts ==
  ASSUME NEW m, NEW setter, NEW E \in SUBSET {"sql", "sql.xz", "sh", "cql", "json"},
         setter \in T!Scripts(E)
  PROVE  CallInv(m, setter)
<1>1. setter[1] = "scripts" /\ setter[2] \in Script
  BY SetterKinds
<1> QED BY <1>1 DEF CallInv

LEMMA OfExtras ==
  ASSUME NEW m, NEW setter, NEW V \in SUBSET Nat, setter \in T!Call("extras", V)
  PROVE  CallInv(m, setter)
<1>1. setter[1] = "extras" /\ setter[2] \in V
  BY SetterKinds
<1> QED BY <1>1 DEF CallInv

LEMMA OfWait ==
  ASSUME NEW m, NEW setter, setter \in T!OwnWait
  PROVE  CallInv(m, setter)
<1>1. setter[1] = "waits" /\ setter[2] = "own"
  BY SetterKinds
<1> QED BY <1>1 DEF CallInv

LEMMA Setting ==
  ASSUME NEW m \in All, NEW setter \in T!Setters(m) \cup T!Shared
  PROVE  CallInv(m, setter)
<1>1. CASE setter \in T!Shared
  <2>1. setter \in T!Call("reuse", {TRUE})
    BY <1>1 DEF T!Shared
  <2>2. setter[1] = "reuse"
    BY <2>1, SetterKinds
  <2>3. setter[2] \in {TRUE}
    BY <2>1, SetterKinds
  <2> QED BY <2>2, <2>3 DEF CallInv
<1>2. CASE m = "PostgreSQL" /\ setter \in T!Setters(m)
  <2>0. \/ setter \in T!Credentials({"", "u"}, {"", "p"}, {"", "d"})
        \/ setter \in T!Scripts({"sql", "cql"})
        \/ setter \in T!OwnWait
        \/ setter \in T!Raw({"user", "pass", "name"})
        \/ setter \in T!Call("env", {<<"auth", "trust">>, <<"auth", "md5">>})
    BY <1>2 DEF T!Setters, T!PostgreSQLSetters
  <2>1. setter \in T!Credentials({"", "u"}, {"", "p"}, {"", "d"}) => CallInv(m, setter)
    <3>1. {"", "u"} \in SUBSET Word /\ {"", "p"} \in SUBSET Word /\ {"", "d"} \in SUBSET Word
      BY DEF Word
    <3> QED BY <3>1, OfCredentials
  <2>2. setter \in T!Scripts({"sql", "cql"}) => CallInv(m, setter)
    BY OfScripts
  <2>3. setter \in T!OwnWait => CallInv(m, setter)
    BY OfWait
  <2>4. setter \in T!Raw({"user", "pass", "name"}) => CallInv(m, setter)
    <3>1. {"user", "pass", "name"} \in SUBSET Word
      BY DEF Word
    <3> QED BY <1>2, <3>1, OfRaw
  <2>5. setter \in T!Call("env", {<<"auth", "trust">>, <<"auth", "md5">>}) => CallInv(m, setter)
    <3> SUFFICES ASSUME setter \in T!Call("env", {<<"auth", "trust">>, <<"auth", "md5">>})
                 PROVE CallInv(m, setter)
      OBVIOUS
    <3>1. setter = <<"env", <<"auth", "trust">>>> \/ setter = <<"env", <<"auth", "md5">>>>
      BY DEF T!Call
    <3>2. "auth" \in Word /\ "trust" \in Word /\ "auth" \in Word /\ "md5" \in Word
      BY DEF Word
    <3> QED BY <1>2, <3>1, <3>2, OfPairs
  <2> QED BY <2>0, <2>1, <2>2, <2>3, <2>4, <2>5
<1>3. CASE m \in {"MySQL", "MariaDB"} /\ setter \in T!Setters(m)
  <2>0. \/ setter \in T!Credentials({"", "u", "Root"}, {"", "p"}, {"", "d"})
        \/ setter \in T!Scripts({"sql", "cql"})
        \/ setter \in T!Raw({"user", "pass", "rootpass"})
        \/ setter \in T!Call("args", {<<"charset", "utf8">>})
        \/ setter \in T!OwnWait
    BY <1>3 DEF T!Setters, T!MySQLSetters, T!MariaDBSetters
  <2>1. setter \in T!Credentials({"", "u", "Root"}, {"", "p"}, {"", "d"}) => CallInv(m, setter)
    <3>1. /\ {"", "u", "Root"} \in SUBSET Word /\ {"", "p"} \in SUBSET Word
          /\ {"", "d"} \in SUBSET Word
      BY DEF Word
    <3> QED BY <3>1, OfCredentials
  <2>2. setter \in T!Scripts({"sql", "cql"}) => CallInv(m, setter)
    BY OfScripts
  <2>3. setter \in T!Raw({"user", "pass", "rootpass"}) => CallInv(m, setter)
    <3>1. {"user", "pass", "rootpass"} \in SUBSET Word
      BY DEF Word
    <3> QED BY <1>3, <3>1, OfRaw
  <2>4. setter \in T!Call("args", {<<"charset", "utf8">>}) => CallInv(m, setter)
    <3> SUFFICES ASSUME setter \in T!Call("args", {<<"charset", "utf8">>}) PROVE CallInv(m, setter)
      OBVIOUS
    <3>1. setter = <<"args", <<"charset", "utf8">>>>
      BY DEF T!Call
    <3>2. "charset" \in Word /\ "utf8" \in Word
      BY DEF Word
    <3> QED BY <1>3, <3>1, <3>2, OfPairs
  <2>5. setter \in T!OwnWait => CallInv(m, setter)
    BY OfWait
  <2> QED BY <2>0, <2>1, <2>2, <2>3, <2>4, <2>5
<1>4. CASE m = "ClickHouse" /\ setter \in T!Setters(m)
  <2>0. \/ setter \in T!Credentials({"", "u"}, {"", "p"}, {"", "d"})
        \/ setter \in T!Scripts({"sql", "sql.xz"})
        \/ setter \in T!OwnWait
        \/ setter \in T!Raw({"user", "pass"})
    BY <1>4 DEF T!Setters, T!ClickHouseSetters
  <2>1. setter \in T!Credentials({"", "u"}, {"", "p"}, {"", "d"}) => CallInv(m, setter)
    <3>1. {"", "u"} \in SUBSET Word /\ {"", "p"} \in SUBSET Word /\ {"", "d"} \in SUBSET Word
      BY DEF Word
    <3> QED BY <3>1, OfCredentials
  <2>2. setter \in T!Scripts({"sql", "sql.xz"}) => CallInv(m, setter)
    BY OfScripts
  <2>3. setter \in T!OwnWait => CallInv(m, setter)
    BY OfWait
  <2>4. setter \in T!Raw({"user", "pass"}) => CallInv(m, setter)
    <3>1. {"user", "pass"} \in SUBSET Word
      BY DEF Word
    <3> QED BY <1>4, <3>1, OfRaw
  <2> QED BY <2>0, <2>1, <2>2, <2>3, <2>4
<1>5. CASE m = "RabbitMQ" /\ setter \in T!Setters(m)
  <2>0. \/ setter \in T!Credentials({"", "u"}, {"", "p"}, {"", "v"})
        \/ setter \in T!Scripts({"json", "sql"})
        \/ setter \in T!Call("extras", {1, 2})
        \/ setter \in T!Raw({"user", "pass"})
    BY <1>5 DEF T!Setters, T!RabbitMQSetters
  <2>1. setter \in T!Credentials({"", "u"}, {"", "p"}, {"", "v"}) => CallInv(m, setter)
    <3>1. {"", "u"} \in SUBSET Word /\ {"", "p"} \in SUBSET Word /\ {"", "v"} \in SUBSET Word
      BY DEF Word
    <3> QED BY <3>1, OfCredentials
  <2>2. setter \in T!Scripts({"json", "sql"}) => CallInv(m, setter)
    BY OfScripts
  <2>3. setter \in T!Call("extras", {1, 2}) => CallInv(m, setter)
    BY OfExtras
  <2>4. setter \in T!Raw({"user", "pass"}) => CallInv(m, setter)
    <3>1. {"user", "pass"} \in SUBSET Word
      BY DEF Word
    <3> QED BY <1>5, <3>1, OfRaw
  <2> QED BY <2>0, <2>1, <2>2, <2>3, <2>4
<1>6. CASE m = "MinIO" /\ setter \in T!Setters(m)
  <2>0. \/ setter \in T!Call("user", {"ab", "key"})
        \/ setter \in T!Call("pass", {"short", "longenough"})
        \/ setter \in T!OwnWait
        \/ setter \in T!Call("extras", {0, 1, 2})
        \/ setter \in T!Raw({"user", "pass"})
    BY <1>6 DEF T!Setters, T!MinIOSetters
  <2>1. setter \in T!Call("user", {"ab", "key"}) => CallInv(m, setter)
    BY ZenonT(60), OfText DEF Word
  <2>2. setter \in T!Call("pass", {"short", "longenough"}) => CallInv(m, setter)
    BY ZenonT(60), OfText DEF Word
  <2>3. setter \in T!OwnWait => CallInv(m, setter)
    BY OfWait
  <2>4. setter \in T!Call("extras", {0, 1, 2}) => CallInv(m, setter)
    BY OfExtras
  <2>5. setter \in T!Raw({"user", "pass"}) => CallInv(m, setter)
    <3>1. {"user", "pass"} \in SUBSET Word
      BY DEF Word
    <3> QED BY <1>6, <3>1, OfRaw
  <2> QED BY <2>0, <2>1, <2>2, <2>3, <2>4, <2>5
<1>7. CASE m = "RustFS" /\ setter \in T!Setters(m)
  <2>0. \/ setter \in T!Call("user", {"", "key"})
        \/ setter \in T!Call("pass", {"", "secret"})
        \/ setter \in T!OwnWait
        \/ setter \in T!Raw({"user", "pass"})
    BY <1>7 DEF T!Setters, T!RustFSSetters
  <2>1. setter \in T!Call("user", {"", "key"}) => CallInv(m, setter)
    BY ZenonT(60), OfText DEF Word
  <2>2. setter \in T!Call("pass", {"", "secret"}) => CallInv(m, setter)
    BY ZenonT(60), OfText DEF Word
  <2>3. setter \in T!OwnWait => CallInv(m, setter)
    BY OfWait
  <2>4. setter \in T!Raw({"user", "pass"}) => CallInv(m, setter)
    <3>1. {"user", "pass"} \in SUBSET Word
      BY DEF Word
    <3> QED BY <1>7, <3>1, OfRaw
  <2> QED BY <2>0, <2>1, <2>2, <2>3, <2>4
<1>8. CASE m = "Kafka" /\ setter \in T!Setters(m)
  <2>0. \/ setter \in T!Call("name", {"bad", "id2"})
        \/ setter \in T!Call("extras", {0, 1, 2})
        \/ setter \in T!Raw({"tuning"})
    BY <1>8 DEF T!Setters, T!KafkaSetters
  <2>1. setter \in T!Call("name", {"bad", "id2"}) => CallInv(m, setter)
    BY ZenonT(60), OfText DEF Word
  <2>2. setter \in T!Call("extras", {0, 1, 2}) => CallInv(m, setter)
    BY OfExtras
  <2>3. setter \in T!Raw({"tuning"}) => CallInv(m, setter)
    <3>1. {"tuning"} \in SUBSET Word
      BY DEF Word
    <3>2. "rootpass" \notin {"tuning"} /\ "name" \notin {"tuning"}
      OBVIOUS
    <3> QED BY <1>8, <3>1, <3>2, OfRaw
  <2> QED BY <2>0, <2>1, <2>2, <2>3
<1>9. CASE m = "OpenSearch" /\ setter \in T!Setters(m)
  <2>0. \/ setter \in T!Call("env", {<<"security", "on">>, <<"tuning", "raw">>})
        \/ setter \in T!OwnWait
    BY <1>9 DEF T!Setters, T!OpenSearchSetters
  <2>1. setter \in T!Call("env", {<<"security", "on">>, <<"tuning", "raw">>}) => CallInv(m, setter)
    <3> SUFFICES ASSUME setter \in T!Call("env", {<<"security", "on">>, <<"tuning", "raw">>})
                 PROVE CallInv(m, setter)
      OBVIOUS
    <3>1. setter = <<"env", <<"security", "on">>>> \/ setter = <<"env", <<"tuning", "raw">>>>
      BY DEF T!Call
    <3>2. "security" \in Word /\ "on" \in Word /\ "tuning" \in Word /\ "raw" \in Word
      BY DEF Word
    <3> QED BY <1>9, <3>1, <3>2, OfPairs
  <2>2. setter \in T!OwnWait => CallInv(m, setter)
    BY OfWait
  <2> QED BY <2>0, <2>1, <2>2
<1>10. CASE m = "MongoDB" /\ setter \in T!Setters(m)
  <2>0. setter \in T!Call("name", {"bad", "rs1"}) \/ setter \in T!Raw({"user", "tuning"})
    BY <1>10 DEF T!Setters, T!MongoDBSetters
  <2>1. setter \in T!Call("name", {"bad", "rs1"}) => CallInv(m, setter)
    BY ZenonT(60), OfText DEF Word
  <2>2. setter \in T!Raw({"user", "tuning"}) => CallInv(m, setter)
    <3>1. {"user", "tuning"} \in SUBSET Word
      BY DEF Word
    <3> QED BY <1>10, <3>1, OfRaw
  <2> QED BY <2>0, <2>1, <2>2
<1>11. CASE m = "ScyllaDB" /\ setter \in T!Setters(m)
  <2>0. \/ setter \in T!Call("args", {<<"smp", "2">>})
        \/ setter \in T!Call("name", {"", "dc1"})
        \/ setter \in T!Scripts({"cql", "sql"})
        \/ setter \in T!OwnWait
    BY <1>11 DEF T!Setters, T!ScyllaDBSetters
  <2>1. setter \in T!Call("args", {<<"smp", "2">>}) => CallInv(m, setter)
    <3> SUFFICES ASSUME setter \in T!Call("args", {<<"smp", "2">>}) PROVE CallInv(m, setter)
      OBVIOUS
    <3>1. setter = <<"args", <<"smp", "2">>>>
      BY DEF T!Call
    <3>2. "smp" \in Word /\ "2" \in Word
      BY DEF Word
    <3> QED BY <1>11, <3>1, <3>2, OfPairs
  <2>2. setter \in T!Call("name", {"", "dc1"}) => CallInv(m, setter)
    BY ZenonT(60), OfText DEF Word
  <2>3. setter \in T!Scripts({"cql", "sql"}) => CallInv(m, setter)
    BY OfScripts
  <2>4. setter \in T!OwnWait => CallInv(m, setter)
    BY OfWait
  <2> QED BY <2>0, <2>1, <2>2, <2>3, <2>4
<1>12. CASE m = "Redis" /\ setter \in T!Setters(m)
  <2>0. \/ setter \in T!Call("pass", {"", "p"})
        \/ setter \in T!Call("args", {<<"maxmemory", "64mb">>})
        \/ setter \in T!Raw({"cli", "tuning"})
    BY <1>12 DEF T!Setters, T!RedisSetters
  <2>1. setter \in T!Call("pass", {"", "p"}) => CallInv(m, setter)
    BY ZenonT(60), OfText DEF Word
  <2>2. setter \in T!Call("args", {<<"maxmemory", "64mb">>}) => CallInv(m, setter)
    <3> SUFFICES ASSUME setter \in T!Call("args", {<<"maxmemory", "64mb">>})
                 PROVE CallInv(m, setter)
      OBVIOUS
    <3>1. setter = <<"args", <<"maxmemory", "64mb">>>>
      BY DEF T!Call
    <3>2. "maxmemory" \in Word /\ "64mb" \in Word
      BY DEF Word
    <3> QED BY <1>12, <3>1, <3>2, OfPairs
  <2>3. setter \in T!Raw({"cli", "tuning"}) => CallInv(m, setter)
    <3>1. {"cli", "tuning"} \in SUBSET Word
      BY DEF Word
    <3> QED BY <1>12, <3>1, OfRaw
  <2> QED BY <2>0, <2>1, <2>2, <2>3
<1>13. CASE m = "NATS" /\ setter \in T!Setters(m)
  <2>0. \/ setter \in T!Call("user", {"", "u"})
        \/ setter \in T!Call("pass", {"", "p"})
        \/ setter \in T!Call("args", {<<"user", "raw">>, <<"tuning", "raw">>})
    BY <1>13 DEF T!Setters, T!NATSSetters
  <2>1. setter \in T!Call("user", {"", "u"}) => CallInv(m, setter)
    BY ZenonT(60), OfText DEF Word
  <2>2. setter \in T!Call("pass", {"", "p"}) => CallInv(m, setter)
    BY ZenonT(60), OfText DEF Word
  <2>3. setter \in T!Call("args", {<<"user", "raw">>, <<"tuning", "raw">>}) => CallInv(m, setter)
    <3> SUFFICES ASSUME setter \in T!Call("args", {<<"user", "raw">>, <<"tuning", "raw">>})
                 PROVE CallInv(m, setter)
      OBVIOUS
    <3>1. setter = <<"args", <<"user", "raw">>>> \/ setter = <<"args", <<"tuning", "raw">>>>
      BY DEF T!Call
    <3>2. "user" \in Word /\ "raw" \in Word /\ "tuning" \in Word /\ "raw" \in Word
      BY DEF Word
    <3> QED BY <1>13, <3>1, <3>2, OfPairs
  <2> QED BY <2>0, <2>1, <2>2, <2>3
<1>14. CASE m = "Mosquitto" /\ setter \in T!Setters(m)
  <2>0. \/ setter \in T!Call("args", {<<"max", "1">>})
        \/ setter \in {<<"scripts", [name |-> n, ext |-> "sh"]>> : n \in 1..2}
    BY <1>14 DEF T!Setters, T!MosquittoSetters
  <2>1. setter \in T!Call("args", {<<"max", "1">>}) => CallInv(m, setter)
    <3> SUFFICES ASSUME setter \in T!Call("args", {<<"max", "1">>}) PROVE CallInv(m, setter)
      OBVIOUS
    <3>1. setter = <<"args", <<"max", "1">>>>
      BY DEF T!Call
    <3>2. "max" \in Word /\ "1" \in Word
      BY DEF Word
    <3> QED BY <1>14, <3>1, <3>2, OfPairs
  <2>2. setter \in {<<"scripts", [name |-> n, ext |-> "sh"]>> : n \in 1..2} => CallInv(m, setter)
    <3>1. {"sh"} \in SUBSET {"sql", "sql.xz", "sh", "cql", "json"}
            /\ (setter \in {<<"scripts", [name |-> n, ext |-> "sh"]>> : n \in 1..2} => setter \in T!Scripts({"sh"}))
      BY DEF T!Scripts
    <3> QED BY <3>1, OfScripts
  <2> QED BY <2>0, <2>1, <2>2
<1> QED BY <1>1, <1>2, <1>3, <1>4, <1>5, <1>6, <1>7, <1>8, <1>9, <1>10, <1>11, <1>12, <1>13,
           <1>14 DEF All

\* A builder as it is made.
LEMMA FreshSane ==
  ASSUME NEW m \in All
  PROVE  T!Fresh(m) \in Builder /\ Sane(m, T!Fresh(m))
<1>1. <<>> \in Pairs /\ <<>> \in Seq(Script) /\ <<>> \in Seq(Nat) /\ <<>> \in Seq({"own"})
  BY DEF Pairs
<1>2. \A key : ~T!Has(<<>>, key)
  BY DEF T!Has
<1>3. T!Pair("security", "off") \o T!Pair("tuning", "default") \in Pairs
  <2>1. "security" \in Word /\ "off" \in Word /\ "tuning" \in Word /\ "default" \in Word
    BY DEF Word
  <2>2. T!Pair("security", "off") \in Pairs
    BY <1>1, <2>1, LastWins
  <2> QED BY <2>1, <2>2, LastWins
<1>4. \A u, p, n \in Word : [T!Blank EXCEPT !.user = u, !.pass = p, !.name = n] \in Builder
  BY <1>1 DEF T!Blank, Builder
<1>5. /\ T!Blank \in Builder
      /\ [T!Blank EXCEPT !.env = T!Pair("security", "off") \o T!Pair("tuning", "default")] \in Builder
  BY ZenonT(60), <1>1, <1>3 DEF T!Blank, Builder, Word
<1>6. T!Fresh(m) \in Builder
  <2>1. /\ "test" \in Word /\ "guest" \in Word /\ "/" \in Word /\ "minioadmin" \in Word
        /\ "rustfsadmin" \in Word
        /\ "" \in Word /\ "id1" \in Word /\ "rs0" \in Word /\ "unset" \in Word
    BY DEF Word
  <2> QED BY <1>4, <1>5, <2>1 DEF T!Fresh
<1>7. /\ T!Fresh(m).user # "Root" /\ T!Fresh(m).args = <<>> /\ T!Fresh(m).scripts = <<>>
      /\ m # "OpenSearch" => T!Fresh(m).env = <<>>
  BY DEF T!Fresh, T!Blank
<1> QED BY <1>2, <1>6, <1>7 DEF Sane

\* The setters: one value in place of another, or one more.
LEMMA Appended ==
  ASSUME NEW S, NEW s \in Seq(S), NEW e \in S
  PROVE  /\ Append(s, e) \in Seq(S) /\ DOMAIN Append(s, e) = 1..(Len(s) + 1)
         /\ DOMAIN s = 1..Len(s) /\ Len(s) \in Nat
         /\ \A j \in 1..(Len(s) + 1) : Append(s, e)[j] = IF j <= Len(s) THEN s[j] ELSE e
OBVIOUS

LEMMA HasNone ==
  ASSUME NEW env \in Pairs, NEW pair \in Entry, NEW key, ~T!Has(env, key), pair[1] # key
  PROVE  ~T!Has(Append(env, pair), key)
BY Appended DEF T!Has, Pairs

LEMMA SetSane ==
  ASSUME NEW m \in All, NEW c \in Builder, Sane(m, c), NEW setter \in T!Setters(m) \cup T!Shared,
         ~T!SetterThrows(m, setter)
  PROVE  T!Set(c, m, setter) \in Builder /\ Sane(m, T!Set(c, m, setter))
<1>1. CallInv(m, setter)
  BY Setting
<1>2. CASE setter[1] = "user"
  <2>1. T!Set(c, m, setter) = [c EXCEPT !.user = T!Value(m, setter)]
    BY <1>2 DEF T!Set
  <2>3. T!Value(m, setter) \in Word
    <3>1. setter[2] \in Word /\ "root" \in Word
      BY <1>1, <1>2 DEF CallInv, Word
    <3> QED BY <3>1 DEF T!Value
  <2>2. m \in {"MySQL", "MariaDB"} => T!Value(m, setter) # "Root"
    BY <1>2 DEF T!Value, T!IsRoot
  <2> QED BY <2>1, <2>2, <2>3 DEF Builder, Sane
<1>3. CASE setter[1] \in {"pass", "name"}
  <2>1. T!Set(c, m, setter) = [c EXCEPT ![setter[1]] = setter[2]] /\ setter[2] \in Word
    BY <1>1, <1>3 DEF T!Set, CallInv, T!Value
  <2> QED BY <1>3, <2>1 DEF Builder, Sane
<1>4. CASE setter[1] = "reuse"
  <2>1. T!Set(c, m, setter) = [c EXCEPT !.reuse = setter[2]] /\ setter[2] \in BOOLEAN
    BY <1>1, <1>4 DEF T!Set, CallInv, T!Value
  <2> QED BY <2>1 DEF Builder, Sane
<1>5. CASE setter[1] = "env"
  <2>1. T!Set(c, m, setter) = [c EXCEPT !.env = Append(c.env, setter[2])] /\ setter[2] \in Entry
    BY <1>1, <1>5 DEF T!Set, CallInv, T!Value
  <2>2. c.env \in Pairs /\ Append(c.env, setter[2]) \in Pairs
    BY <2>1 DEF Builder, Pairs
  <2>3. m = "Kafka" => ~T!Has(Append(c.env, setter[2]), "name")
    BY <1>1, <1>5, <2>1, <2>2, HasNone DEF CallInv, Sane
  <2> QED BY <2>1, <2>2, <2>3 DEF Builder, Sane
<1>6. CASE setter[1] = "args"
  <2>1. T!Set(c, m, setter) = [c EXCEPT !.args = Append(c.args, setter[2])] /\ setter[2] \in Entry
    BY <1>1, <1>6 DEF T!Set, CallInv, T!Value
  <2>2. c.args \in Pairs /\ Append(c.args, setter[2]) \in Pairs
    BY <2>1 DEF Builder, Pairs
  <2>3. m = "ScyllaDB" => ~T!Has(Append(c.args, setter[2]), "name")
    BY <1>1, <1>6, <2>1, <2>2, HasNone DEF CallInv, Sane
  <2>4. m = "Redis"
          => ~T!Has(Append(c.args, setter[2]), "user") /\ ~T!Has(Append(c.args, setter[2]), "pass")
    BY <1>1, <1>6, <2>1, <2>2, HasNone DEF CallInv, Sane
  <2> QED BY <2>1, <2>2, <2>3, <2>4 DEF Builder, Sane
<1>7. CASE setter[1] = "scripts"
  <2>1. /\ T!Set(c, m, setter) = [c EXCEPT !.scripts = Append(c.scripts, setter[2])]
        /\ setter[2] \in Script
    BY <1>1, <1>7 DEF T!Set, CallInv, T!Value
  <2>2. c.scripts \in Seq(Script) /\ Append(c.scripts, setter[2]) \in Seq(Script)
    BY <2>1 DEF Builder
  <2>3. setter[2].ext \in T!InitExtensions(m)
    BY <1>7 DEF T!SetterThrows
  <2>4. T!Initdb(m) => setter[2].ext \in T!KnownTo(m)
    BY <2>3 DEF T!Initdb, T!KnownTo, T!InitExtensions, T!DefaultExtensions
  <2>5. T!Initdb(m)
          => \A j \in DOMAIN Append(c.scripts, setter[2]) : Append(c.scripts, setter[2])[j].ext \in T!KnownTo(m)
    BY <2>1, <2>2, <2>4, Appended DEF Sane
  <2> QED BY <2>1, <2>2, <2>5 DEF Builder, Sane
<1>8. CASE setter[1] = "extras"
  <2>1. T!Set(c, m, setter) = [c EXCEPT !.extras = Append(c.extras, setter[2])] /\ setter[2] \in Nat
    BY <1>1, <1>8 DEF T!Set, CallInv, T!Value
  <2>2. Append(c.extras, setter[2]) \in Seq(Nat)
    BY <2>1 DEF Builder
  <2> QED BY <2>1, <2>2 DEF Builder, Sane
<1>9. CASE setter[1] = "waits"
  <2>1. T!Set(c, m, setter) = [c EXCEPT !.waits = Append(c.waits, setter[2])] /\ setter[2] = "own"
    BY <1>1, <1>9 DEF T!Set, CallInv, T!Value
  <2>2. Append(c.waits, setter[2]) \in Seq({"own"})
    BY <2>1 DEF Builder
  <2> QED BY <2>1, <2>2 DEF Builder, Sane
<1> QED BY <1>1, <1>2, <1>3, <1>4, <1>5, <1>6, <1>7, <1>8, <1>9 DEF CallInv

-----------------------------------------------------------------------------
(* What is rendered.                                                       *)

Elements(f) == {f[j] : j \in DOMAIN f}
LEMMA OwnElements ==
  ASSUME NEW S, NEW f \in Seq(S)
  PROVE  f \in Seq(Elements(f))
BY DEF Elements

\* The waits: the last of a module's own probes passes only in the real server, unless it is a
\* hook that tells (Kafka, MongoDB) or the ones before it do (ClickHouse, RabbitMQ); and only
\* RabbitMQ has a check, after its log line.
WaitsInv(m, c, w) ==
  /\ w \in Seq(Elements(w)) /\ Len(w) >= 1
  /\ \A j \in 1..Len(w) : w[j] = "check" => m = "RabbitMQ" /\ j = 2
  /\ m = "RabbitMQ" => w = <<"completed", "check">>
  /\ c.waits = <<>> /\ m = "ClickHouse" => w = <<"comm", "ping", "native">>
  /\ c.waits = <<>> /\ m \notin {"ClickHouse", "Kafka", "MongoDB"} => T!PassesIn[w[Len(w)]] = {"up"}

LEMMA OwnProbes ==
  ASSUME NEW c \in Builder, NEW m \in All, NEW probes, probes # <<>>,
         c.waits = <<>> => WaitsInv(m, c, probes),
         m # "RabbitMQ"
  PROVE  WaitsInv(m, c, T!Default(c, probes))
<1>1. CASE c.waits = <<>>
  BY <1>1 DEF T!Default
<1>2. CASE c.waits # <<>>
  <2>1. T!Default(c, probes) = c.waits /\ c.waits \in Seq({"own"}) /\ Len(c.waits) >= 1
    BY <1>2 DEF T!Default, Builder
  <2>2. \A j \in 1..Len(c.waits) : c.waits[j] = "own"
    BY <2>1
  <2>3. c.waits \in Seq(Elements(c.waits))
    BY <2>1, OwnElements
  <2> QED BY <1>2, <2>1, <2>2, <2>3 DEF WaitsInv
<1> QED BY <1>1, <1>2

LEMMA Single ==
  ASSUME NEW m \in All, NEW c, NEW p \in {"tcp", "cluster", "health", "elected", "pong", "running"},
         m # "ClickHouse", m # "RabbitMQ"
  PROVE  WaitsInv(m, c, <<p>>) /\ <<p>> # <<>>
<1>1. T!PassesIn[p] = {"up"}
  BY DEF T!PassesIn
<1> QED BY <1>1 DEF WaitsInv, Elements

LEMMA Double ==
  ASSUME NEW m \in All, NEW c, NEW p, NEW q,
         <<m, p, q>> \in {<<"ScyllaDB", "cql", "query">>, <<"NATS", "ready", "healthz">>}
  PROVE  WaitsInv(m, c, <<p, q>>) /\ <<p, q>> # <<>>
<1>1. T!PassesIn[q] = {"up"} /\ p # "check" /\ q # "check" /\ m \in {"ScyllaDB", "NATS"}
  BY DEF T!PassesIn
<1> QED BY <1>1 DEF WaitsInv, Elements

LEMMA RenderedWaits ==
  ASSUME NEW m \in All, NEW c \in Builder
  PROVE  WaitsInv(m, c, T!Rendered(m, c).waits)
<1> DEFINE w == T!Rendered(m, c).waits
<1>1. CASE m = "PostgreSQL"
  <2>1. w = T!Default(c, <<"tcp">>)
    BY <1>1 DEF T!Rendered, T!PostgreSQL, T!Copy, T!ReadyProbe
  <2> QED BY <1>1, <2>1, Single, OwnProbes
<1>2. CASE m \in {"MySQL", "MariaDB"}
  <2>1. w = T!Default(c, <<"tcp">>)
    BY <1>2 DEF T!Rendered, T!MySqlFamily, T!Copy, T!ReadyProbe
  <2> QED BY <1>2, <2>1, Single, OwnProbes
<1>3. CASE m = "ClickHouse"
  <2>1. w = T!Default(c, <<"comm", "ping", "native">>)
    BY <1>3 DEF T!Rendered, T!ClickHouse, T!Copy, T!ClickHouseProbes
  <2>2. WaitsInv(m, c, <<"comm", "ping", "native">>)
    BY <1>3 DEF WaitsInv, Elements
  <2> QED BY <1>3, <2>1, <2>2, OwnProbes
<1>4. CASE m = "RabbitMQ"
  <2>1. w = <<"completed", "check">>
    BY <1>4 DEF T!Rendered, T!RabbitMQ, T!Copy, T!BrokerWaits
  <2>2. T!PassesIn["check"] = {"up"}
    BY DEF T!PassesIn
  <2>3. WaitsInv(m, c, <<"completed", "check">>)
    BY <1>4, <2>2 DEF WaitsInv, Elements
  <2> QED BY <2>1, <2>3
<1>5. CASE m = "MinIO"
  <2>1. w = T!Default(c, <<"cluster">>)
    BY <1>5 DEF T!Rendered, T!MinIO, T!Copy
  <2> QED BY <1>5, <2>1, Single, OwnProbes
<1>6. CASE m = "RustFS"
  <2>1. w = T!Default(c, <<"health">>)
    BY <1>6 DEF T!Rendered, T!RustFS, T!Copy
  <2> QED BY <1>6, <2>1, Single, OwnProbes
<1>7. CASE m = "Kafka"
  <2>1. w = <<"sentinel">>
    BY <1>7 DEF T!Rendered, T!Kafka, T!Copy
  <2> QED BY <1>7, <2>1 DEF WaitsInv, Elements
<1>8. CASE m = "OpenSearch"
  <2>1. w = T!Default(c, <<"elected">>)
    BY <1>8 DEF T!Rendered, T!OpenSearch, T!Copy
  <2> QED BY <1>8, <2>1, Single, OwnProbes
<1>9. CASE m = "MongoDB"
  <2>1. w = <<"listening", "port">>
    BY <1>9 DEF T!Rendered, T!MongoDB, T!Copy
  <2> QED BY <1>9, <2>1 DEF WaitsInv, Elements
<1>10. CASE m = "ScyllaDB"
  <2>1. w = T!Default(c, <<"cql", "query">>)
    BY <1>10 DEF T!Rendered, T!ScyllaDB, T!Copy
  <2> QED BY <1>10, <2>1, Double, OwnProbes
<1>11. CASE m = "Redis"
  <2>1. w = <<"pong">>
    BY <1>11 DEF T!Rendered, T!Redis, T!Copy
  <2> QED BY <1>11, <2>1, Single
<1>12. CASE m = "NATS"
  <2>1. w = <<"ready", "healthz">>
    BY <1>12 DEF T!Rendered, T!NATS, T!Copy
  <2> QED BY <1>12, <2>1, Double
<1>13. CASE m = "Mosquitto"
  <2>1. w = <<"running">>
    BY <1>13 DEF T!Rendered, T!Mosquitto, T!Copy
  <2> QED BY <1>13, <2>1, Single
<1> QED BY <1>1, <1>2, <1>3, <1>4, <1>5, <1>6, <1>7, <1>8, <1>9, <1>10, <1>11, <1>12, <1>13 DEF All

\* The labels and files of which an adopting start can tell what the hook has done.
LEMMA RenderedBody ==
  ASSUME NEW m \in All, NEW c \in Builder
  PROVE  /\ m = "Kafka" => T!Rendered(m, c).label = c.extras
         /\ m \in {"MinIO", "RabbitMQ"} => T!Rendered(m, c).label = T!Sorted(c.extras)
         /\ T!Initdb(m) \/ m = "ScyllaDB" => T!Rendered(m, c).files = T!Staged(c.scripts, 0)
<1>1. m = "Kafka" => T!Rendered(m, c).label = c.extras
  BY DEF T!Rendered, T!Kafka, T!Copy, T!TopicsLabel
<1>2. m = "MinIO" => T!Rendered(m, c).label = T!Sorted(c.extras)
  BY DEF T!Rendered, T!MinIO, T!Copy, T!HookLabel
<1>3. m = "RabbitMQ" => T!Rendered(m, c).label = T!Sorted(c.extras)
  BY DEF T!Rendered, T!RabbitMQ, T!Copy, T!HookLabel
<1>4. m = "ScyllaDB" => T!Rendered(m, c).files = T!Staged(c.scripts, 0)
  BY DEF T!Rendered, T!ScyllaDB, T!Copy
<1>5. m = "PostgreSQL" => T!Rendered(m, c).files = T!Staged(c.scripts, 0)
  BY DEF T!Rendered, T!PostgreSQL, T!Copy
<1>6. m \in {"MySQL", "MariaDB"} => T!Rendered(m, c).files = T!Staged(c.scripts, 0)
  BY DEF T!Rendered, T!MySqlFamily, T!Copy
<1>7. m = "ClickHouse" => T!Rendered(m, c).files = T!Staged(c.scripts, 0)
  BY DEF T!Rendered, T!ClickHouse, T!Copy
<1> QED BY <1>1, <1>2, <1>3, <1>4, <1>5, <1>6, <1>7 DEF T!Initdb

\* What the hook is to make, and the steps before it begins.
Wanted(m, c) == IF m = "ScyllaDB" THEN T!Listed(c.scripts) ELSE c.extras
Lead(m) == CASE m = "Kafka" -> 2 [] m = "MinIO" -> 1 [] OTHER -> 0

LEMMA Many ==
  ASSUME NEW m \in All, NEW c \in Builder
  PROVE  Wanted(m, c) \in Seq(Nat) /\ c.extras \in Seq(Nat)
<1>1. c.scripts \in Seq(Script) /\ c.extras \in Seq(Nat)
  BY DEF Builder
<1>2. T!Listed(c.scripts) \in Seq(Nat)
  <2>0. \A j \in 1..Len(c.scripts) : c.scripts[j] \in Script
    BY <1>1
  <2>1. \A j \in 1..Len(c.scripts) : c.scripts[j].name \in Nat
    BY <2>0 DEF Script
  <2>2. /\ T!Listed(c.scripts) = [j \in 1..Len(c.scripts) |-> c.scripts[j].name]
        /\ Len(c.scripts) \in Nat
    BY <1>1 DEF T!Listed
  <2> QED BY <2>1, <2>2
<1> QED BY <1>1, <1>2 DEF Wanted

HookInv(m, c, h) ==
  /\ h \in Seq(Elements(h))
  /\ m \notin {"Kafka", "MongoDB", "MinIO", "RabbitMQ", "ScyllaDB"} => h = <<>>
  /\ m = "Kafka" => Len(h) >= 2 /\ h[1] = <<"copy">> /\ h[2] = <<"follow">>
  /\ m = "MongoDB" => Len(h) = 2 /\ h[1] = <<"initiate">> /\ h[2] = <<"primary">>
  /\ m = "RabbitMQ" => IF c.extras = <<>> THEN h = <<>> ELSE Len(h) = 1 /\ h[1] = <<"enable", c.extras>>
  /\ m = "MinIO" /\ h # <<>> => Len(h) >= 2 /\ h[1] = <<"alias">>
  /\ m \in {"Kafka", "MinIO", "ScyllaDB"} =>
       IF h = <<>> THEN Wanted(m, c) = <<>>
                   ELSE /\ Len(h) = Lead(m) + Len(Wanted(m, c))
                        /\ \A j \in 1..Len(h) : j > Lead(m)
                              => h[j] = <<"make", Wanted(m, c)[j - Lead(m)]>>

LEMMA Making ==
  ASSUME NEW s \in Seq(Nat)
  PROVE  /\ T!Each(s) \in Seq({<<"make", e>> : e \in Nat}) /\ Len(T!Each(s)) = Len(s)
         /\ \A j \in 1..Len(s) : T!Each(s)[j] = <<"make", s[j]>>
BY DEF T!Each

LEMMA Led ==
  ASSUME NEW S, NEW lead \in Seq(S), NEW R, NEW rest \in Seq(R)
  PROVE  /\ lead \o rest \in Seq(Elements(lead \o rest))
         /\ Len(lead \o rest) = Len(lead) + Len(rest) /\ Len(lead) \in Nat /\ Len(rest) \in Nat
         /\ \A j \in 1..Len(lead) : (lead \o rest)[j] = lead[j]
         /\ \A j \in 1..(Len(lead) + Len(rest)) : j > Len(lead)
               => (lead \o rest)[j] = rest[j - Len(lead)]
<1> DEFINE U == S \cup R
<1>1. lead \in Seq(U) /\ rest \in Seq(U)
  OBVIOUS
<1> HIDE DEF U
<1>2. /\ lead \o rest \in Seq(U) /\ Len(lead \o rest) = Len(lead) + Len(rest)
      /\ Len(lead) \in Nat /\ Len(rest) \in Nat
      /\ \A j \in 1..Len(lead) : (lead \o rest)[j] = lead[j]
      /\ \A j \in 1..(Len(lead) + Len(rest)) : j > Len(lead) => (lead \o rest)[j] = rest[j - Len(lead)]
  BY <1>1
<1> DEFINE all == lead \o rest
<1>3. all \in Seq(Elements(all))
  <2>1. all \in Seq(U)
    BY <1>2
  <2> HIDE DEF all
  <2> QED BY <2>1, OwnElements
<1> QED BY <1>2, <1>3

\* A lead and one step for each thing to make.
Leads(h, lead, s) ==
  /\ h \in Seq(Elements(h))
  /\ Len(h) = Len(lead) + Len(s) /\ Len(lead) \in Nat /\ Len(s) \in Nat
  /\ \A j \in 1..Len(lead) : h[j] = lead[j]
  /\ \A j \in 1..Len(h) : j > Len(lead) => h[j] = <<"make", s[j - Len(lead)]>>

LEMMA MakesAll ==
  ASSUME NEW S, NEW lead \in Seq(S), NEW s \in Seq(Nat)
  PROVE  Leads(lead \o T!Each(s), lead, s)
<1> DEFINE h == lead \o T!Each(s)
<1> DEFINE R == {<<"make", e>> : e \in Nat}
           rest == T!Each(s)
<1>1. /\ rest \in Seq(R) /\ Len(rest) = Len(s) /\ Len(s) \in Nat
      /\ \A j \in 1..Len(s) : rest[j] = <<"make", s[j]>>
  BY Making
<1> HIDE DEF R, rest
<1>2. /\ lead \o rest \in Seq(Elements(lead \o rest))
      /\ Len(lead \o rest) = Len(lead) + Len(rest) /\ Len(lead) \in Nat /\ Len(rest) \in Nat
      /\ \A j \in 1..Len(lead) : (lead \o rest)[j] = lead[j]
      /\ \A j \in 1..(Len(lead) + Len(rest)) : j > Len(lead) => (lead \o rest)[j] = rest[j - Len(lead)]
  BY <1>1, Led
<1>3. h = lead \o rest
  BY DEF rest
<1> HIDE DEF h
<1>4. \A j \in 1..Len(h) : j > Len(lead) => h[j] = <<"make", s[j - Len(lead)]>>
  <2> SUFFICES ASSUME NEW j \in 1..Len(h), j > Len(lead) PROVE h[j] = <<"make", s[j - Len(lead)]>>
    OBVIOUS
  <2>1. j \in 1..(Len(lead) + Len(rest)) /\ j - Len(lead) \in 1..Len(s)
    BY <1>1, <1>2, <1>3
  <2> QED BY <1>1, <1>2, <1>3, <2>1
<1>5. h \in Seq(Elements(h))
  BY <1>2, <1>3
<1>6. Leads(h, lead, s)
  BY <1>1, <1>2, <1>3, <1>4, <1>5 DEF Leads
<1> QED BY <1>6 DEF h

LEMMA RenderedHook ==
  ASSUME NEW m \in All, NEW c \in Builder
  PROVE  HookInv(m, c, T!Rendered(m, c).hook)
<1> DEFINE h == T!Rendered(m, c).hook
<1>0. Wanted(m, c) \in Seq(Nat) /\ c.extras \in Seq(Nat)
  BY Many
<1>1. CASE m \notin {"Kafka", "MongoDB", "MinIO", "RabbitMQ", "ScyllaDB"}
  <2>1. h = <<>>
    <3>1. m = "PostgreSQL" => h = <<>>
      BY DEF T!Rendered, T!PostgreSQL, T!Copy
    <3>2. m \in {"MySQL", "MariaDB"} => h = <<>>
      BY DEF T!Rendered, T!MySqlFamily, T!Copy
    <3>3. m = "ClickHouse" => h = <<>>
      BY DEF T!Rendered, T!ClickHouse, T!Copy
    <3>4. m = "RustFS" => h = <<>>
      BY DEF T!Rendered, T!RustFS, T!Copy
    <3>5. m = "OpenSearch" => h = <<>>
      BY DEF T!Rendered, T!OpenSearch, T!Copy
    <3>6. m = "Redis" => h = <<>>
      BY DEF T!Rendered, T!Redis, T!Copy
    <3>7. m = "NATS" => h = <<>>
      BY DEF T!Rendered, T!NATS, T!Copy
    <3>8. m = "Mosquitto" => h = <<>>
      BY DEF T!Rendered, T!Mosquitto, T!Copy
    <3> QED BY <1>1, <3>1, <3>2, <3>3, <3>4, <3>5, <3>6, <3>7, <3>8 DEF All
  <2> HIDE DEF h
  <2>2. h \in Seq(Elements(h))
    BY <2>1
  <2> QED BY <1>1, <2>1, <2>2 DEF HookInv, h
<1>2. CASE m = "MongoDB"
  <2>1. h = <<<<"initiate">>, <<"primary">>>>
    BY <1>2 DEF T!Rendered, T!MongoDB, T!Copy
  <2> HIDE DEF h
  <2>2. h \in Seq(Elements(h)) /\ Len(h) = 2 /\ h[1] = <<"initiate">> /\ h[2] = <<"primary">>
    BY <2>1 DEF Elements
  <2> QED BY <1>2, <2>2 DEF HookInv, h
<1>3. CASE m = "RabbitMQ"
  <2>1. h = IF c.extras = <<>> THEN <<>> ELSE <<<<"enable", c.extras>>>>
    BY <1>3 DEF T!Rendered, T!RabbitMQ, T!Copy
  <2> DEFINE one == <<"enable", c.extras>>
  <2> HIDE DEF h, one
  <2>2. h = IF c.extras = <<>> THEN <<>> ELSE <<one>>
    BY <2>1 DEF one
  <2>3. h \in Seq(Elements(h))
    <3>1. h = <<>> \/ h = <<one>>
      BY <2>2
    <3>2. <<>> \in Seq({one}) /\ <<one>> \in Seq({one})
      OBVIOUS
    <3>3. h \in Seq({one})
      BY <3>1, <3>2, Zenon
    <3> QED BY <3>3, OwnElements
  <2>4. IF c.extras = <<>> THEN h = <<>> ELSE Len(h) = 1 /\ h[1] = one
    BY <2>2
  <2> QED BY <1>3, <2>3, <2>4 DEF HookInv, h, one
<1>4. CASE m = "MinIO"
  <2>1. h = IF c.extras = <<>> THEN <<>> ELSE <<<<"alias">>>> \o T!Each(c.extras)
    BY <1>4 DEF T!Rendered, T!MinIO, T!Copy
  <2>2. Wanted(m, c) = c.extras /\ Lead(m) = 1
    BY <1>4 DEF Wanted, Lead
  <2>3. CASE c.extras = <<>>
    <3>1. h = <<>>
      BY <2>1, <2>3
    <3> HIDE DEF h
    <3>2. h \in Seq(Elements(h))
      BY <3>1
    <3> QED BY <1>4, <2>2, <2>3, <3>1, <3>2 DEF HookInv, h
  <2>4. CASE c.extras # <<>>
    <3> DEFINE S == {<<"alias">>}
               lead == <<<<"alias">>>>
    <3>1. lead \in Seq(S) /\ Len(lead) = 1 /\ lead[1] = <<"alias">>
      OBVIOUS
    <3>2. h = lead \o T!Each(c.extras)
      BY <2>1, <2>4
    <3> HIDE DEF h, lead, S
    <3>0. lead \in Seq(S) /\ c.extras \in Seq(Nat)
      BY <1>0, <3>1
    <3>3. /\ h \in Seq(Elements(h))
          /\ Len(h) = Len(lead) + Len(c.extras) /\ Len(lead) \in Nat /\ Len(c.extras) \in Nat
          /\ \A j \in 1..Len(lead) : h[j] = lead[j]
          /\ \A j \in 1..Len(h) : j > Len(lead) => h[j] = <<"make", c.extras[j - Len(lead)]>>
      <4>1. Leads(lead \o T!Each(c.extras), lead, c.extras)
        BY <3>0, MakesAll
      <4> QED BY <3>2, <4>1 DEF Leads
    <3>4. Len(c.extras) >= 1
      BY <1>0, <2>4
    <3>5. h # <<>> /\ Len(h) >= 2 /\ h[1] = <<"alias">>
      BY <3>1, <3>3, <3>4
    <3>6. Len(h) = 1 + Len(c.extras) /\ \A j \in 1..Len(h) : j > 1 => h[j] = <<"make", c.extras[j - 1]>>
      BY <3>1, <3>3
    <3> QED BY <1>4, <2>2, <3>3, <3>5, <3>6 DEF HookInv, h
  <2> QED BY <2>3, <2>4
<1>5. CASE m = "Kafka"
  <2> DEFINE S == {<<"copy">>, <<"follow">>}
             lead == <<<<"copy">>, <<"follow">>>>
  <2>1. lead \in Seq(S) /\ Len(lead) = 2 /\ lead[1] = <<"copy">> /\ lead[2] = <<"follow">>
    OBVIOUS
  <2>2. h = lead \o T!Each(c.extras)
    BY <1>5 DEF T!Rendered, T!Kafka, T!Copy
  <2>3. Wanted(m, c) = c.extras /\ Lead(m) = 2
    BY <1>5 DEF Wanted, Lead
  <2> HIDE DEF h, lead, S
  <2>0. lead \in Seq(S) /\ c.extras \in Seq(Nat)
    BY <1>0, <2>1
  <2>4. /\ h \in Seq(Elements(h))
        /\ Len(h) = Len(lead) + Len(c.extras) /\ Len(lead) \in Nat /\ Len(c.extras) \in Nat
        /\ \A j \in 1..Len(lead) : h[j] = lead[j]
        /\ \A j \in 1..Len(h) : j > Len(lead) => h[j] = <<"make", c.extras[j - Len(lead)]>>
    <3>1. Leads(lead \o T!Each(c.extras), lead, c.extras)
      BY <2>0, MakesAll
    <3> QED BY <2>2, <3>1 DEF Leads
  <2>5. h # <<>> /\ Len(h) >= 2 /\ h[1] = <<"copy">> /\ h[2] = <<"follow">>
    BY <2>1, <2>4
  <2>6. Len(h) = 2 + Len(c.extras) /\ \A j \in 1..Len(h) : j > 2 => h[j] = <<"make", c.extras[j - 2]>>
    BY <2>1, <2>4
  <2> QED BY <1>5, <2>3, <2>4, <2>5, <2>6 DEF HookInv, h
<1>6. CASE m = "ScyllaDB"
  <2> DEFINE w == T!Listed(c.scripts)
  <2>1. h = T!Each(w)
    BY <1>6 DEF T!Rendered, T!ScyllaDB, T!Copy, T!Listed
  <2>2. Wanted(m, c) = w /\ Lead(m) = 0 /\ w \in Seq(Nat)
    BY <1>0, <1>6 DEF Wanted, Lead
  <2> HIDE DEF h, w
  <2>3. /\ h \in Seq({<<"make", e>> : e \in Nat}) /\ Len(h) = Len(w) /\ Len(w) \in Nat
        /\ \A j \in 1..Len(w) : h[j] = <<"make", w[j]>>
    BY <2>1, <2>2, Making
  <2>4. h \in Seq(Elements(h))
    BY <2>3, OwnElements
  <2>5. h = <<>> => w = <<>>
    BY <2>2, <2>3
  <2>6. Len(h) = 0 + Len(w) /\ \A j \in 1..Len(h) : j > 0 => h[j] = <<"make", w[j - 0]>>
    BY <2>2, <2>3
  <2> QED BY <1>6, <2>2, <2>4, <2>5, <2>6 DEF HookInv, h
<1> QED BY <1>1, <1>2, <1>3, <1>4, <1>5, <1>6

-----------------------------------------------------------------------------
(* The getters describe what was rendered.                                 *)

Silent(env, key)       == env \in Pairs /\ ~T!Has(env, key)
Says(env, key, value)  == env \in Pairs /\ T!Has(env, key) /\ T!LastOf(env, key) = value
Gives(env, key, value) == IF value = "" THEN Silent(env, key) ELSE Says(env, key, value)

LEMMA SaysOne ==
  ASSUME NEW key \in Word, NEW value \in Word
  PROVE  /\ Says(T!Pair(key, value), key, value) /\ T!Pair(key, value) \in Pairs
         /\ \A other : other # key => Silent(T!Pair(key, value), other)
<1> DEFINE nil == <<>>
           one == T!Pair(key, value)
<1>0. nil \in Pairs
  BY DEF Pairs
<1> HIDE DEF nil
<1>1. one \in Pairs
  BY <1>0, LastWins
<1>2. T!LastOf(nil \o one, key) = value /\ T!Has(nil \o one, key)
  BY <1>0, LastWins
<1> HIDE DEF one
<1>3. nil \o one = one
  BY <1>1 DEF Pairs, nil
<1>4. \A other : other # key => ~T!Has(one, other)
  BY <1>0, LastWins DEF one
<1>5. T!LastOf(one, key) = value /\ T!Has(one, key)
  BY <1>2, <1>3
<1> QED BY <1>1, <1>4, <1>5 DEF Says, Silent, one

LEMMA SaysGiven ==
  ASSUME NEW key \in Word, NEW value \in Word
  PROVE  /\ Gives(T!Given(key, value), key, value) /\ T!Given(key, value) \in Pairs
         /\ \A other : other # key => Silent(T!Given(key, value), other)
<1>1. CASE value = ""
  <2>1. T!Given(key, value) = <<>>
    BY <1>1 DEF T!Given
  <2>2. <<>> \in Pairs /\ \A other : ~T!Has(<<>>, other)
    BY DEF Pairs, T!Has
  <2> QED BY <1>1, <2>1, <2>2 DEF Gives, Silent
<1>2. CASE value # ""
  BY <1>2, SaysOne DEF T!Given, Gives
<1> QED BY <1>1, <1>2

\* What follows on other keys changes nothing, and what follows on the key wins.
LEMMA SaysStill ==
  ASSUME NEW env, NEW more, NEW key, NEW value, Silent(more, key)
  PROVE  /\ Says(env, key, value) => Says(env \o more, key, value)
         /\ Silent(env, key) => Silent(env \o more, key)
BY LastStays DEF Says, Silent

LEMMA SaysLast ==
  ASSUME NEW env \in Pairs, NEW more, NEW key, NEW value, Says(more, key, value)
  PROVE  Says(env \o more, key, value)
<1> DEFINE all == env \o more
           S == {k \in 1..Len(more) : more[k][1] = key}
<1>1. more \in Pairs /\ T!Has(more, key) /\ T!LastOf(more, key) = value
  BY DEF Says
<1>2. /\ all \in Pairs
      /\ DOMAIN env = 1..Len(env) /\ DOMAIN more = 1..Len(more)
      /\ DOMAIN all = 1..(Len(env) + Len(more))
      /\ Len(env) \in Nat /\ Len(more) \in Nat
      /\ \A j \in 1..(Len(env) + Len(more)) : j > Len(env) => all[j] = more[j - Len(env)]
  BY <1>1, Joined
<1> HIDE DEF all
<1>3. S # {} /\ S \in SUBSET (1..Len(more))
  BY <1>1, <1>2 DEF T!Has
<1>4. PICK j \in S : \A k \in S : k <= j
  <2> HIDE DEF S
  <2> QED BY <1>2, <1>3, Greatest
<1>5. value = more[j][2]
  BY <1>1, <1>2, <1>4, LastIs
<1> DEFINE at == Len(env) + j
<1>6. at \in DOMAIN all /\ all[at] = more[j] /\ all[at][1] = key
  BY <1>2, <1>4
<1>7. ASSUME NEW k \in DOMAIN all, all[k][1] = key PROVE k <= at
  <2>1. CASE k <= Len(env)
    BY <1>2, <1>4, <2>1
  <2>2. CASE k > Len(env)
    <3>1. k - Len(env) \in S
      BY <1>2, <1>7, <2>2
    <3>2. k - Len(env) <= j
      BY <1>4, <3>1
    <3> QED BY <1>2, <1>4, <3>2
  <2> QED BY <1>2, <2>1, <2>2
<1> HIDE DEF at
<1>8. T!LastOf(all, key) = all[at][2]
  BY <1>2, <1>6, <1>7, LastIs
<1>9. T!Has(all, key)
  BY <1>6 DEF T!Has
<1> QED BY <1>2, <1>5, <1>6, <1>8, <1>9 DEF Says, all

LEMMA GivesStill ==
  ASSUME NEW env, NEW more, NEW key, NEW value, Silent(more, key), Gives(env, key, value)
  PROVE  Gives(env \o more, key, value)
BY SaysStill DEF Gives

LEMMA GivesLast ==
  ASSUME NEW env, NEW more, NEW key, NEW value, Silent(env, key), Gives(more, key, value)
  PROVE  Gives(env \o more, key, value)
<1>1. CASE value = ""
  BY <1>1, SaysStill DEF Gives
<1>2. CASE value # ""
  <2>1. env \in Pairs /\ Says(more, key, value)
    BY <1>2 DEF Silent, Gives
  <2> QED BY <1>2, <2>1, SaysLast DEF Gives
<1> QED BY <1>1, <1>2

LEMMA GivenRead ==
  ASSUME NEW env, NEW key, NEW value, Gives(env, key, value)
  PROVE  T!LastOf(env, key) = value
BY NoneIs DEF Gives, Says, Silent

\* The account that goes last in the environment.
LEMMA TrioRead ==
  ASSUME NEW env \in Pairs, NEW c \in Builder
  PROVE  /\ T!LastOf(T!PutLast(env, T!Trio(c)), "user") = c.user
         /\ T!LastOf(T!PutLast(env, T!Trio(c)), "pass") = c.pass
         /\ T!LastOf(T!PutLast(env, T!Trio(c)), "name") = c.name
<1>1. /\ c.user \in Word /\ c.pass \in Word /\ c.name \in Word /\ "user" \in Word
      /\ "pass" \in Word /\ "name" \in Word
  BY DEF Builder, Word
<1> DEFINE u == T!Pair("user", c.user)
           p == T!Pair("pass", c.pass)
           n == T!Pair("name", c.name)
<1>2. /\ Says(u, "user", c.user) /\ Silent(p, "user") /\ Silent(n, "user")
      /\ Says(p, "pass", c.pass) /\ Silent(n, "pass") /\ u \in Pairs
      /\ Says(n, "name", c.name) /\ Silent(u, "name") /\ Silent(p, "name")
  BY <1>1, SaysOne
<1>3. T!PutLast(env, T!Trio(c)) = env \o ((u \o p) \o n)
  BY DEF T!PutLast, T!Trio
<1> HIDE DEF u, p, n
<1>4. Says(u \o p, "user", c.user) /\ Says(u \o p, "pass", c.pass) /\ Silent(u \o p, "name")
  BY <1>2, SaysStill, SaysLast
<1>5. u \o p \in Pairs
  BY <1>4 DEF Says
<1>6. /\ Says((u \o p) \o n, "user", c.user) /\ Says((u \o p) \o n, "pass", c.pass)
      /\ Says((u \o p) \o n, "name", c.name)
  BY <1>2, <1>4, <1>5, SaysStill, SaysLast
<1> DEFINE own == (u \o p) \o n
<1> HIDE DEF own
<1>7. /\ Says(env \o own, "user", c.user) /\ Says(env \o own, "pass", c.pass)
      /\ Says(env \o own, "name", c.name)
  BY <1>6, SaysLast DEF own
<1> QED BY <1>3, <1>7 DEF Says, own

LEMMA DuoRead ==
  ASSUME NEW env \in Pairs, NEW c \in Builder
  PROVE  /\ T!LastOf(T!PutLast(env, T!Pair("user", c.user) \o T!Pair("pass", c.pass)), "user") = c.user
         /\ T!LastOf(T!PutLast(env, T!Pair("user", c.user) \o T!Pair("pass", c.pass)), "pass") = c.pass
<1>1. c.user \in Word /\ c.pass \in Word /\ "user" \in Word /\ "pass" \in Word
  BY DEF Builder, Word
<1> DEFINE u == T!Pair("user", c.user)
           p == T!Pair("pass", c.pass)
<1>2. Says(u, "user", c.user) /\ Silent(p, "user") /\ Says(p, "pass", c.pass) /\ u \in Pairs
  BY <1>1, SaysOne
<1>3. T!PutLast(env, T!Pair("user", c.user) \o T!Pair("pass", c.pass)) = env \o (u \o p)
  BY DEF T!PutLast
<1> HIDE DEF u, p
<1>4. Says(u \o p, "user", c.user) /\ Says(u \o p, "pass", c.pass)
  BY <1>2, SaysStill, SaysLast
<1> DEFINE own == u \o p
<1> HIDE DEF own
<1>5. Says(env \o own, "user", c.user) /\ Says(env \o own, "pass", c.pass)
  BY <1>4, SaysLast DEF own
<1> QED BY <1>3, <1>5 DEF Says, own

\* A raw root password next to a passwordless root: no key of the module's own wins over it.
RawRoot(m, c) ==
  m \in {"MySQL", "MariaDB"} /\ c.user = "root" /\ c.pass = "" /\ T!Has(c.env, "rootpass")

\* Every other builder: with the values of its getters a client is let in, to what they name, and
\* the ports they name are published.
Described(m, c) ==
  /\ T!LetsIn(m, T!Handle(m, c), T!Body(T!Rendered(m, c)))
  /\ T!Handle(m, c).ports \subseteq T!Body(T!Rendered(m, c)).ports

LEMMA PostgreSQLDescribed ==
  ASSUME NEW c \in Builder, T!PostgreSQL(c).ok
  PROVE  Described("PostgreSQL", c)
<1> DEFINE m == "PostgreSQL"
           env == T!Rendered(m, c).env
           u == T!Pair("user", c.user)
           p == T!Given("pass", c.pass)
           n == T!Pair("name", c.name)
<1>1. env = c.env \o ((u \o p) \o n)
  BY DEF T!Rendered, T!PostgreSQL, T!Copy, T!PutLast
<1>2. c.env \in Pairs /\ c.user \in Word /\ c.pass \in Word /\ c.name \in Word
      /\ "user" \in Word /\ "pass" \in Word /\ "name" \in Word
  BY DEF Builder, Word
<1>3. /\ Says(u, "user", c.user) /\ Silent(p, "user") /\ Silent(n, "user")
      /\ Gives(p, "pass", c.pass) /\ Silent(u, "pass") /\ Silent(n, "pass") /\ u \in Pairs
      /\ Says(n, "name", c.name)
      /\ Silent(u, "auth") /\ Silent(p, "auth") /\ Silent(n, "auth")
  BY <1>2, SaysOne, SaysGiven
<1>4. c.pass # "" \/ T!LastOf(c.env, "auth") = "trust"
  BY DEF T!PostgreSQL, T!Copy
<1>5. /\ T!Handle(m, c).user = c.user /\ T!Handle(m, c).pass = c.pass
      /\ T!Handle(m, c).name = c.name
      /\ T!Handle(m, c).ports = {"client"} /\ T!Body(T!Rendered(m, c)).ports = {"client"}
      /\ T!Body(T!Rendered(m, c)).env = env
  BY DEF T!Handle, T!PostgreSQLHandle, T!Body, T!Rendered, T!PostgreSQL, T!Copy
<1> HIDE DEF u, p, n, env
<1>6. /\ Says(u \o p, "user", c.user) /\ Gives(u \o p, "pass", c.pass)
      /\ Silent(u \o p, "auth") /\ u \o p \in Pairs
  BY ZenonT(60), <1>3, SaysStill, GivesLast DEF Says
<1> DEFINE own == (u \o p) \o n
<1>7. /\ Says(own, "user", c.user) /\ Gives(own, "pass", c.pass) /\ Says(own, "name", c.name)
      /\ Silent(own, "auth") /\ own \in Pairs
  <2>1. Says(own, "user", c.user) /\ Silent(own, "auth")
    BY <1>3, <1>6, SaysStill
  <2>2. Gives(own, "pass", c.pass)
    BY <1>3, <1>6, GivesStill
  <2>3. Says(own, "name", c.name)
    BY <1>3, <1>6, SaysLast
  <2> HIDE DEF own
  <2> QED BY <2>1, <2>2, <2>3 DEF Silent
<1> HIDE DEF own
<1>8. Says(env, "user", c.user) /\ Says(env, "name", c.name)
  BY <1>1, <1>2, <1>7, SaysLast DEF own
<1>9. T!LastOf(env, "auth") = "trust" \/ c.pass = T!LastOf(env, "pass")
  <2>1. CASE c.pass = ""
    <3>1. T!LastOf(c.env \o own, "auth") = T!LastOf(c.env, "auth")
      BY <1>2, <1>7, LastStays DEF Silent
    <3> QED BY <1>1, <1>4, <2>1, <3>1 DEF own
  <2>2. CASE c.pass # ""
    BY ZenonT(60), <1>1, <1>2, <1>7, <2>2, SaysLast DEF Gives, Says, own
  <2> QED BY <2>1, <2>2
<1>10. T!LetsIn(m, T!Handle(m, c), T!Body(T!Rendered(m, c)))
  BY <1>5, <1>8, <1>9 DEF T!LetsIn, Says
<1> QED BY <1>5, <1>10 DEF Described

LEMMA MySqlDescribed ==
  ASSUME NEW m \in {"MySQL", "MariaDB"}, NEW c \in Builder, Sane(m, c), T!MySqlFamily(c).ok,
         ~RawRoot(m, c)
  PROVE  Described(m, c)
<1> DEFINE env == T!Rendered(m, c).env
           u == T!Pair("user", c.user)
           p == T!Pair("pass", c.pass)
           r == T!Pair("rootpass", c.pass)
           n == T!Given("name", c.name)
<1>1. env = c.env \o ((IF ~T!IsRoot(c.user) THEN (u \o p) \o r
                       ELSE IF c.pass # "" THEN r ELSE T!Pair("empty", "yes")) \o n)
  BY DEF T!Rendered, T!MySqlFamily, T!Copy, T!PutLast
<1>2. c.env \in Pairs /\ c.user \in Word /\ c.pass \in Word /\ c.name \in Word
      /\ "user" \in Word /\ "pass" \in Word /\ "name" \in Word /\ "rootpass" \in Word
      /\ "empty" \in Word /\ "yes" \in Word
  BY ZenonT(60) DEF Builder, Word
<1>3. /\ Says(u, "user", c.user) /\ Silent(p, "user") /\ Silent(r, "user") /\ Silent(n, "user")
      /\ Says(p, "pass", c.pass) /\ Silent(r, "pass") /\ Silent(n, "pass") /\ u \in Pairs
      /\ p \in Pairs /\ r \in Pairs
      /\ Says(r, "rootpass", c.pass) /\ Silent(n, "rootpass")
      /\ Silent(T!Pair("empty", "yes"), "rootpass")
      /\ Gives(n, "name", c.name) /\ T!Pair("empty", "yes") \in Pairs
  BY <1>2, SaysOne, SaysGiven
<1>4. c.user # "Root" /\ (c.user = "root" /\ c.pass = "" => ~T!Has(c.env, "rootpass"))
  BY DEF Sane, RawRoot
<1>5. /\ T!Handle(m, c).user = c.user /\ T!Handle(m, c).pass = c.pass
      /\ T!Handle(m, c).name = c.name
      /\ T!Handle(m, c).ports = {"client"} /\ T!Body(T!Rendered(m, c)).ports = {"client"}
      /\ T!Body(T!Rendered(m, c)).env = env
  BY DEF T!Handle, T!MySQLHandle, T!MariaDBHandle, T!Body, T!Rendered, T!MySqlFamily, T!Copy
<1> HIDE DEF u, p, r, n, env
<1> DEFINE account == IF ~T!IsRoot(c.user) THEN (u \o p) \o r
                      ELSE IF c.pass # "" THEN r ELSE T!Pair("empty", "yes")
<1>6. u \o p \in Pairs /\ Says(u \o p, "user", c.user) /\ Says(u \o p, "pass", c.pass)
  <2>1. Says(u \o p, "user", c.user)
    BY <1>3, SaysStill
  <2>2. Says(u \o p, "pass", c.pass)
    BY <1>3, SaysLast
  <2> QED BY <2>1, <2>2 DEF Says
<1>7. CASE ~T!IsRoot(c.user)
  <2>1. account = (u \o p) \o r
    BY <1>7
  <2>2. Says((u \o p) \o r, "user", c.user) /\ Says((u \o p) \o r, "pass", c.pass)
    BY <1>3, <1>6, SaysStill
  <2> HIDE DEF account
  <2>3. account \in Pairs /\ Says(account, "user", c.user) /\ Says(account, "pass", c.pass)
    BY <2>1, <2>2 DEF Says
  <2> DEFINE own == account \o n
  <2>4. Says(own, "user", c.user) /\ Says(own, "pass", c.pass)
          /\ (c.name # "" => Says(own, "name", c.name))
    BY <1>3, <2>3, SaysStill, SaysLast DEF Gives
  <2>5. env = c.env \o own
    BY <1>1 DEF account
  <2> HIDE DEF own
  <2>6. Says(env, "user", c.user) /\ Says(env, "pass", c.pass)
          /\ (c.name # "" => Says(env, "name", c.name))
    BY <1>2, <2>4, <2>5, SaysLast
  <2>7. c.user # "root"
    BY <1>7 DEF T!IsRoot
  <2>8. T!LetsIn(m, T!Handle(m, c), T!Body(T!Rendered(m, c)))
    BY <1>5, <2>6, <2>7 DEF T!LetsIn, Says
  <2> QED BY <1>5, <2>8 DEF Described
<1>8. CASE T!IsRoot(c.user)
  <2>1. c.user = "root"
    BY <1>4, <1>8 DEF T!IsRoot
  <2>2. account \in Pairs
          /\ (IF c.pass # "" THEN Says(account, "rootpass", c.pass) ELSE Silent(account, "rootpass"))
    BY <1>3, <1>8
  <2>3. Gives(account, "rootpass", c.pass)
    <3> HIDE DEF account
    <3> QED BY <2>2 DEF Gives
  <2>5. env = c.env \o (account \o n)
    BY <1>1 DEF account
  <2> HIDE DEF account
  <2> DEFINE own == account \o n
  <2>4. Gives(own, "rootpass", c.pass) /\ (c.name # "" => Says(own, "name", c.name))
    BY <1>3, <2>2, <2>3, GivesStill, SaysLast DEF Gives
  <2> HIDE DEF own
  <2>6. c.pass = "" => Silent(c.env, "rootpass")
    BY <1>2, <1>4, <2>1 DEF Silent
  <2>7. Gives(env, "rootpass", c.pass) /\ (c.name # "" => Says(env, "name", c.name))
    <3>1. c.pass = "" => Gives(c.env \o own, "rootpass", c.pass)
      BY <2>4, <2>6, GivesLast
    <3>2. c.pass # "" => Gives(c.env \o own, "rootpass", c.pass)
      BY <1>2, <2>4, SaysLast DEF Gives
    <3>3. c.name # "" => Says(c.env \o own, "name", c.name)
      BY <1>2, <2>4, SaysLast
    <3> QED BY <2>5, <3>1, <3>2, <3>3 DEF own
  <2>8. T!LastOf(env, "rootpass") = c.pass
    BY <2>7, GivenRead
  <2>9. T!LetsIn(m, T!Handle(m, c), T!Body(T!Rendered(m, c)))
    BY <1>5, <2>1, <2>7, <2>8 DEF T!LetsIn, Says
  <2> QED BY <1>5, <2>9 DEF Described
<1> QED BY <1>7, <1>8

LEMMA ClickHouseDescribed ==
  ASSUME NEW c \in Builder
  PROVE  Described("ClickHouse", c)
<1> DEFINE m == "ClickHouse"
<1>1. /\ T!Handle(m, c).user = c.user /\ T!Handle(m, c).pass = c.pass
      /\ T!Handle(m, c).name = c.name
      /\ T!Handle(m, c).ports = {"http", "native"}
      /\ T!Body(T!Rendered(m, c)).ports = {"http", "native"}
      /\ T!Body(T!Rendered(m, c)).env = T!PutLast(c.env, T!Trio(c))
  BY DEF T!Handle, T!ClickHouseHandle, T!Body, T!Rendered, T!ClickHouse, T!Copy
<1>2. c.env \in Pairs
  BY DEF Builder
<1>3. T!LetsIn(m, T!Handle(m, c), T!Body(T!Rendered(m, c)))
  BY <1>1, <1>2, TrioRead DEF T!LetsIn
<1> QED BY <1>1, <1>3 DEF Described

LEMMA RabbitMQDescribed ==
  ASSUME NEW c \in Builder
  PROVE  Described("RabbitMQ", c)
<1> DEFINE m == "RabbitMQ"
           h == T!Handle(m, c)
           b == T!Body(T!Rendered(m, c))
<1>1. /\ h.user = c.user /\ h.pass = c.pass /\ h.name = c.name
      /\ h.ports = {"amqp", "management"} /\ b.ports = {"amqp", "management"}
      /\ b.env = T!PutLast(c.env, T!Trio(c))
      /\ b.files = IF c.scripts = <<>> THEN <<>> ELSE <<T!Seed(c)>> \o T!Staged(c.scripts, 500)
  BY DEF T!Handle, T!RabbitMQHandle, T!Body, T!Rendered, T!RabbitMQ, T!Copy
<1>2. c.env \in Pairs /\ c.scripts \in Seq(Script)
  BY DEF Builder
<1> HIDE DEF h, b
<1>3. CASE c.scripts = <<>>
  BY <1>1, <1>2, <1>3, TrioRead DEF T!LetsIn, Described, h, b
<1>4. CASE c.scripts # <<>>
  <2> DEFINE seed == T!Seed(c)
             rest == T!Staged(c.scripts, 500)
             V == {rest[j] : j \in 1..Len(c.scripts)}
  <2>1. rest \in Seq(V) /\ Len(c.scripts) \in Nat
    <3>1. DOMAIN c.scripts = 1..Len(c.scripts) /\ Len(c.scripts) \in Nat
      BY <1>2
    <3>2. rest = [j \in 1..Len(c.scripts) |-> rest[j]]
      BY <3>1 DEF T!Staged
    <3> HIDE DEF rest
    <3>3. \A j \in 1..Len(c.scripts) : rest[j] \in V
      OBVIOUS
    <3> HIDE DEF V
    <3> QED BY <3>1, <3>2, <3>3
  <2>2. seed.name = 0 /\ seed.user = c.user /\ seed.pass = c.pass
    BY DEF T!Seed
  <2> HIDE DEF seed, rest, V
  <2> DEFINE all == <<seed>> \o rest
  <2>3. 1 \in DOMAIN all /\ all[1] = seed
    <3> DEFINE U == V \cup {seed}
    <3>1. <<seed>> \in Seq(U) /\ rest \in Seq(U) /\ Len(<<seed>>) = 1
      BY <2>1
    <3> HIDE DEF U
    <3> QED BY <3>1
  <2> HIDE DEF all
  <2>4. b.files = all
    BY <1>1, <1>4 DEF all, seed, rest
  <2>5. \E j \in DOMAIN b.files : b.files[j].name = 0 /\ b.files[j].user = h.user
          /\ b.files[j].pass = h.pass
    <3>1. /\ 1 \in DOMAIN b.files /\ b.files[1].name = 0 /\ b.files[1].user = h.user
          /\ b.files[1].pass = h.pass
      BY <1>1, <2>2, <2>3, <2>4
    <3> QED BY <3>1
  <2>6. T!LetsIn(m, h, b)
    BY <2>5 DEF T!LetsIn
  <2> QED BY <1>1, <2>6 DEF Described, h, b
<1> QED BY <1>3, <1>4

LEMMA StoresDescribed ==
  ASSUME NEW m \in {"MinIO", "RustFS"}, NEW c \in Builder
  PROVE  Described(m, c)
<1>1. /\ T!Handle(m, c).user = c.user /\ T!Handle(m, c).pass = c.pass
      /\ T!Handle(m, c).ports = {"s3", "console"}
      /\ T!Body(T!Rendered(m, c)).ports = {"s3", "console"}
      /\ T!Body(T!Rendered(m, c)).env = T!PutLast(c.env, T!Pair("user", c.user) \o T!Pair("pass", c.pass))
  <2>1. CASE m = "MinIO"
    BY <2>1 DEF T!Handle, T!MinIOHandle, T!Body, T!Rendered, T!MinIO, T!Copy
  <2>2. CASE m = "RustFS"
    BY <2>2 DEF T!Handle, T!RustFSHandle, T!Body, T!Rendered, T!RustFS, T!Copy
  <2> QED BY <2>1, <2>2
<1>2. c.env \in Pairs
  BY DEF Builder
<1>3. T!LetsIn(m, T!Handle(m, c), T!Body(T!Rendered(m, c)))
  BY <1>1, <1>2, DuoRead DEF T!LetsIn
<1> QED BY <1>1, <1>3 DEF Described

LEMMA KafkaDescribed ==
  ASSUME NEW c \in Builder, Sane("Kafka", c)
  PROVE  Described("Kafka", c)
<1> DEFINE m == "Kafka"
           n == T!Pair("name", c.name)
           t == T!Pair("tuning", "default")
<1>1. /\ T!Handle(m, c).name = c.name /\ T!Handle(m, c).ports = {"client"}
      /\ T!Body(T!Rendered(m, c)).ports = {"client"}
      /\ T!Body(T!Rendered(m, c)).env = (n \o t) \o c.env
  BY DEF T!Handle, T!KafkaHandle, T!Body, T!Rendered, T!Kafka, T!Copy, T!PutFirst, T!KafkaEnv
<1>2. /\ c.env \in Pairs /\ c.name \in Word /\ "name" \in Word /\ "tuning" \in Word
      /\ "default" \in Word
  BY DEF Builder, Word
<1>3. Says(n, "name", c.name) /\ Silent(t, "name") /\ Silent(c.env, "name")
  BY <1>2, SaysOne DEF Sane, Silent
<1> HIDE DEF n, t
<1>4. Says(n \o t, "name", c.name)
  BY <1>3, SaysStill
<1>5. Says((n \o t) \o c.env, "name", c.name)
  BY <1>3, <1>4, SaysStill
<1>6. T!LetsIn(m, T!Handle(m, c), T!Body(T!Rendered(m, c)))
  BY <1>1, <1>5 DEF T!LetsIn, Says
<1> QED BY <1>1, <1>6 DEF Described

LEMMA ScyllaDescribed ==
  ASSUME NEW c \in Builder, Sane("ScyllaDB", c)
  PROVE  Described("ScyllaDB", c)
<1> DEFINE m == "ScyllaDB"
           s == T!Pair("smp", "1")
           n == T!Pair("name", c.name)
           center == IF c.name = "unset" THEN <<>> ELSE n
<1>1. /\ T!Handle(m, c).name = (IF c.name = "unset" THEN "datacenter1" ELSE c.name)
      /\ T!Handle(m, c).ports = {"client"} /\ T!Body(T!Rendered(m, c)).ports = {"client"}
      /\ T!Body(T!Rendered(m, c)).cmd = (s \o center) \o c.args
  BY DEF T!Handle, T!ScyllaDBHandle, T!Body, T!Rendered, T!ScyllaDB, T!Copy
<1>2. c.args \in Pairs /\ c.name \in Word /\ "name" \in Word /\ "smp" \in Word /\ "1" \in Word
  BY DEF Builder, Word
<1>3. Says(n, "name", c.name) /\ Silent(s, "name") /\ Silent(c.args, "name") /\ s \in Pairs
  BY <1>2, SaysOne DEF Sane, Silent
<1>4. <<>> \in Pairs /\ ~T!Has(<<>>, "name")
  BY DEF Pairs, T!Has
<1>5. IF c.name = "unset" THEN Silent(center, "name") ELSE Says(center, "name", c.name)
  BY <1>3, <1>4 DEF Silent
<1> HIDE DEF n, s, center
<1>6. IF c.name = "unset" THEN Silent(s \o center, "name") ELSE Says(s \o center, "name", c.name)
  BY <1>3, <1>5, SaysStill, SaysLast
<1> DEFINE lead == s \o center
<1> HIDE DEF lead
<1>7. IF c.name = "unset" THEN Silent(lead \o c.args, "name") ELSE Says(lead \o c.args, "name", c.name)
  BY <1>3, <1>6, SaysStill DEF lead
<1>8. T!LetsIn(m, T!Handle(m, c), T!Body(T!Rendered(m, c)))
  BY <1>1, <1>7 DEF T!LetsIn, Says, Silent, lead
<1> QED BY <1>1, <1>8 DEF Described

LEMMA MongoDescribed ==
  ASSUME NEW c \in Builder
  PROVE  Described("MongoDB", c)
<1> DEFINE m == "MongoDB"
<1>1. /\ T!Handle(m, c).name = c.name /\ T!Handle(m, c).ports = {"client"}
      /\ T!Body(T!Rendered(m, c)).ports = {"client"}
      /\ T!Body(T!Rendered(m, c)).cmd = T!Pair("name", c.name)
  BY DEF T!Handle, T!MongoDBHandle, T!Body, T!Rendered, T!MongoDB, T!Copy
<1>2. c.name \in Word /\ "name" \in Word
  BY DEF Builder, Word
<1>3. Says(T!Pair("name", c.name), "name", c.name)
  BY <1>2, SaysOne
<1>4. T!LetsIn(m, T!Handle(m, c), T!Body(T!Rendered(m, c)))
  BY <1>1, <1>3 DEF T!LetsIn, Says
<1> QED BY <1>1, <1>4 DEF Described

LEMMA RedisDescribed ==
  ASSUME NEW c \in Builder, Sane("Redis", c)
  PROVE  Described("Redis", c)
<1> DEFINE m == "Redis"
           p == T!Given("pass", c.pass)
<1>1. /\ T!Handle(m, c).user = "" /\ T!Handle(m, c).pass = c.pass
      /\ T!Handle(m, c).ports = {"client"} /\ T!Body(T!Rendered(m, c)).ports = {"client"}
      /\ T!Body(T!Rendered(m, c)).cmd = p \o c.args
  BY DEF T!Handle, T!RedisHandle, T!Body, T!Rendered, T!Redis, T!Copy
<1>2. c.args \in Pairs /\ c.pass \in Word /\ "pass" \in Word
  BY DEF Builder, Word
<1>3. Gives(p, "pass", c.pass) /\ Silent(p, "user")
  BY <1>2, SaysGiven
<1>4. Silent(c.args, "user") /\ Silent(c.args, "pass")
  BY <1>2 DEF Sane, Silent
<1> HIDE DEF p
<1>5. Gives(p \o c.args, "pass", c.pass) /\ Silent(p \o c.args, "user")
  BY <1>3, <1>4, GivesStill, SaysStill
<1>6. T!LastOf(p \o c.args, "pass") = c.pass /\ T!LastOf(p \o c.args, "user") = ""
  BY <1>5, GivenRead, NoneIs DEF Silent
<1>7. T!LetsIn(m, T!Handle(m, c), T!Body(T!Rendered(m, c)))
  BY <1>1, <1>6 DEF T!LetsIn
<1> QED BY <1>1, <1>7 DEF Described

LEMMA NATSDescribed ==
  ASSUME NEW c \in Builder, T!NATS(c).ok
  PROVE  Described("NATS", c)
<1> DEFINE m == "NATS"
           h == T!Pair("http_port", "8222")
           u == T!Given("user", c.user)
           p == T!Given("pass", c.pass)
<1>1. /\ T!Handle(m, c).user = c.user /\ T!Handle(m, c).pass = c.pass
      /\ T!Handle(m, c).ports = {"client", "monitoring"}
      /\ T!Body(T!Rendered(m, c)).ports = {"client", "monitoring"}
      /\ T!Body(T!Rendered(m, c)).cmd = ((h \o u) \o p) \o c.args
  BY DEF T!Handle, T!NATSHandle, T!Body, T!Rendered, T!NATS, T!Copy
<1>2. c.args \in Pairs /\ c.pass \in Word /\ "pass" \in Word /\ c.user \in Word /\ "user" \in Word
      /\ "http_port" \in Word /\ "8222" \in Word
  BY DEF Builder, Word
<1>3. /\ Silent(h, "user") /\ Silent(h, "pass") /\ Gives(u, "user", c.user) /\ Silent(u, "pass")
      /\ Gives(p, "pass", c.pass) /\ Silent(p, "user")
  BY <1>2, SaysOne, SaysGiven
<1>4. Silent(c.args, "user") /\ Silent(c.args, "pass")
  <2>1. T!NoManagedFlag(c)
    BY DEF T!NATS, T!Copy
  <2> QED BY <1>2, <2>1 DEF T!NoManagedFlag, T!ManagedFlags, Silent
<1> HIDE DEF h, u, p
<1>5. Gives(h \o u, "user", c.user) /\ Silent(h \o u, "pass")
  BY <1>3, GivesLast, SaysStill
<1> DEFINE lead == h \o u
<1> HIDE DEF lead
<1>6. Gives(lead \o p, "user", c.user) /\ Gives(lead \o p, "pass", c.pass)
  BY <1>3, <1>5, GivesLast, GivesStill DEF lead
<1> DEFINE own == lead \o p
<1> HIDE DEF own
<1>7. Gives(own \o c.args, "user", c.user) /\ Gives(own \o c.args, "pass", c.pass)
  BY <1>4, <1>6, GivesStill DEF own
<1>8. T!LastOf(own \o c.args, "user") = c.user /\ T!LastOf(own \o c.args, "pass") = c.pass
  BY <1>7, GivenRead
<1>9. T!LetsIn(m, T!Handle(m, c), T!Body(T!Rendered(m, c)))
  BY <1>1, <1>8 DEF T!LetsIn, own, lead
<1> QED BY <1>1, <1>9 DEF Described

LEMMA OpenDescribed ==
  ASSUME NEW m \in {"OpenSearch", "Mosquitto"}, NEW c \in Builder
  PROVE  Described(m, c)
<1>1. T!Handle(m, c).ports = {"client"} /\ T!Body(T!Rendered(m, c)).ports = {"client"}
  <2>1. CASE m = "OpenSearch"
    BY <2>1 DEF T!Handle, T!OpenSearchHandle, T!Body, T!Rendered, T!OpenSearch, T!Copy
  <2>2. CASE m = "Mosquitto"
    BY <2>2 DEF T!Handle, T!MosquittoHandle, T!Body, T!Rendered, T!Mosquitto, T!Copy
  <2> QED BY <2>1, <2>2
<1>2. T!LetsIn(m, T!Handle(m, c), T!Body(T!Rendered(m, c)))
  BY DEF T!LetsIn
<1> QED BY <1>1, <1>2 DEF Described

LEMMA RawRootPublished ==
  ASSUME NEW m, NEW c, RawRoot(m, c)
  PROVE  T!Handle(m, c).ports \subseteq T!Body(T!Rendered(m, c)).ports
<1>1. T!Handle(m, c).ports = {"client"} /\ T!Body(T!Rendered(m, c)).ports = {"client"}
  BY DEF RawRoot, T!Handle, T!MySQLHandle, T!MariaDBHandle, T!Body, T!Rendered, T!MySqlFamily, T!Copy
<1> QED BY <1>1

LEMMA Describes ==
  ASSUME NEW m \in All, NEW c \in Builder, Sane(m, c), T!Rendered(m, c).ok, ~RawRoot(m, c)
  PROVE  Described(m, c)
<1>1. CASE m = "PostgreSQL"
  BY <1>1, PostgreSQLDescribed DEF T!Rendered
<1>2. CASE m \in {"MySQL", "MariaDB"}
  BY <1>2, MySqlDescribed DEF T!Rendered
<1>3. CASE m = "NATS"
  BY <1>3, NATSDescribed DEF T!Rendered
<1> QED BY <1>1, <1>2, <1>3, ClickHouseDescribed, RabbitMQDescribed, StoresDescribed, KafkaDescribed,
            ScyllaDescribed, MongoDescribed, RedisDescribed, OpenDescribed DEF All

-----------------------------------------------------------------------------
(* The boots of the servers.                                               *)

InPhase(m) == {T!Phases(m)[j] : j \in 1..Len(T!Phases(m))} \cup {"dead"}

LEMMA Boots ==
  ASSUME NEW m \in All
  PROVE  /\ Len(T!Phases(m)) \in Nat /\ T!Phases(m)[1] \in InPhase(m)
         /\ T!Initdb(m) => T!Phases(m)[1] = "init"
         /\ "none" \notin InPhase(m) /\ "poisoned" \notin InPhase(m)
         /\ \A j \in 1..Len(T!Phases(m)) - 1 :
              /\ T!Phases(m)[j] \notin {"up", "dead"} /\ T!Phases(m)[j + 1] \in InPhase(m)
              /\ T!Initdb(m) /\ j # 1 => T!Phases(m)[j] \in {"gap", "http"}
              /\ m = "ClickHouse" /\ T!Phases(m)[j] = "http" => T!Phases(m)[j + 1] = "up"
<1>1. CASE m \in {"PostgreSQL", "MySQL", "MariaDB"}
  <2>1. T!Phases(m) = <<"init", "gap", "up">>
    BY <1>1 DEF T!Phases
  <2>2. Len(<<"init", "gap", "up">>) = 3 /\ m # "ClickHouse"
    BY <1>1
  <2> QED BY <2>1, <2>2 DEF InPhase
<1>2. CASE m = "ClickHouse"
  <2>1. T!Phases(m) = <<"init", "gap", "http", "up">>
    BY <1>2 DEF T!Phases
  <2>2. Len(<<"init", "gap", "http", "up">>) = 4
    OBVIOUS
  <2> QED BY <2>1, <2>2 DEF InPhase
<1>3. CASE m \notin {"PostgreSQL", "MySQL", "MariaDB", "ClickHouse"}
  <2>1. \E p, q : T!Phases(m) = <<p, q, "up">> /\ p \in {"boot", "placeholder"}
          /\ q \in {"booting", "cookie", "serving"}
    BY <1>3 DEF T!Phases
  <2>2. PICK p, q : T!Phases(m) = <<p, q, "up">> /\ p \in {"boot", "placeholder"}
          /\ q \in {"booting", "cookie", "serving"}
    BY <2>1
  <2>3. /\ Len(<<p, q, "up">>) = 3 /\ <<p, q, "up">>[1] = p /\ <<p, q, "up">>[2] = q
        /\ <<p, q, "up">>[3] = "up"
    OBVIOUS
  <2>4. ~T!Initdb(m) /\ m # "ClickHouse"
    BY <1>3 DEF T!Initdb
  <2>5. Len(T!Phases(m)) = 3 /\ T!Phases(m)[1] = p /\ T!Phases(m)[2] = q /\ T!Phases(m)[3] = "up"
    BY <2>2, <2>3
  <2> QED BY <2>2, <2>4, <2>5 DEF InPhase
<1> QED BY <1>1, <1>2, <1>3

\* The first of what was asked for.
Taken(s, n) == [j \in 1..n |-> s[j]]

LEMMA TakesOne ==
  ASSUME NEW s \in Seq(Nat)
  PROVE  /\ \A n \in Int : n <= 0 => Taken(s, n) = <<>>
         /\ \A n \in 0..Len(s) : Taken(s, n) \in Seq(Nat)
         /\ \A n \in 0..Len(s) : n < Len(s) => Taken(s, n) \o <<s[n + 1]>> = Taken(s, n + 1)
         /\ Taken(s, Len(s)) = s
<1>1. \A n \in 0..Len(s) : Taken(s, n) \in Seq(Nat) /\ Len(Taken(s, n)) = n
        /\ \A j \in 1..n : Taken(s, n)[j] = s[j]
  BY DEF Taken
<1>2. \A n \in Int : n <= 0 => Taken(s, n) = <<>>
  BY DEF Taken
<1>3. Taken(s, Len(s)) = s
  BY DEF Taken
<1>4. ASSUME NEW n \in 0..Len(s), n < Len(s) PROVE Taken(s, n) \o <<s[n + 1]>> = Taken(s, n + 1)
  <2> DEFINE a == Taken(s, n)
             b == Taken(s, n + 1)
             e == s[n + 1]
  <2>1. n + 1 \in 0..Len(s) /\ n \in Nat
    BY <1>4
  <2>2. a \in Seq(Nat) /\ Len(a) = n /\ \A j \in 1..n : a[j] = s[j]
    BY <1>1, <1>4
  <2>3. b \in Seq(Nat) /\ Len(b) = n + 1 /\ \A j \in 1..(n + 1) : b[j] = s[j]
    BY <1>1, <2>1
  <2>4. e \in Nat
    BY <2>1
  <2> HIDE DEF a, b
  <2>5. a \o <<e>> \in Seq(Nat) /\ Len(a \o <<e>>) = n + 1
    <3> HIDE DEF e
    <3> QED BY <2>1, <2>2, <2>4
  <2>6. \A j \in 1..(n + 1) : (a \o <<e>>)[j] = b[j]
    BY SMTT(30), <2>1, <2>2, <2>3
  <2> DEFINE all == a \o <<e>>
  <2>8. all \in Seq(Nat) /\ Len(all) = n + 1 /\ \A j \in 1..(n + 1) : all[j] = b[j]
    BY <2>5, <2>6
  <2> HIDE DEF all, e
  <2>7. all = b
    BY <2>1, <2>3, <2>8
  <2> QED BY <2>7 DEF all, a, b, e
<1> QED BY <1>1, <1>2, <1>3, <1>4

-----------------------------------------------------------------------------
(* The invariant.                                                          *)

ConfigInv ==
  /\ mod \in Modules /\ sets \in 0..MaxSets /\ starts \in 0..MaxStarts
  /\ phase \in {"idle", "wait", "hook", "ready"} /\ adopted \in BOOLEAN
  /\ config \in Builder /\ Sane(mod, config)
  /\ phase # "idle" => spec = T!Rendered(mod, config) /\ spec.ok

\* A server of a module: it never gets the cookie of a hasty probe, and has run its scripts once
\* its temporary server is gone.
IsServer(m, s) ==
  /\ s = [body |-> s.body, reuse |-> s.reuse, phase |-> s.phase, told |-> s.told,
          seeded |-> s.seeded, made |-> s.made]
  /\ s.phase \in InPhase(m)
  /\ T!Initdb(m) /\ s.phase \in {"gap", "http", "up"} => s.seeded = T!RunsScripts(m, s.body.files)

ServerInv ==
  /\ server # T!NoServer => IsServer(mod, server)
  /\ phase # "idle" => server # T!NoServer /\ server.body = T!Body(spec)

\* A container whose start is over: what its hook was to do has been done, and its body shows it.
Settled(m, s) ==
  /\ m \in {"Kafka", "MongoDB"} => s.phase \in {"up", "dead"}
  /\ m = "Kafka" => s.made = s.body.label
  /\ m \in {"MinIO", "RabbitMQ"} => T!Sorted(s.made) = s.body.label
  /\ m = "ScyllaDB" => s.made = T!Listed(s.body.files)
SettledInv == server # T!NoServer /\ (phase \in {"idle", "ready"} \/ adopted) => Settled(mod, server)

WaitingInv ==
  phase = "wait" =>
    /\ step \in 1..Len(spec.waits)
    /\ ~adopted => server.made = <<>>
    /\ mod = "ClickHouse" /\ config.waits = <<>> /\ step > 1 => server.phase \in {"http", "up", "dead"}
    /\ mod = "RabbitMQ" /\ step > 1 => server.phase \in {"up", "dead"}

HookingInv ==
  phase = "hook" =>
    /\ step \in 1..Len(spec.hook) /\ ~adopted
    /\ mod \in {"Kafka", "MinIO", "ScyllaDB"} =>
         server.made = Taken(Wanted(mod, config), step - 1 - Lead(mod))
    /\ mod = "RabbitMQ" => server.made = <<>>

ReadyInv ==
  phase = "ready" /\ config.waits = <<>> =>
    /\ server.phase \in {"up", "dead"}
    /\ T!Initdb(mod) => server.seeded = T!RunsScripts(mod, server.body.files)

ModInv == ConfigInv /\ ServerInv /\ SettledInv /\ WaitingInv /\ HookingInv /\ ReadyInv

LEMMA Named == T!ModulesAssumption => Modules \subseteq All
BY DEF T!ModulesAssumption, All

LEMMA ServerIsOne ==
  ASSUME NEW m \in All, NEW s, IsServer(m, s)
  PROVE  s # T!NoServer /\ s.phase \notin {"none", "poisoned"}
<1>1. s.phase \notin {"none", "poisoned"}
  BY Boots DEF IsServer
<1> QED BY <1>1 DEF T!NoServer

\* What no server's own progress changes.
Moved(s, t, p, d) ==
  /\ t.body = s.body /\ t.made = s.made /\ t.phase = p /\ t.seeded = d
  /\ t = [body |-> t.body, reuse |-> t.reuse, phase |-> t.phase, told |-> t.told,
          seeded |-> t.seeded, made |-> t.made]

LEMMA ServerMoves ==
  ASSUME NEW m, NEW s, IsServer(m, s), NEW p, NEW d
  PROVE  Moved(s, [s EXCEPT !.phase = p, !.seeded = d], p, d)
<1> SUFFICES ASSUME NEW t, t = [s EXCEPT !.phase = p, !.seeded = d] PROVE Moved(s, t, p, d)
  OBVIOUS
<1>1. s = [body |-> s.body, reuse |-> s.reuse, phase |-> s.phase, told |-> s.told,
           seeded |-> s.seeded, made |-> s.made]
  BY DEF IsServer
<1>2. t = [body |-> s.body, reuse |-> s.reuse, phase |-> p, told |-> s.told,
           seeded |-> d, made |-> s.made]
  BY <1>1
<1> QED BY <1>2 DEF Moved

LEMMA InitInv == T!ModulesAssumption /\ T!Init => ModInv
<1> SUFFICES ASSUME T!ModulesAssumption, T!Init PROVE ModInv
  OBVIOUS
<1>1. /\ mod \in Modules /\ mod \in All /\ config = T!Fresh(mod) /\ sets = 0 /\ starts = 0
      /\ phase = "idle"
      /\ adopted = FALSE /\ server = T!NoServer /\ MaxSets \in Nat /\ MaxStarts \in Nat
  BY Named DEF T!Init, T!ModulesAssumption
<1>2. config \in Builder /\ Sane(mod, config)
  BY <1>1, FreshSane
<1>3. sets \in 0..MaxSets /\ starts \in 0..MaxStarts
  BY <1>1
<1>4. adopted \in BOOLEAN
  BY <1>1, Zenon
<1> QED BY <1>1, <1>2, <1>3, <1>4 DEF ModInv, ConfigInv, ServerInv, SettledInv, WaitingInv,
           HookingInv, ReadyInv

LEMMA SetterStep ==
  ASSUME T!ModulesAssumption, ModInv, T!Configure
  PROVE  ModInv'
<1>1. /\ phase = "idle" /\ phase' = "idle" /\ sets' = sets + 1 /\ sets < MaxSets
      /\ mod' = mod /\ starts' = starts /\ spec' = spec /\ step' = step /\ adopted' = adopted
      /\ server' = server
  BY DEF T!Configure
<1>2. /\ mod \in Modules /\ mod \in All /\ config \in Builder /\ Sane(mod, config)
      /\ sets \in 0..MaxSets /\ starts \in 0..MaxStarts
      /\ adopted \in BOOLEAN /\ MaxSets \in Nat
  BY Named DEF ModInv, ConfigInv, T!ModulesAssumption
<1>3. PICK c \in T!Setters(mod) \cup T!Shared : ~T!SetterThrows(mod, c)
        /\ config' = T!Set(config, mod, c)
  BY DEF T!Configure
<1>4. config' \in Builder /\ Sane(mod, config')
  BY <1>2, <1>3, SetSane
<1>5. ConfigInv'
  BY <1>1, <1>2, <1>4 DEF ConfigInv
<1>6. ServerInv' /\ SettledInv'
  BY <1>1 DEF ModInv, ServerInv, SettledInv, IsServer, Settled, InPhase
<1> QED BY <1>1, <1>5, <1>6 DEF ModInv, WaitingInv, HookingInv, ReadyInv

LEMMA ModuleStart ==
  ASSUME T!ModulesAssumption, ModInv, T!Start
  PROVE  ModInv'
<1> DEFINE r == T!Rendered(mod, config)
<1>1. /\ phase = "idle" /\ phase' = "wait" /\ step' = 1 /\ starts < MaxStarts
      /\ starts' = starts + 1
      /\ mod' = mod /\ config' = config /\ sets' = sets /\ r.ok /\ spec' = r
      /\ adopted' = T!Adopts(r)
  BY DEF T!Start
<1>2. /\ mod \in Modules /\ mod \in All /\ config \in Builder /\ Sane(mod, config)
      /\ sets \in 0..MaxSets /\ starts \in 0..MaxStarts
      /\ MaxStarts \in Nat
  BY Named DEF ModInv, ConfigInv, T!ModulesAssumption
<1>3. ConfigInv'
  BY <1>1, <1>2 DEF ConfigInv, T!Adopts
<1>4. WaitsInv(mod, config, r.waits)
  BY <1>2, RenderedWaits
<1> HIDE DEF r
<1>5. Len(r.waits) \in Nat /\ 1 \in 1..Len(r.waits)
  BY <1>4 DEF WaitsInv
<1>6. CASE T!Adopts(r)
  <2>1. server' = server /\ adopted' /\ server # T!NoServer /\ server.body = T!Body(r)
    BY <1>1, <1>6 DEF T!Start, T!Adopts, r
  <2>2. ServerInv'
    BY <1>1, <2>1 DEF ModInv, ServerInv, IsServer, InPhase
  <2>3. SettledInv'
    BY <1>1, <2>1 DEF ModInv, SettledInv, Settled
  <2>4. WaitingInv'
    BY <1>1, <1>5, <2>1 DEF WaitingInv
  <2> QED BY <1>1, <1>3, <2>2, <2>3, <2>4 DEF ModInv, HookingInv, ReadyInv
<1>7. CASE ~T!Adopts(r)
  <2>1. server' = [body |-> T!Body(r), reuse |-> config.reuse, phase |-> T!Phases(mod)[1],
                   told |-> FALSE, seeded |-> <<>>, made |-> <<>>]
    BY <1>7 DEF T!Start, r
  <2>2. /\ server'.body = T!Body(r) /\ server'.phase = T!Phases(mod)[1] /\ server'.made = <<>>
        /\ server' = [body |-> server'.body, reuse |-> server'.reuse, phase |-> server'.phase,
                      told |-> server'.told, seeded |-> server'.seeded, made |-> server'.made]
    BY <2>1
  <2>3. T!Phases(mod)[1] \in InPhase(mod) /\ (T!Initdb(mod) => T!Phases(mod)[1] = "init")
    BY <1>2, Boots
  <2>4. IsServer(mod, server')
    BY <1>1, <2>2, <2>3 DEF IsServer, InPhase
  <2>5. server' # T!NoServer
    BY <1>2, <2>4, ServerIsOne
  <2>6. ServerInv'
    BY <1>1, <2>2, <2>4, <2>5 DEF ServerInv
  <2>7. WaitingInv'
    BY <1>1, <1>5, <2>2 DEF WaitingInv
  <2> QED BY <1>1, <1>3, <1>7, <2>6, <2>7 DEF ModInv, SettledInv, HookingInv, ReadyInv
<1> QED BY <1>6, <1>7

LEMMA ThrowStep ==
  ASSUME ModInv, T!Throw
  PROVE  ModInv'
<1>1. /\ phase' = "idle" /\ server' = IF adopted THEN server ELSE T!NoServer
      /\ mod' = mod /\ config' = config /\ sets' = sets /\ starts' = starts /\ adopted' = adopted
  BY DEF T!Throw
<1>2. ConfigInv'
  BY <1>1 DEF ModInv, ConfigInv
<1>3. ServerInv' /\ SettledInv'
  BY <1>1 DEF ModInv, ServerInv, SettledInv, IsServer, Settled, InPhase
<1> QED BY <1>1, <1>2, <1>3 DEF ModInv, WaitingInv, HookingInv, ReadyInv

LEMMA ReleaseStep ==
  ASSUME ModInv, T!Release
  PROVE  ModInv'
<1>1. /\ phase = "ready" /\ phase' = "idle" /\ server' = IF server.reuse THEN server ELSE T!NoServer
      /\ mod' = mod /\ config' = config /\ sets' = sets /\ starts' = starts /\ adopted' = adopted
  BY DEF T!Release
<1>2. ConfigInv'
  BY <1>1 DEF ModInv, ConfigInv
<1>3. ServerInv' /\ SettledInv'
  BY <1>1 DEF ModInv, ServerInv, SettledInv, IsServer, Settled, InPhase
<1> QED BY <1>1, <1>2, <1>3 DEF ModInv, WaitingInv, HookingInv, ReadyInv

LEMMA DiesStep ==
  ASSUME T!ModulesAssumption, ModInv, T!Dies
  PROVE  ModInv'
<1>1. /\ server # T!NoServer /\ server' = [server EXCEPT !.phase = "dead"]
      /\ mod' = mod /\ config' = config /\ sets' = sets /\ starts' = starts /\ adopted' = adopted
      /\ phase' = phase /\ spec' = spec /\ step' = step
  BY DEF T!Dies
<1>2. mod \in All /\ IsServer(mod, server)
  BY <1>1, Named DEF ModInv, ConfigInv, ServerInv
<1>3. server' = [server EXCEPT !.phase = "dead", !.seeded = server.seeded]
  BY <1>1, <1>2 DEF IsServer
<1>4. /\ server'.body = server.body /\ server'.made = server.made /\ server'.phase = "dead"
      /\ server'.seeded = server.seeded
      /\ server' = [body |-> server'.body, reuse |-> server'.reuse, phase |-> server'.phase,
                    told |-> server'.told, seeded |-> server'.seeded, made |-> server'.made]
  <2>1. Moved(server, [server EXCEPT !.phase = "dead", !.seeded = server.seeded], "dead", server.seeded)
    BY <1>2, ServerMoves
  <2> QED BY <1>3, <2>1 DEF Moved
<1>5. IsServer(mod, server')
  BY <1>1, <1>4 DEF IsServer, InPhase
<1>6. server' # T!NoServer
  BY <1>2, <1>5, ServerIsOne
<1>7. ConfigInv'
  BY <1>1 DEF ModInv, ConfigInv
<1>8. ServerInv'
  BY <1>1, <1>4, <1>5, <1>6 DEF ModInv, ServerInv
<1>9. SettledInv'
  BY <1>1, <1>4 DEF ModInv, SettledInv, Settled
<1>10. WaitingInv' /\ HookingInv' /\ ReadyInv'
  BY <1>1, <1>4 DEF ModInv, WaitingInv, HookingInv, ReadyInv
<1> QED BY <1>7, <1>8, <1>9, <1>10 DEF ModInv

LEMMA AdvanceStep ==
  ASSUME T!ModulesAssumption, ModInv, T!Advance
  PROVE  ModInv'
<1>1. /\ server # T!NoServer
      /\ mod' = mod /\ config' = config /\ sets' = sets /\ starts' = starts /\ adopted' = adopted
      /\ phase' = phase /\ spec' = spec /\ step' = step
  BY DEF T!Advance
<1>2. mod \in All /\ IsServer(mod, server)
  BY <1>1, Named DEF ModInv, ConfigInv, ServerInv
<1> DEFINE ran(j) == IF T!Initdb(mod)
             /\ j = 1 THEN T!RunsScripts(mod, server.body.files) ELSE server.seeded
<1>3. PICK j \in 1..Len(T!Phases(mod)) - 1 :
        /\ server.phase = T!Phases(mod)[j]
        /\ server' = [server EXCEPT !.phase = T!Phases(mod)[j + 1], !.seeded = ran(j)]
  BY DEF T!Advance
<1> DEFINE p == T!Phases(mod)[j + 1]
<1>4. /\ server.phase \notin {"up", "dead"} /\ p \in InPhase(mod)
      /\ T!Initdb(mod) /\ j # 1 => server.phase \in {"gap", "http"}
      /\ mod = "ClickHouse" /\ server.phase = "http" => p = "up"
  BY <1>2, <1>3, Boots
<1> HIDE DEF ran, p
<1>5. /\ server'.body = server.body /\ server'.made = server.made /\ server'.phase = p
      /\ server'.seeded = ran(j)
      /\ server' = [body |-> server'.body, reuse |-> server'.reuse, phase |-> server'.phase,
                    told |-> server'.told, seeded |-> server'.seeded, made |-> server'.made]
  <2>1. Moved(server, [server EXCEPT !.phase = p, !.seeded = ran(j)], p, ran(j))
    BY <1>2, ServerMoves
  <2> QED BY <1>3, <2>1 DEF Moved, p
<1>6. T!Initdb(mod) => ran(j) = T!RunsScripts(mod, server.body.files)
  BY <1>2, <1>4 DEF IsServer, ran
<1>7. IsServer(mod, server')
  BY <1>1, <1>4, <1>5, <1>6 DEF IsServer, InPhase
<1>8. server' # T!NoServer
  BY <1>2, <1>7, ServerIsOne
<1>9. ConfigInv'
  BY <1>1 DEF ModInv, ConfigInv
<1>10. ServerInv'
  BY <1>1, <1>5, <1>7, <1>8 DEF ModInv, ServerInv
<1>11. SettledInv'
  BY <1>1, <1>4, <1>5 DEF ModInv, SettledInv, Settled
<1>12. WaitingInv'
  BY <1>1, <1>4, <1>5 DEF ModInv, WaitingInv
<1>13. HookingInv'
  BY <1>1, <1>5 DEF ModInv, HookingInv
<1>14. ReadyInv'
  BY <1>1, <1>4 DEF ModInv, ReadyInv
<1> QED BY <1>9, <1>10, <1>11, <1>12, <1>13, <1>14 DEF ModInv

\* A hook that has nothing to do has been done.
LEMMA NothingToDo ==
  ASSUME NEW m \in All, NEW c \in Builder, NEW s, T!Rendered(m, c).hook = <<>>,
         s.made = <<>>, s.body = T!Body(T!Rendered(m, c))
  PROVE  Settled(m, s)
<1> DEFINE h == T!Rendered(m, c).hook
<1>1. HookInv(m, c, h)
  BY RenderedHook
<1>2. s.body.label = T!Rendered(m, c).label /\ s.body.files = T!Rendered(m, c).files
  BY DEF T!Body
<1>3. m \notin {"Kafka", "MongoDB"}
  <2>1. Len(h) = 0
    OBVIOUS
  <2> HIDE DEF h
  <2> QED BY <1>1, <2>1 DEF HookInv
<1>4. m \in {"MinIO", "ScyllaDB"} => Wanted(m, c) = <<>>
  BY <1>1 DEF HookInv
<1>5. m = "RabbitMQ" => c.extras = <<>>
  <2>1. Len(h) = 0
    OBVIOUS
  <2> HIDE DEF h
  <2> QED BY <1>1, <2>1 DEF HookInv
<1>6. m \in {"MinIO", "RabbitMQ"} => T!Sorted(s.made) = s.body.label
  BY <1>2, <1>4, <1>5, RenderedBody DEF Wanted
<1>7. m = "ScyllaDB" => s.made = T!Listed(s.body.files)
  <2>1. c.scripts \in Seq(Script)
    BY DEF Builder
  <2> QED BY <1>2, <1>4, <2>1, RenderedBody, StagedNames DEF Wanted
<1> QED BY <1>3, <1>6, <1>7 DEF Settled

LEMMA ProbeStep ==
  ASSUME T!ModulesAssumption, ModInv, T!Probe
  PROVE  ModInv'
<1> DEFINE w == spec.waits
           h == spec.hook
<1>1. /\ phase = "wait" /\ mod' = mod /\ config' = config /\ sets' = sets /\ starts' = starts
      /\ spec' = spec /\ adopted' = adopted
  BY DEF T!Probe
<1>2. /\ mod \in All /\ config \in Builder /\ Sane(mod, config)
      /\ spec = T!Rendered(mod, config) /\ spec.ok
      /\ server # T!NoServer /\ IsServer(mod, server) /\ server.body = T!Body(spec)
      /\ step \in 1..Len(w) /\ adopted \in BOOLEAN
  BY <1>1, Named DEF ModInv, ConfigInv, ServerInv, WaitingInv
<1>3. WaitsInv(mod, config, w) /\ HookInv(mod, config, h)
  BY <1>2, RenderedWaits, RenderedHook
<1>4. server' = server
  <2>1. w[step] = "check" => server.phase # "boot"
    <3> SUFFICES ASSUME w[step] = "check" PROVE server.phase # "boot"
      OBVIOUS
    <3>1. mod = "RabbitMQ" /\ step = 2
      BY <1>2, <1>3 DEF WaitsInv
    <3> QED BY <1>1, <3>1 DEF ModInv, WaitingInv
  <2>2. server' = T!Probed(w[step])
    BY DEF T!Probe
  <2> QED BY <2>1, <2>2 DEF T!Probed
<1>5. CASE ~T!Passes(w[step])
  <2>1. phase' = phase /\ step' = step
    BY <1>5 DEF T!Probe
  <2> QED BY <1>1, <1>4, <2>1
       DEF ModInv, ConfigInv, ServerInv, SettledInv, WaitingInv, HookingInv, ReadyInv, IsServer,
           Settled, InPhase
<1> DEFINE q == w[step]
<1>6. T!Passes(q) => server.phase \in T!PassesIn[q]
  BY DEF T!Passes
<1>0. Len(w) \in Nat
  BY <1>3 DEF WaitsInv
<1>7. CASE T!Passes(q) /\ step < Len(w)
  <2>1. phase' = phase /\ step' = step + 1
    BY <1>7 DEF T!Probe
  <2>2. ConfigInv' /\ ServerInv' /\ SettledInv'
    BY <1>1, <1>4, <2>1 DEF ModInv, ConfigInv, ServerInv, SettledInv, IsServer, Settled, InPhase
  <2>3. step' \in 1..Len(spec'.waits)
    BY <1>0, <1>1, <1>2, <1>7, <2>1
  <2>4. ASSUME mod = "ClickHouse", config.waits = <<>> PROVE server.phase \in {"http", "up", "dead"}
    <3>1. CASE step > 1
      BY <1>1, <2>4, <3>1 DEF ModInv, WaitingInv
    <3>2. CASE step = 1
      <4>1. q = "comm"
        BY <1>3, <2>4, <3>2 DEF WaitsInv
      <4> QED BY <1>6, <1>7, <4>1 DEF T!PassesIn
    <3> QED BY <1>0, <1>2, <3>1, <3>2
  <2>5. ASSUME mod = "RabbitMQ" PROVE server.phase \in {"up", "dead"}
    <3>1. CASE step > 1
      BY <1>1, <2>5, <3>1 DEF ModInv, WaitingInv
    <3>2. CASE step = 1
      <4>1. q = "completed"
        BY <1>3, <2>5, <3>2 DEF WaitsInv
      <4> QED BY <1>6, <1>7, <4>1 DEF T!PassesIn
    <3> QED BY <1>0, <1>2, <3>1, <3>2
  <2>6. WaitingInv'
    <3>1. ~adopted => server.made = <<>>
      BY <1>1 DEF ModInv, WaitingInv
    <3> QED BY <1>1, <1>4, <2>3, <2>4, <2>5, <3>1 DEF WaitingInv
  <2> QED BY <1>1, <2>1, <2>2, <2>6 DEF ModInv, HookingInv, ReadyInv
<1>8. CASE T!Passes(q) /\ ~(step < Len(w)) /\ (adopted \/ h = <<>>)
  <2>1. phase' = "ready" /\ step' = 1
    BY <1>8 DEF T!Probe
  <2>2. ConfigInv' /\ ServerInv'
    BY <1>1, <1>2, <1>4, <2>1 DEF ModInv, ConfigInv, ServerInv, IsServer, InPhase
  <2>3. Settled(mod, server)
    <3>1. CASE adopted
      BY <1>2, <3>1 DEF ModInv, SettledInv
    <3>2. CASE ~adopted
      <4>1. server.made = <<>> /\ h = <<>>
        BY <1>1, <1>8, <3>2 DEF ModInv, WaitingInv
      <4> QED BY <1>2, <4>1, NothingToDo
    <3> QED BY <3>1, <3>2
  <2>4. SettledInv'
    BY <1>1, <1>4, <2>3 DEF SettledInv, Settled
  <2>5. ASSUME config.waits = <<>> PROVE server.phase \in {"up", "dead"}
    <3>0. step = Len(w)
      BY <1>0, <1>2, <1>8
    <3>1. CASE mod \in {"Kafka", "MongoDB"}
      BY <2>3, <3>1 DEF Settled
    <3>2. CASE mod = "ClickHouse"
      <4>1. w = <<"comm", "ping", "native">>
        BY <1>3, <2>5, <3>2 DEF WaitsInv
      <4>2. step = 3 /\ q = "native"
        <5> HIDE DEF w
        <5>1. Len(w) = 3 /\ w[3] = "native"
          BY <4>1
        <5> QED BY <3>0, <5>1
      <4>3. server.phase \in {"init", "up"}
        BY <1>6, <1>8, <4>2 DEF T!PassesIn
      <4>4. server.phase \in {"http", "up", "dead"}
        BY <1>1, <2>5, <3>2, <4>2 DEF ModInv, WaitingInv
      <4> QED BY <4>3, <4>4
    <3>3. CASE mod \notin {"Kafka", "MongoDB", "ClickHouse"}
      <4>1. T!PassesIn[q] = {"up"}
        BY <1>3, <2>5, <3>0, <3>3 DEF WaitsInv
      <4> QED BY <1>6, <1>8, <4>1
    <3> QED BY <3>1, <3>2, <3>3
  <2>6. ASSUME config.waits = <<>>, T!Initdb(mod)
        PROVE server.seeded = T!RunsScripts(mod, server.body.files)
    <3>1. server.phase = "up"
      <4>1. server.phase # "dead"
        <5>1. mod # "ClickHouse" => T!PassesIn[q] = {"up"}
          BY <1>0, <1>2, <1>3, <1>8, <2>6 DEF WaitsInv, T!Initdb
        <5>2. mod = "ClickHouse" => q = "native"
          <6> SUFFICES ASSUME mod = "ClickHouse" PROVE q = "native"
            OBVIOUS
          <6>1. w = <<"comm", "ping", "native">> /\ step = Len(w)
            BY <1>0, <1>2, <1>3, <1>8, <2>6 DEF WaitsInv
          <6> HIDE DEF w
          <6>2. Len(w) = 3 /\ w[3] = "native"
            BY <6>1
          <6> QED BY <6>1, <6>2
        <5> QED BY <1>6, <1>8, <5>1, <5>2 DEF T!PassesIn
      <4> QED BY <2>5, <2>6, <4>1
    <3> QED BY <1>2, <2>6, <3>1 DEF IsServer
  <2>7. ReadyInv'
    BY <1>1, <1>4, <2>5, <2>6 DEF ReadyInv
  <2> QED BY <2>1, <2>2, <2>4, <2>7 DEF ModInv, WaitingInv, HookingInv
<1>9. CASE T!Passes(q) /\ ~(step < Len(w)) /\ ~(adopted \/ h = <<>>)
  <2>1. phase' = "hook" /\ step' = 1
    BY <1>9 DEF T!Probe
  <2>2. ConfigInv' /\ ServerInv'
    BY <1>1, <1>2, <1>4, <2>1 DEF ModInv, ConfigInv, ServerInv, IsServer, InPhase
  <2>3. 1 \in 1..Len(h)
    <3>1. h \in Seq(Elements(h))
      BY <1>3 DEF HookInv
    <3> QED BY <1>9, <3>1
  <2>4. server.made = <<>>
    BY <1>1, <1>9 DEF ModInv, WaitingInv
  <2>5. Taken(Wanted(mod, config), 1 - 1 - Lead(mod)) = <<>>
    <3>1. Wanted(mod, config) \in Seq(Nat) /\ 1 - 1 - Lead(mod) \in Int /\ 1 - 1 - Lead(mod) <= 0
      BY <1>2, Many DEF Lead
    <3> QED BY <3>1, TakesOne
  <2>6. HookingInv'
    BY <1>1, <1>4, <1>9, <2>1, <2>3, <2>4, <2>5 DEF HookingInv
  <2> QED BY <1>1, <1>9, <2>1, <2>2, <2>6 DEF ModInv, SettledInv, WaitingInv, ReadyInv
<1> QED BY <1>5, <1>7, <1>8, <1>9

\* What a step of a hook leaves as it is.
Same(s, t) ==
  /\ t.body = s.body /\ t.phase = s.phase /\ t.seeded = s.seeded
  /\ t = [body |-> t.body, reuse |-> t.reuse, phase |-> t.phase, told |-> t.told,
          seeded |-> t.seeded, made |-> t.made]

LEMMA ToldOrMade ==
  ASSUME NEW m, NEW s, IsServer(m, s), NEW what
  PROVE  /\ Same(s, s)
         /\ Same(s, [s EXCEPT !.told = TRUE]) /\ [s EXCEPT !.told = TRUE].made = s.made
         /\ Same(s, [s EXCEPT !.made = @ \o what])
         /\ [s EXCEPT !.made = @ \o what].made = s.made \o what
<1>1. s = [body |-> s.body, reuse |-> s.reuse, phase |-> s.phase, told |-> s.told,
           seeded |-> s.seeded, made |-> s.made]
  BY DEF IsServer
<1>2. Same(s, s)
  BY <1>1 DEF Same
<1>3. Same(s, [s EXCEPT !.told = TRUE]) /\ [s EXCEPT !.told = TRUE].made = s.made
  <2> SUFFICES ASSUME NEW t, t = [s EXCEPT !.told = TRUE] PROVE Same(s, t) /\ t.made = s.made
    OBVIOUS
  <2>1. t = [body |-> s.body, reuse |-> s.reuse, phase |-> s.phase, told |-> TRUE,
             seeded |-> s.seeded, made |-> s.made]
    BY <1>1
  <2> QED BY <2>1 DEF Same
<1>4. Same(s, [s EXCEPT !.made = @ \o what]) /\ [s EXCEPT !.made = @ \o what].made = s.made \o what
  <2> SUFFICES ASSUME NEW t, t = [s EXCEPT !.made = s.made \o what]
               PROVE Same(s, t) /\ t.made = s.made \o what
    OBVIOUS
  <2> DEFINE all == s.made \o what
  <2> HIDE DEF all
  <2>1. t = [s EXCEPT !.made = all]
    BY DEF all
  <2>2. t = [body |-> s.body, reuse |-> s.reuse, phase |-> s.phase, told |-> s.told,
             seeded |-> s.seeded, made |-> all]
    BY <1>1, <2>1
  <2>3. /\ t.body = s.body /\ t.phase = s.phase /\ t.seeded = s.seeded /\ t.reuse = s.reuse
        /\ t.told = s.told /\ t.made = all
    BY <2>2
  <2>4. Same(s, t)
    BY <2>2, <2>3 DEF Same
  <2> QED BY <2>3, <2>4 DEF all
<1> QED BY <1>2, <1>3, <1>4

LEMMA Telling ==
  ASSUME NEW m, IsServer(m, server)
  PROVE  /\ T!Tells => Same(server, server') /\ server'.made = server.made
         /\ T!IsUp => Same(server, server') /\ server'.made = server.made /\ server.phase = "up"
         /\ \A what : T!Makes(what) =>
              Same(server, server') /\ server'.made = server.made \o what /\ server.phase = "up"
<1>1. T!Tells => Same(server, server') /\ server'.made = server.made
  BY ToldOrMade DEF T!Tells
<1>2. T!IsUp => Same(server, server') /\ server'.made = server.made /\ server.phase = "up"
  BY ToldOrMade DEF T!IsUp
<1>3. ASSUME NEW what, T!Makes(what)
      PROVE  Same(server, server') /\ server'.made = server.made \o what /\ server.phase = "up"
  <2>1. server.phase = "up" /\ server' = [server EXCEPT !.made = @ \o what]
    BY <1>3 DEF T!Makes
  <2>2. /\ Same(server, [server EXCEPT !.made = @ \o what])
        /\ [server EXCEPT !.made = @ \o what].made = server.made \o what
    BY ToldOrMade
  <2> QED BY <2>1, <2>2
<1> QED BY <1>1, <1>2, <1>3

\* The part of a step that is the module's own: the next thing it was to make, if it makes any.
LEMMA HookMakes ==
  ASSUME T!ModulesAssumption, ModInv, T!HookStep
  PROVE  /\ Same(server, server')
         /\ mod \in {"Kafka", "MinIO", "ScyllaDB"}
               => server'.made = Taken(Wanted(mod, config), step - Lead(mod))
         /\ mod = "RabbitMQ" => server'.made = config.extras /\ step = Len(spec.hook)
         /\ step = Len(spec.hook) => server.phase = "up"
         /\ mod \in {"Kafka", "MongoDB", "MinIO", "RabbitMQ", "ScyllaDB"}
<1> DEFINE h == spec.hook
           wanted == Wanted(mod, config)
           L == Lead(mod)
<1>1. /\ phase = "hook" /\ mod \in All /\ config \in Builder /\ spec = T!Rendered(mod, config)
      /\ IsServer(mod, server) /\ step \in 1..Len(h)
  BY Named DEF T!HookStep, ModInv, ConfigInv, ServerInv, HookingInv
<1>2. HookInv(mod, config, h) /\ wanted \in Seq(Nat) /\ config.extras \in Seq(Nat)
  BY <1>1, RenderedHook, Many
<1>3. h \in Seq(Elements(h)) /\ Len(h) \in Nat
  BY <1>2 DEF HookInv
<1>4. mod \in {"Kafka", "MongoDB", "MinIO", "RabbitMQ", "ScyllaDB"}
  <2>1. h # <<>>
    BY <1>1
  <2> QED BY <1>2, <2>1 DEF HookInv
<1>5. ASSUME mod \in {"Kafka", "MinIO", "ScyllaDB"}
      PROVE  /\ Len(h) = L + Len(wanted) /\ L \in 0..2 /\ server.made = Taken(wanted, step - 1 - L)
             /\ step > L => h[step] = <<"make", wanted[step - L]>>
  <2>1. h # <<>>
    BY <1>1
  <2> QED BY SMTT(30), <1>1, <1>2, <1>5, <2>1 DEF HookInv, HookingInv, ModInv, Lead
<1>6. ASSUME mod \in {"Kafka", "MinIO", "ScyllaDB"}, step > L
      PROVE  /\ Same(server, server') /\ server.phase = "up"
             /\ server'.made = Taken(wanted, step - L)
  <2>1. h[step] = <<"make", wanted[step - L]>>
    BY <1>5, <1>6
  <2>2. h[step][1] = "make" /\ h[step][2] = wanted[step - L]
    BY <2>1
  <2>3. T!Makes(<<wanted[step - L]>>)
    BY <1>1, <1>6, <2>2 DEF T!HookStep, T!KafkaBoot, T!CreateBuckets, T!RunCql
  <2>4. /\ Same(server, server') /\ server'.made = server.made \o <<wanted[step - L]>>
        /\ server.phase = "up"
    BY <1>1, <2>3, Telling
  <2> DEFINE n == step - 1 - L
  <2>5. n \in 0..Len(wanted) /\ n < Len(wanted) /\ n + 1 = step - L
    <3> DEFINE k == Len(wanted)
    <3>1. Len(h) = L + k /\ L \in 0..2 /\ step \in 1..Len(h) /\ step > L
      BY <1>1, <1>5, <1>6
    <3>2. k \in Nat /\ Len(h) \in Nat
      BY <1>2, <1>3
    <3> HIDE DEF k, L
    <3>3. step \in 1..(L + k)
      BY <3>1
    <3> QED BY <3>1, <3>2, <3>3 DEF k
  <2> HIDE DEF n
  <2>6. Taken(wanted, n) \o <<wanted[n + 1]>> = Taken(wanted, n + 1)
    BY <1>2, <2>5, TakesOne
  <2>7. server.made = Taken(wanted, n)
    BY <1>5, <1>6 DEF n
  <2> QED BY <2>4, <2>5, <2>6, <2>7
<1>7. ASSUME mod \in {"Kafka", "MinIO", "ScyllaDB"}, ~(step > L)
      PROVE  /\ Same(server, server') /\ (step = Len(h) => server.phase = "up")
             /\ server'.made = Taken(wanted, step - L)
  <2>1. mod \in {"Kafka", "MinIO"} /\ step <= L /\ L \in 1..2 /\ step >= 1
    BY <1>1, <1>3, <1>5, <1>7 DEF Lead
  <2>2. Taken(wanted, step - 1 - L) = <<>> /\ Taken(wanted, step - L) = <<>>
    <3>1. step - 1 - L \in Int /\ step - 1 - L <= 0 /\ step - L \in Int /\ step - L <= 0
      BY <1>1, <1>3, <2>1
    <3> QED BY <1>2, <3>1, TakesOne
  <2>3. CASE mod = "MinIO"
    <3>1. h[step] = <<"alias">> /\ Len(h) >= 2 /\ step = 1
      BY <1>1, <1>2, <1>3, <1>5, <2>1, <2>3 DEF HookInv, Lead
    <3>2. h[step][1] = "alias"
      BY <3>1
    <3>3. T!IsUp
      BY <2>3, <3>2 DEF T!HookStep, T!CreateBuckets
    <3> QED BY <1>1, <1>5, <1>7, <2>2, <3>1, <3>3, Telling
  <2>4. CASE mod = "Kafka"
    <3>1. (step = 1 /\ h[step] = <<"copy">>) \/ (step = 2 /\ h[step] = <<"follow">>)
      BY <1>1, <1>2, <1>3, <2>1, <2>4 DEF HookInv
    <3>2. CASE step = 1
      <4>1. h[step][1] = "copy" /\ Len(h) >= 2
        BY <1>2, <2>4, <3>2 DEF HookInv
      <4>2. T!Tells
        BY <2>4, <4>1 DEF T!HookStep, T!KafkaBoot
      <4>3. step # Len(h)
        <5> DEFINE n == Len(h)
        <5>1. n >= 2 /\ n \in Nat
          BY <1>3, <4>1
        <5> HIDE DEF n
        <5>2. n # 1
          BY <5>1
        <5> QED BY <3>2, <5>2 DEF n
      <4>4. Same(server, server') /\ server'.made = server.made
        BY <1>1, <4>2, Telling
      <4>5. server.made = Taken(wanted, step - 1 - L)
        BY <1>5, <1>7
      <4> QED BY <2>2, <4>3, <4>4, <4>5
    <3>3. CASE step = 2
      <4>1. h[step][1] = "follow"
        BY <1>2, <2>4, <3>3 DEF HookInv
      <4>2. T!IsUp
        BY <2>4, <4>1 DEF T!HookStep, T!KafkaBoot
      <4> QED BY <1>1, <1>5, <1>7, <2>2, <4>2, Telling
    <3> QED BY <3>1, <3>2, <3>3
  <2> QED BY <2>1, <2>3, <2>4
<1>8. ASSUME mod = "MongoDB" PROVE Same(server, server') /\ (step = Len(h) => server.phase = "up")
  <2>1. Len(h) = 2 /\ h[1] = <<"initiate">> /\ h[2] = <<"primary">>
    BY <1>2, <1>8 DEF HookInv
  <2>2. CASE step = 1
    <3>1. h[step][1] = "initiate"
      BY <2>1, <2>2
    <3>2. T!Tells
      BY <1>8, <3>1 DEF T!HookStep, T!MongoInit
    <3> QED BY <1>1, <2>1, <2>2, <3>2, Telling
  <2>3. CASE step = 2
    <3>1. h[step][1] = "primary"
      BY <2>1, <2>3
    <3>2. T!IsUp
      BY <1>8, <3>1 DEF T!HookStep, T!MongoInit
    <3> QED BY <1>1, <3>2, Telling
  <2> QED BY <1>1, <1>3, <2>1, <2>2, <2>3
<1>9. ASSUME mod = "RabbitMQ"
      PROVE  Same(server, server') /\ server.phase = "up" /\ server'.made = config.extras
               /\ step = Len(h)
  <2>1. Len(h) = 1 /\ h[1] = <<"enable", config.extras>>
    <3>1. h # <<>>
      BY <1>1
    <3> QED BY <1>2, <1>9, <3>1 DEF HookInv
  <2>2. step = 1 /\ h[step][2] = config.extras
    BY <1>1, <2>1
  <2>3. T!Makes(config.extras)
    BY <1>9, <2>2 DEF T!HookStep, T!EnablePlugins
  <2>4. server.made = <<>>
    BY <1>1, <1>9 DEF ModInv, HookingInv
  <2>5. server'.made = server.made \o config.extras /\ Same(server, server') /\ server.phase = "up"
    BY <1>1, <2>3, Telling
  <2> QED BY <1>2, <2>1, <2>2, <2>4, <2>5
<1> QED BY <1>4, <1>6, <1>7, <1>8, <1>9

LEMMA HookingStep ==
  ASSUME T!ModulesAssumption, ModInv, T!HookStep
  PROVE  ModInv'
<1>1. /\ phase = "hook" /\ mod' = mod /\ config' = config /\ sets' = sets /\ starts' = starts
      /\ spec' = spec /\ adopted' = adopted
      /\ IF step < Len(spec.hook) THEN step' = step + 1 /\ phase' = phase ELSE step' = 1
            /\ phase' = "ready"
  BY DEF T!HookStep
<1>2. /\ mod \in All /\ config \in Builder /\ spec = T!Rendered(mod, config) /\ ~adopted
      /\ server # T!NoServer /\ IsServer(mod, server) /\ server.body = T!Body(spec)
      /\ step \in 1..Len(spec.hook)
  BY <1>1, Named DEF ModInv, ConfigInv, ServerInv, HookingInv
<1>3. /\ Same(server, server')
      /\ mod \in {"Kafka", "MinIO", "ScyllaDB"}
            => server'.made = Taken(Wanted(mod, config), step - Lead(mod))
      /\ mod = "RabbitMQ" => server'.made = config.extras /\ step = Len(spec.hook)
      /\ step = Len(spec.hook) => server.phase = "up"
      /\ mod \in {"Kafka", "MongoDB", "MinIO", "RabbitMQ", "ScyllaDB"}
  BY HookMakes
<1>4. HookInv(mod, config, spec.hook) /\ Wanted(mod, config) \in Seq(Nat)
  BY <1>2, RenderedHook, Many
<1>5. Len(spec.hook) \in Nat
  BY <1>4 DEF HookInv
<1>6. ConfigInv'
  BY <1>1 DEF ModInv, ConfigInv
<1>7. IsServer(mod, server') /\ server'.body = server.body /\ server'.phase = server.phase
  BY <1>2, <1>3 DEF IsServer, Same
<1>8. ServerInv'
  <2>1. server' # T!NoServer
    BY <1>2, <1>7, ServerIsOne
  <2> QED BY <1>1, <1>2, <1>7, <2>1 DEF ServerInv
<1>9. CASE step < Len(spec.hook)
  <2>1. step' \in 1..Len(spec'.hook)
    BY <1>1, <1>2, <1>5, <1>9
  <2>2. step' - 1 - Lead(mod) = step - Lead(mod)
    <3>1. Lead(mod) \in Int
      BY DEF Lead
    <3> QED BY <1>1, <1>2, <1>9, <3>1
  <2>3. mod # "RabbitMQ"
    BY <1>3, <1>5, <1>9
  <2>4. HookingInv'
    BY <1>1, <1>2, <1>3, <2>1, <2>2, <2>3 DEF HookingInv
  <2> QED BY <1>1, <1>2, <1>6, <1>8, <1>9, <2>4 DEF ModInv, SettledInv, WaitingInv, ReadyInv
<1>10. CASE ~(step < Len(spec.hook))
  <2>1. phase' = "ready" /\ step = Len(spec.hook) /\ server'.phase = "up"
    BY <1>1, <1>2, <1>3, <1>5, <1>7, <1>10
  <2>2. /\ server'.body.label = T!Rendered(mod, config).label
        /\ server'.body.files = T!Rendered(mod, config).files
    BY <1>2, <1>7 DEF T!Body
  <2>3. ASSUME mod \in {"Kafka", "MinIO", "ScyllaDB"} PROVE server'.made = Wanted(mod, config)
    <3>1. spec.hook # <<>>
      BY <1>2
    <3>2. step = Lead(mod) + Len(Wanted(mod, config))
      BY <1>4, <2>1, <2>3, <3>1 DEF HookInv
    <3>3. step - Lead(mod) = Len(Wanted(mod, config))
      <4>1. Lead(mod) \in Int /\ Len(Wanted(mod, config)) \in Nat
        BY <1>4 DEF Lead
      <4> QED BY <3>2, <4>1
    <3> QED BY <1>3, <1>4, <2>3, <3>3, TakesOne
  <2>4. Settled(mod, server')
    <3>1. mod = "Kafka" => server'.made = server'.body.label
      BY <1>2, <2>2, <2>3, RenderedBody DEF Wanted
    <3>2. mod \in {"MinIO", "RabbitMQ"} => T!Sorted(server'.made) = server'.body.label
      BY <1>2, <1>3, <2>2, <2>3, RenderedBody DEF Wanted
    <3>3. mod = "ScyllaDB" => server'.made = T!Listed(server'.body.files)
      <4>1. config.scripts \in Seq(Script)
        BY <1>2 DEF Builder
      <4> QED BY <1>2, <2>2, <2>3, <4>1, RenderedBody, StagedNames DEF Wanted
    <3> QED BY <2>1, <3>1, <3>2, <3>3 DEF Settled
  <2>5. SettledInv'
    BY <1>1, <2>4 DEF SettledInv, Settled
  <2>6. ReadyInv'
    <3>1. ~T!Initdb(mod)
      BY <1>3 DEF T!Initdb
    <3> QED BY <1>1, <2>1, <3>1 DEF ReadyInv, T!Initdb
  <2> QED BY <1>1, <1>6, <1>8, <2>1, <2>5, <2>6 DEF ModInv, WaitingInv, HookingInv
<1> QED BY <1>9, <1>10

LEMMA ModStep == T!ModulesAssumption /\ ModInv /\ [T!Next]_(T!vars) => ModInv'
<1> SUFFICES ASSUME T!ModulesAssumption, ModInv, [T!Next]_(T!vars) PROVE ModInv'
  OBVIOUS
<1>1. CASE T!Next
  BY <1>1, SetterStep, ModuleStart, ProbeStep, HookingStep, ThrowStep, ReleaseStep, AdvanceStep,
     DiesStep DEF T!Next
<1>2. CASE UNCHANGED T!vars
  BY <1>2 DEF T!vars, ModInv, ConfigInv, ServerInv, SettledInv, WaitingInv, HookingInv, ReadyInv,
     IsServer, Settled, InPhase
<1> QED BY <1>1, <1>2

LEMMA ModInvariant == T!ModulesAssumption => (T!Spec => []ModInv)
<1> SUFFICES ASSUME T!ModulesAssumption PROVE T!Spec => []ModInv
  OBVIOUS
<1> QED BY InitInv, ModStep, PTL DEF T!Spec

\* What the invariant says of a start that has returned.
LEMMA ModPromises ==
  ASSUME T!ModulesAssumption, ModInv
  PROVE  T!TypeOK /\ T!ReadyIsReal /\ T!ProbesHarmless /\ T!HandleTrue /\ T!AllApplied
<1>1. mod \in All /\ config \in Builder /\ Sane(mod, config)
  BY Named DEF ModInv, ConfigInv
<1>2. T!TypeOK
  BY DEF ModInv, ConfigInv, ServerInv, WaitingInv, HookingInv, T!TypeOK
<1>3. T!ReadyIsReal
  BY DEF ModInv, ReadyInv, T!ReadyIsReal
<1>4. T!ProbesHarmless
  BY <1>1, ServerIsOne DEF ModInv, ServerInv, T!ProbesHarmless
<1>5. T!HandleTrue
  <2> SUFFICES ASSUME phase = "ready"
               PROVE  LET h == T!Handle(mod, config)
                      IN  /\ h.ports \subseteq server.body.ports
                          /\ T!RawRootInForce \/ T!LetsIn(mod, h, server.body)
    BY DEF T!HandleTrue
  <2>1. spec = T!Rendered(mod, config) /\ spec.ok /\ server.body = T!Body(spec)
    BY DEF ModInv, ConfigInv, ServerInv
  <2>2. CASE RawRoot(mod, config)
    <3>1. T!RawRootInForce
      BY <2>2 DEF RawRoot, T!RawRootInForce
    <3> QED BY <2>1, <2>2, <3>1, RawRootPublished
  <2>3. CASE ~RawRoot(mod, config)
    BY <1>1, <2>1, <2>3, Describes DEF Described
  <2> QED BY <2>2, <2>3
<1>6. T!AllApplied
  <2> SUFFICES ASSUME phase = "ready"
               PROVE  /\ T!Initdb(mod) /\ config.waits = <<>>
                           => T!Listed(server.seeded) = T!Listed(config.scripts)
                      /\ mod = "ScyllaDB" => server.made = T!Listed(config.scripts)
                      /\ mod = "Kafka" => server.made = config.extras
                      /\ mod \in {"MinIO", "RabbitMQ"}
                            => T!Sorted(server.made) = T!Sorted(config.extras)
    BY DEF T!AllApplied
  <2>1. /\ spec = T!Rendered(mod, config) /\ server # T!NoServer /\ server.body = T!Body(spec)
        /\ Settled(mod, server)
    BY DEF ModInv, ConfigInv, ServerInv, SettledInv
  <2>2. /\ server.body.label = T!Rendered(mod, config).label
        /\ server.body.files = T!Rendered(mod, config).files
    BY <2>1 DEF T!Body
  <2>3. config.scripts \in Seq(Script)
    BY <1>1 DEF Builder
  <2>4. ASSUME T!Initdb(mod), config.waits = <<>>
        PROVE T!Listed(server.seeded) = T!Listed(config.scripts)
    <3>1. server.seeded = T!RunsScripts(mod, T!Staged(config.scripts, 0))
      BY <1>1, <2>2, <2>4, RenderedBody DEF ModInv, ReadyInv
    <3>2. \A j \in DOMAIN config.scripts : config.scripts[j].ext \in T!KnownTo(mod)
      BY <1>1, <2>4 DEF Sane
    <3> QED BY <2>3, <3>1, <3>2, RunsInOrder, StagedNames
  <2>5. mod = "ScyllaDB" => server.made = T!Listed(config.scripts)
    BY <1>1, <2>1, <2>2, <2>3, RenderedBody, StagedNames DEF Settled
  <2>6. mod = "Kafka" => server.made = config.extras
    BY <1>1, <2>1, <2>2, RenderedBody DEF Settled
  <2>7. mod \in {"MinIO", "RabbitMQ"} => T!Sorted(server.made) = T!Sorted(config.extras)
    BY <1>1, <2>1, <2>2, RenderedBody DEF Settled
  <2> QED BY <2>4, <2>5, <2>6, <2>7
<1> QED BY <1>2, <1>3, <1>4, <1>5, <1>6
-----------------------------------------------------------------------------
(* The parts together. A behaviour of Resources is one of the component    *)
(* that its part tells, so that the theorems of the components apply.      *)

Of(p) == part = p

\* Which part a behaviour is of never changes.
LEMMA PartStays == ASSUME NEW p PROVE [ResourcesNext]_allVars => (Of(p)' <=> Of(p))
BY DEF ResourcesNext, allVars, Of

\* Every behaviour is one of the chain's: in the other parts nobody waits for it.
LEMMA WaitsAsSpecified == ResourcesSpec => Spec
<1>1. ResourcesInit => Init
  BY DEF ResourcesInit, Unused
<1>2. [ResourcesNext]_allVars => [Next]_vars
  BY DEF ResourcesNext, allVars
<1>3. QED BY <1>1, <1>2, PTL DEF ResourcesSpec, Spec

LEMMA HandlesAsSpecified ==
  ResourcesSpec => (Of("handle") => H!Spec) /\ ([]Of("handle") \/ []~Of("handle"))
<1>1. ResourcesInit /\ Of("handle") => H!Init
  BY DEF ResourcesInit, Of
<1>2. Of("handle") /\ [ResourcesNext]_allVars => [H!Next]_(H!vars)
  BY DEF ResourcesNext, allVars, Of, handleVars, H!vars
<1>3. [ResourcesNext]_allVars => (Of("handle")' <=> Of("handle"))
  BY PartStays
<1>4. QED BY <1>1, <1>2, <1>3, PTL DEF ResourcesSpec, H!Spec

LEMMA AccessAsSpecified ==
  ResourcesSpec => (Of("access") => A!Spec) /\ ([]Of("access") \/ []~Of("access"))
<1>1. ResourcesInit /\ Of("access") => A!Init
  BY DEF ResourcesInit, Of
<1>2. Of("access") /\ [ResourcesNext]_allVars => [A!Next]_(A!vars)
  BY DEF ResourcesNext, allVars, Of, accessVars, A!vars, A!state, A!world
<1>3. [ResourcesNext]_allVars => (Of("access")' <=> Of("access"))
  BY PartStays
<1>4. QED BY <1>1, <1>2, <1>3, PTL DEF ResourcesSpec, A!Spec

LEMMA NamedAsSpecified ==
  ResourcesSpec => (Of("named") => N!Spec) /\ ([]Of("named") \/ []~Of("named"))
<1>1. ResourcesInit /\ Of("named") => N!Init
  BY DEF ResourcesInit, Of
<1>2. Of("named") /\ [ResourcesNext]_allVars => [N!Next]_(N!vars)
  BY DEF ResourcesNext, allVars, Of, namedVars, N!vars
<1>3. [ResourcesNext]_allVars => (Of("named")' <=> Of("named"))
  BY PartStays
<1>4. QED BY <1>1, <1>2, <1>3, PTL DEF ResourcesSpec, N!Spec

LEMMA StacksAsSpecified ==
  ResourcesSpec => (Of("compose") => C!Spec) /\ ([]Of("compose") \/ []~Of("compose"))
<1>1. ResourcesInit /\ Of("compose") => C!Init
  BY DEF ResourcesInit, Of
<1>2. Of("compose") /\ [ResourcesNext]_allVars => [C!Next]_(C!vars)
  BY DEF ResourcesNext, allVars, Of, stackVars, C!vars, C!world
<1>3. [ResourcesNext]_allVars => (Of("compose")' <=> Of("compose"))
  BY PartStays
<1>4. QED BY <1>1, <1>2, <1>3, PTL DEF ResourcesSpec, C!Spec

LEMMA ModulesAsSpecified ==
  ResourcesSpec => (Of("module") => T!Spec) /\ ([]Of("module") \/ []~Of("module"))
<1>1. ResourcesInit /\ Of("module") => T!Init
  BY DEF ResourcesInit, Of
<1>2. Of("module") /\ [ResourcesNext]_allVars => [T!Next]_(T!vars)
  BY DEF ResourcesNext, allVars, Of, techVars, T!vars
<1>3. [ResourcesNext]_allVars => (Of("module")' <=> Of("module"))
  BY PartStays
<1>4. QED BY <1>1, <1>2, <1>3, PTL DEF ResourcesSpec, T!Spec

\* What a container, a network or a volume is owed, it gets once (docker/Container.cpp,
\* Network.cpp, Volume.cpp).
THEOREM EachOwnedOnce == ResourcesSpec => []OwnedOnce
<1>1. H!HandleAssumption /\ N!NamedAssumption
  BY ResourcesAssumption
<1>2. H!Spec => []H!OwnedOnce
  BY <1>1, OwedOnce
<1>3. N!Spec => []N!OwnedOnce
  BY <1>1, NamedOwedOnce
<1>4. (Of("handle") => H!OwnedOnce) /\ (Of("named") => N!OwnedOnce) => OwnedOnce
  BY DEF OwnedOnce, Of
<1>5. QED BY <1>2, <1>3, <1>4, HandlesAsSpecified, NamedAsSpecified, PTL DEF ResourcesSpec

\* No step leaves a container without an owner unless it is removed, a kept one is left alone,
\* who has the alias of the host reaches its ports, and a released network is free
\* (docker/Container.cpp, HostPortForwarding.cpp).
THEOREM OwnersAnswerAlways == ResourcesSpec => OwnerSteps
<1>1. H!HandleAssumption /\ A!HostAccessAssumption
  BY ResourcesAssumption
<1>2. H!Spec => [][H!OwnerSteps]_(H!vars)
  BY <1>1, OwnersAnswer
<1>3. A!Spec => [][A!OwnerSteps]_(A!vars)
  BY <1>1, AliasAndRelease
<1>4. [ResourcesNext]_allVars /\ (Of("handle") => [H!OwnerSteps]_(H!vars))
        /\ (Of("access") => [A!OwnerSteps]_(A!vars))
        => [/\ part = "handle" => H!OwnerSteps
            /\ part = "access" => A!OwnerSteps]_allVars
  <2>1. ASSUME Of("handle"), ResourcesNext, UNCHANGED H!vars PROVE UNCHANGED allVars
    BY <2>1 DEF Of, ResourcesNext, allVars, handleVars, H!vars
  <2>2. ASSUME Of("access"), ResourcesNext, UNCHANGED A!vars PROVE UNCHANGED allVars
    BY <2>2 DEF Of, ResourcesNext, allVars, accessVars, A!vars, A!state, A!world
  <2>3. QED BY <2>1, <2>2 DEF Of
<1>5. QED BY <1>2, <1>3, <1>4, HandlesAsSpecified, AccessAsSpecified, PTL DEF ResourcesSpec,
   OwnerSteps


\* A sidecar does not outlive the wiring that failed, nor a compose project its stack or the
\* process (HostPortForwarding.cpp, DockerComposeContainer.cpp).
THEOREM NothingStraysEver == ResourcesSpec => []NothingStrays
<1>1. A!HostAccessAssumption /\ C!ComposeAssumption
  BY ResourcesAssumption
<1>2. A!Spec => []A!NoStraySidecar
  BY <1>1, NoneStrays
<1>3. C!Spec => []C!TornDown
  BY <1>1, NothingOutlives
<1>4. C!Spec => []C!CrashSwept
  BY <1>1, SweptAfterCrash
<1>5. (Of("access") => A!NoStraySidecar) /\ (Of("compose") => C!TornDown /\ C!CrashSwept)
        => NothingStrays
  BY DEF NothingStrays, Of
<1>6. QED BY <1>2, <1>3, <1>4, <1>5, AccessAsSpecified, StacksAsSpecified, PTL DEF ResourcesSpec

\* A stack that is up keeps its relays and its teardown through moves and failed calls
\* (DockerComposeContainer.cpp).
THEOREM StackStaysWholeEver == ResourcesSpec => []StackStaysWhole
<1>1. C!ComposeAssumption
  BY ResourcesAssumption
<1>2. C!Spec => []C!StackStaysWhole
  BY <1>1, StacksWhole
<1>3. (Of("compose") => C!StackStaysWhole) => StackStaysWhole
  BY DEF StackStaysWhole, Of
<1>4. QED BY <1>2, <1>3, StacksAsSpecified, PTL DEF ResourcesSpec

\* The getters of all fourteen modules describe the server that started, whatever the setters of
\* TechModules were called with, in whatever order (to_generic and the getters of src/modules);
\* but for the login of a passwordless root whose password was also set raw, which MySqlFamily.cpp
\* leaves in force (119-123).
THEOREM HandlesTrue == ResourcesSpec => []HandleTrue
<1>1. T!ModulesAssumption
  BY ResourcesAssumption
<1>2. T!Spec => []ModInv
  BY <1>1, ModInvariant
<1>3. ModInv => T!HandleTrue
  BY <1>1, ModPromises
<1>4. (Of("module") => T!HandleTrue) => HandleTrue
  BY DEF HandleTrue, Of
<1>5. QED BY <1>2, <1>3, <1>4, ModulesAsSpecified, PTL DEF ResourcesSpec

\* When start() of a module returns, the server is the real one, no probe has harmed it, and its
\* scripts have run, its buckets, topics and plugins are there, in an adopted container too
\* (to_generic, the waits and the started hooks of src/modules).
THEOREM ServersReady == ResourcesSpec => []ServerReady
<1>1. T!ModulesAssumption
  BY ResourcesAssumption
<1>2. T!Spec => []ModInv
  BY <1>1, ModInvariant
<1>3. ModInv => T!ReadyIsReal /\ T!ProbesHarmless /\ T!AllApplied
  BY <1>1, ModPromises
<1>4. (Of("module") => T!ReadyIsReal /\ T!ProbesHarmless /\ T!AllApplied) => ServerReady
  BY DEF ServerReady, Of
<1>5. QED BY <1>2, <1>3, <1>4, ModulesAsSpecified, PTL DEF ResourcesSpec

\* All states of all components are of their types.
THEOREM TypesCorrect == ASSUME IsFiniteSet(Started) PROVE ResourcesSpec => []Types
<1>1. /\ H!HandleAssumption /\ N!NamedAssumption /\ A!HostAccessAssumption /\ C!ComposeAssumption
      /\ T!ModulesAssumption
  BY ResourcesAssumption
<1>2. Spec => []TypeOK
  BY WaitTypeCorrect
<1>3. H!Spec => []H!TypeOK
  BY <1>1, HandleTypeCorrect
<1>4. A!Spec => []A!TypeOK
  BY <1>1, AccessTypeCorrect
<1>5. N!Spec => []N!TypeOK
  BY <1>1, NamedTypeCorrect
<1>6. C!Spec => []C!TypeOK
  BY <1>1, StackTypeCorrect
<1>7. T!Spec => []ModInv
  BY <1>1, ModInvariant
<1>8. ModInv => T!TypeOK
  BY <1>1, ModPromises
<1>9. TypeOK /\ (Of("handle") => H!TypeOK) /\ (Of("access") => A!TypeOK) /\ (Of("named") => N!TypeOK)
        /\ (Of("compose") => C!TypeOK) /\ (Of("module") => T!TypeOK) => Types
  BY DEF Types, Of
<1>10. QED BY <1>2, <1>3, <1>4, <1>5, <1>6, <1>7, <1>8, <1>9, WaitsAsSpecified,
   HandlesAsSpecified, AccessAsSpecified, NamedAsSpecified, StacksAsSpecified, ModulesAsSpecified,
   PTL DEF ResourcesSpec
=============================================================================
