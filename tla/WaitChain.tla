----------------------------- MODULE WaitChain -----------------------------
(***************************************************************************)
(* wait_until_ready (WaitStrategies.cpp): the conditions of a request,     *)
(* waited for one after the other under one startup deadline. The clock,   *)
(* the container and the daemon are the environment. Time passes while the *)
(* thread sleeps, or is inside a call that takes up to its own bound.      *)
(***************************************************************************)
EXTENDS Integers, Sequences, FiniteSets, SequencesExt

CONSTANTS
  Chains,     \* the chains of conditions to wait for
  Timeouts,   \* startup timeouts
  Poll,       \* the poll interval
  Io,         \* TransportTimeouts: what a round-trip to the daemon may take
  ProbeCap,   \* the cap of a probe, 5 s
  MaxTime,    \* time_point::max()
  MaxLog      \* bound: occurrences of the text in the log

Sources  == {"out", "err"}
Kinds    == {"none", "log", "duration", "exit", "health", "http", "port", "command"}
Polled   == {"exit", "health", "http", "port", "command"}
\* The round-trips of an exec: connect, exec create, exec start until its header, the
\* output, and the inspect that reads the exit code back, after an exit 0 or not.
Trips    == {"attach", "create", "start", "run", "inspect", "passed"}

\* WaitFor: source and times of a LogMessage, value of a Duration, code of an Exit.
WaitFor == [kind : Kinds, source : {"out", "err", "both"}, times : Nat, value : Nat,
            code : {"any", "0", "1"}]

\* Assumed of the constants. A chain without conditions is ready before it starts.
ASSUME WaitAssumption ==
  /\ Chains \subseteq Seq(WaitFor) \ {<<>>} /\ Timeouts \subseteq Nat
  /\ Poll \in Nat \ {0} /\ Io \in Nat \ {0} /\ ProbeCap \in Nat \ {0}
  /\ MaxTime \in Nat /\ MaxLog \in Nat \ {0}

VARIABLES
  \* wait_until_ready
  waits, tty, timeout, deadline,
  i,          \* the condition waited for
  pc,         \* enter, follow, busy, sleep, nap, ready, or how it was left: timeout
              \* (StartupTimeoutError), failed (any other error)
  call,       \* what it is busy with: resolve, probe, snapshot, connect or one of Trips
  until,      \* when the call or the sleep ends at the latest
  seen, pos,  \* occurrences counted and delivered in this follow stream
  \* the world
  now, running, code, health, port, log,
  lived,      \* how often the container has been started
  met         \* the conditions that have held while they were waited for

program == <<waits, tty, timeout, deadline, i, pc, call, until, seen, pos>>
container == <<running, code, health, port, log, lived>>
vars == <<program, now, container, met>>

Running == pc \notin {"ready", "timeout", "failed"}
W == waits[i]

TypeOK ==
  /\ waits \in Chains /\ tty \in BOOLEAN /\ timeout \in Timeouts
  /\ deadline \in 0..MaxTime /\ now \in 0..MaxTime
  /\ i \in 1..(Len(waits) + 1)
  /\ pc \in {"enter", "follow", "busy", "sleep", "nap", "ready", "timeout", "failed"}
  /\ call \in {"resolve", "probe", "snapshot", "connect"} \cup Trips
  /\ until \in 0..MaxTime /\ pos \in 0..MaxLog /\ seen \in 0..pos
  /\ running \in {"yes", "no", "gone"} /\ code \in {"0", "1"} /\ lived \in 1..2
  /\ health \in {"none", "starting", "healthy", "unhealthy"}
  /\ port \in {"unpublished", "closed", "mute", "drops", "unready", "serving"}
  /\ log \in Seq(Sources) /\ met \subseteq 1..Len(waits)

-----------------------------------------------------------------------------
(* Time.                                                                   *)

\* Mutant: the sum wraps into the past.
WrappingAdd(at, delta) == (at + delta) % (MaxTime + 1)

SaturatedAdd(at, delta) == IF delta >= MaxTime - at THEN MaxTime ELSE at + delta

Before(a, b) == IF a < b THEN a ELSE b
After(a, b) == IF a < b THEN b ELSE a

\* Mutant: a probe does not look at the deadline.
CapOnly == ProbeCap

\* What is left, at most 5 s and at least 1 ms.
ProbeBudget == After(1, Before(deadline - now, ProbeCap))

Expired == now >= deadline

-----------------------------------------------------------------------------
(* What a condition means, and what its probe concludes from an answer.    *)

\* The text's occurrences in the selected streams; a TTY has only one stream.
Shown(s) == IF tty THEN "out" ELSE s
Selected(w, s) == w.source \in {Shown(s), "both"}
Needed(w) == After(1, w.times)
Count(w, upto) == Cardinality({k \in 1..upto : Selected(w, log[k])})

Ready   == "ready"
NotYet  == "again"
Fatal   == "failed"

ExitVerdict(w) ==
  IF running = "yes" THEN NotYet ELSE IF w.code \in {"any", code} THEN Ready ELSE Fatal

HealthVerdict == CASE health = "healthy"  -> Ready
                   [] health = "starting" -> NotYet
                   [] OTHER               -> Fatal

\* Mutant: a peer that closes without an answer leaves the default status, 200.
DefaultStatus == port \in {"serving", "drops"}

\* http_probe: no answer at all is not an answer.
Answers200 == port = "serving"

HttpVerdict == IF Answers200 THEN Ready ELSE NotYet
PortVerdict == IF port \in {"mute", "drops", "unready", "serving"} THEN Ready ELSE NotYet

Exits0 == running = "yes" /\ code = "0"

\* An attempt that has exited 0, be it since its output was cut off; any other, and one
\* that still runs, is not ready yet, except that the container is gone.
CommandVerdicts ==
  CASE running = "gone"                       -> {Fatal}
    [] running # "gone" /\ call = "passed"    -> {Ready}
    [] running # "gone" /\ call # "passed"    -> {NotYet} \cup IF Exits0 THEN {Ready} ELSE {}

\* Inspecting a container that is gone throws.
Verdicts(w) ==
  CASE w.kind \in {"exit", "health"} /\ running = "gone" -> {Fatal}
    [] w.kind = "exit"    /\ running # "gone" -> {ExitVerdict(w)}
    [] w.kind = "health"  /\ running # "gone" -> {HealthVerdict}
    [] w.kind = "http"    -> {HttpVerdict}
    [] w.kind = "port"    -> {PortVerdict}
    [] w.kind = "command" -> CommandVerdicts

\* What the condition promises the caller, of the world.
Holds(w) ==
  CASE w.kind = "log"      -> Count(w, Len(log)) >= Needed(w)
    [] w.kind = "exit"     -> running = "no" /\ w.code \in {"any", code}
    [] w.kind = "health"   -> health = "healthy"
    [] w.kind = "http"     -> port = "serving"
    [] w.kind = "port"     -> port \notin {"unpublished", "closed"}
    [] w.kind = "command"  -> Exits0
    [] w.kind = "duration" -> pc = "nap" /\ now >= until
    [] w.kind = "none"     -> TRUE

\* The world only varies where the chain looks at it.
Cares(kinds) == \E k \in DOMAIN waits : waits[k].kind \in kinds

Init ==
  /\ waits \in Chains /\ tty \in (IF Cares({"log"}) THEN BOOLEAN ELSE {FALSE}) /\ timeout \in Timeouts
  /\ now = 0 /\ deadline = SaturatedAdd(0, timeout)
  /\ i = 1 /\ pc = "enter" /\ call = "probe" /\ until = 0 /\ seen = 0 /\ pos = 0
  /\ running = "yes" /\ lived = 1 /\ code = "0"
  /\ health \in IF Cares({"health"}) THEN {"none", "starting"} ELSE {"none"}
  /\ port \in IF Cares({"http", "port"}) THEN {"unpublished", "closed", "mute"} ELSE {"closed"}
  /\ log \in IF Cares({"log"}) THEN {<<>>, <<"out">>, <<"err">>} ELSE {<<>>}
  /\ met = {}

-----------------------------------------------------------------------------
(* The chain.                                                              *)

\* met is a history variable.
Observe == met' = met \cup {k \in {i} : i <= Len(waits) /\ Holds(W)}

Step == Observe /\ UNCHANGED <<waits, tty, timeout, deadline, now, container>>

\* Throw, or go on with what is left of the condition.
To(p) == pc' = p /\ UNCHANGED <<i, call, until, seen, pos>>
Busy(what, bound) == /\ pc' = "busy" /\ call' = what
                     /\ until' = SaturatedAdd(now, bound)
                     /\ UNCHANGED <<i, seen, pos>>

\* Mutant: the next condition is entered without a budget.
NoRecheck == FALSE

\* The budget is spent before the next condition.
SpentBetween == Expired /\ i < Len(waits)

\* The condition is satisfied.
Satisfied ==
  /\ pc' = IF SpentBetween THEN "timeout" ELSE IF i = Len(waits) THEN "ready" ELSE "enter"
  /\ i' = i + 1 /\ seen' = 0 /\ pos' = 0
  /\ UNCHANGED <<call, until>>

\* clamped_wait_plan: the duration does not fit.
Overspent == SaturatedAdd(now, W.value) > deadline

\* Follow the log, or take a last look at it.
LookAtLog == Busy(IF Expired THEN "snapshot" ELSE "connect", Io)

\* An attempt: only its output is bounded by the deadline.
RunCommand == Busy("attach", Io)

Enter ==
  /\ pc = "enter" /\ Step
  /\ CASE W.kind = "none"               -> Satisfied
       [] W.kind = "duration"           -> /\ pc' = "nap"
                                           /\ until' = Before(SaturatedAdd(now, W.value), deadline)
                                           /\ call' = IF Overspent THEN "snapshot" ELSE "probe"
                                           /\ UNCHANGED <<i, seen, pos>>
       [] W.kind = "log"                -> LookAtLog
       [] W.kind \in {"http", "port"}   -> Busy("resolve", Io)
       [] W.kind \in {"exit", "health"} -> Busy("probe", Io)
       [] W.kind = "command"            -> RunCommand

NapEnds ==
  /\ pc = "nap" /\ now = until /\ Step
  /\ IF call = "snapshot" THEN To("timeout") ELSE Satisfied

\* A transport error or an expired call of the daemon; a command or a log stream
\* that fails at the deadline is the readiness timeout.
CallFails ==
  /\ pc = "busy" /\ call # "run" /\ (call # "probe" \/ W.kind \notin {"http", "port"})
  /\ Step
  /\ To(IF Expired /\ (W.kind = "command" \/ call = "connect") THEN "timeout" ELSE "failed")

\* mapped_host_port.
Resolved ==
  /\ pc = "busy" /\ call = "resolve" /\ Step
  /\ IF port = "unpublished" \/ running = "gone" THEN To("failed") ELSE Busy("probe", ProbeBudget)

\* A peer that accepts and says nothing keeps an HTTP probe until its own bound.
Hangs == W.kind = "http" /\ port = "mute" /\ now < until

\* Not ready: throw at the deadline, else sleep. Only a command's sleep is
\* clamped to the deadline.
Again ==
  IF Expired THEN To("timeout")
  ELSE /\ pc' = "sleep"
       /\ until' = IF W.kind = "command"
                   THEN Before(SaturatedAdd(now, Poll), SaturatedAdd(deadline, 1))
                   ELSE SaturatedAdd(now, Poll)
       /\ UNCHANGED <<i, call, seen, pos>>

\* The next round-trip of an attempt.
NextTrip ==
  /\ pc = "busy" /\ Step
  /\ \/ call = "attach" /\ Busy("create", Io)
     \/ call = "create" /\ running = "yes" /\ Busy("start", Io)
     \/ call = "start" /\ running = "yes" /\ IF Expired THEN Busy("inspect", Io)
                                             ELSE Busy("run", deadline - now)
     \/ call = "run" /\ Busy("inspect", Io)
     \/ call = "run" /\ Exits0 /\ Busy("passed", Io)

\* An error of the daemon, such as 409 while the container is (re)starting, is not
\* ready yet; a 404 is the end.
TripRefused ==
  /\ pc = "busy" /\ call \in Trips /\ Step
  /\ Again \/ (running = "gone" /\ call \notin {"attach", "run"} /\ To("failed"))

Probed ==
  /\ pc = "busy" /\ call \in {"probe", "inspect", "passed"} /\ W.kind \in Polled /\ ~Hangs
  /\ Step
  /\ \E v \in Verdicts(W) : CASE v = Ready  -> Satisfied
                              [] v = NotYet -> Again
                              [] v = Fatal  -> To("failed")

SleepEnds ==
  /\ pc = "sleep" /\ now = until /\ Step
  /\ CASE W.kind = "log"                -> LookAtLog
       [] W.kind \in {"http", "port"}   -> Busy("probe", ProbeBudget)
       [] W.kind \in {"exit", "health"} -> Busy("probe", Io)
       [] W.kind = "command"            -> RunCommand

-----------------------------------------------------------------------------
(* wait_for_log.                                                           *)

\* Out of budget: one last look at the whole log.
Snapshot ==
  /\ pc = "busy" /\ call = "snapshot" /\ running # "gone" /\ Step
  /\ IF Count(W, Len(log)) >= Needed(W) THEN Satisfied ELSE To("timeout")

\* Mutant: the counters survive a new follow stream, which starts over.
KeepSeen == seen

\* New counters for every stream.
FreshCounters == 0

Follow ==
  /\ pc = "busy" /\ call = "connect" /\ running # "gone" /\ Step
  /\ pc' = "follow" /\ pos' = 0 /\ seen' = FreshCounters
  /\ UNCHANGED <<i, call, until>>

\* A chunk; the consumer stops the stream when it has seen enough or it is late.
Deliver ==
  LET n == seen + Cardinality({k \in {pos + 1} : Selected(W, log[k])}) IN
  /\ pc = "follow" /\ pos < Len(log) /\ Step
  /\ IF n >= Needed(W) THEN Satisfied
     ELSE /\ pos' = pos + 1 /\ seen' = n
          /\ pc' = IF Expired THEN "timeout" ELSE "follow"
          /\ UNCHANGED <<i, call, until>>

\* The re-armed io deadline fires.
FollowExpires == pc = "follow" /\ Expired /\ Step /\ To("timeout")

\* The container stopped, or the daemon cut the stream: pause and follow again.
StreamEnds ==
  /\ pc = "follow" /\ (pos = Len(log) => running # "yes") /\ Step
  /\ IF Expired THEN To("timeout")
     ELSE /\ pc' = "sleep"
          /\ until' = Before(now + Poll, SaturatedAdd(deadline, 1))
          /\ UNCHANGED <<i, call, seen, pos>>

-----------------------------------------------------------------------------
(* The clock and the container.                                            *)

Tick ==
  /\ now < MaxTime
  /\ \/ pc \in {"busy", "sleep", "nap"} /\ now < until
     \/ pc = "follow" /\ now < deadline
  /\ now' = now + 1
  /\ Observe /\ UNCHANGED <<program, container>>

Watched(kinds) == Running /\ Cares(kinds)

Changes == Observe /\ UNCHANGED <<program, now>>

Stops ==
  /\ Watched({"exit", "command", "log"}) /\ running = "yes"
  /\ running' = "no" /\ code' \in {"0", "1"}
  /\ Changes /\ UNCHANGED <<health, port, log, lived>>

Restarts ==
  /\ Watched({"exit", "command", "log"}) /\ running = "no" /\ lived < 2
  /\ running' = "yes" /\ lived' = lived + 1
  /\ Changes /\ UNCHANGED <<code, health, port, log>>

Removed ==
  /\ Running /\ running # "gone" /\ running' = "gone"
  /\ Changes /\ UNCHANGED <<code, health, port, log, lived>>

HealthChanges ==
  /\ Watched({"health"}) /\ health = "starting"
  /\ health' \in {"healthy", "unhealthy"}
  /\ Changes /\ UNCHANGED <<running, code, port, log, lived>>

PortChanges ==
  /\ Watched({"http", "port"}) /\ port # "unpublished"
  /\ port' \in {"closed", "mute", "drops", "unready", "serving"} \ {port}
  /\ Changes /\ UNCHANGED <<running, code, health, log, lived>>

Logs ==
  /\ Watched({"log"}) /\ running = "yes" /\ Len(log) < MaxLog
  /\ \E s \in Sources : log' = Append(log, s)
  /\ Changes /\ UNCHANGED <<running, code, health, port, lived>>

Caller == \/ Enter \/ NapEnds \/ CallFails \/ Resolved \/ Probed \/ NextTrip \/ TripRefused \/ SleepEnds
          \/ Snapshot \/ Follow \/ Deliver \/ FollowExpires \/ StreamEnds
World  == Stops \/ Restarts \/ Removed \/ HealthChanges \/ PortChanges \/ Logs

\* The caller has its answer.
Done == ~Running /\ UNCHANGED vars

Next == Caller \/ Tick \/ World \/ Done

Spec == Init /\ [][Next]_vars

-----------------------------------------------------------------------------
(* Properties. *)

\* A condition the chain has passed has held while it was waited for: no
\* occurrence counted twice over a re-follow, no closed connection taken for an
\* answer, no exit code of another kind.
PassedWasMet == \A k \in 1..(i - 1) : k \in met

\* The chain ends within one poll interval and one round-trip of its deadline, whatever
\* the port, the daemon or the command does meanwhile; with a command in it, within the
\* four round-trips of the attempt that began last, none of which the deadline shortens.
Overrun == Poll + IF Cares({"command"}) THEN 4 * Io ELSE Io
EndsInTime == now <= SaturatedAdd(deadline, Overrun)

\* "Fail fast rather than enter the next strategy with no budget".
NoBudgetNoEntry == (pc = "enter" /\ i > 1) => ~Expired

\* A startup timeout is only reported when the startup timeout has passed, which
\* a "wait forever"-sized one never has, and a duration ends the chain only if it
\* is longer than the timeout: one "ending exactly on the deadline still fits".
TimeoutIsReal ==
  pc = "timeout" => /\ now >= timeout \/ now = MaxTime
                    /\ (i = 1 /\ W.kind = "duration") => timeout < W.value

\* The startup timeout is one budget: it ends the chain, it is not entered without,
\* and it is not reported before it is over.
OneBudget == EndsInTime /\ NoBudgetNoEntry /\ TimeoutIsReal

\* "An expired budget always gets one final snapshot check": when the text has
\* been in the log before the call, a log wait does not time out.
LoggedIsFound ==
  \A k \in 1..Len(waits) :
    (pc = "timeout" /\ i = k /\ waits[k].kind = "log") => k \notin met
=============================================================================
