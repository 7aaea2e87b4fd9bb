------------------------------- MODULE Reaper -------------------------------
(***************************************************************************)
(* The per-daemon crash-safety reaper of one process (src/Reaper.cpp): the *)
(* registry `daemons_` behind `mutex_`, the bootstrap of a Ryuk container  *)
(* on first sight of a daemon, the filter handshake on its control socket, *)
(* and Ryuk itself as the code relies on it.                               *)
(*                                                                         *)
(* A thread asks for a reaper (ensure_started) or for an extra filter      *)
(* (register_filter) and, when the call returns, creates a labelled        *)
(* resource: what run(), Network, Volume and the compose stack all do.     *)
(***************************************************************************)
EXTENDS Naturals, Sequences, SequencesExt

CONSTANTS
  Threads,         \* threads of the process that use the library
  Endpoints,       \* daemon endpoint URLs (the keys of daemons_)
  Env,             \* the environment daemon, where register_filter goes
  WindowsEngines,  \* endpoints in Windows-containers mode
  Session,         \* the session-id filter line
  Projects,        \* compose project filter lines
  Ryuks,           \* identities of the Ryuk containers that may be created
  MaxTries,        \* handshake attempts that fit in the 20 s deadline
  MaxLate,         \* bound: calls start while at most this many lines are unanswered
  Faults,          \* which misbehaviours of the environment may happen
  Absent,          \* no entry in daemons_
  Skipped,         \* a null entry in daemons_
  NoThread         \* nobody holds mutex_

Lines == {Session} \cup Projects
\* rm: a best-effort removal fails; slow: a reply outlives the 5 s leg budget;
\* garble: Ryuk answers something else than ACK; drop: a control connection is
\* cut; die: a Ryuk container disappears.
FaultKinds == {"rm", "slow", "garble", "drop", "die"}

ASSUME ReaperAssumption ==
  /\ Env \in Endpoints
  /\ WindowsEngines \subseteq Endpoints
  /\ Session \notin Projects
  /\ MaxTries \in Nat \ {0} /\ MaxLate \in Nat
  /\ Faults \subseteq FaultKinds
  /\ Absent \notin Ryuks /\ Skipped \notin Ryuks /\ Absent # Skipped
  /\ NoThread \notin Threads

VARIABLES
  \* the process
  disabled,   \* ryuk_disabled()
  alive,      \* the process has not died
  holder,     \* the thread that holds mutex_
  pc,         \* where each thread is in its call
  call,       \* the endpoint and the filter line each call is about
  booting,    \* the Ryuk container a bootstrap has created
  tries,      \* handshake attempts a bootstrap has used up
  daemons,    \* daemons_: endpoint -> Ryuk, Skipped or Absent
  filters,    \* Impl::filters of each Ryuk
  \* the daemons and their Ryuks
  ryuk,       \* each Ryuk container: not created yet, created, running, gone
  host,       \* the daemon a Ryuk container was created on
  link,       \* the control connection, as the Ryuk container sees it
  inbox,      \* lines sent and not yet read; live: on the current connection
  replies,    \* answers (acknowledged or not) the process has not read yet
  known,      \* the filters a Ryuk has registered
  resources   \* labelled containers, networks, volumes and images

threadVars == <<holder, pc, call, booting, tries>>
ryukVars   == <<ryuk, host, link, inbox, replies, known>>
vars == <<disabled, alive, threadVars, daemons, filters, ryukVars, resources>>

-----------------------------------------------------------------------------
PCs == {"idle", "lock", "boot", "start", "inspect", "connect", "hello", "ack",
        "write", "reply", "granted"}
Booting == {"start", "inspect", "connect", "hello", "ack"}
Inside  == Booting \cup {"boot", "write", "reply"}

TypeOK ==
  /\ disabled \in BOOLEAN /\ alive \in BOOLEAN
  /\ holder \in Threads \cup {NoThread}
  /\ pc \in [Threads -> PCs]
  /\ call \in [Threads -> [ep : Endpoints, line : Lines]]
  /\ booting \in [Threads -> Ryuks \cup {Absent}]
  /\ tries \in [Threads -> 0..MaxTries]
  /\ daemons \in [Endpoints -> Ryuks \cup {Absent, Skipped}]
  /\ filters \in [Ryuks -> Seq(Lines)]
  /\ ryuk \in [Ryuks -> {"none", "created", "running", "gone"}]
  /\ host \in [Ryuks -> Endpoints]
  /\ link \in [Ryuks -> {"none", "open", "closed"}]
  /\ inbox \in [Ryuks -> Seq([line : Lines, live : BOOLEAN])]
  /\ replies \in [Ryuks -> Seq(BOOLEAN)]
  /\ known \in [Ryuks -> SUBSET Lines]
  /\ resources \subseteq [ep : Endpoints, labels : SUBSET Lines]

Init ==
  /\ disabled \in BOOLEAN /\ alive = TRUE
  /\ holder = NoThread
  /\ pc = [t \in Threads |-> "idle"]
  /\ call = [t \in Threads |-> [ep |-> Env, line |-> Session]]
  /\ booting = [t \in Threads |-> Absent]
  /\ tries = [t \in Threads |-> 0]
  /\ daemons = [e \in Endpoints |-> Absent]
  /\ filters = [r \in Ryuks |-> <<>>]
  /\ ryuk = [r \in Ryuks |-> "none"]
  /\ host = [r \in Ryuks |-> Env]
  /\ link = [r \in Ryuks |-> "none"]
  /\ inbox = [r \in Ryuks |-> <<>>]
  /\ replies = [r \in Ryuks |-> <<>>]
  /\ known = [r \in Ryuks |-> {}]
  /\ resources = {}

-----------------------------------------------------------------------------
(* Control flow of a call. mutex_ is held from Lock to Leave, also when an *)
(* exception unwinds the call.                                             *)

Goto(t, from, to) == pc[t] = from /\ pc' = [pc EXCEPT ![t] = to]

\* The call returns; the caller goes on to create its resource.
Leave(t) ==
  /\ holder' = NoThread
  /\ pc' = [pc EXCEPT ![t] = "granted"]
  /\ booting' = [booting EXCEPT ![t] = Absent]

\* Mutant: an exception leaves mutex_ locked.
ThrowLocked(t) ==
  /\ UNCHANGED holder
  /\ pc' = [pc EXCEPT ![t] = "idle"]
  /\ booting' = [booting EXCEPT ![t] = Absent]

\* The call throws: nothing is recorded and the caller creates nothing.
Throw(t) ==
  /\ holder' = NoThread
  /\ pc' = [pc EXCEPT ![t] = "idle"]
  /\ booting' = [booting EXCEPT ![t] = Absent]

LabelsOf(t) == IF call[t].line = Session /\ disabled THEN {} ELSE {call[t].line}

\* Mutant: any entry serves any call.
ServedByAnyEntry(t, d) == TRUE

\* The entry d already gives the call what it asks for.
Served(t, d) == (d \in Ryuks /\ call[t].line # Session) => call[t].line \in ToSet(filters[d])

Call(t) ==
  /\ Goto(t, "idle", "lock")
  /\ \A r \in Ryuks : Len(inbox[r]) + Len(replies[r]) <= MaxLate
  /\ \/ \E e \in Endpoints : call' = [call EXCEPT ![t] = [ep |-> e, line |-> Session]]
     \/ \E p \in Projects : call' = [call EXCEPT ![t] = [ep |-> Env, line |-> p]]
  /\ UNCHANGED <<disabled, alive, holder, booting, tries, daemons, filters, ryukVars, resources>>

\* Mutant: no lock.
MutexIgnored == TRUE

MutexFree == holder = NoThread

\* lock_guard, the disabled check and daemons_.find().
Lock(t) ==
  LET d == daemons[call[t].ep] IN
  /\ pc[t] = "lock" /\ MutexFree
  /\ \/ /\ disabled \/ (d # Absent /\ Served(t, d))
        /\ Leave(t)
     \/ /\ ~disabled /\ d = Absent
        /\ holder' = t /\ Goto(t, "lock", "boot")
        /\ UNCHANGED booting
     \/ /\ ~disabled /\ d # Absent /\ ~Served(t, d)
        /\ holder' = t /\ Goto(t, "lock", "write")
        /\ UNCHANGED booting
  /\ UNCHANGED <<disabled, alive, call, tries, daemons, filters, ryukVars, resources>>

-----------------------------------------------------------------------------
(* boot_daemon_locked and start_ryuk.                                      *)

SkipWindows(t) ==
  /\ pc[t] = "boot" /\ call[t].ep \in WindowsEngines
  /\ daemons' = [daemons EXCEPT ![call[t].ep] = Skipped]
  /\ Leave(t)
  /\ UNCHANGED <<disabled, alive, call, tries, filters, ryukVars, resources>>

CreateRyuk(t) ==
  /\ call[t].ep \notin WindowsEngines
  /\ Goto(t, "boot", "start")
  /\ \E r \in Ryuks :
       /\ ryuk[r] = "none"
       /\ ryuk' = [ryuk EXCEPT ![r] = "created"]
       /\ host' = [host EXCEPT ![r] = call[t].ep]
       /\ booting' = [booting EXCEPT ![t] = r]
  /\ UNCHANGED <<disabled, alive, holder, call, tries, daemons, filters, link, inbox, replies,
                 known, resources>>

StartRyuk(t) ==
  /\ Goto(t, "start", "inspect")
  /\ ryuk' = [ryuk EXCEPT ![booting[t]] = "running"]
  /\ UNCHANGED <<disabled, alive, holder, call, booting, tries, daemons, filters, host, link,
                 inbox, replies, known, resources>>

\* The inspect found a published port.
InspectRyuk(t) ==
  /\ Goto(t, "inspect", "connect")
  /\ tries' = [tries EXCEPT ![t] = 0]
  /\ UNCHANGED <<disabled, alive, holder, call, booting, daemons, filters, ryukVars, resources>>

\* A daemon call of the bootstrap throws. start_ryuk has no cleanup on this
\* path; a start whose answer was lost has happened all the same.
DaemonThrows(t) ==
  /\ pc[t] \in {"boot", "start", "inspect"}
  /\ \/ UNCHANGED ryuk
     \/ pc[t] = "start" /\ ryuk' = [ryuk EXCEPT ![booting[t]] = "running"]
  /\ Throw(t)
  /\ UNCHANGED <<disabled, alive, call, tries, daemons, filters, host, link, inbox, replies,
                 known, resources>>

\* Mutant: a failed bootstrap leaves its Ryuk behind.
KillForgotten(r) == UNCHANGED ryuk

\* The best-effort remove_container(force) of a failed bootstrap.
Kill(r) == \/ ryuk' = [ryuk EXCEPT ![r] = "gone"]
           \/ "rm" \in Faults /\ UNCHANGED ryuk

\* Closing the socket: what is in flight is read by Ryuk all the same, or lost.
Close(r) ==
  /\ link' = [link EXCEPT ![r] = IF @ = "open" THEN "closed" ELSE @]
  /\ replies' = [replies EXCEPT ![r] = <<>>]
  /\ inbox' \in {[inbox EXCEPT ![r] = <<>>],
                 [inbox EXCEPT ![r] = [i \in DOMAIN @ |-> [@[i] EXCEPT !.live = FALSE]]]}

NoPort(t) ==
  /\ pc[t] = "inspect"
  /\ Kill(booting[t])
  /\ Throw(t)
  /\ UNCHANGED <<disabled, alive, call, tries, daemons, filters, host, link, inbox, replies,
                 known, resources>>

Connect(t) ==
  LET r == booting[t] IN
  /\ Goto(t, "connect", "hello")
  /\ ryuk[r] = "running"
  /\ link' = [link EXCEPT ![r] = "open"]
  /\ UNCHANGED <<disabled, alive, holder, call, booting, tries, daemons, filters, ryuk, host,
                 inbox, replies, known, resources>>

\* The write leg of send_filter_line, in the handshake and in register_filter.
Send(t, r, line) ==
  /\ link[r] = "open"
  /\ inbox' = [inbox EXCEPT ![r] = Append(@, [line |-> line, live |-> TRUE])]
  /\ UNCHANGED <<disabled, alive, holder, call, booting, tries, daemons, filters, ryuk, host,
                 link, replies, known, resources>>

\* Mutant: any reply line counts as an acknowledgement.
ReadAnyReply(r, acked) ==
  /\ replies[r] # <<>> /\ acked
  /\ replies' = [replies EXCEPT ![r] = Tail(@)]

\* The read leg: the first reply line, whatever arrived with it discarded with
\* the local streambuf.
ReadReply(r, acked) ==
  /\ replies[r] # <<>> /\ Head(replies[r]) = acked
  /\ \E n \in 1..Len(replies[r]) :
       replies' = [replies EXCEPT ![r] = SubSeq(@, n + 1, Len(@))]

SendHello(t) == Goto(t, "hello", "ack") /\ Send(t, booting[t], Session)

\* The session filter is acknowledged: record the entry, then serve the call.
Handshaken(t) ==
  LET r == booting[t] IN
  /\ pc[t] = "ack" /\ ReadReply(r, TRUE)
  /\ daemons' = [daemons EXCEPT ![call[t].ep] = r]
  /\ filters' = [filters EXCEPT ![r] = <<Session>>]
  /\ IF call[t].line = Session
     THEN Leave(t)
     ELSE /\ pc' = [pc EXCEPT ![t] = "write"]
          /\ booting' = [booting EXCEPT ![t] = Absent]
          /\ UNCHANGED holder
  /\ UNCHANGED <<disabled, alive, call, tries, ryuk, host, link, inbox, known, resources>>

NotAcknowledged(t) ==
  LET r == booting[t] IN
  /\ pc[t] = "ack" /\ replies[r] # <<>> /\ Head(replies[r]) = FALSE
  /\ Kill(r) /\ Close(r)
  /\ Throw(t)
  /\ UNCHANGED <<disabled, alive, call, tries, daemons, filters, host, known, resources>>

\* Mutant: one attempt too many.
DeadlineLate(t) == tries[t] + 1 > MaxTries

\* The 20 s deadline passes with the attempt that now fails.
Deadline(t) == tries[t] + 1 = MaxTries

\* Refused, reset or timed out: close and retry the whole handshake until the
\* deadline is spent, then give Ryuk up.
AttemptFails(t) ==
  LET r == booting[t] IN
  /\ pc[t] \in {"connect", "hello", "ack"}
  /\ Close(r)
  /\ tries' = [tries EXCEPT ![t] = @ + 1]
  /\ \/ /\ ~Deadline(t)
        /\ pc' = [pc EXCEPT ![t] = "connect"]
        /\ UNCHANGED <<holder, booting, ryuk>>
     \/ /\ Deadline(t)
        /\ Kill(r) /\ Throw(t)
  /\ UNCHANGED <<disabled, alive, call, daemons, filters, host, known, resources>>

-----------------------------------------------------------------------------
(* register_filter on the established control connection.                  *)

SendFilter(t) == Goto(t, "write", "reply") /\ Send(t, daemons[Env], call[t].line)

Registered(t) ==
  LET r == daemons[Env] IN
  /\ pc[t] = "reply" /\ ReadReply(r, TRUE)
  /\ filters' = [filters EXCEPT ![r] = Append(@, call[t].line)]
  /\ Leave(t)
  /\ UNCHANGED <<disabled, alive, call, tries, daemons, ryuk, host, link, inbox, known,
                 resources>>

\* The connection is broken, the reply is not ACK, or it outlived the budget:
\* throw. The socket stays as it is, with any late reply still to come.
RegisterThrows(t) ==
  LET r == daemons[Env] IN
  /\ \/ pc[t] \in {"write", "reply"} /\ link[r] # "open" /\ UNCHANGED replies
     \/ pc[t] = "reply" /\ ReadReply(r, FALSE)
     \/ pc[t] = "reply" /\ "slow" \in Faults /\ UNCHANGED replies
  /\ Throw(t)
  /\ UNCHANGED <<disabled, alive, call, tries, daemons, filters, ryuk, host, link, inbox, known,
                 resources>>

\* The caller, with its reaper in place, creates what it came for.
Create(t) ==
  /\ Goto(t, "granted", "idle")
  /\ resources' = resources \cup {[ep |-> call[t].ep, labels |-> LabelsOf(t)]}
  /\ UNCHANGED <<disabled, alive, holder, call, booting, tries, daemons, filters, ryukVars>>

-----------------------------------------------------------------------------
(* The process dies: the OS closes every control connection.               *)
Crash ==
  /\ alive' = FALSE
  /\ holder' = NoThread
  /\ pc' = [t \in Threads |-> "idle"]
  /\ booting' = [t \in Threads |-> Absent]
  /\ link' = [r \in Ryuks |-> IF link[r] = "open" THEN "closed" ELSE link[r]]
  /\ UNCHANGED <<disabled, call, tries, daemons, filters, ryuk, host, inbox, replies, known,
                 resources>>

(* Ryuk: registers each line it reads and answers one line per filter.     *)
Serve(r) ==
  LET m == Head(inbox[r])
      Answer(b) == replies' = [replies EXCEPT ![r] = IF m.live /\ link[r] = "open"
                                                     THEN Append(@, b) ELSE @]
  IN
  /\ ryuk[r] = "running" /\ inbox[r] # <<>>
  /\ inbox' = [inbox EXCEPT ![r] = Tail(@)]
  /\ \/ known' = [known EXCEPT ![r] = @ \cup {m.line}] /\ Answer(TRUE)
     \/ "garble" \in Faults /\ UNCHANGED known /\ Answer(FALSE)
  /\ UNCHANGED <<disabled, alive, threadVars, daemons, filters, ryuk, host, link, resources>>

(* Without a connection for its timeout (10 s after the last one, 60 s for *)
(* the first) Ryuk sweeps its daemon and exits; Docker auto-removes it.    *)
Reap(r) ==
  /\ ryuk[r] = "running" /\ link[r] # "open" /\ inbox[r] = <<>>
  /\ resources' = {x \in resources : x.ep # host[r] \/ x.labels \cap known[r] = {}}
  /\ ryuk' = [ryuk EXCEPT ![r] = "gone"]
  /\ UNCHANGED <<disabled, alive, threadVars, daemons, filters, host, link, inbox, replies, known>>

(* Faults: a cut connection, or a Ryuk container that disappears.          *)
Lose(r) ==
  /\ link[r] = "open"
  /\ \/ "drop" \in Faults /\ UNCHANGED ryuk
     \/ "die" \in Faults /\ ryuk' = [ryuk EXCEPT ![r] = "gone"]
  /\ link' = [link EXCEPT ![r] = "closed"]
  /\ UNCHANGED <<disabled, alive, threadVars, daemons, filters, host, inbox, replies, known,
                 resources>>

-----------------------------------------------------------------------------
\* What a thread does once it has called, up to the return of the call.
Step(t) ==
  \/ Lock(t)        \/ SkipWindows(t)  \/ CreateRyuk(t) \/ StartRyuk(t)
  \/ InspectRyuk(t) \/ DaemonThrows(t) \/ NoPort(t)     \/ Connect(t)
  \/ SendHello(t)   \/ Handshaken(t)   \/ NotAcknowledged(t)
  \/ AttemptFails(t) \/ SendFilter(t)  \/ Registered(t) \/ RegisterThrows(t)

Next ==
  \/ /\ alive
     /\ \/ \E t \in Threads : Call(t) \/ Step(t) \/ Create(t)
        \/ Crash
  \/ \E r \in Ryuks : Serve(r) \/ Reap(r) \/ Lose(r)

Spec == Init /\ [][Next]_vars

\* Threads inside the library keep running, Ryuk reads its connection and its
\* timers fire; nobody is obliged to call, and no process is obliged to die.
Fairness ==
  /\ \A t \in Threads : WF_vars(alive /\ Step(t))
  /\ \A r \in Ryuks : WF_vars(Serve(r)) /\ WF_vars(Reap(r))

FairSpec == Spec /\ Fairness

-----------------------------------------------------------------------------
(* Properties. *)

\* While the process lives, the Ryuks that hold an open control connection to
\* it are the one of each daemon's entry and the one being booted: a daemon is
\* never watched by two Ryuks of the same process, so no forgotten second
\* connection can end and sweep under the first (Reaper.hpp: "exactly once").
OneWatcher ==
  \A r, s \in Ryuks :
    (alive /\ link[r] = "open" /\ link[s] = "open" /\ host[r] = host[s]) => r = s

\* A labelled resource of a live process is watched: the entry recorded for its
\* daemon is a running Ryuk that has registered a filter matching it, over a
\* connection that ends with the process (fail loudly rather than run without
\* crash-safe reaping). For environments that lose no Ryuk and no reply.
Watched ==
  (alive /\ ~disabled) => \A x \in resources :
    (x.labels # {} /\ x.ep \notin WindowsEngines) =>
      LET r == daemons[x.ep] IN
        /\ r \in Ryuks
        /\ ryuk[r] = "running" /\ link[r] = "open"
        /\ x.labels \cap known[r] # {}

\* registered_filters() reports only lines that Ryuk has acknowledged, each
\* once (Reaper.hpp: "filter lines ... Ryuk has acknowledged"; "idempotent per
\* (key, value)").
FiltersAcknowledged ==
  \A r \in Ryuks : /\ ToSet(filters[r]) \subseteq known[r]
                   /\ IsInjective(filters[r])

\* A Ryuk that the process has given up on (booted without success) has
\* registered nothing it could sweep while the process lives.
OrphanKnowsNothing ==
  alive => \A r \in Ryuks :
    (/\ ryuk[r] = "running"
     /\ r \notin {daemons[e] : e \in Endpoints}
     /\ r \notin {booting[t] : t \in Threads}) => known[r] = {}

\* The abstract promise. A daemon watches for what the Ryuk of its entry has
\* registered.
Promise == INSTANCE CrashSafety WITH
  Daemons <- Endpoints, Labels <- Lines, Unwatchable <- WindowsEngines,
  off <- disabled,
  watched <- [e \in Endpoints |-> IF daemons[e] \in Ryuks THEN known[daemons[e]] ELSE {}]

\* The reaper implements the promise: with fairness, also its liveness half,
\* that what a dead process left behind is swept. For environments that lose no
\* Ryuk, no reply and no removal.
CrashSafe == Promise!Spec

\* An entry, once recorded, is never replaced, and the filters it lists only
\* grow: what a caller was told stays true.
RecordsOnlyGrow ==
  [][ /\ \A e \in Endpoints : daemons[e] # Absent => daemons'[e] = daemons[e]
      /\ \A r \in Ryuks : IsPrefix(filters[r], filters'[r]) ]_vars

\* mutex_ is never kept: whoever enters the registry leaves it, also when the
\* handshake fails, Ryuk never answers or the daemon refuses.
LockReleased == \A t \in Threads : (holder = t) ~> (holder # t)
=============================================================================
