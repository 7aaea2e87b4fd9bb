----------------------------- MODULE SshTunnel -----------------------------
(***************************************************************************)
(* The SSH tunnel of exposed host ports (SshTunnel in                      *)
(* HostPortForwarding.cpp): its pump thread, which accepts forwarded       *)
(* connections and moves data both ways between an SSH channel and a local *)
(* socket, and its owner, who adds forwards and destroys it, both under    *)
(* mu_. The in-container clients, the local services and libssh2 are the   *)
(* environment. Data is counted in units; a buffer holds a few.            *)
(***************************************************************************)
EXTENDS Naturals, FiniteSets

CONSTANTS
  Conns,     \* connections clients may make
  Obliging,  \* those whose two ends keep reading, send all they have and end
  Ports,     \* host ports to forward
  Units,     \* what each end of each connection has to send
  Cap,       \* kConnBufferCap
  Window,    \* what a channel or a socket buffers in each direction
  Faults     \* conn: a connection breaks; fatal: the SSH session does;
             \* refused: no service listens; denied: sshd refuses or is late

ASSUME TunnelAssumption ==
  /\ Obliging \subseteq Conns
  /\ Units \in [Conns -> [up : Nat, down : Nat]]
  /\ Cap \in Nat \ {0} /\ Window \in Nat \ {0}
  /\ Faults \subseteq {"conn", "fatal", "refused", "denied"}

VARIABLES
  mu,         \* who holds mu_
  pump,       \* where the pump thread is
  cur,        \* the connections it still has to pump in this pass, in order
  owner,      \* where the owner is
  asked,      \* the port of its add_forward
  listeners, stop, dead,
  conn,       \* Conn, and the life of the forwarded connection
  up, down    \* its two directions, client to service and service to client

ownerVars == <<owner, asked, listeners>>
dataVars  == <<conn, up, down>>
vars == <<mu, pump, cur, ownerVars, stop, dead, dataVars>>

\* st: arrived (waiting at sshd), open, done (c.done), freed; broken: its socket
\* was closed by an error or never connected.
ConnState == [st : {"none", "arrived", "open", "done", "freed"}, broken : BOOLEAN]

\* One direction: units not sent yet, in front of the tunnel, in its staging
\* buffer, behind it, and received; the sender's end, its being seen by the
\* tunnel, and its being passed on.
Direction == [left : Nat, got : Nat, before : 0..Window, staged : 0..Cap, behind : 0..Window,
              ended : BOOLEAN, eof : BOOLEAN, shut : BOOLEAN]
Fresh(n) == [left |-> n, before |-> 0, staged |-> 0, behind |-> 0, got |-> 0,
          ended |-> FALSE, eof |-> FALSE, shut |-> FALSE]

Stages == {"ch_read", "sock_write", "sock_read", "ch_write"}

\* Where the destructor uses the session.
TearingDown == {"freeing", "cancelling"}

TypeOK ==
  /\ mu \in {"free", "pump", "owner"}
  /\ pump \in {"select", "accept", "next", "exited"} \cup Stages
  /\ cur \in [todo : SUBSET Conns, now : SUBSET Conns]
  /\ owner \in {"idle", "adding", "asking", "joining"} \cup TearingDown \cup {"gone"}
  /\ asked \in Ports /\ listeners \subseteq Ports
  /\ stop \in BOOLEAN /\ dead \in BOOLEAN
  /\ conn \in [Conns -> ConnState]
  /\ up \in [Conns -> Direction] /\ down \in [Conns -> Direction]

Init ==
  /\ mu = "free" /\ pump = "select" /\ cur = [todo |-> {}, now |-> {}]
  /\ owner = "idle" /\ asked \in Ports /\ listeners = {}
  /\ stop = FALSE /\ dead = FALSE
  /\ conn = [c \in Conns |-> [st |-> "none", broken |-> FALSE]]
  /\ up = [c \in Conns |-> Fresh(Units[c].up)] /\ down = [c \in Conns |-> Fresh(Units[c].down)]

-----------------------------------------------------------------------------
(* The pump thread: loop() and pump_locked().                              *)

\* Mutant: the lock is not looked at.
MuIgnored == TRUE

MuFree == mu = "free"

\* Mutant: only a fatal error ends the loop.
OnlyDead == dead

LoopEnds == stop \/ dead

\* select() returns, in 100 ms at the latest.
Wake ==
  /\ pump = "select" /\ MuFree
  /\ IF LoopEnds THEN pump' = "exited" /\ UNCHANGED mu
                 ELSE pump' = "accept" /\ mu' = "pump"
  /\ UNCHANGED <<cur, ownerVars, stop, dead, dataVars>>

\* Connect to the local service, or drop the connection.
Accept(c) ==
  /\ pump = "accept" /\ conn[c].st = "arrived"
  /\ conn' \in {[conn EXCEPT ![c] = [st |-> "open", broken |-> FALSE]]}
       \cup IF "refused" \in Faults /\ c \notin Obliging
            THEN {[conn EXCEPT ![c] = [st |-> "done", broken |-> TRUE]]} ELSE {}
  /\ UNCHANGED <<mu, pump, cur, ownerVars, stop, dead, up, down>>

\* Nothing more to accept (EAGAIN).
Accepted ==
  /\ pump = "accept" /\ \A c \in Conns : conn[c].st # "arrived"
  /\ pump' = "next"
  /\ cur' = [cur EXCEPT !.todo = {c \in Conns : conn[c].st = "open"}]
  /\ UNCHANGED <<mu, ownerVars, stop, dead, dataVars>>

Next1(c) ==
  /\ pump = "next" /\ c \in cur.todo
  /\ pump' = "ch_read" /\ cur' = [todo |-> cur.todo \ {c}, now |-> {c}]
  /\ UNCHANGED <<mu, ownerVars, stop, dead, dataVars>>

\* fail_locked and the return of the loop: every socket is closed, and nothing is
\* freed before the destructor.
Fail ==
  /\ "fatal" \in Faults /\ pump \in {"accept", "ch_read", "ch_write"}
  /\ dead' = TRUE
  /\ conn' = [c \in Conns |->
                CASE conn[c].st = "open" /\ c \in cur.now -> [st |-> "done", broken |-> TRUE]
                  [] conn[c].st = "open" /\ c \notin cur.now -> [st |-> "open", broken |-> TRUE]
                  [] OTHER -> conn[c]]
  /\ pump' = "exited" /\ mu' = "free" /\ cur' = [todo |-> {}, now |-> {}]
  /\ UNCHANGED <<ownerVars, stop, up, down>>

-----------------------------------------------------------------------------
(* pump_conn_locked: four loops over a direction each, until one would     *)
(* block, reaches the cap or the end.                                      *)

\* Mutant: one read beyond the cap.
CapPlusOne(d) == d.staged <= Cap

\* Reading pauses while the staging buffer is at its cap.
Room(d) == d.staged < Cap

Reads(d)   == ~d.eof /\ Room(d) /\ d.before > 0

\* Mutant: the end is looked for also while reading is paused.
SeesEofPaused(d) == ~d.eof /\ d.ended

SeesEof(d) == ~d.eof /\ Room(d) /\ d.before = 0 /\ d.ended
Writes(d)  == d.staged > 0 /\ d.behind < Window

\* The sender's end is passed on once everything is.
PassesEof(d) == d.eof /\ d.staged = 0 /\ ~d.shut

AfterRead(d) == [d EXCEPT !.before = @ - 1, !.staged = @ + 1]
AfterWrite(d) == [d EXCEPT !.staged = @ - 1, !.behind = @ + 1]

Stay == UNCHANGED <<pump, cur, mu, ownerVars, stop, dead>>
Go(to) == pump' = to /\ UNCHANGED <<cur, mu, ownerVars, stop, dead>>

ChRead(c) ==
  LET d == up[c] IN
  /\ pump = "ch_read" /\ c \in cur.now
  /\ \/ Reads(d) /\ up' = [up EXCEPT ![c] = AfterRead(d)] /\ Stay
     \/ ~Reads(d) /\ up' = [up EXCEPT ![c].eof = @ \/ SeesEof(d)] /\ Go("sock_write")
  /\ UNCHANGED <<conn, down>>

SockWrite(c) ==
  LET d == up[c] IN
  /\ pump = "sock_write" /\ c \in cur.now
  /\ \/ Writes(d) /\ up' = [up EXCEPT ![c] = AfterWrite(d)] /\ Stay
     \/ ~Writes(d) /\ up' = [up EXCEPT ![c].shut = @ \/ PassesEof(d)] /\ Go("sock_read")
  /\ UNCHANGED <<conn, down>>

SockRead(c) ==
  LET d == down[c] IN
  /\ pump = "sock_read" /\ c \in cur.now
  /\ \/ Reads(d) /\ down' = [down EXCEPT ![c] = AfterRead(d)] /\ Stay
     \/ ~Reads(d) /\ down' = [down EXCEPT ![c].eof = @ \/ SeesEof(d)] /\ Go("ch_write")
  /\ UNCHANGED <<conn, up>>

\* send_eof and channel_free answer EAGAIN while the channel takes nothing.
Blocks(d) == d.behind = Window

\* Mutant: one end is enough.
OneEnd(c) == up[c].eof \/ down[c].eof

Finished(c) == up[c].eof /\ down[c].eof /\ up[c].staged = 0 /\ down[c].staged = 0

ChWrite(c) ==
  LET d == down[c] IN
  /\ pump = "ch_write" /\ c \in cur.now
  /\ \/ Writes(d) /\ down' = [down EXCEPT ![c] = AfterWrite(d)] /\ Stay /\ UNCHANGED conn
     \/ /\ ~Writes(d)
        /\ down' = [down EXCEPT ![c].shut = @ \/ (PassesEof(d) /\ ~Blocks(d))]
        /\ conn' = IF Finished(c) THEN [conn EXCEPT ![c].st = "done"] ELSE conn
        /\ Go("next")
  /\ UNCHANGED up

\* conn_error_locked.
ConnError(c) ==
  /\ "conn" \in Faults /\ c \notin Obliging
  /\ pump \in Stages /\ c \in cur.now
  /\ conn' = [conn EXCEPT ![c] = [st |-> "done", broken |-> TRUE]]
  /\ Go("next")
  /\ UNCHANGED <<up, down>>

\* Mutant: channels are freed in blocking mode.
PassEndsFreed == cur.todo = {} /\ \A c \in Conns : conn[c].st = "done" => ~Blocks(down[c])

PassEnds == cur.todo = {}

\* The pass ends: free what is done (what would block, in a later pass), release
\* mu_ and park.
Park ==
  /\ pump = "next" /\ PassEnds
  /\ conn' = [c \in Conns |-> IF conn[c].st = "done" /\ ~Blocks(down[c])
                              THEN [conn[c] EXCEPT !.st = "freed"] ELSE conn[c]]
  /\ pump' = "select" /\ mu' = "free" /\ cur' = [todo |-> {}, now |-> {}]
  /\ UNCHANGED <<ownerVars, stop, dead, up, down>>

-----------------------------------------------------------------------------
(* The owner: HostPortForwarder, one call at a time.                       *)

AddForward(p) ==
  /\ owner = "idle" /\ p \notin listeners
  /\ owner' = "adding" /\ asked' = p
  /\ UNCHANGED <<mu, pump, cur, listeners, stop, dead, dataVars>>

\* The call takes mu_; it throws at once on a dead tunnel.
AddLock ==
  /\ owner = "adding" /\ MuFree
  /\ IF dead THEN owner' = "idle" /\ UNCHANGED mu
             ELSE owner' = "asking" /\ mu' = "owner"
  /\ UNCHANGED <<pump, cur, asked, listeners, stop, dead, dataVars>>

\* sshd listens, or the call throws.
AddEnds ==
  /\ owner = "asking"
  /\ listeners' \in {listeners \cup {asked}} \cup IF "denied" \in Faults THEN {listeners} ELSE {}
  /\ owner' = "idle" /\ mu' = "free"
  /\ UNCHANGED <<pump, cur, asked, stop, dead, dataVars>>

\* The destructor: stop the pump thread and join it.
Stop ==
  /\ owner = "idle" /\ MuFree
  /\ stop' = TRUE /\ owner' = "joining"
  /\ UNCHANGED <<mu, pump, cur, asked, listeners, dead, dataVars>>

Joined == pump = "exited"

\* Then tear everything down, in blocking mode: each call waits for sshd, without a
\* time-out.
Join ==
  /\ owner = "joining" /\ Joined
  /\ owner' = "freeing"
  /\ UNCHANGED <<mu, pump, cur, asked, listeners, stop, dead, dataVars>>

Unfreed == {c \in Conns : conn[c].st \in {"open", "done"}}

\* The channel of a connection, finished or not: a full one keeps the call waiting
\* until its client reads, unless the session is dead.
FreeChannel(c) ==
  /\ owner = "freeing" /\ c \in Unfreed /\ (dead \/ ~Blocks(down[c]))
  /\ conn' = [conn EXCEPT ![c] = [st |-> "freed", broken |-> @.broken \/ @.st = "open"]]
  /\ UNCHANGED <<mu, pump, cur, ownerVars, stop, dead, up, down>>

ChannelsFreed ==
  /\ owner = "freeing" /\ Unfreed = {}
  /\ owner' = "cancelling"
  /\ UNCHANGED <<mu, pump, cur, asked, listeners, stop, dead, dataVars>>

\* forward_cancel for each listener.
CancelForward(p) ==
  /\ owner = "cancelling" /\ p \in listeners
  /\ listeners' = listeners \ {p}
  /\ UNCHANGED <<mu, pump, cur, owner, asked, stop, dead, dataVars>>

\* session_disconnect, and the destructor returns.
Disconnect ==
  /\ owner = "cancelling" /\ listeners = {}
  /\ owner' = "gone"
  /\ UNCHANGED <<mu, pump, cur, asked, listeners, stop, dead, dataVars>>

-----------------------------------------------------------------------------
(* The ends of a connection.                                               *)

Open(c) == conn[c].st = "open" /\ ~conn[c].broken

Arrive(c) ==
  /\ conn[c].st = "none" /\ listeners # {} /\ ~dead
  /\ conn' = [conn EXCEPT ![c].st = "arrived"]
  /\ UNCHANGED <<mu, pump, cur, ownerVars, stop, dead, up, down>>

Sent(d) == \/ d.left > 0 /\ d.before < Window
           \/ d.left = 0 /\ ~d.ended
AfterSent(d) == IF d.left > 0 THEN [d EXCEPT !.left = @ - 1, !.before = @ + 1]
                ELSE [d EXCEPT !.ended = TRUE]
Received(d) == [d EXCEPT !.behind = @ - 1, !.got = @ + 1]

Ends == UNCHANGED <<mu, pump, cur, ownerVars, stop, dead, conn>>

ClientSends(c) ==
  /\ Open(c) \/ conn[c].st = "arrived"
  /\ Sent(up[c]) /\ up' = [up EXCEPT ![c] = AfterSent(@)] /\ Ends /\ UNCHANGED down
ServiceSends(c) ==
  /\ Open(c)
  /\ Sent(down[c]) /\ down' = [down EXCEPT ![c] = AfterSent(@)] /\ Ends /\ UNCHANGED up

\* What has been passed on can still be read after the connection is done.
ServiceReceives(c) == up[c].behind > 0 /\ up' = [up EXCEPT ![c] = Received(@)]
                      /\ Ends /\ UNCHANGED down
ClientReceives(c)  == down[c].behind > 0 /\ down' = [down EXCEPT ![c] = Received(@)]
                      /\ Ends /\ UNCHANGED up

End(c) == ClientSends(c) \/ ServiceSends(c) \/ ServiceReceives(c) \/ ClientReceives(c)

Pump ==
  \/ Wake \/ Accepted \/ Fail \/ Park
  \/ \E c \in Conns : \/ Accept(c) \/ Next1(c) \/ ChRead(c) \/ SockWrite(c) \/ SockRead(c)
                      \/ ChWrite(c) \/ ConnError(c)

Owner ==
  \/ AddLock \/ AddEnds \/ Join \/ ChannelsFreed \/ Disconnect
  \/ \E c \in Conns : FreeChannel(c)
  \/ \E p \in Ports : CancelForward(p)

Next ==
  \/ Pump \/ Owner \/ Stop
  \/ \E p \in Ports : AddForward(p)
  \/ \E c \in Conns : Arrive(c) \/ End(c)

Spec == Init /\ [][Next]_vars

\* Both threads run, and whoever waits for mu_ gets it although the other one
\* takes it again and again (the pump thread is parked most of the time); sshd
\* answers a forward, its cancellation and the close of a channel that is not full.
\* The ends of an obliging connection do what they can.
Fairness ==
  /\ SF_vars(Pump) /\ SF_vars(Owner)
  /\ \A c \in Obliging : /\ WF_vars(ClientSends(c)) /\ WF_vars(ServiceSends(c))
                         /\ WF_vars(ServiceReceives(c)) /\ WF_vars(ClientReceives(c))

FairSpec == Spec /\ Fairness

-----------------------------------------------------------------------------
(* Properties. *)

\* An end is passed on after everything its sender sent, and only then: neither
\* side reads a truncated stream as a complete one.
EofAfterData ==
  \A c \in Conns : \A d \in {up[c], down[c]} :
    d.shut => d.ended /\ d.left = 0 /\ d.before = 0 /\ d.staged = 0

\* A connection that is done without an error has passed on everything both ends
\* sent, half-closes at different times included.
DoneIsComplete ==
  \A c \in Conns : (conn[c].st \in {"done", "freed"} /\ ~conn[c].broken) =>
    up[c].got + up[c].behind = Units[c].up /\ down[c].got + down[c].behind = Units[c].down

\* What goes in at one end comes out at the other, whole and in order.
WholeStreams == EofAfterData /\ DoneIsComplete

\* libssh2 sessions are not thread-safe: the pump thread and the owner are never
\* in the session together, the destructor included.
SessionExclusive ==
  /\ pump \notin {"select", "exited"} => owner \notin {"asking", "gone"} \cup TearingDown
  /\ owner \in {"gone"} \cup TearingDown => pump = "exited"

\* One connection's failure, stall or refusal does not affect another: an
\* obliging one gets everything through, unless the tunnel ends.
Isolated ==
  \A c \in Obliging :
    (conn[c].st = "arrived") ~> (\/ up[c].got = Units[c].up /\ down[c].got = Units[c].down
                                 \/ dead \/ stop)

\* The destructor returns: the pump thread never keeps it waiting, and neither does a
\* connection, unless its client lets the channel stay full for ever on a session
\* that is alive (channel_free in blocking mode, HostPortForwarding.cpp:179).
DestructorReturns ==
  (\A c \in Conns : []<>(dead \/ ~Blocks(down[c]))) => ((owner = "joining") ~> (owner = "gone"))
=============================================================================
