-------------------------- MODULE ForwardingProofs --------------------------
(***************************************************************************)
(* Theorems about the SSH tunnel of a forwarded host port: its pump thread *)
(* and its owner are never in the libssh2 session together, no end of data *)
(* overtakes its data, and a connection that is done without an error has  *)
(* passed everything on. For every number of connections, every amount of  *)
(* data, buffer cap and window, and under every fault.                     *)
(***************************************************************************)
EXTENDS SshTunnel, TLAPS

(* The inductive invariant: who holds mu_ is told by where the two threads *)
(* are; of the units of a direction none is lost or doubled, and its three *)
(* ends come one after the other, each behind the data; a connection that  *)
(* is done without an error is finished.                                   *)
LockInv ==
  /\ mu = "pump" <=> pump \notin {"select", "exited"}
  /\ mu = "owner" <=> owner = "asking"
  /\ owner \in {"gone"} \cup TearingDown => pump = "exited"

Whole(d, n) ==
  /\ d \in Direction
  /\ d.left + d.before + d.staged + d.behind + d.got = n
  /\ d.ended => d.left = 0
  /\ d.eof => d.ended /\ d.before = 0
  /\ d.shut => d.eof /\ d.staged = 0

DataInv == \A c \in Conns : Whole(up[c], Units[c].up) /\ Whole(down[c], Units[c].down)

DoneInv == \A c \in Conns : (conn[c].st \in {"done", "freed"} /\ ~conn[c].broken) => Finished(c)

Inv == TypeOK /\ LockInv /\ DataInv /\ DoneInv

-----------------------------------------------------------------------------
\* What moves a unit or an end along a direction keeps its units and their order
\* (pump_conn_locked, and the two ends).
LEMMA Moves ==
  ASSUME NEW n, NEW d, Whole(d, n)
  PROVE  /\ Reads(d) => Whole(AfterRead(d), n)
         /\ Writes(d) => Whole(AfterWrite(d), n)
         /\ Sent(d) => Whole(AfterSent(d), n)
         /\ d.behind > 0 => Whole(Received(d), n)
<1> USE TunnelAssumption
<1>1. /\ d.left \in Nat /\ d.got \in Nat /\ d.before \in 0..Window /\ d.staged \in 0..Cap
      /\ d.behind \in 0..Window
      /\ d.ended \in BOOLEAN /\ d.eof \in BOOLEAN /\ d.shut \in BOOLEAN
  BY DEF Whole, Direction
<1>2. ASSUME Reads(d) PROVE Whole(AfterRead(d), n)
  <2> DEFINE e == AfterRead(d)
  <2>1. ~d.eof /\ d.staged < Cap /\ d.before > 0
    BY <1>2 DEF Reads, Room
  <2>2. d.before - 1 \in 0..Window /\ d.staged + 1 \in 0..Cap
    BY <1>1, <2>1
  <2>3. e \in Direction
    BY <2>2 DEF AfterRead, Direction, Whole
  <2>4. /\ e.before = d.before - 1 /\ e.staged = d.staged + 1 /\ e.left = d.left
        /\ e.behind = d.behind /\ e.got = d.got
        /\ e.ended = d.ended /\ e.eof = d.eof /\ e.shut = d.shut
    BY DEF AfterRead, Direction, Whole
  <2> QED BY <1>1, <2>1, <2>3, <2>4 DEF Whole
<1>3. ASSUME Writes(d) PROVE Whole(AfterWrite(d), n)
  <2> DEFINE e == AfterWrite(d)
  <2>1. d.staged > 0 /\ d.behind < Window
    BY <1>3 DEF Writes
  <2>2. d.staged - 1 \in 0..Cap /\ d.behind + 1 \in 0..Window
    BY <1>1, <2>1
  <2>3. e \in Direction
    BY <2>2 DEF AfterWrite, Direction, Whole
  <2>4. /\ e.staged = d.staged - 1 /\ e.behind = d.behind + 1 /\ e.left = d.left
        /\ e.before = d.before /\ e.got = d.got
        /\ e.ended = d.ended /\ e.eof = d.eof /\ e.shut = d.shut
    BY DEF AfterWrite, Direction, Whole
  <2> QED BY <1>1, <2>1, <2>3, <2>4 DEF Whole
<1>4. ASSUME Sent(d) PROVE Whole(AfterSent(d), n)
  <2> DEFINE e == AfterSent(d)
  <2>1. CASE d.left > 0
    <3>1. d.before < Window /\ ~d.ended
      BY <1>1, <1>4, <2>1 DEF Sent, Whole
    <3>2. d.left - 1 \in Nat /\ d.before + 1 \in 0..Window
      BY <1>1, <2>1, <3>1
    <3>3. e = [d EXCEPT !.left = @ - 1, !.before = @ + 1]
      BY <2>1 DEF AfterSent
    <3>4. e \in Direction
      BY <3>2, <3>3 DEF Direction, Whole
    <3>5. /\ e.left = d.left - 1 /\ e.before = d.before + 1 /\ e.staged = d.staged
          /\ e.behind = d.behind /\ e.got = d.got
          /\ e.ended = d.ended /\ e.eof = d.eof /\ e.shut = d.shut
      BY <3>3 DEF Direction, Whole
    <3> QED BY <1>1, <2>1, <3>1, <3>4, <3>5 DEF Whole
  <2>2. CASE ~(d.left > 0)
    <3>1. e = [d EXCEPT !.ended = TRUE]
      BY <2>2 DEF AfterSent
    <3>2. e \in Direction
      BY <3>1 DEF Direction, Whole
    <3>3. /\ e.left = d.left /\ e.before = d.before /\ e.staged = d.staged
          /\ e.behind = d.behind /\ e.got = d.got
          /\ e.ended = TRUE /\ e.eof = d.eof /\ e.shut = d.shut
      BY <3>1 DEF Direction, Whole
    <3> QED BY <1>1, <2>2, <3>2, <3>3 DEF Whole
  <2> QED BY <2>1, <2>2
<1>5. ASSUME d.behind > 0 PROVE Whole(Received(d), n)
  <2> DEFINE e == Received(d)
  <2>1. d.behind - 1 \in 0..Window /\ d.got + 1 \in Nat
    BY <1>1, <1>5
  <2>2. e \in Direction
    BY <2>1 DEF Received, Direction, Whole
  <2>3. /\ e.behind = d.behind - 1 /\ e.got = d.got + 1 /\ e.left = d.left
        /\ e.before = d.before /\ e.staged = d.staged
        /\ e.ended = d.ended /\ e.eof = d.eof /\ e.shut = d.shut
    BY DEF Received, Direction, Whole
  <2> QED BY <1>1, <1>5, <2>2, <2>3 DEF Whole
<1> QED BY <1>2, <1>3, <1>4, <1>5

\* An end that is seen or passed on is behind its data.
LEMMA EndsMove ==
  ASSUME NEW n, NEW d, Whole(d, n), NEW b \in BOOLEAN
  PROVE  /\ Whole([d EXCEPT !.eof = @ \/ SeesEof(d)], n)
         /\ Whole([d EXCEPT !.shut = @ \/ PassesEof(d)], n)
         /\ Whole([d EXCEPT !.shut = @ \/ (PassesEof(d) /\ b)], n)
BY DEF Whole, Direction, SeesEof, PassesEof

\* Before the pump thread starts the invariant holds.
LEMMA InvInit == Init => Inv
<1> SUFFICES ASSUME Init PROVE Inv
  OBVIOUS
<1> USE TunnelAssumption DEF Init
<1>1. DataInv
  BY DEF DataInv, Whole, Direction, Fresh
<1>2. TypeOK
  BY <1>1 DEF TypeOK, DataInv, Whole, ConnState
<1>3. LockInv /\ DoneInv
  BY DEF LockInv, DoneInv, TearingDown
<1> QED BY <1>1, <1>2, <1>3 DEF Inv

-----------------------------------------------------------------------------
\* The owner's steps; the destructor tears down only what the pump thread has left.
LEMMA OwnerStep ==
  ASSUME Inv, Owner \/ Stop \/ (\E p \in Ports : AddForward(p))
  PROVE  Inv'
<1> USE DEF Inv, TypeOK, LockInv, DataInv, DoneInv, Finished, ownerVars, dataVars, MuFree, TearingDown
<1>1. CASE AddLock
  BY <1>1 DEF AddLock
<1>2. CASE AddEnds
  BY <1>2 DEF AddEnds
<1>3. CASE Join \/ ChannelsFreed \/ Disconnect
  BY <1>3 DEF Join, Joined, ChannelsFreed, Disconnect
<1>4. CASE Stop
  BY <1>4 DEF Stop
<1>5. CASE \E p \in Ports : AddForward(p) \/ CancelForward(p)
  BY <1>5 DEF AddForward, CancelForward
<1>6. CASE \E c \in Conns : FreeChannel(c)
  <2>1. PICK c \in Conns : FreeChannel(c)
    BY <1>6
  <2> DEFINE X == [st |-> "freed", broken |-> conn[c].broken \/ conn[c].st = "open"]
  <2>2. conn' = [conn EXCEPT ![c] = X] /\ conn[c].st \in {"open", "done"}
    BY <2>1 DEF FreeChannel, Unfreed
  <2>3. X \in ConnState /\ X.st = "freed"
        /\ (~X.broken => conn[c].st = "done" /\ ~conn[c].broken)
    BY <2>2 DEF ConnState
  <2>4. conn' \in [Conns -> ConnState]
    BY <2>2, <2>3
  <2>5. DoneInv'
    BY <2>1, <2>2, <2>3 DEF FreeChannel
  <2> QED BY <2>1, <2>4, <2>5 DEF FreeChannel
<1> QED BY <1>1, <1>2, <1>3, <1>4, <1>5, <1>6 DEF Owner

\* Waking, accepting, choosing a connection, failing and parking: the steps of the
\* pump thread that move no data.
LEMMA LoopStep ==
  ASSUME Inv, \/ Wake \/ Accepted \/ Fail \/ Park
              \/ \E c \in Conns : Accept(c) \/ Next1(c) \/ ConnError(c)
  PROVE  Inv'
<1> USE DEF Inv, TypeOK, LockInv, DataInv, DoneInv, Finished, ownerVars, dataVars, MuFree,
            Stages, ConnState, Go
<1>1. CASE Wake
  BY <1>1 DEF Wake
<1>2. CASE Accepted
  BY <1>2 DEF Accepted
<1>3. CASE Fail
  BY <1>3 DEF Fail
<1>4. CASE Park
  BY <1>4 DEF Park
<1>5. CASE \E c \in Conns : Accept(c)
  <2>1. PICK c \in Conns : Accept(c)
    BY <1>5
  <2>2. CASE conn' = [conn EXCEPT ![c] = [st |-> "open", broken |-> FALSE]]
    BY <2>1, <2>2 DEF Accept
  <2>3. CASE conn' = [conn EXCEPT ![c] = [st |-> "done", broken |-> TRUE]]
    BY <2>1, <2>3 DEF Accept
  <2>4. \/ conn' = [conn EXCEPT ![c] = [st |-> "open", broken |-> FALSE]]
        \/ conn' = [conn EXCEPT ![c] = [st |-> "done", broken |-> TRUE]]
    BY <2>1 DEF Accept
  <2> QED BY <2>2, <2>3, <2>4
<1>6. CASE \E c \in Conns : Next1(c)
  BY <1>6 DEF Next1
<1>7. CASE \E c \in Conns : ConnError(c)
  BY <1>7 DEF ConnError
<1> QED BY <1>1, <1>2, <1>3, <1>4, <1>5, <1>6, <1>7
-----------------------------------------------------------------------------
\* Only the data of direction to of connection c is touched.
Touches(dir, to, c, X) ==
  /\ to = [dir EXCEPT ![c] = X]
  /\ dir[c].eof /\ dir[c].staged = 0 => X.eof /\ X.staged = 0

\* A direction that keeps its units, and stays finished if it was, keeps the invariant.
LEMMA UpStep ==
  ASSUME Inv, NEW c \in Conns, NEW X, Whole(X, Units[c].up), Touches(up, up', c, X),
         UNCHANGED <<down, conn>>
  PROVE  up' \in [Conns -> Direction] /\ DataInv' /\ DoneInv'
BY DEF Inv, TypeOK, Touches, DataInv, DoneInv, Finished, Whole

\* The same of the direction from the service to the client.
LEMMA DownStep ==
  ASSUME Inv, NEW c \in Conns, NEW X, Whole(X, Units[c].down), Touches(down, down', c, X),
         UNCHANGED <<up, conn>>
  PROVE  down' \in [Conns -> Direction] /\ DataInv' /\ DoneInv'
BY DEF Inv, TypeOK, Touches, DataInv, DoneInv, Finished, Whole

\* The pump thread stays where it is, or goes on in its pass with mu_ held.
LEMMA Holding ==
  ASSUME Inv, pump \in Stages, Stay \/ (\E to \in Stages \cup {"next"} : Go(to))
  PROVE  /\ LockInv'
         /\ (conn' \in [Conns -> ConnState] /\ up' \in [Conns -> Direction]
              /\ down' \in [Conns -> Direction]) => TypeOK'
BY DEF Inv, TypeOK, LockInv, Stages, TearingDown, Stay, Go, ownerVars

\* The four loops of pump_conn_locked.
LEMMA PumpStep ==
  ASSUME Inv, NEW c \in Conns, ChRead(c) \/ SockWrite(c) \/ SockRead(c) \/ ChWrite(c)
  PROVE  Inv'
<1> DEFINE u == up[c]
           v == down[c]
<1>0. Whole(u, Units[c].up) /\ Whole(v, Units[c].down)
  BY DEF Inv, DataInv
<1>1. CASE ChRead(c)
  <2>1. CASE Reads(u) /\ up' = [up EXCEPT ![c] = AfterRead(u)] /\ Stay
    <3>1. Touches(up, up', c, AfterRead(u))
      BY <2>1 DEF Touches, Reads
    <3>2. Whole(AfterRead(u), Units[c].up)
      BY <1>0, <2>1, Moves
    <3> QED BY <1>1, <2>1, <3>1, <3>2, UpStep, Holding DEF ChRead, Inv, TypeOK, Stages
  <2>2. CASE up' = [up EXCEPT ![c].eof = @ \/ SeesEof(u)] /\ Go("sock_write")
    <3> DEFINE X == [u EXCEPT !.eof = @ \/ SeesEof(u)]
    <3>1. Whole(X, Units[c].up)
      BY <1>0, EndsMove
    <3>2. Touches(up, up', c, X)
      BY <1>0, <2>2 DEF Touches, Whole, Direction
    <3> QED BY <1>1, <2>2, <3>1, <3>2, UpStep, Holding DEF ChRead, Inv, TypeOK, Stages
  <2> QED BY <1>1, <2>1, <2>2 DEF ChRead
<1>2. CASE SockWrite(c)
  <2>1. CASE Writes(u) /\ up' = [up EXCEPT ![c] = AfterWrite(u)] /\ Stay
    <3>1. Touches(up, up', c, AfterWrite(u))
      BY <1>0, <2>1 DEF Touches, Writes, Whole, Direction
    <3>2. Whole(AfterWrite(u), Units[c].up)
      BY <1>0, <2>1, Moves
    <3> QED BY <1>2, <2>1, <3>1, <3>2, UpStep, Holding DEF SockWrite, Inv, TypeOK, Stages
  <2>2. CASE up' = [up EXCEPT ![c].shut = @ \/ PassesEof(u)] /\ Go("sock_read")
    <3> DEFINE X == [u EXCEPT !.shut = @ \/ PassesEof(u)]
    <3>1. Whole(X, Units[c].up)
      BY <1>0, EndsMove
    <3>2. Touches(up, up', c, X)
      BY <1>0, <2>2 DEF Touches, Whole, Direction
    <3> QED BY <1>2, <2>2, <3>1, <3>2, UpStep, Holding DEF SockWrite, Inv, TypeOK, Stages
  <2> QED BY <1>2, <2>1, <2>2 DEF SockWrite
<1>3. CASE SockRead(c)
  <2>1. CASE Reads(v) /\ down' = [down EXCEPT ![c] = AfterRead(v)] /\ Stay
    <3>1. Touches(down, down', c, AfterRead(v))
      BY <2>1 DEF Touches, Reads
    <3>2. Whole(AfterRead(v), Units[c].down)
      BY <1>0, <2>1, Moves
    <3> QED BY <1>3, <2>1, <3>1, <3>2, DownStep, Holding DEF SockRead, Inv, TypeOK, Stages
  <2>2. CASE down' = [down EXCEPT ![c].eof = @ \/ SeesEof(v)] /\ Go("ch_write")
    <3> DEFINE X == [v EXCEPT !.eof = @ \/ SeesEof(v)]
    <3>1. Whole(X, Units[c].down)
      BY <1>0, EndsMove
    <3>2. Touches(down, down', c, X)
      BY <1>0, <2>2 DEF Touches, Whole, Direction
    <3> QED BY <1>3, <2>2, <3>1, <3>2, DownStep, Holding DEF SockRead, Inv, TypeOK, Stages
  <2> QED BY <1>3, <2>1, <2>2 DEF SockRead
<1>4. CASE ChWrite(c)
  <2>1. CASE Writes(v) /\ down' = [down EXCEPT ![c] = AfterWrite(v)] /\ Stay /\ UNCHANGED conn
    <3>1. Touches(down, down', c, AfterWrite(v))
      BY <1>0, <2>1 DEF Touches, Writes, Whole, Direction
    <3>2. Whole(AfterWrite(v), Units[c].down)
      BY <1>0, <2>1, Moves
    <3> QED BY <1>4, <2>1, <3>1, <3>2, DownStep, Holding DEF ChWrite, Inv, TypeOK, Stages
  <2>2. CASE /\ down' = [down EXCEPT ![c].shut = @ \/ (PassesEof(v) /\ ~Blocks(v))]
             /\ conn' = IF Finished(c) THEN [conn EXCEPT ![c].st = "done"] ELSE conn
             /\ Go("next")
    <3> DEFINE X == [v EXCEPT !.shut = @ \/ (PassesEof(v) /\ ~Blocks(v))]
    <3>1. Whole(X, Units[c].down)
      BY <1>0, EndsMove
    <3>2. down' = [down EXCEPT ![c] = X] /\ up' = up
      BY <1>4, <2>2 DEF ChWrite
    <3>3. DataInv' /\ down' \in [Conns -> Direction]
      BY <3>1, <3>2 DEF DataInv, Whole, Inv, TypeOK
    <3>4. conn' \in [Conns -> ConnState]
      BY <2>2 DEF Inv, TypeOK, ConnState
    <3>5. \A b \in Conns : Finished(b) => Finished(b)'
      BY <1>0, <3>2 DEF Finished, Whole, Direction, Inv, TypeOK
    <3>6. DoneInv'
      BY <2>2, <3>5 DEF Inv, DoneInv, TypeOK, ConnState
    <3> QED BY <1>4, <2>2, <3>2, <3>3, <3>4, <3>6, Holding DEF ChWrite, Inv, TypeOK, Stages
  <2> QED BY <1>4, <2>1, <2>2 DEF ChWrite
<1> QED BY <1>1, <1>2, <1>3, <1>4

\* The client and the service at the two ends of a connection.
LEMMA EndStep == ASSUME Inv, NEW c \in Conns, Arrive(c) \/ End(c) PROVE Inv'
<1> DEFINE u == up[c]
           v == down[c]
<1>0. Whole(u, Units[c].up) /\ Whole(v, Units[c].down)
  BY DEF Inv, DataInv
<1>1. CASE Arrive(c)
  BY <1>1 DEF Arrive, Inv, TypeOK, LockInv, DataInv, DoneInv, Finished, ConnState, ownerVars
<1>2. ASSUME NEW X, Whole(X, Units[c].up), up' = [up EXCEPT ![c] = X], Ends, UNCHANGED down,
             X.eof = u.eof /\ X.staged = u.staged
      PROVE  Inv'
  BY <1>2, UpStep DEF Touches, Ends, Inv, TypeOK, LockInv, ownerVars
<1>3. ASSUME NEW X, Whole(X, Units[c].down), down' = [down EXCEPT ![c] = X], Ends, UNCHANGED up,
             X.eof = v.eof /\ X.staged = v.staged
      PROVE  Inv'
  BY <1>3, DownStep DEF Touches, Ends, Inv, TypeOK, LockInv, ownerVars
<1>4. CASE ClientSends(c)
  <2>1. AfterSent(u).eof = u.eof /\ AfterSent(u).staged = u.staged
    BY <1>0 DEF AfterSent, Whole, Direction
  <2> QED BY <1>0, <1>2, <1>4, <2>1, Moves DEF ClientSends
<1>5. CASE ServiceSends(c)
  <2>1. AfterSent(v).eof = v.eof /\ AfterSent(v).staged = v.staged
    BY <1>0 DEF AfterSent, Whole, Direction
  <2> QED BY <1>0, <1>3, <1>5, <2>1, Moves DEF ServiceSends
<1>6. CASE ServiceReceives(c)
  <2>1. Received(u).eof = u.eof /\ Received(u).staged = u.staged
    BY <1>0 DEF Received, Whole, Direction
  <2> QED BY <1>0, <1>2, <1>6, <2>1, Moves DEF ServiceReceives
<1>7. CASE ClientReceives(c)
  <2>1. Received(v).eof = v.eof /\ Received(v).staged = v.staged
    BY <1>0 DEF Received, Whole, Direction
  <2> QED BY <1>0, <1>3, <1>7, <2>1, Moves DEF ClientReceives
<1> QED BY <1>1, <1>4, <1>5, <1>6, <1>7 DEF End

\* Every step of the two threads and of the ends of the connections keeps it.
LEMMA InvStep == Inv /\ [Next]_vars => Inv'
<1> SUFFICES ASSUME Inv, [Next]_vars PROVE Inv'
  OBVIOUS
<1>1. CASE Pump
  BY <1>1, LoopStep, PumpStep DEF Pump
<1>2. CASE Owner \/ Stop \/ (\E p \in Ports : AddForward(p))
  BY <1>2, OwnerStep
<1>3. CASE \E c \in Conns : Arrive(c) \/ End(c)
  BY <1>3, EndStep
<1>4. CASE UNCHANGED vars
  BY <1>4 DEF vars, ownerVars, dataVars, Inv, TypeOK, LockInv, DataInv, DoneInv, Finished
<1> QED BY <1>1, <1>2, <1>3, <1>4 DEF Next

\* The invariant holds in every state of the tunnel, under every fault.
THEOREM Invariant == Spec => []Inv
BY InvInit, InvStep, PTL DEF Spec

\* Every variable of the tunnel keeps its type: in particular no buffer of
\* pump_conn_locked ever holds more than its cap.
THEOREM TypeCorrect == Spec => []TypeOK
<1>1. Inv => TypeOK
  BY DEF Inv
<1> QED BY <1>1, Invariant, PTL

\* libssh2 sessions are not thread-safe: loop(), add_forward and the destructor are
\* never in the session together.
THEOREM NeverTogether == Spec => []SessionExclusive
<1>1. Inv => SessionExclusive
  BY DEF Inv, LockInv, SessionExclusive, TearingDown
<1> QED BY <1>1, Invariant, PTL

\* What pump_conn_locked passes on arrives whole: an end never before its data, and
\* everything before the connection is done without an error.
THEOREM NothingTruncated == Spec => []WholeStreams
<1>1. Inv => EofAfterData
  BY DEF Inv, DataInv, Whole, EofAfterData
<1>2. ASSUME Inv PROVE DoneIsComplete
  <2> SUFFICES ASSUME NEW c \in Conns, conn[c].st \in {"done", "freed"} /\ ~conn[c].broken
               PROVE  /\ up[c].got + up[c].behind = Units[c].up
                      /\ down[c].got + down[c].behind = Units[c].down
    BY DEF DoneIsComplete
  <2>1. Whole(up[c], Units[c].up) /\ Whole(down[c], Units[c].down) /\ Finished(c)
    BY <1>2 DEF Inv, DataInv, DoneInv
  <2> QED BY <2>1 DEF Whole, Finished, Direction
<1>3. Inv => WholeStreams
  BY <1>1, <1>2 DEF WholeStreams
<1> QED BY <1>3, Invariant, PTL
=============================================================================
