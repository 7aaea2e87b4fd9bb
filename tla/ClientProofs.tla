---------------------------- MODULE ClientProofs ----------------------------
(***************************************************************************)
(* Theorems about Docker clients. Their connections (SessionClient):       *)
(* whatever a daemon does to a connection, whatever expires, and however   *)
(* clients are copied, moved and nested in sessions, an answer that is     *)
(* read is the request's own, no two clients share a connection, and a     *)
(* replay repeats no side effect. A streamed call (StreamCall): wherever   *)
(* it is cut, rejected, stopped or late, what it reports has happened. The *)
(* credentials of a pull (Credentials): whatever the config says, whoever  *)
(* edits it, and however the fetches of several threads overlap in the     *)
(* cache, no secret goes to another registry than its own, and none that   *)
(* is out of date. For all clients, daemons, connections, calls, amounts   *)
(* of output, configs, helpers, registries and threads.                    *)
(***************************************************************************)
EXTENDS Client, SequenceTheorems, TLAPS

-----------------------------------------------------------------------------
(* The inductive invariant.                                                *)

\* The request that c has written last.
Tag(c) == [by |-> c, no |-> call[c].no]

\* Nothing is on its way on connection k.
Silent(k) == conn[k].inbox = <<>> /\ conn[k].replies = <<>>

\* At most the request that c has written last, or the answer to it.
OnItsWay(c, k) ==
  \/ Silent(k)
  \/ conn[k].inbox = <<Tag(c)>> /\ conn[k].replies = <<>>
  \/ conn[k].inbox = <<>> /\ \E kind \in Kinds : conn[k].replies = <<[to |-> Tag(c), kind |-> kind]>>

\* One call at a time.
SoloInv == \A c, d \in Clients : c # d /\ ~Idle(c) => Idle(d)

\* A call has a connection from its routing on: the session's, which only a GET or a ping rides,
\* or one that nobody holds.
PhaseOf(c) ==
  /\ call[c].at \in {"idle", "route"} => call[c].conn = NoConn /\ ~call[c].reused
  /\ call[c].at \in {"write", "read"} => call[c].conn \in Conns
  /\ call[c].reused => held[c] = call[c].conn /\ Reuse(c)
  /\ call[c].at \in {"write", "read"} /\ ~call[c].reused => held[c] # call[c].conn
  /\ Idle(c) => ~call[c].negotiating /\ sent[c] = 0

\* A connection that is kept is silent until it is used, and then carries one request.
WireOf(c) ==
  /\ held[c] \in Conns /\ held[c] # call[c].conn => Silent(held[c])
  /\ call[c].at = "write" => Silent(call[c].conn)
  /\ call[c].at = "read" => OnItsWay(c, call[c].conn)

\* How often a call has been written, phase by phase.
SentOf(c) == ~Idle(c) =>
  /\ call[c].negotiating => sent[c] = 0 /\ call[c].tries = 1
  /\ call[c].method = "pull" => call[c].tries >= 1
  /\ ~call[c].negotiating =>
       /\ call[c].method = "POST" => sent[c] = (IF call[c].at = "read" THEN 1 ELSE 0)
       /\ call[c].method = "pull" =>
            sent[c] = (IF call[c].at = "read" THEN call[c].tries ELSE call[c].tries - 1)
       /\ call[c].method = "GET" =>
            /\ call[c].at = "route" => sent[c] = 0 \/ (sent[c] = 1 /\ held[c] = NoConn)
            /\ call[c].at = "write" => sent[c] = 0 \/ (sent[c] = 1 /\ ~call[c].reused)
            /\ call[c].at = "read"  => sent[c] = 1 \/ (sent[c] = 2 /\ ~call[c].reused)

\* The session has a guard, the connection a session.
GuardOf(c) ==
  /\ enabled[c] => \E i \in DOMAIN guards[c] : guards[c][i]
  /\ held[c] # NoConn => enabled[c]

\* All daemons of a client are one, of which its pin speaks.
DaemonOf(c) ==
  /\ \A g, h \in Daemons(c) : g = h
  /\ pin[c] \in Hosts => Daemons(c) \subseteq {pin[c]}
  /\ pin[c] = Unpinned => Daemons(c) \cap Reveals = {}

Own(c) == PhaseOf(c) /\ WireOf(c) /\ SentOf(c) /\ GuardOf(c) /\ DaemonOf(c)

Inv == TypeOK /\ SoloInv /\ NotShared /\ \A c \in Clients : Own(c)

-----------------------------------------------------------------------------
(* Types.                                                                  *)

Call == [at : {"idle", "route", "write", "read"}, method : Methods, negotiating : BOOLEAN,
         no : {0, 1}, reused : BOOLEAN, conn : Conns \cup {NoConn}, tries : 0..PullAttempts]
Reply == [to : Tags, kind : Kinds]
Link == [host : Hosts \cup {Gone}, peer : {"open", "closed"}, inbox : Seq(Tags), replies : Seq(Reply)]

\* A connection that is not open is a connection, and so is one that was released.
LEMMA ReleasedType ==
  ASSUME TypeOK, NEW k, conn' = Released(k)
  PROVE  conn' \in [Conns -> Link]
<1>1. NotOpen \in Link
  <2>1. <<>> \in Seq(Tags) /\ <<>> \in Seq(Reply)
    BY EmptySeq
  <2> QED BY <2>1 DEF NotOpen, Link
<1>2. conn \in [Conns -> Link]
  BY DEF TypeOK, Link, Reply
<1> QED BY <1>1, <1>2 DEF Released

\* A call that has returned is one again.
LEMMA EndType ==
  ASSUME SessionAssumption, TypeOK, NEW c \in Clients, End(c)
  PROVE  call' \in [Clients -> Call] /\ sent' \in [Clients -> 0..(PullAttempts + 1)]
<1>1. /\ call \in [Clients -> Call] /\ sent \in [Clients -> 0..(PullAttempts + 1)]
      /\ PullAttempts \in Nat
  BY DEF TypeOK, Call, SessionAssumption
<1>2. NoCall \in Call /\ call[c].no \in {0, 1}
  BY <1>1 DEF NoCall, Call, Methods
<1>3. [NoCall EXCEPT !.no = call[c].no] \in Call
  BY <1>2 DEF NoCall, Call
<1>4. 0 \in 0..(PullAttempts + 1)
  BY <1>1
<1> QED BY <1>1, <1>3, <1>4 DEF End

\* The same types, with the names of this module.
LEMMA Typed ==
  TypeOK <=> /\ host \in [Clients -> Hosts \cup {Gone}]
             /\ pin \in [Clients -> Hosts \cup {Unset, Unpinned}]
             /\ enabled \in [Clients -> BOOLEAN]
             /\ held \in [Clients -> Conns \cup {NoConn}]
             /\ guards \in [Clients -> Seq(BOOLEAN)]
             /\ call \in [Clients -> Call]
             /\ sent \in [Clients -> 0..(PullAttempts + 1)]
             /\ conn \in [Conns -> Link]
BY DEF TypeOK, Call, Link, Reply

\* So a step that keeps the types one by one keeps them all.
LEMMA TypedNext ==
  /\ host' \in [Clients -> Hosts \cup {Gone}]
  /\ pin' \in [Clients -> Hosts \cup {Unset, Unpinned}]
  /\ enabled' \in [Clients -> BOOLEAN]
  /\ held' \in [Clients -> Conns \cup {NoConn}]
  /\ guards' \in [Clients -> Seq(BOOLEAN)]
  /\ call' \in [Clients -> Call]
  /\ sent' \in [Clients -> 0..(PullAttempts + 1)]
  /\ conn' \in [Conns -> Link]
  => TypeOK'
BY DEF TypeOK, Call, Link, Reply

\* What a step writes into a call keeps its type.
LEMMA CallType ==
  ASSUME NEW r \in Call, NEW k \in Conns \cup {NoConn}, NEW b \in BOOLEAN, NEW n \in {0, 1}
  PROVE  /\ [r EXCEPT !.at = "write", !.conn = k, !.reused = b] \in Call
         /\ [r EXCEPT !.at = "route", !.conn = k, !.reused = b] \in Call
         /\ [r EXCEPT !.at = "read", !.no = n] \in Call
BY DEF Call

\* Giving a connection up leaves none, or the one there was.
LEMMA GiveUpType ==
  ASSUME TypeOK, NEW c \in Clients, GiveUpHeld(c)
  PROVE  held' \in [Clients -> Conns \cup {NoConn}]
BY DEF TypeOK, GiveUpHeld

\* A call that starts over or ends is still a call.
LEMMA BrokenType ==
  ASSUME SessionAssumption, TypeOK, NEW c \in Clients, Broken(c)
  PROVE  TypeOK'
<1>1. conn' \in [Conns -> Link]
  BY ReleasedType DEF Broken
<1>2. held' \in [Clients -> Conns \cup {NoConn}]
  BY GiveUpType DEF Broken
<1>3. call' \in [Clients -> Call] /\ sent' \in [Clients -> 0..(PullAttempts + 1)]
  <2>1. call \in [Clients -> Call] /\ sent \in [Clients -> 0..(PullAttempts + 1)]
    BY Typed
  <2>2. CASE call[c].reused
    <3>1. [call[c] EXCEPT !.at = "route", !.conn = NoConn, !.reused = FALSE] \in Call
      BY <2>1, CallType
    <3> QED BY <2>1, <2>2, <3>1 DEF Broken
  <2>3. CASE ~call[c].reused
    BY <2>3, EndType DEF Broken
  <2> QED BY <2>2, <2>3
<1>4. UNCHANGED <<host, pin, enabled, guards>>
  BY DEF Broken
<1> HIDE DEF Call, Link
<1> QED BY <1>1, <1>2, <1>3, <1>4, Typed, TypedNext

\* The guard that closes is the last one opened.
LEMMA FrontFacts ==
  ASSUME NEW S, NEW s \in Seq(S), s # <<>>
  PROVE  /\ Front(s) \in Seq(S) /\ Len(Front(s)) = Len(s) - 1
         /\ \A i \in 1..(Len(s) - 1) : Front(s)[i] = s[i]
<1> DEFINE m == Len(s) - 1
<1>1. m \in Nat /\ \A i \in 1..m : s[i] \in S
  BY EmptySeq
<1>2. Front(s) = SubSeq(s, 1, m)
  BY DEF Front
<1> HIDE DEF m
<1>3. /\ SubSeq(s, 1, m) \in Seq(S)
      /\ Len(SubSeq(s, 1, m)) = IF 1 <= m THEN m - 1 + 1 ELSE 0
      /\ \A i \in 1..(m - 1 + 1) : SubSeq(s, 1, m)[i] = s[1 + i - 1]
  BY <1>1, SubSeqProperties
<1>4. m - 1 + 1 = m /\ (1 <= m \/ m = 0) /\ \A i \in 1..m : 1 + i - 1 = i
  BY <1>1
<1>5. Len(SubSeq(s, 1, m)) = m
  BY <1>3, <1>4, Zenon
<1>6. \A i \in 1..m : SubSeq(s, 1, m)[i] = s[i]
  BY <1>3, <1>4, Zenon
<1> QED BY <1>2, <1>3, <1>5, <1>6 DEF m

\* Opening and closing a session.
LEMMA TypeGuards ==
  ASSUME SessionAssumption, TypeOK, NEW c \in Clients, OpenSession(c) \/ CloseSession(c)
  PROVE  TypeOK'
<1>1. CASE OpenSession(c)
  <2>1. guards[c] \in Seq(BOOLEAN) /\ (~enabled[c]) \in BOOLEAN
    BY DEF TypeOK
  <2>2. Append(guards[c], ~enabled[c]) \in Seq(BOOLEAN)
    BY <2>1, AppendProperties
  <2> QED BY <1>1, <2>2, Typed, TypedNext DEF OpenSession
<1>2. CASE CloseSession(c)
  <2>1. guards[c] \in Seq(BOOLEAN) /\ guards[c] # <<>>
    BY <1>2 DEF TypeOK, CloseSession
  <2>2. Front(guards[c]) \in Seq(BOOLEAN)
    BY <2>1, FrontFacts
  <2>3. conn' \in [Conns -> Link]
    BY <1>2, ReleasedType DEF CloseSession, TypeOK, Link, Reply
  <2>4. enabled' \in [Clients -> BOOLEAN] /\ held' \in [Clients -> Conns \cup {NoConn}]
    BY <1>2 DEF CloseSession, TypeOK
  <2> QED BY <1>2, <2>2, <2>3, <2>4, Typed, TypedNext DEF CloseSession
<1> QED BY <1>1, <1>2

\* Copying and moving a client.
LEMMA TypeCopies ==
  ASSUME SessionAssumption, TypeOK, NEW c \in Clients, NEW d \in Clients, Copy(c, d) \/ Move(c, d)
  PROVE  TypeOK'
<1>1. /\ enabled' \in [Clients -> BOOLEAN] /\ held' \in [Clients -> Conns \cup {NoConn}]
      /\ conn' = Released(held[d])
  BY DEF TypeOK, Copy, Move, DropSession
<1>2. conn' \in [Conns -> Link]
  BY <1>1, ReleasedType
<1>3. host' \in [Clients -> Hosts \cup {Gone}] /\ pin' \in [Clients -> Hosts \cup {Unset, Unpinned}]
  BY DEF TypeOK, Copy, Move, ResetPrefix
<1>4. UNCHANGED <<guards, call, sent>>
  BY DEF Copy, Move
<1> QED BY <1>1, <1>2, <1>3, <1>4, Typed, TypedNext

\* What leads to the write.
LEMMA TypeOut ==
  ASSUME SessionAssumption, TypeOK, NEW c \in Clients,
         Begin(c) \/ UseHeld(c) \/ Connect(c) \/ ConnectThrows(c)
  PROVE  TypeOK'
<1> USE DEF SessionAssumption
<1>0. /\ call \in [Clients -> Call] /\ conn \in [Conns -> Link]
      /\ sent \in [Clients -> 0..(PullAttempts + 1)] /\ pin \in [Clients -> Hosts \cup {Unset, Unpinned}]
      /\ held \in [Clients -> Conns \cup {NoConn}] /\ host \in [Clients -> Hosts \cup {Gone}]
  BY Typed
<1>1. CASE Begin(c)
  <2>1. PICK m \in Methods, typed \in BOOLEAN :
          call' = [call EXCEPT ![c] = [@ EXCEPT !.at = "route", !.method = m, !.tries = 1,
                                                !.negotiating = typed /\ pin[c] = Unset]]
    BY <1>1 DEF Begin
  <2>2. [call[c] EXCEPT !.at = "route", !.method = m, !.tries = 1,
                        !.negotiating = typed /\ pin[c] = Unset] \in Call
    <3>1. call[c] \in Call /\ 1 \in 0..PullAttempts /\ (typed /\ pin[c] = Unset) \in BOOLEAN
      BY <1>0
    <3> QED BY <3>1 DEF Call
  <2>3. call' \in [Clients -> Call]
    BY <1>0, <2>1, <2>2
  <2> QED BY <1>1, <2>3, Typed, TypedNext DEF Begin, instance
<1>2. CASE UseHeld(c)
  <2>1. [call[c] EXCEPT !.at = "write", !.conn = held[c], !.reused = TRUE] \in Call
    BY <1>0, CallType
  <2>2. call' \in [Clients -> Call]
    BY <1>0, <1>2, <2>1 DEF UseHeld
  <2> QED BY <1>2, <2>2, Typed, TypedNext DEF UseHeld, instance
<1>3. CASE Connect(c)
  <2>1. PICK k \in Conns :
          /\ conn' = [conn EXCEPT ![k] = [@ EXCEPT !.host = host[c], !.peer = "open"]]
          /\ call' = [call EXCEPT ![c] = [@ EXCEPT !.at = "write", !.conn = k, !.reused = FALSE]]
    BY <1>3 DEF Connect
  <2>2. [call[c] EXCEPT !.at = "write", !.conn = k, !.reused = FALSE] \in Call
    BY <1>0, CallType
  <2>3. [conn[k] EXCEPT !.host = host[c], !.peer = "open"] \in Link
    <3>1. conn[k] \in Link /\ host[c] \in Hosts \cup {Gone}
      BY <1>0
    <3> QED BY <3>1 DEF Link
  <2>4. call' \in [Clients -> Call]
    BY <1>0, <2>1, <2>2
  <2>5. conn' \in [Conns -> Link]
    BY <1>0, <2>1, <2>3
  <2> QED BY <1>3, <2>4, <2>5, Typed, TypedNext DEF Connect, instance
<1>4. CASE ConnectThrows(c)
  <2>1. call' \in [Clients -> Call] /\ sent' \in [Clients -> 0..(PullAttempts + 1)]
    BY <1>4, EndType DEF ConnectThrows
  <2> QED BY <1>4, <2>1, Typed, TypedNext DEF ConnectThrows, instance
<1> QED BY <1>1, <1>2, <1>3, <1>4

\* What the peer does to a connection.
LEMMA TypeServe ==
  ASSUME TypeOK, NEW k \in Conns, Serve(k) \/ PeerCloses(k)
  PROVE  TypeOK'
<1>0. conn \in [Conns -> Link] /\ conn[k].inbox \in Seq(Tags) /\ conn[k].replies \in Seq(Reply)
  BY Typed DEF Link
<1>1. CASE Serve(k)
  <2>1. PICK kind \in Kinds : conn' = [conn EXCEPT ![k] = Serving(conn[k], kind)]
    BY <1>1 DEF Serve
  <2>2. Tail(conn[k].inbox) \in Seq(Tags) /\ Head(conn[k].inbox) \in Tags
    BY <1>0, <1>1, HeadTailProperties DEF Serve
  <2>3. Append(conn[k].replies, [to |-> Head(conn[k].inbox), kind |-> kind]) \in Seq(Reply)
    BY <1>0, <2>2, AppendProperties DEF Reply
  <2>4. Serving(conn[k], kind) \in Link
    <3>1. conn[k] \in Link
      BY <1>0
    <3> QED BY <2>2, <2>3, <3>1 DEF Link, Serving
  <2>5. conn' \in [Conns -> Link]
    BY <1>0, <2>1, <2>4
  <2> QED BY <1>1, <2>5, Typed, TypedNext DEF Serve, instance
<1>2. CASE PeerCloses(k)
  <2>1. PICK r \in {conn[k].replies, <<>>} :
          conn' = [conn EXCEPT ![k] = [@ EXCEPT !.peer = "closed", !.inbox = <<>>, !.replies = r]]
    BY <1>2 DEF PeerCloses
  <2>2. <<>> \in Seq(Tags) /\ r \in Seq(Reply)
    BY <1>0, EmptySeq
  <2>3. conn' \in [Conns -> Link]
    BY <1>0, <2>1, <2>2 DEF Link
  <2> QED BY <1>2, <2>3, Typed, TypedNext DEF PeerCloses, instance
<1> QED BY <1>1, <1>2

\* A request that is written once more stays within the bound, by what SentOf knows.
LEMMA TypeWrite ==
  ASSUME SessionAssumption, TypeOK, NEW c \in Clients, SentOf(c), Write(c)
  PROVE  TypeOK'
<1>0. /\ call \in [Clients -> Call] /\ conn \in [Conns -> Link]
      /\ sent \in [Clients -> 0..(PullAttempts + 1)] /\ PullAttempts \in Nat \ {0}
  BY Typed DEF SessionAssumption
<1>1. call' \in [Clients -> Call]
  <2>1. 1 - call[c].no \in {0, 1}
    BY <1>0 DEF Call
  <2>2. [call[c] EXCEPT !.at = "read", !.no = 1 - call[c].no] \in Call
    BY <1>0, <2>1, CallType
  <2> QED BY <1>0, <2>2 DEF Write
<1>2. sent' \in [Clients -> 0..(PullAttempts + 1)]
  <2>1. CASE call[c].negotiating
    BY <1>0, <2>1 DEF Write
  <2>2. CASE ~call[c].negotiating
    <3>1. call[c].at = "write" /\ call[c].method \in Methods /\ call[c].tries \in 0..PullAttempts
      BY <1>0 DEF Write, Call
    <3>2. sent[c] \in Nat /\ sent[c] + 1 <= PullAttempts + 1
      BY <1>0, <2>2, <3>1 DEF SentOf, Idle, Methods
    <3>3. sent[c] + 1 \in 0..(PullAttempts + 1)
      BY <1>0, <3>2
    <3> QED BY <1>0, <2>2, <3>3 DEF Write
  <2> QED BY <2>1, <2>2
<1>3. conn' \in [Conns -> Link]
  <2> DEFINE k == call[c].conn
             x == [by |-> c, no |-> 1 - call[c].no]
  <2>1. CASE k \in Conns
    <3>1. x \in Tags /\ conn[k].inbox \in Seq(Tags)
      <4>1. call[c] \in Call /\ conn[k] \in Link /\ 1 - call[c].no \in {0, 1}
        BY <1>0, <2>1 DEF Call
      <4> QED BY <4>1 DEF Tags, Link
    <3>2. Append(conn[k].inbox, x) \in Seq(Tags)
      BY <3>1, AppendProperties
    <3>3. [conn EXCEPT ![k].inbox = Append(@, x)] \in [Conns -> Link]
      BY <1>0, <2>1, <3>2 DEF Link
    <3> QED BY <1>0, <3>3 DEF Write
  <2>2. CASE k \notin Conns
    BY <1>0, <2>2 DEF Write
  <2> QED BY <2>1, <2>2
<1> QED BY <1>1, <1>2, <1>3, Typed, TypedNext DEF Write, instance
\* What follows a complete response keeps the types.
LEMMA ProceedType ==
  ASSUME SessionAssumption, TypeOK, NEW c \in Clients, Proceed(c)
  PROVE  call' \in [Clients -> Call] /\ sent' \in [Clients -> 0..(PullAttempts + 1)]
<1>0. /\ call \in [Clients -> Call] /\ sent \in [Clients -> 0..(PullAttempts + 1)]
      /\ PullAttempts \in Nat \ {0}
  BY Typed DEF SessionAssumption
<1>1. CASE call[c].negotiating
  <2>1. [call[c] EXCEPT !.negotiating = FALSE] \in Call
    BY <1>0 DEF Call
  <2>2. [[call[c] EXCEPT !.negotiating = FALSE] EXCEPT !.at = "route", !.conn = NoConn,
                                                       !.reused = FALSE] \in Call
    BY <2>1, CallType
  <2> QED BY <1>0, <1>1, <2>2 DEF Proceed
<1>2. CASE ~call[c].negotiating /\ call[c].method = "pull" /\ TriesAgain(c)
  <2>1. call[c].tries + 1 \in 0..PullAttempts
    BY <1>0, <1>2 DEF TriesAgain, Call
  <2>2. [call[c] EXCEPT !.tries = @ + 1] \in Call
    BY <1>0, <2>1 DEF Call
  <2>3. [[call[c] EXCEPT !.tries = @ + 1] EXCEPT !.at = "route", !.conn = NoConn,
                                                 !.reused = FALSE] \in Call
    BY <2>2, CallType
  <2> QED BY <1>0, <1>2, <2>3 DEF Proceed
<1>3. CASE ~call[c].negotiating /\ ~(call[c].method = "pull" /\ TriesAgain(c))
  BY <1>3, EndType DEF Proceed
<1> QED BY <1>1, <1>2, <1>3

\* What ends the read.
LEMMA TypeIn ==
  ASSUME SessionAssumption, TypeOK, NEW c \in Clients, PhaseOf(c), TimesOut(c) \/ Read(c)
  PROVE  TypeOK'
<1>0. /\ call \in [Clients -> Call] /\ conn \in [Conns -> Link]
      /\ pin \in [Clients -> Hosts \cup {Unset, Unpinned}]
      /\ held \in [Clients -> Conns \cup {NoConn}] /\ Reveals \subseteq Hosts
  BY Typed DEF SessionAssumption
<1>1. CASE TimesOut(c)
  <2>1. conn' \in [Conns -> Link]
    BY <1>1, ReleasedType DEF TimesOut
  <2>2. held' \in [Clients -> Conns \cup {NoConn}]
    BY <1>1, GiveUpType DEF TimesOut
  <2>3. call' \in [Clients -> Call] /\ sent' \in [Clients -> 0..(PullAttempts + 1)]
    BY <1>1, EndType DEF TimesOut
  <2> QED BY <1>1, <2>1, <2>2, <2>3, Typed, TypedNext DEF TimesOut
<1>2. CASE Read(c)
  <2> DEFINE k == call[c].conn
  <2>0. k \in Conns /\ conn[k].replies \in Seq(Reply) /\ conn[k].replies # <<>>
    BY <1>0, <1>2 DEF Read, Answered, PhaseOf, Link
  <2>1. call' \in [Clients -> Call] /\ sent' \in [Clients -> 0..(PullAttempts + 1)]
    BY <1>2, ProceedType DEF Read
  <2>2. conn' \in [Conns -> Link] /\ held' \in [Clients -> Conns \cup {NoConn}]
    <3>1. CASE Reusable(c)
      <4>1. Tail(conn[k].replies) \in Seq(Reply)
        BY <2>0, HeadTailProperties
      <4>2. conn' = [conn EXCEPT ![k].replies = Tail(@)] /\ held' = [held EXCEPT ![c] = k]
        BY <1>2, <3>1 DEF Read
      <4> QED BY <1>0, <2>0, <4>1, <4>2 DEF Link
    <3>2. CASE ~Reusable(c)
      <4>1. conn' = Released(k) /\ GiveUpHeld(c)
        BY <1>2, <3>2 DEF Read
      <4> QED BY <4>1, ReleasedType, GiveUpType
    <3> QED BY <3>1, <3>2
  <2>3. pin' \in [Clients -> Hosts \cup {Unset, Unpinned}]
    BY <1>0, <1>2 DEF Read
  <2> QED BY <1>2, <2>1, <2>2, <2>3, Typed, TypedNext DEF Read
<1> QED BY <1>1, <1>2

\* Every step keeps the types.
LEMMA TypeStep ==
  ASSUME SessionAssumption, Inv, [Next]_vars
  PROVE  TypeOK'
<1>0. TypeOK /\ \A c \in Clients : PhaseOf(c) /\ SentOf(c)
  BY DEF Inv, Own
<1>1. ASSUME NEW c \in Clients, OpenSession(c) \/ CloseSession(c) PROVE TypeOK'
  BY <1>0, <1>1, TypeGuards
<1>2. ASSUME NEW c \in Clients, Begin(c) \/ UseHeld(c) \/ Connect(c) \/ ConnectThrows(c) PROVE TypeOK'
  BY <1>0, <1>2, TypeOut
<1>3. ASSUME NEW c \in Clients, Write(c) PROVE TypeOK'
  BY <1>0, <1>3, TypeWrite
<1>4. ASSUME NEW c \in Clients, WriteThrows(c) \/ ReadThrows(c) PROVE TypeOK'
  BY <1>0, <1>4, BrokenType DEF WriteThrows, ReadThrows
<1>5. ASSUME NEW c \in Clients, TimesOut(c) \/ Read(c) PROVE TypeOK'
  BY <1>0, <1>5, TypeIn
<1>6. ASSUME NEW c \in Clients, NEW d \in Clients, Copy(c, d) \/ Move(c, d) PROVE TypeOK'
  BY <1>0, <1>6, TypeCopies
<1>7. ASSUME NEW k \in Conns, Serve(k) \/ PeerCloses(k) PROVE TypeOK'
  BY <1>0, <1>7, TypeServe
<1>8. CASE UNCHANGED vars
  BY <1>0, <1>8 DEF vars, instance, TypeOK
<1> QED BY <1>1, <1>2, <1>3, <1>4, <1>5, <1>6, <1>7, <1>8 DEF Next, Step
-----------------------------------------------------------------------------
(* What a step that leaves a client alone leaves it.                       *)

Untouched(e) ==
  /\ host'[e] = host[e] /\ pin'[e] = pin[e] /\ enabled'[e] = enabled[e] /\ held'[e] = held[e]
  /\ guards'[e] = guards[e] /\ call'[e] = call[e] /\ sent'[e] = sent[e]
  /\ \A k \in {held[e], call[e].conn} \cap Conns :
       /\ conn'[k].host = conn[k].host
       /\ Silent(k) => Silent(k)'
       /\ OnItsWay(e, k) => OnItsWay(e, k)'

\* What is said of a client is about its own variables and connections only.
LEMMA UntouchedOwn ==
  ASSUME TypeOK, NEW e \in Clients, Own(e), Untouched(e)
  PROVE  Own(e)'
<1>0. call[e] \in Call /\ held[e] \in Conns \cup {NoConn} /\ call[e].conn \in Conns \cup {NoConn}
  BY Typed DEF Call
<1>1. PhaseOf(e)' /\ SentOf(e)' /\ GuardOf(e)'
  BY DEF Own, PhaseOf, SentOf, GuardOf, Reuse, Idle, Untouched
<1>2. WireOf(e)'
  <2>1. call[e].at \in {"write", "read"} => call[e].conn \in Conns
    BY DEF Own, PhaseOf
  <2>2. WireOf(e)
    BY DEF Own
  <2>3. held[e] \in Conns /\ held[e] # call[e].conn => Silent(held[e])'
    BY <2>2 DEF WireOf, Untouched
  <2>4. call[e].at = "write" => Silent(call[e].conn)'
    BY <2>1, <2>2 DEF WireOf, Untouched
  <2>5. call[e].at = "read" => OnItsWay(e, call[e].conn)'
    BY <2>1, <2>2 DEF WireOf, Untouched
  <2>6. held'[e] = held[e] /\ call'[e] = call[e]
    BY DEF Untouched
  <2> QED BY <2>3, <2>4, <2>5, <2>6 DEF WireOf, Silent, OnItsWay, Tag
<1>3. DaemonOf(e)'
  <2>1. Daemons(e)' = Daemons(e)
    <3>1. \A k \in {held[e], call[e].conn} \ {NoConn} : conn'[k].host = conn[k].host
      BY <1>0 DEF Untouched
    <3>2. host'[e] = host[e] /\ held'[e] = held[e] /\ call'[e] = call[e]
      BY DEF Untouched
    <3> QED BY <3>1, <3>2 DEF Daemons
  <2> QED BY <2>1 DEF Own, DaemonOf, Untouched
<1> QED BY <1>1, <1>2, <1>3 DEF Own

\* The connections of two clients are two.
LEMMA Apart ==
  ASSUME SessionAssumption, NotShared, NEW c \in Clients, NEW e \in Clients, c # e,
         NEW k \in {held[e], call[e].conn} \cap Conns
  PROVE  k # held[c] /\ k # call[c].conn
BY DEF NotShared, SessionAssumption

\* A connection that is released is one of the client that gives it up.
LEMMA ReleasedOthers ==
  ASSUME NEW k, conn' = Released(k), NEW j \in Conns
  PROVE  /\ j # k => conn'[j] = conn[j]
         /\ Silent(j) => Silent(j)'
BY DEF Released, Silent, NotOpen

\* A step on the connections of one client leaves the others untouched.
LEMMA Kept ==
  ASSUME SessionAssumption, NotShared, NEW c \in Clients, NEW e \in Clients, c # e,
         host'[e] = host[e], pin'[e] = pin[e], enabled'[e] = enabled[e], held'[e] = held[e],
         guards'[e] = guards[e], call'[e] = call[e], sent'[e] = sent[e],
         \A k \in Conns \ {held[c], call[c].conn} : conn'[k] = conn[k]
  PROVE  Untouched(e)
<1>1. \A k \in {held[e], call[e].conn} \cap Conns : conn'[k] = conn[k]
  BY Apart
<1>2. \A k : conn'[k] = conn[k] => /\ conn'[k].host = conn[k].host
                                   /\ Silent(k) => Silent(k)'
                                   /\ OnItsWay(e, k) => OnItsWay(e, k)'
  BY DEF Silent, OnItsWay, Tag
<1> QED BY <1>1, <1>2 DEF Untouched

\* Clients that take up no connection stay apart.
LEMMA ApartKept ==
  ASSUME NotShared,
         \A e \in Clients : {held'[e], call'[e].conn} \subseteq {NoConn, held[e], call[e].conn}
  PROVE  NotShared'
BY DEF NotShared

\* A request begins when no other is under way.
LEMMA SoloKept ==
  ASSUME SoloInv, NEW c \in Clients, \A e \in Clients : e # c => call'[e] = call[e],
         ~Idle(c) \/ (\A e \in Clients : Idle(e))
  PROVE  SoloInv'
BY DEF SoloInv, Idle

\* A step of one client alone.
LEMMA Alone ==
  ASSUME SessionAssumption, Inv, NEW c \in Clients, TypeOK', Own(c)',
         \A e \in Clients : e # c =>
           /\ host'[e] = host[e] /\ pin'[e] = pin[e] /\ enabled'[e] = enabled[e]
           /\ held'[e] = held[e] /\ guards'[e] = guards[e] /\ call'[e] = call[e]
           /\ sent'[e] = sent[e],
         \A k \in Conns \ {held[c], call[c].conn} : conn'[k] = conn[k],
         {held'[c], call'[c].conn} \subseteq {NoConn, held[c], call[c].conn},
         ~Idle(c) \/ (\A e \in Clients : Idle(e)) \/ call'[c] = call[c]
  PROVE  Inv'
<1>1. SoloInv'
  <2>1. CASE call'[c] = call[c]
    BY <2>1 DEF Inv, SoloInv, Idle
  <2> QED BY <2>1, SoloKept DEF Inv
<1>2. NotShared'
  <2>1. \A e \in Clients : {held'[e], call'[e].conn} \subseteq {NoConn, held[e], call[e].conn}
    OBVIOUS
  <2> QED BY <2>1, ApartKept DEF Inv
<1>3. ASSUME NEW e \in Clients, e # c PROVE Own(e)'
  <2>1. Untouched(e)
    BY <1>3, Kept DEF Inv
  <2> QED BY <2>1, UntouchedOwn DEF Inv
<1> QED BY <1>1, <1>2, <1>3 DEF Inv

\* What the daemons of a client have in common survives when some go.
LEMMA FewerDaemons ==
  ASSUME NEW c \in Clients, DaemonOf(c), Daemons(c)' \subseteq Daemons(c), pin'[c] = pin[c]
  PROVE  DaemonOf(c)'
BY DEF DaemonOf
-----------------------------------------------------------------------------
(* The steps of a client.                                                  *)

\* An inner guard finds the outer one, an outermost one is the guard.
LEMMA OpenSessionOwn ==
  ASSUME SessionAssumption, TypeOK, NEW c \in Clients, Own(c), OpenSession(c)
  PROVE  Own(c)'
<1>0. /\ enabled \in [Clients -> BOOLEAN] /\ guards \in [Clients -> Seq(BOOLEAN)]
      /\ enabled'[c] = TRUE /\ guards'[c] = Append(guards[c], ~enabled[c])
      /\ UNCHANGED <<host, pin, held, call, sent, conn>>
  BY DEF OpenSession, TypeOK
<1>1. PhaseOf(c)' /\ WireOf(c)' /\ SentOf(c)'
  BY <1>0 DEF Own, OpenSession, PhaseOf, WireOf, SentOf, Idle, Silent
<1>2. GuardOf(c)'
  <2>1. /\ Len(guards'[c]) = Len(guards[c]) + 1 /\ Len(guards[c]) \in Nat
        /\ \A i \in 1..Len(guards[c]) : guards'[c][i] = guards[c][i]
        /\ guards'[c][Len(guards[c]) + 1] = ~enabled[c]
    <3>1. guards[c] \in Seq(BOOLEAN) /\ (~enabled[c]) \in BOOLEAN
      BY <1>0
    <3> QED BY <1>0, <3>1, AppendProperties, LenProperties
  <2>2. DOMAIN guards'[c] = 1..(Len(guards[c]) + 1) /\ DOMAIN guards[c] = 1..Len(guards[c])
    <3>1. guards'[c] \in Seq(BOOLEAN) /\ guards[c] \in Seq(BOOLEAN)
      BY <1>0, AppendProperties
    <3> QED BY <2>1, <3>1, LenProperties
  <2>3. \E i \in DOMAIN guards'[c] : guards'[c][i]
    <3>1. CASE enabled[c]
      <4>1. PICK i \in DOMAIN guards[c] : guards[c][i]
        BY <3>1 DEF Own, GuardOf
      <4> QED BY <2>1, <2>2, <4>1
    <3>2. CASE ~enabled[c]
      <4>1. Len(guards[c]) + 1 \in 1..(Len(guards[c]) + 1)
        BY <2>1
      <4> QED BY <2>1, <2>2, <3>2, <4>1, Zenon
    <3> QED BY <3>1, <3>2
  <2> QED BY <1>0, <2>3 DEF GuardOf
<1>3. DaemonOf(c)'
  BY <1>0, FewerDaemons DEF Own, Daemons
<1> QED BY <1>1, <1>2, <1>3 DEF Own

\* An inner guard leaves the outer one, the outermost takes the connection along.
LEMMA CloseSessionOwn ==
  ASSUME SessionAssumption, TypeOK, NEW c \in Clients, Own(c), CloseSession(c)
  PROVE  Own(c)'
<1>0. /\ enabled \in [Clients -> BOOLEAN] /\ guards \in [Clients -> Seq(BOOLEAN)]
      /\ held \in [Clients -> Conns \cup {NoConn}] /\ guards[c] # <<>>
      /\ guards'[c] = Front(guards[c]) /\ UNCHANGED <<host, pin, call, sent>>
      /\ NoConn \notin Conns /\ Idle(c)
  BY DEF CloseSession, TypeOK, SessionAssumption
<1>1. CASE Owns(c)
  <2>1. enabled'[c] = FALSE /\ held'[c] = NoConn
    BY <1>0, <1>1 DEF CloseSession
  <2>2. PhaseOf(c)' /\ WireOf(c)' /\ SentOf(c)' /\ GuardOf(c)'
    BY <1>0, <2>1 DEF Own, PhaseOf, WireOf, SentOf, GuardOf, Idle
  <2>3. Daemons(c)' \subseteq Daemons(c)
    BY <1>0, <2>1 DEF Own, PhaseOf, Idle, Daemons
  <2> QED BY <1>0, <2>2, <2>3, FewerDaemons DEF Own
<1>2. CASE ~Owns(c)
  <2>0. UNCHANGED <<enabled, held, conn>>
    BY <1>2 DEF CloseSession
  <2>1. PhaseOf(c)' /\ WireOf(c)' /\ SentOf(c)'
    BY <1>0, <2>0 DEF Own, PhaseOf, WireOf, SentOf, Idle, Silent, Reuse
  <2>2. ASSUME enabled[c] PROVE \E i \in DOMAIN guards'[c] : guards'[c][i]
    <3>1. PICK i \in DOMAIN guards[c] : guards[c][i]
      BY <2>2 DEF Own, GuardOf
    <3>2. /\ Len(guards'[c]) = Len(guards[c]) - 1 /\ guards'[c] \in Seq(BOOLEAN)
          /\ \A j \in 1..(Len(guards[c]) - 1) : guards'[c][j] = guards[c][j]
      <4>1. guards[c] \in Seq(BOOLEAN)
        BY <1>0
      <4> QED BY <1>0, <4>1, FrontFacts
    <3>3. /\ Len(guards[c]) \in Nat /\ DOMAIN guards[c] = 1..Len(guards[c])
          /\ DOMAIN guards'[c] = 1..(Len(guards[c]) - 1)
      BY <1>0, <3>2, LenProperties
    <3>4. i # Len(guards[c])
      BY <1>2, <3>1 DEF Owns, Last
    <3>5. i \in 1..(Len(guards[c]) - 1)
      BY <3>1, <3>3, <3>4
    <3> QED BY <3>1, <3>2, <3>3, <3>5
  <2>3. GuardOf(c)'
    BY <2>0, <2>2 DEF Own, GuardOf
  <2>4. DaemonOf(c)'
    BY <1>0, <2>0, FewerDaemons DEF Own, Daemons
  <2> QED BY <2>1, <2>3, <2>4 DEF Own
<1> QED BY <1>1, <1>2

\* A call begins with nothing written.
LEMMA BeginOwn ==
  ASSUME SessionAssumption, TypeOK, NEW c \in Clients, Own(c), Begin(c)
  PROVE  Own(c)'
<1>1. PICK m \in Methods, typed \in BOOLEAN :
        call' = [call EXCEPT ![c] = [@ EXCEPT !.at = "route", !.method = m, !.tries = 1,
                                              !.negotiating = typed /\ pin[c] = Unset]]
  BY DEF Begin
<1>2. /\ call'[c].at = "route" /\ call'[c].tries = 1 /\ call'[c].conn = call[c].conn
      /\ call'[c].reused = call[c].reused /\ UNCHANGED <<instance, sent, conn>> /\ Idle(c)
  BY <1>1, Typed DEF Begin, Call
<1>3. PhaseOf(c)' /\ WireOf(c)' /\ SentOf(c)' /\ GuardOf(c)'
  BY <1>2 DEF Own, PhaseOf, WireOf, SentOf, GuardOf, Idle, Silent, instance
<1>4. DaemonOf(c)'
  BY <1>2, FewerDaemons DEF Own, Daemons, instance
<1> QED BY <1>3, <1>4 DEF Own

\* The kept connection is silent, and only a GET or a ping comes here, once.
LEMMA UseHeldOwn ==
  ASSUME SessionAssumption, TypeOK, NEW c \in Clients, Own(c), UseHeld(c)
  PROVE  Own(c)'
<1>1. /\ call'[c] = [call[c] EXCEPT !.at = "write", !.conn = held[c], !.reused = TRUE]
      /\ call[c] \in Call /\ held[c] \in Conns /\ Reuse(c) /\ call[c].at = "route"
      /\ UNCHANGED <<instance, sent, conn>>
  BY Typed DEF UseHeld
<1>2. /\ call'[c].at = "write" /\ call'[c].conn = held[c] /\ call'[c].reused
      /\ call'[c].method = call[c].method /\ call'[c].negotiating = call[c].negotiating
      /\ call'[c].tries = call[c].tries /\ call[c].conn = NoConn
  BY <1>1 DEF Call, Own, PhaseOf
<1>3. PhaseOf(c)' /\ WireOf(c)' /\ GuardOf(c)'
  BY <1>1, <1>2 DEF Own, PhaseOf, WireOf, GuardOf, Idle, Silent, instance, Reuse, SessionAssumption
<1>4. SentOf(c)'
  BY <1>1, <1>2 DEF Own, SentOf, Idle, instance, SessionAssumption
<1>5. Daemons(c)' \subseteq Daemons(c)
  BY <1>1, <1>2 DEF Daemons, instance
<1> QED BY <1>1, <1>3, <1>4, <1>5, FewerDaemons DEF Own, instance

\* A fresh connection is nobody's, silent, and to the client's host.
LEMMA ConnectOwn ==
  ASSUME SessionAssumption, TypeOK, NEW c \in Clients, Own(c), NEW k \in Conns,
         call[c].at = "route", ~(Reuse(c) /\ held[c] # NoConn), host[c] # Gone,
         conn[k] = NotOpen, \A d \in Clients : held[d] # k /\ call[d].conn # k,
         conn' = [conn EXCEPT ![k] = [@ EXCEPT !.host = host[c], !.peer = "open"]],
         call' = [call EXCEPT ![c] = [@ EXCEPT !.at = "write", !.conn = k, !.reused = FALSE]],
         UNCHANGED <<instance, sent>>
  PROVE  Own(c)'
<1>1. /\ call'[c] = [call[c] EXCEPT !.at = "write", !.conn = k, !.reused = FALSE]
      /\ call[c] \in Call /\ held[c] \in Conns \cup {NoConn} /\ NoConn \notin Conns
      /\ \A j \in Conns \ {k} : conn'[j] = conn[j]
  BY Typed DEF SessionAssumption
<1>2. /\ call'[c].at = "write" /\ call'[c].conn = k /\ ~call'[c].reused
      /\ call'[c].method = call[c].method /\ call'[c].negotiating = call[c].negotiating
      /\ call'[c].tries = call[c].tries /\ call[c].conn = NoConn
  <2>1. call[c].conn = NoConn
    BY DEF Own, PhaseOf
  <2> QED BY ONLY <1>1, <2>1 DEF Call
<1>3. conn'[k].host = host[c] /\ Silent(k)'
  <2>1. conn'[k] = [NotOpen EXCEPT !.host = host[c], !.peer = "open"]
    BY Typed
  <2>2. conn'[k].host = host[c] /\ conn'[k].inbox = <<>> /\ conn'[k].replies = <<>>
    BY ONLY <2>1 DEF NotOpen
  <2> QED BY <2>2 DEF Silent
<1>4. PhaseOf(c)' /\ GuardOf(c)' /\ SentOf(c)'
  BY <1>1, <1>2 DEF Own, PhaseOf, GuardOf, SentOf, Idle, instance
<1>5. WireOf(c)'
  <2>1. ASSUME held[c] \in Conns PROVE Silent(held[c])'
    <3>1. held[c] # call[c].conn /\ held[c] # k
      BY <1>1, <1>2, <2>1
    <3>2. Silent(held[c]) /\ conn'[held[c]] = conn[held[c]]
      BY <1>1, <2>1, <3>1 DEF Own, WireOf
    <3> QED BY <3>2 DEF Silent, instance
  <2>2. held'[c] = held[c]
    BY DEF instance
  <2> QED BY <1>2, <1>3, <2>1, <2>2 DEF WireOf, Silent
<1>6. Daemons(c)' \subseteq Daemons(c)
  <2>1. host[c] \in Daemons(c)
    BY DEF Daemons
  <2>2. ASSUME NEW j \in {held[c], k} \ {NoConn} PROVE conn'[j].host \in Daemons(c)
    BY <1>1, <1>3, <2>1 DEF Daemons
  <2>3. Daemons(c)' = ({host[c]} \ {Gone}) \cup {conn'[j].host : j \in {held[c], k} \ {NoConn}}
    BY <1>2 DEF Daemons, instance
  <2> QED BY <2>1, <2>2, <2>3
<1> QED BY <1>4, <1>5, <1>6, FewerDaemons DEF Own, instance

\* A call that returns or throws leaves the session's connection as it was, or none.
LEMMA EndOwn ==
  ASSUME SessionAssumption, TypeOK, NEW c \in Clients, Own(c), End(c),
         UNCHANGED <<host, pin, enabled, guards>>, held'[c] \in {NoConn, held[c]},
         held'[c] # NoConn => /\ held[c] # call[c].conn
                              /\ conn'[held[c]].host = conn[held[c]].host
                              /\ Silent(held[c]) => Silent(held[c])'
  PROVE  Own(c)'
<1>1. /\ call'[c] = [NoCall EXCEPT !.no = call[c].no] /\ sent'[c] = 0
      /\ held[c] \in Conns \cup {NoConn} /\ NoConn \notin Conns
  BY Typed DEF End, SessionAssumption
<1>2. call'[c].at = "idle" /\ call'[c].conn = NoConn /\ ~call'[c].reused /\ ~call'[c].negotiating
  BY <1>1 DEF NoCall
<1>3. PhaseOf(c)' /\ SentOf(c)' /\ GuardOf(c)'
  BY <1>1, <1>2 DEF Own, PhaseOf, SentOf, GuardOf, Idle
<1>4. WireOf(c)'
  <2>1. ASSUME held'[c] \in Conns PROVE Silent(held[c])' /\ held'[c] = held[c]
    BY <1>1, <2>1 DEF Own, WireOf
  <2> QED BY <1>2, <2>1 DEF WireOf, Silent
<1>5. Daemons(c)' \subseteq Daemons(c)
  <2>1. Daemons(c)' = ({host[c]} \ {Gone}) \cup {conn'[j].host : j \in {held'[c]} \ {NoConn}}
    BY <1>2 DEF Daemons
  <2>2. ASSUME NEW j \in {held'[c]} \ {NoConn} PROVE conn'[j].host \in Daemons(c)
    BY DEF Daemons
  <2> QED BY <2>1, <2>2 DEF Daemons
<1> QED BY <1>3, <1>4, <1>5, FewerDaemons DEF Own
\* The request is the only thing on its connection.
LEMMA WriteOwn ==
  ASSUME SessionAssumption, TypeOK, NEW c \in Clients, Own(c), Write(c)
  PROVE  Own(c)'
<1> DEFINE k == call[c].conn
           n == 1 - call[c].no
<1>1. /\ call[c].at = "write" /\ call[c] \in Call /\ k \in Conns /\ conn \in [Conns -> Link]
      /\ call'[c] = [call[c] EXCEPT !.at = "read", !.no = n] /\ sent[c] \in Nat
      /\ sent'[c] = (IF call[c].negotiating THEN sent[c] ELSE sent[c] + 1)
      /\ UNCHANGED instance
  BY Typed DEF Write, Own, PhaseOf
<1>2. /\ call'[c].at = "read" /\ call'[c].conn = k /\ call'[c].reused = call[c].reused
      /\ call'[c].method = call[c].method /\ call'[c].negotiating = call[c].negotiating
      /\ call'[c].tries = call[c].tries /\ call'[c].no = n
  BY ONLY <1>1 DEF Call
<1>3. Silent(k)
  BY <1>1 DEF Own, WireOf
<1>4. /\ \A j \in Conns \ {k} : conn'[j] = conn[j]
      /\ conn'[k].host = conn[k].host
      /\ conn'[k].replies = <<>> /\ conn'[k].inbox \in {<<>>, <<[by |-> c, no |-> n]>>}
  <2>1. CASE conn[k].peer = "open"
    <3>1. conn' = [conn EXCEPT ![k].inbox = Append(<<>>, [by |-> c, no |-> n])]
      BY <1>3, <2>1 DEF Write, Silent
    <3>2. Append(<<>>, [by |-> c, no |-> n]) = <<[by |-> c, no |-> n]>>
      OBVIOUS
    <3>3. conn[k].replies = <<>> /\ conn[k] \in Link
      BY <1>1, <1>3 DEF Silent
    <3> QED BY <1>1, <3>1, <3>2, <3>3 DEF Link
  <2>2. CASE conn[k].peer # "open"
    BY <1>3, <2>2 DEF Write, Silent
  <2> QED BY <2>1, <2>2
<1> HIDE DEF n
<1>5. OnItsWay(c, call[c].conn)'
  BY <1>2, <1>4 DEF OnItsWay, Silent, Tag
<1> HIDE DEF k
<1>6. PhaseOf(c)' /\ GuardOf(c)'
  BY <1>1, <1>2 DEF Own, PhaseOf, GuardOf, Reuse, Idle, instance
<1>7. WireOf(c)'
  <2>1. ASSUME held[c] \in Conns, held[c] # k PROVE Silent(held[c])'
    <3>1. Silent(held[c])
      BY <2>1 DEF Own, WireOf, k
    <3>2. conn'[held[c]] = conn[held[c]] /\ held'[c] = held[c]
      BY <1>1, <1>4, <2>1 DEF instance
    <3> QED BY <3>1, <3>2 DEF Silent
  <2>2. held'[c] = held[c]
    BY <1>1 DEF instance
  <2> QED BY <1>2, <1>5, <2>1, <2>2 DEF WireOf
<1>8. SentOf(c)'
  <2>1. SentOf(c)
    BY DEF Own
  <2>2. /\ call[c].negotiating => sent[c] = 0 /\ call[c].tries = 1
        /\ call[c].method = "pull" => call[c].tries >= 1
        /\ ~call[c].negotiating =>
             /\ call[c].method = "POST" => sent[c] = 0
             /\ call[c].method = "pull" => sent[c] = call[c].tries - 1
             /\ call[c].method = "GET" => sent[c] = 0 \/ (sent[c] = 1 /\ ~call[c].reused)
    BY <1>1, <2>1 DEF SentOf, Idle
  <2>3. call[c].tries \in Nat
    BY <1>1 DEF Call, SessionAssumption
  <2> QED BY <1>1, <1>2, <2>2, <2>3 DEF SentOf
<1>9. Daemons(c)' \subseteq Daemons(c)
  <2>1. held'[c] = held[c] /\ host'[c] = host[c] /\ held[c] \in Conns \cup {NoConn}
    BY <1>1, Typed DEF instance
  <2>2. \A j \in {held[c], k} \ {NoConn} : conn'[j].host = conn[j].host
    BY <1>4, <2>1
  <2> QED BY <1>2, <2>1, <2>2 DEF Daemons, k
<1> QED BY <1>1, <1>6, <1>7, <1>8, <1>9, FewerDaemons DEF Own, instance

\* A failure on the session's connection gives it up and starts over, any other one ends the call.
LEMMA BrokenOwn ==
  ASSUME SessionAssumption, TypeOK, NEW c \in Clients, Own(c), Broken(c),
         call[c].at \in {"write", "read"}
  PROVE  Own(c)'
<1> DEFINE k == call[c].conn
<1>0. /\ call \in [Clients -> Call] /\ held \in [Clients -> Conns \cup {NoConn}] /\ k \in Conns
      /\ conn' = Released(k) /\ NoConn \notin Conns /\ UNCHANGED <<host, pin, enabled, guards>>
  BY Typed DEF Broken, Own, PhaseOf, SessionAssumption
<1>1. CASE call[c].reused
  <2>1. /\ call'[c] = [call[c] EXCEPT !.at = "route", !.conn = NoConn, !.reused = FALSE]
        /\ sent'[c] = sent[c] /\ held'[c] = NoConn /\ call[c] \in Call
    BY <1>0, <1>1 DEF Broken, GiveUpHeld
  <2>2. /\ call'[c].at = "route" /\ call'[c].conn = NoConn /\ ~call'[c].reused
        /\ call'[c].method = call[c].method /\ call'[c].negotiating = call[c].negotiating
        /\ call'[c].tries = call[c].tries
    BY ONLY <2>1 DEF Call
  <2>3. PhaseOf(c)' /\ WireOf(c)' /\ GuardOf(c)'
    BY <1>0, <2>1, <2>2 DEF Own, PhaseOf, WireOf, GuardOf, Idle
  <2>4. SentOf(c)'
    <3>1. Reuse(c) /\ SentOf(c)
      BY <1>1 DEF Own, PhaseOf
    <3> QED BY <1>1, <2>1, <2>2, <3>1 DEF SentOf, Reuse, Idle
  <2>5. Daemons(c)' \subseteq Daemons(c)
    BY <1>0, <2>1, <2>2 DEF Daemons
  <2> QED BY <1>0, <2>3, <2>4, <2>5, FewerDaemons DEF Own
<1>2. CASE ~call[c].reused
  <2>1. End(c) /\ held' = held /\ held[c] # k
    BY <1>2 DEF Broken, GiveUpHeld, Own, PhaseOf
  <2>2. ASSUME held[c] # NoConn PROVE conn'[held[c]] = conn[held[c]]
    BY <1>0, <2>1, <2>2, ReleasedOthers
  <2> QED BY <1>0, <2>1, <2>2, EndOwn DEF Silent
<1> QED BY <1>1, <1>2

\* An expiry ends the call, and the connection with it.
LEMMA TimesOutOwn ==
  ASSUME SessionAssumption, TypeOK, NEW c \in Clients, Own(c), TimesOut(c)
  PROVE  Own(c)'
<1> DEFINE k == call[c].conn
<1>0. /\ held \in [Clients -> Conns \cup {NoConn}] /\ k \in Conns /\ call[c].reused \in BOOLEAN
      /\ conn' = Released(k) /\ NoConn \notin Conns /\ UNCHANGED <<host, pin, enabled, guards>>
      /\ GiveUpHeld(c) /\ End(c)
  BY Typed DEF TimesOut, Own, PhaseOf, SessionAssumption, Call
<1>1. held'[c] \in {NoConn, held[c]} /\ (held'[c] # NoConn => held'[c] = held[c] /\ held[c] # k)
  BY <1>0 DEF GiveUpHeld, Own, PhaseOf, TimesOut
<1>2. ASSUME held'[c] # NoConn PROVE conn'[held[c]] = conn[held[c]]
  BY <1>0, <1>1, <1>2, ReleasedOthers
<1> QED BY <1>0, <1>1, <1>2, EndOwn DEF Silent
\* The answer on a connection in use is the last thing on it.
LEMMA AnswerAlone ==
  ASSUME TypeOK, NEW c \in Clients, Own(c), Answered(c)
  PROVE  LET k == call[c].conn IN
         /\ k \in Conns /\ Len(conn[k].replies) = 1 /\ Tail(conn[k].replies) = <<>>
         /\ conn[k].inbox = <<>> /\ conn[k].replies[1].to = Tag(c)
<1> DEFINE k == call[c].conn
<1>1. k \in Conns /\ OnItsWay(c, k) /\ conn[k].replies # <<>>
  BY DEF Answered, Own, PhaseOf, WireOf
<1>2. PICK kind \in Kinds : conn[k].inbox = <<>> /\ conn[k].replies = <<[to |-> Tag(c), kind |-> kind]>>
  BY <1>1 DEF OnItsWay, Silent
<1> HIDE DEF k
<1>3. /\ Len(<<[to |-> Tag(c), kind |-> kind]>>) = 1
      /\ Tail(<<[to |-> Tag(c), kind |-> kind]>>) = <<>>
      /\ <<[to |-> Tag(c), kind |-> kind]>>[1].to = Tag(c)
  OBVIOUS
<1> QED BY <1>1, <1>2, <1>3 DEF k

\* The connection of a complete response is kept, if both sides do, or released.
LEMMA ReadConns ==
  ASSUME SessionAssumption, TypeOK, NEW c \in Clients, Own(c), Read(c)
  PROVE  /\ held'[c] \in {NoConn, held[c], call[c].conn}
         /\ held'[c] # NoConn => /\ Silent(held[c])'
                                 /\ conn'[held'[c]].host = conn[held'[c]].host
                                 /\ enabled[c]
         /\ \A j \in Conns \ {call[c].conn} : conn'[j] = conn[j]
<1> DEFINE k == call[c].conn
<1>0. /\ held \in [Clients -> Conns \cup {NoConn}] /\ conn \in [Conns -> Link] /\ k \in Conns
      /\ call[c].reused \in BOOLEAN /\ NoConn \notin Conns
  BY Typed DEF Own, PhaseOf, Read, Answered, SessionAssumption, Call
<1>1. CASE Reusable(c)
  <2>1. /\ held' = [held EXCEPT ![c] = k] /\ conn' = [conn EXCEPT ![k].replies = Tail(@)]
        /\ Tail(conn[k].replies) = <<>> /\ conn[k].inbox = <<>> /\ enabled[c]
    BY <1>1, AnswerAlone DEF Read, Reusable, Reuse
  <2>2. held'[c] = k /\ \A j \in Conns \ {k} : conn'[j] = conn[j]
    BY <1>0, <2>1
  <2>3. conn'[k].inbox = <<>> /\ conn'[k].replies = <<>> /\ conn'[k].host = conn[k].host
    <3>1. conn[k] \in Link /\ conn'[k] = [conn[k] EXCEPT !.replies = <<>>]
      BY <1>0, <2>1
    <3> QED BY ONLY <2>1, <3>1 DEF Link
  <2> QED BY <2>1, <2>2, <2>3 DEF Silent
<1>2. CASE ~Reusable(c)
  <2>1. GiveUpHeld(c) /\ conn' = Released(k)
    BY <1>2 DEF Read
  <2>2. \A j \in Conns \ {k} : conn'[j] = conn[j]
    BY <2>1, ReleasedOthers
  <2>3. CASE call[c].reused
    <3>1. held'[c] = NoConn
      BY <1>0, <2>1, <2>3 DEF GiveUpHeld
    <3> QED BY <2>2, <3>1
  <2>4. CASE ~call[c].reused
    <3>1. held'[c] = held[c] /\ held[c] # k
      BY <2>1, <2>4 DEF GiveUpHeld, Own, PhaseOf, Read, Answered
    <3>2. ASSUME held[c] # NoConn
          PROVE  conn'[held[c]] = conn[held[c]] /\ Silent(held[c]) /\ enabled[c]
      BY <1>0, <2>2, <3>1, <3>2 DEF Own, WireOf, GuardOf
    <3> QED BY <2>2, <3>1, <3>2 DEF Silent
  <2> QED BY <2>3, <2>4
<1> QED BY <1>1, <1>2

\* A complete response leaves a silent connection, or none.
LEMMA ReadOwn ==
  ASSUME SessionAssumption, TypeOK, NEW c \in Clients, Own(c), Read(c)
  PROVE  Own(c)'
<1> DEFINE k == call[c].conn
<1>0. /\ call \in [Clients -> Call] /\ held \in [Clients -> Conns \cup {NoConn}] /\ k \in Conns
      /\ sent \in [Clients -> 0..(PullAttempts + 1)] /\ pin \in [Clients -> Hosts \cup {Unset, Unpinned}]
      /\ conn \in [Conns -> Link] /\ PullAttempts \in Nat \ {0}
      /\ UNCHANGED <<host, enabled, guards>> /\ call[c].at = "read"
      /\ NoConn \notin Conns /\ Reveals \subseteq Hosts /\ Unpinned \notin Hosts
  BY Typed DEF Read, Answered, Own, PhaseOf, SessionAssumption
<1>1. /\ held'[c] \in {NoConn, held[c], k}
      /\ held'[c] # NoConn => /\ Silent(held[c])' /\ enabled[c]
                              /\ conn'[held'[c]].host = conn[held'[c]].host
  BY ReadConns
<1> HIDE DEF k
<1>2. /\ call'[c].at \in {"idle", "route"} /\ call'[c].conn = NoConn /\ ~call'[c].reused
      /\ call'[c].at = "idle" => ~call'[c].negotiating /\ sent'[c] = 0
      /\ SentOf(c)'
  <2>0. SentOf(c) /\ call[c] \in Call
    BY <1>0 DEF Own
  <2>1. CASE call[c].negotiating
    <3>1. /\ call'[c] = [[call[c] EXCEPT !.negotiating = FALSE] EXCEPT
                            !.at = "route", !.conn = NoConn, !.reused = FALSE]
          /\ sent'[c] = sent[c]
      BY <1>0, <2>1 DEF Read, Proceed
    <3>2. /\ call'[c].at = "route" /\ call'[c].conn = NoConn /\ ~call'[c].reused
          /\ ~call'[c].negotiating /\ call'[c].method = call[c].method
          /\ call'[c].tries = call[c].tries
      BY ONLY <2>0, <3>1 DEF Call
    <3>3. sent[c] = 0 /\ call[c].tries = 1
      BY <1>0, <2>0, <2>1 DEF SentOf, Idle
    <3> QED BY <3>1, <3>2, <3>3 DEF SentOf
  <2>2. CASE ~call[c].negotiating /\ call[c].method = "pull" /\ TriesAgain(c)
    <3>1. /\ call'[c] = [[call[c] EXCEPT !.tries = @ + 1] EXCEPT
                            !.at = "route", !.conn = NoConn, !.reused = FALSE]
          /\ sent'[c] = sent[c]
      BY <1>0, <2>2 DEF Read, Proceed
    <3>2. /\ call'[c].at = "route" /\ call'[c].conn = NoConn /\ ~call'[c].reused
          /\ call'[c].negotiating = call[c].negotiating /\ call'[c].method = call[c].method
          /\ call'[c].tries = call[c].tries + 1
      BY ONLY <2>0, <3>1 DEF Call
    <3>3. sent[c] = call[c].tries /\ call[c].tries \in Nat
      BY <1>0, <2>0, <2>2 DEF SentOf, Idle, Call
    <3> QED BY <2>2, <3>1, <3>2, <3>3 DEF SentOf
  <2>3. CASE ~call[c].negotiating /\ ~(call[c].method = "pull" /\ TriesAgain(c))
    <3>1. End(c)
      BY <2>3 DEF Read, Proceed
    <3>2. call'[c] = [NoCall EXCEPT !.no = call[c].no] /\ sent'[c] = 0
      BY <1>0, <3>1 DEF End
    <3>3. /\ call'[c].at = "idle" /\ call'[c].conn = NoConn
          /\ ~call'[c].reused /\ ~call'[c].negotiating
      BY ONLY <3>2 DEF NoCall
    <3> QED BY <3>2, <3>3 DEF SentOf, Idle
  <2> QED BY <2>1, <2>2, <2>3
<1>3. PhaseOf(c)'
  BY <1>2 DEF PhaseOf, Idle
<1>4. WireOf(c)'
  BY <1>0, <1>1, <1>2 DEF WireOf
<1>5. GuardOf(c)'
  BY <1>0, <1>1 DEF Own, GuardOf
<1>6. DaemonOf(c)'
  <2>1. Daemons(c)' \subseteq Daemons(c)
    BY <1>0, <1>1, <1>2 DEF Daemons, k
  <2>2. CASE call[c].negotiating
    <3>1. pin'[c] = IF conn[k].host \in Reveals THEN conn[k].host ELSE Unpinned
      BY <1>0, <2>2 DEF Read, k
    <3>2. conn[k].host \in Daemons(c)
      BY <1>0 DEF Daemons, k
    <3>3. Daemons(c) \subseteq {conn[k].host}
      BY <3>2 DEF Own, DaemonOf
    <3>4. CASE conn[k].host \in Reveals
      BY <1>0, <2>1, <3>1, <3>3, <3>4 DEF DaemonOf
    <3>5. CASE conn[k].host \notin Reveals
      BY <1>0, <2>1, <3>1, <3>3, <3>5 DEF DaemonOf
    <3> QED BY <3>4, <3>5
  <2>3. CASE ~call[c].negotiating
    BY <2>1, <2>3, FewerDaemons DEF Own, Read
  <2> QED BY <2>2, <2>3
<1> QED BY <1>2, <1>3, <1>4, <1>5, <1>6 DEF Own

\* A client that is assigned to has the daemon and the pin of the other, and no session.
LEMMA AssignedOwn ==
  ASSUME SessionAssumption, TypeOK, NEW c \in Clients, NEW d \in Clients, Own(c), Own(d), Idle(d),
         host'[d] = host[c], pin'[d] = pin[c], DropSession(c, d), UNCHANGED <<guards, call, sent>>
  PROVE  Own(d)'
<1>1. enabled'[d] = FALSE /\ held'[d] = NoConn /\ NoConn \notin Conns
  BY DEF DropSession, TypeOK, SessionAssumption
<1>2. PhaseOf(d)' /\ WireOf(d)' /\ SentOf(d)' /\ GuardOf(d)'
  BY <1>1 DEF Own, PhaseOf, WireOf, SentOf, GuardOf, Idle
<1>3. DaemonOf(d)'
  <2>1. Daemons(d)' \subseteq Daemons(c)
    BY <1>1 DEF Own, PhaseOf, Idle, Daemons
  <2> QED BY <2>1 DEF Own, DaemonOf
<1> QED BY <1>2, <1>3 DEF Own
-----------------------------------------------------------------------------
(* The invariant.                                                          *)

\* Clients begin without sessions, pins and requests.
LEMMA InitInv ==
  ASSUME SessionAssumption, Init
  PROVE  Inv
<1>1. TypeOK
  <2>1. /\ 0 \in 0..(PullAttempts + 1) /\ 0 \in 0..PullAttempts
        /\ <<>> \in Seq(BOOLEAN) /\ <<>> \in Seq(Tags) /\ <<>> \in Seq(Reply)
    BY EmptySeq DEF SessionAssumption
  <2>2. NoCall \in Call /\ NotOpen \in Link
    BY <2>1 DEF NoCall, NotOpen, Call, Link, Methods
  <2>3. /\ call \in [Clients -> Call] /\ conn \in [Conns -> Link]
        /\ sent \in [Clients -> 0..(PullAttempts + 1)] /\ guards \in [Clients -> Seq(BOOLEAN)]
    BY <2>1, <2>2 DEF Init
  <2>4. /\ host \in [Clients -> Hosts \cup {Gone}] /\ pin \in [Clients -> Hosts \cup {Unset, Unpinned}]
        /\ enabled \in [Clients -> BOOLEAN] /\ held \in [Clients -> Conns \cup {NoConn}]
    BY DEF Init
  <2> QED BY <2>3, <2>4, Typed
<1>2. \A c \in Clients : /\ call[c].at = "idle" /\ call[c].conn = NoConn /\ ~call[c].reused
                         /\ ~call[c].negotiating /\ held[c] = NoConn /\ ~enabled[c]
                         /\ sent[c] = 0 /\ pin[c] = Unset
  BY DEF Init, NoCall
<1>3. SoloInv /\ NotShared
  BY <1>2 DEF SoloInv, NotShared, Idle
<1>4. ASSUME NEW c \in Clients PROVE Own(c)
  <2>1. PhaseOf(c) /\ WireOf(c) /\ SentOf(c) /\ GuardOf(c)
    BY <1>2 DEF PhaseOf, WireOf, SentOf, GuardOf, Idle, SessionAssumption
  <2>2. DaemonOf(c)
    BY <1>2 DEF DaemonOf, Daemons, SessionAssumption
  <2> QED BY <2>1, <2>2 DEF Own
<1> QED BY <1>1, <1>3, <1>4 DEF Inv

\* Guards, copies and moves happen between requests.
LEMMA BetweenStep ==
  ASSUME SessionAssumption, Inv, TypeOK', NEW c \in Clients,
         OpenSession(c) \/ CloseSession(c) \/ Begin(c)
  PROVE  Inv'
<1>0. Own(c) /\ TypeOK
  BY DEF Inv
<1>1. Own(c)'
  BY <1>0, OpenSessionOwn, CloseSessionOwn, BeginOwn
<1>2. CASE OpenSession(c)
  BY <1>0, <1>1, <1>2, Alone DEF OpenSession, TypeOK
<1>3. CASE CloseSession(c)
  <2>1. \A k \in Conns \ {held[c], call[c].conn} : conn'[k] = conn[k]
    BY <1>3, ReleasedOthers DEF CloseSession
  <2>2. \A e \in Clients : e # c =>
           /\ host'[e] = host[e] /\ pin'[e] = pin[e] /\ enabled'[e] = enabled[e]
           /\ held'[e] = held[e] /\ guards'[e] = guards[e] /\ call'[e] = call[e]
           /\ sent'[e] = sent[e]
    BY <1>0, <1>3 DEF CloseSession, TypeOK
  <2>3. {held'[c], call'[c].conn} \subseteq {NoConn, held[c], call[c].conn}
    BY <1>0, <1>3 DEF CloseSession, TypeOK
  <2>4. call'[c] = call[c]
    BY <1>3 DEF CloseSession
  <2> QED BY <1>1, <2>1, <2>2, <2>3, <2>4, Alone
<1>4. CASE Begin(c)
  <2>1. PICK m \in Methods, typed \in BOOLEAN :
          call' = [call EXCEPT ![c] = [@ EXCEPT !.at = "route", !.method = m, !.tries = 1,
                                                !.negotiating = typed /\ pin[c] = Unset]]
    BY <1>4 DEF Begin
  <2>2. call'[c].conn = call[c].conn /\ \A e \in Clients : e # c => call'[e] = call[e]
    BY <1>0, <2>1, Typed DEF Call
  <2>3. UNCHANGED <<instance, sent, conn>> /\ \A e \in Clients : Idle(e)
    BY <1>4 DEF Begin
  <2> QED BY <1>1, <2>2, <2>3, Alone DEF instance
<1> QED BY <1>2, <1>3, <1>4

\* A copy starts without a session; a moved-from client keeps its own, and loses its host and pin.
LEMMA AssignStep ==
  ASSUME SessionAssumption, Inv, TypeOK', NEW c \in Clients, NEW d \in Clients,
         Copy(c, d) \/ Move(c, d)
  PROVE  Inv'
<1>0. /\ TypeOK /\ SoloInv /\ NotShared /\ \A e \in Clients : Own(e)
      /\ c # d /\ Idle(c) /\ Idle(d) /\ DropSession(c, d) /\ UNCHANGED <<guards, call, sent>>
      /\ host'[d] = host[c] /\ pin'[d] = pin[c]
      /\ NoConn \notin Conns /\ {Gone, Unset, Unpinned} \cap Hosts = {} /\ Unset # Unpinned
  BY DEF Inv, Copy, Move, TypeOK, SessionAssumption
<1>1. /\ conn' = Released(held[d]) /\ held'[d] = NoConn
      /\ \A e \in Clients : e # d => enabled'[e] = enabled[e] /\ held'[e] = held[e]
  BY <1>0 DEF DropSession, TypeOK
<1>2. \A k \in Conns \ {held[d], call[d].conn} : conn'[k] = conn[k]
  BY <1>1, ReleasedOthers
<1>3. SoloInv' /\ NotShared'
  <2>1. SoloInv'
    BY <1>0 DEF SoloInv, Idle
  <2>2. \A e \in Clients : {held'[e], call'[e].conn} \subseteq {NoConn, held[e], call[e].conn}
    BY <1>0, <1>1
  <2> QED BY <1>0, <2>1, <2>2, ApartKept
<1>4. Own(d)'
  BY <1>0, AssignedOwn
<1>5. ASSUME NEW e \in Clients, e # d, host'[e] = host[e], pin'[e] = pin[e] PROVE Own(e)'
  <2>1. Untouched(e)
    BY <1>0, <1>1, <1>2, <1>5, Kept
  <2> QED BY <1>0, <2>1, UntouchedOwn
<1>6. CASE Copy(c, d)
  <2>1. \A e \in Clients : e # d => host'[e] = host[e] /\ pin'[e] = pin[e]
    BY <1>0, <1>6 DEF Copy, TypeOK
  <2> QED BY <1>3, <1>4, <1>5, <2>1 DEF Inv
<1>7. CASE Move(c, d)
  <2>1. \A e \in Clients : e # c /\ e # d => host'[e] = host[e] /\ pin'[e] = pin[e]
    BY <1>0, <1>7 DEF Move, TypeOK
  <2>2. host'[c] = Gone /\ pin'[c] = Unset
    BY <1>0, <1>7 DEF Move, TypeOK, ResetPrefix
  <2>3. Own(c)'
    <3>1. /\ held'[c] = held[c] /\ enabled'[c] = enabled[c] /\ UNCHANGED <<guards, call, sent>>
          /\ call[c].conn = NoConn
      BY <1>0, <1>1 DEF Own, PhaseOf, Idle
    <3>2. held[c] \in Conns => conn'[held[c]] = conn[held[c]]
      BY <1>0, <1>1, <1>2, Apart, <3>1
    <3>3. PhaseOf(c)' /\ SentOf(c)' /\ GuardOf(c)'
      BY <1>0, <3>1 DEF Own, PhaseOf, SentOf, GuardOf, Idle, Reuse
    <3>4. WireOf(c)'
      BY <1>0, <3>1, <3>2 DEF Own, WireOf, Silent, Idle
    <3>5. DaemonOf(c)'
      <4>1. held[c] \in Conns \cup {NoConn}
        BY <1>0, Typed
      <4>2. Daemons(c)' \subseteq Daemons(c)
        BY <2>2, <3>1, <3>2, <4>1 DEF Daemons
      <4> QED BY <1>0, <2>2, <4>2 DEF Own, DaemonOf
    <3> QED BY <3>3, <3>4, <3>5 DEF Own
  <2> QED BY <1>3, <1>4, <1>5, <2>1, <2>3 DEF Inv
<1> QED BY <1>6, <1>7

\* A connection that nobody holds or uses becomes one client's.
LEMMA ConnectStep ==
  ASSUME SessionAssumption, Inv, TypeOK', NEW c \in Clients, Connect(c)
  PROVE  Inv'
<1>0. TypeOK /\ SoloInv /\ NotShared /\ \A e \in Clients : Own(e)
  BY DEF Inv
<1>1. PICK k \in Conns :
        /\ conn[k] = NotOpen /\ \A d \in Clients : held[d] # k /\ call[d].conn # k
        /\ conn' = [conn EXCEPT ![k] = [@ EXCEPT !.host = host[c], !.peer = "open"]]
        /\ call' = [call EXCEPT ![c] = [@ EXCEPT !.at = "write", !.conn = k, !.reused = FALSE]]
  BY DEF Connect
<1>2. /\ call[c].at = "route" /\ ~(Reuse(c) /\ held[c] # NoConn) /\ host[c] # Gone
      /\ UNCHANGED <<instance, sent>>
  BY DEF Connect
<1>3. Own(c)'
  BY <1>0, <1>1, <1>2, ConnectOwn
<1>4. /\ call'[c].conn = k /\ held' = held
      /\ \A e \in Clients : e # c => call'[e] = call[e]
      /\ \A j \in Conns \ {k} : conn'[j] = conn[j]
  BY <1>0, <1>1, <1>2, Typed DEF instance, Call
<1>5. SoloInv'
  BY <1>0, <1>2, <1>4, SoloKept DEF Idle
<1>6. NotShared'
  BY <1>0, <1>1, <1>4 DEF NotShared
<1>7. ASSUME NEW e \in Clients, e # c PROVE Own(e)'
  <2>1. \A j \in {held[e], call[e].conn} \cap Conns : conn'[j] = conn[j]
    BY <1>1, <1>4
  <2>2. \A j : conn'[j] = conn[j] => /\ conn'[j].host = conn[j].host
                                     /\ Silent(j) => Silent(j)'
                                     /\ OnItsWay(e, j) => OnItsWay(e, j)'
    BY <1>4, <1>7 DEF Silent, OnItsWay, Tag
  <2>3. Untouched(e)
    BY <1>2, <1>4, <1>7, <2>1, <2>2 DEF Untouched, instance
  <2> QED BY <1>0, <2>3, UntouchedOwn
<1> QED BY <1>3, <1>5, <1>6, <1>7 DEF Inv

\* The other steps of a call end with none of its connections, or with those it had.
LEMMA CallStep ==
  ASSUME SessionAssumption, Inv, TypeOK', NEW c \in Clients,
         \/ UseHeld(c) \/ ConnectThrows(c) \/ Write(c) \/ WriteThrows(c)
         \/ ReadThrows(c) \/ TimesOut(c) \/ Read(c)
  PROVE  Inv'
<1>0. /\ TypeOK /\ Own(c) /\ call \in [Clients -> Call] /\ held \in [Clients -> Conns \cup {NoConn}]
      /\ conn \in [Conns -> Link] /\ ~Idle(c) /\ sent \in [Clients -> 0..(PullAttempts + 1)]
      /\ pin \in [Clients -> Hosts \cup {Unset, Unpinned}]
  BY Typed DEF Inv, Idle, UseHeld, ConnectThrows, Write, WriteThrows, ReadThrows, TimesOut, Read,
     Answered
<1>1. ASSUME End(c) PROVE /\ call'[c].conn = NoConn
                          /\ \A e \in Clients : e # c => call'[e] = call[e] /\ sent'[e] = sent[e]
  BY <1>0, <1>1 DEF End, NoCall
<1>2. ASSUME GiveUpHeld(c) PROVE /\ held'[c] \in {NoConn, held[c]}
                                 /\ \A e \in Clients : e # c => held'[e] = held[e]
  BY <1>0, <1>2 DEF GiveUpHeld
<1>3. CASE UseHeld(c)
  <2>1. Own(c)'
    BY <1>0, <1>3, UseHeldOwn
  <2>2. call'[c].conn = held[c] /\ \A e \in Clients : e # c => call'[e] = call[e]
    BY <1>0, <1>3 DEF UseHeld, Call
  <2>3. UNCHANGED <<instance, sent, conn>>
    BY <1>3 DEF UseHeld
  <2> QED BY <1>0, <2>1, <2>2, <2>3, Alone DEF instance
<1>4. CASE ConnectThrows(c)
  <2>1. Own(c)'
    <3>1. End(c) /\ UNCHANGED <<instance, conn>> /\ call[c].at = "route"
      BY <1>4 DEF ConnectThrows
    <3>2. call[c].conn = NoConn
      BY <1>0, <3>1 DEF Own, PhaseOf
    <3> QED BY <1>0, <3>1, <3>2, EndOwn DEF instance, Silent
  <2>2. End(c) /\ UNCHANGED <<instance, conn>>
    BY <1>4 DEF ConnectThrows
  <2> QED BY <1>0, <1>1, <2>1, <2>2, Alone DEF instance
<1>5. CASE Write(c)
  <2>1. Own(c)'
    BY <1>0, <1>5, WriteOwn
  <2>2. /\ call'[c].conn = call[c].conn
        /\ \A e \in Clients : e # c => call'[e] = call[e] /\ sent'[e] = sent[e]
    BY <1>0, <1>5 DEF Write, Call
  <2>3. \A j \in Conns \ {call[c].conn} : conn'[j] = conn[j]
    BY <1>0, <1>5 DEF Write
  <2>4. UNCHANGED instance
    BY <1>5 DEF Write
  <2> QED BY <1>0, <2>1, <2>2, <2>3, <2>4, Alone DEF instance
<1>6. CASE WriteThrows(c) \/ ReadThrows(c)
  <2>0. Broken(c) /\ call[c].at \in {"write", "read"}
    BY <1>6 DEF WriteThrows, ReadThrows, Answered
  <2>1. Own(c)'
    BY <1>0, <2>0, BrokenOwn
  <2>2. conn' = Released(call[c].conn) /\ UNCHANGED <<host, pin, enabled, guards>> /\ GiveUpHeld(c)
    BY <2>0 DEF Broken
  <2>3. /\ call'[c].conn = NoConn
        /\ \A e \in Clients : e # c => call'[e] = call[e] /\ sent'[e] = sent[e]
    <3>1. CASE call[c].reused
      BY <1>0, <2>0, <3>1 DEF Broken, Call
    <3>2. CASE ~call[c].reused
      BY <1>1, <2>0, <3>2 DEF Broken
    <3> QED BY <3>1, <3>2
  <2>4. \A j \in Conns \ {call[c].conn} : conn'[j] = conn[j]
    BY <2>2, ReleasedOthers
  <2> QED BY <1>0, <1>2, <2>1, <2>2, <2>3, <2>4, Alone
<1>7. CASE TimesOut(c)
  <2>1. Own(c)'
    BY <1>0, <1>7, TimesOutOwn
  <2>2. /\ conn' = Released(call[c].conn) /\ UNCHANGED <<host, pin, enabled, guards>>
        /\ GiveUpHeld(c) /\ End(c)
    BY <1>7 DEF TimesOut
  <2>3. \A j \in Conns \ {call[c].conn} : conn'[j] = conn[j]
    BY <2>2, ReleasedOthers
  <2> QED BY <1>0, <1>1, <1>2, <2>1, <2>2, <2>3, Alone
<1>8. CASE Read(c)
  <2>1. Own(c)'
    BY <1>0, <1>8, ReadOwn
  <2>2. /\ call'[c].conn = NoConn
        /\ \A e \in Clients : e # c => call'[e] = call[e] /\ sent'[e] = sent[e]
    <3>0. Proceed(c)
      BY <1>8 DEF Read
    <3>1. CASE call[c].negotiating
      BY <1>0, <3>0, <3>1 DEF Proceed, Call
    <3>2. CASE ~call[c].negotiating /\ call[c].method = "pull" /\ TriesAgain(c)
      <4>1. /\ call' = [call EXCEPT ![c] = [[call[c] EXCEPT !.tries = @ + 1] EXCEPT
                                              !.at = "route", !.conn = NoConn, !.reused = FALSE]]
            /\ sent' = sent
        BY <3>0, <3>2 DEF Proceed
      <4> QED BY <1>0, <4>1 DEF Call
    <3>3. CASE ~call[c].negotiating /\ ~(call[c].method = "pull" /\ TriesAgain(c))
      BY <1>1, <3>0, <3>3 DEF Proceed
    <3> QED BY <3>1, <3>2, <3>3
  <2>3. \A e \in Clients : e # c => held'[e] = held[e] /\ pin'[e] = pin[e]
    BY <1>0, <1>2, <1>8 DEF Read
  <2>4. /\ held'[c] \in {NoConn, held[c], call[c].conn}
        /\ \A j \in Conns \ {call[c].conn} : conn'[j] = conn[j]
    BY <1>0, <1>8, ReadConns
  <2>5. UNCHANGED <<host, enabled, guards>>
    BY <1>8 DEF Read
  <2> QED BY <1>0, <2>1, <2>2, <2>3, <2>4, <2>5, Alone
<1> QED BY <1>3, <1>4, <1>5, <1>6, <1>7, <1>8

\* The peer moves what is on its way along, or drops it; it puts nothing on a silent connection.
LEMMA PeerStep ==
  ASSUME SessionAssumption, Inv, TypeOK', NEW k \in Conns, Serve(k) \/ PeerCloses(k)
  PROVE  Inv'
<1>0. /\ TypeOK /\ conn \in [Conns -> Link] /\ conn[k] \in Link
      /\ UNCHANGED <<instance, call, sent>>
  BY Typed DEF Inv, Serve, PeerCloses
<1>1. \A j \in Conns \ {k} : conn'[j] = conn[j]
  BY <1>0 DEF Serve, PeerCloses
<1>2. conn'[k].host = conn[k].host /\ (Silent(k) => Silent(k)')
  <2>1. CASE Serve(k)
    <3>1. PICK kind \in Kinds : conn'[k] = Serving(conn[k], kind)
      BY <1>0, <2>1 DEF Serve
    <3>2. ~Silent(k)
      BY <2>1 DEF Serve, Silent
    <3> QED BY <1>0, <3>1, <3>2 DEF Serving, Link
  <2>2. CASE PeerCloses(k)
    <3>1. PICK r \in {conn[k].replies, <<>>} :
            conn'[k] = [conn[k] EXCEPT !.peer = "closed", !.inbox = <<>>, !.replies = r]
      BY <1>0, <2>2 DEF PeerCloses
    <3> QED BY <1>0, <3>1 DEF Silent, Link
  <2> QED BY <2>1, <2>2
<1>3. ASSUME NEW e \in Clients, OnItsWay(e, k) PROVE OnItsWay(e, k)'
  <2>1. CASE Serve(k)
    <3>1. PICK kind \in Kinds : conn'[k] = Serving(conn[k], kind)
      BY <1>0, <2>1 DEF Serve
    <3>2. conn[k].inbox = <<Tag(e)>> /\ conn[k].replies = <<>>
      BY <1>3, <2>1 DEF Serve, OnItsWay, Silent
    <3>3. /\ conn'[k].inbox = Tail(conn[k].inbox)
          /\ conn'[k].replies = Append(conn[k].replies, [to |-> Head(conn[k].inbox), kind |-> kind])
      BY <1>0, <3>1 DEF Serving, Link
    <3>4. conn'[k].inbox = <<>> /\ conn'[k].replies = <<[to |-> Tag(e), kind |-> kind]>>
      <4>1. /\ Tail(<<Tag(e)>>) = <<>> /\ Head(<<Tag(e)>>) = Tag(e)
            /\ Append(<<>>, [to |-> Tag(e), kind |-> kind]) = <<[to |-> Tag(e), kind |-> kind]>>
        OBVIOUS
      <4> QED BY <3>2, <3>3, <4>1
    <3> QED BY <1>0, <3>4 DEF OnItsWay, Tag
  <2>2. CASE PeerCloses(k)
    <3>1. PICK r \in {conn[k].replies, <<>>} :
            conn'[k] = [conn[k] EXCEPT !.peer = "closed", !.inbox = <<>>, !.replies = r]
      BY <1>0, <2>2 DEF PeerCloses
    <3>2. conn'[k].inbox = <<>> /\ conn'[k].replies \in {conn[k].replies, <<>>}
      BY <1>0, <3>1 DEF Link
    <3> QED BY <1>0, <1>3, <3>2 DEF OnItsWay, Silent, Tag
  <2> QED BY <2>1, <2>2
<1>4. ASSUME NEW e \in Clients PROVE Own(e)'
  <2>1. \A j \in Conns : /\ conn'[j].host = conn[j].host
                         /\ Silent(j) => Silent(j)'
                         /\ OnItsWay(e, j) => OnItsWay(e, j)'
    <3>1. ASSUME NEW j \in Conns, j # k
          PROVE  /\ conn'[j].host = conn[j].host
                 /\ Silent(j) => Silent(j)'
                 /\ OnItsWay(e, j) => OnItsWay(e, j)'
      BY <1>0, <1>1, <3>1 DEF Silent, OnItsWay, Tag
    <3> QED BY <1>2, <1>3, <3>1
  <2>2. Untouched(e)
    BY <1>0, <2>1 DEF Untouched, instance
  <2> QED BY <1>0, <2>2, UntouchedOwn DEF Inv
<1> QED BY <1>0, <1>4 DEF Inv, SoloInv, NotShared, Idle, instance

\* Every step keeps the invariant.
LEMMA StepInv ==
  ASSUME SessionAssumption, Inv, [Next]_vars
  PROVE  Inv'
<1>0. TypeOK'
  BY TypeStep
<1>1. CASE UNCHANGED vars
  <2>1. \A e \in Clients : Own(e)'
    <3> SUFFICES ASSUME NEW e \in Clients PROVE Own(e)'
      OBVIOUS
    <3>1. Untouched(e)
      BY <1>1 DEF vars, instance, Untouched, Silent, OnItsWay, Tag
    <3> QED BY <3>1, UntouchedOwn DEF Inv
  <2> QED BY <1>0, <1>1, <2>1 DEF vars, instance, Inv, SoloInv, NotShared, Idle
<1> QED BY <1>0, <1>1, BetweenStep, AssignStep, ConnectStep, CallStep, PeerStep DEF Next, Step

\* Whatever is copied, moved, nested, cut or left unanswered, the invariant holds.
LEMMA Invariant ==
  ASSUME SessionAssumption
  PROVE  Spec => []Inv
<1>1. Init => Inv
  BY InitInv
<1>2. Inv /\ [Next]_vars => Inv'
  BY StepInv
<1> QED BY <1>1, <1>2, PTL DEF Spec

-----------------------------------------------------------------------------
(* What it is worth.                                                       *)

\* The variables of the clients keep their types, whatever a call meets: the counters of pull_image
\* and of the replay stay within their bounds.
THEOREM TypeCorrect ==
  ASSUME SessionAssumption
  PROVE  Spec => []TypeOK
<1>1. Inv => TypeOK
  BY DEF Inv
<1> QED BY <1>1, Invariant, PTL

\* request_with_io_timeout never reads an earlier request's answer, no two clients write into one
\* socket, and a request goes to its client's own daemon under that daemon's API version.
THEOREM AnswersAreOwn ==
  ASSUME SessionAssumption
  PROVE  Spec => []OwnAnswer
<1>1. ASSUME Inv PROVE AnswersOwn
  <2> SUFFICES ASSUME NEW c \in Clients, call[c].at = "read",
                      NEW i \in DOMAIN conn[call[c].conn].replies
               PROVE  conn[call[c].conn].replies[i].to = [by |-> c, no |-> call[c].no]
    BY DEF AnswersOwn
  <2>1. OnItsWay(c, call[c].conn)
    BY <1>1 DEF Inv, Own, WireOf
  <2>2. conn[call[c].conn].replies # <<>>
    OBVIOUS
  <2>3. PICK kind \in Kinds : conn[call[c].conn].replies = <<[to |-> Tag(c), kind |-> kind]>>
    BY <2>1, <2>2 DEF OnItsWay, Silent
  <2>4. i = 1
    BY <2>3
  <2> QED BY <2>3, <2>4 DEF Tag
<1>2. ASSUME Inv PROVE OwnDaemon
  BY <1>2 DEF Inv, Own, DaemonOf, OwnDaemon
<1>3. Inv => OwnAnswer
  BY <1>1, <1>2 DEF OwnAnswer, Inv
<1> QED BY <1>3, Invariant, PTL

\* A stale-connection retry replays no side effect (a POST is written once, a GET twice at most, a
\* pull once per try), and every kept connection has a Session guard that will give it back.
THEOREM SideEffectsOnce ==
  ASSUME SessionAssumption
  PROVE  Spec => []NeverReplayed
<1>1. ASSUME Inv PROVE WrittenOnce
  <2> SUFFICES ASSUME NEW c \in Clients, ~Idle(c)
               PROVE  sent[c] <= CASE call[c].method = "GET" -> 2
                                   [] call[c].method = "POST" -> 1
                                   [] call[c].method = "pull" -> call[c].tries
    BY DEF WrittenOnce
  <2>1. /\ call[c].at \in {"idle", "route", "write", "read"} /\ call[c].method \in Methods
        /\ call[c].tries \in Nat /\ call[c].negotiating \in BOOLEAN
    BY <1>1, Typed DEF Inv, Call, SessionAssumption
  <2>2. SentOf(c)
    BY <1>1 DEF Inv, Own
  <2>3. /\ call[c].method = "GET" => sent[c] <= 2
        /\ call[c].method = "POST" => sent[c] <= 1
        /\ call[c].method = "pull" => sent[c] <= call[c].tries
    BY <2>1, <2>2 DEF SentOf, Idle
  <2> QED BY <2>1, <2>3 DEF Methods
<1>2. ASSUME Inv PROVE SessionGuarded
  BY <1>2 DEF Inv, Own, GuardOf, SessionGuarded
<1>3. Inv => NeverReplayed
  BY <1>1, <1>2 DEF NeverReplayed
<1> QED BY <1>3, Invariant, PTL

-----------------------------------------------------------------------------
(* Streamed calls.                                                         *)

\* How far the call has come says what of it can have happened: the header is read
\* before anything is streamed, an exec is fed after it, a body is sent before it.
Setup ==
  /\ pc = "begin" => link = "none"
  /\ pc \in {"begin", "create", "write"} =>
       header = "none" /\ ended = "no" /\ produced = 0 /\ told = 0 /\ ~eof
  /\ pc = "blocks" => T!Sends /\ ~eof
  /\ pc \in {"blocks", "header"} => op.kind # "detached"
  /\ pc \in {"begin", "create", "write", "blocks", "header", "enter"} => delivered = 0 /\ end = "none"
  /\ pc \in {"header", "enter"} /\ ~T!Sends => told = 0 /\ ~eof
  /\ T!Attached /\ T!Input /\ ~half => exec = "none" /\ pc \in {"begin", "over"} /\ link # "open"

Streaming ==
  /\ pc \in {"enter", "feed", "pump", "read", "close", "inspect"} =>
       T!Accepted /\ op.kind \in {"follow", "exec", "build", "download"}
  /\ pc \in {"feed", "pump"} => T!Attached /\ T!Input
  /\ pc \in {"close", "inspect"} => op.kind \in {"follow", "exec"}
  /\ pc = "inspect" => T!Attached
  /\ pc = "over" => link # "open"
  /\ pc = "over" <=> out.kind # "none"
  /\ end = "ended" => ended # "no"
  /\ entered = "late" => pc \in {"close", "inspect", "over"}
  /\ op.kind # "build" => broken = 0

CallInv ==
  /\ T!TypeOK /\ Setup /\ Streaming
  /\ T!InputInOrder /\ T!ReturnedIsWhole /\ T!RejectionWins /\ T!CodeIsReal /\ T!LateIsQuiet

\* A step that says nothing of a time-out, and of a rejection what there is.
LEMMA WordKept ==
  ASSUME out'.kind # "stalled",
         out'.kind \in {"none", "status", "caller"} \/ header' # "error" \/ ended' # "no"
  PROVE  T!RejectionWins'
BY DEF T!RejectionWins

\* What is known of the call that is tried.
LEMMA OfTheCall ==
  ASSUME T!CallAssumption, op \in Calls
  PROVE  /\ op.kind \in {"follow", "exec", "detached", "upload", "build", "download"}
         /\ op.input \in Int /\ op.deadline \in BOOLEAN
         /\ op.deadline => op.kind \in {"follow", "exec"}
         /\ T!Sends => op.input >= 0
<1>1. op \in T!Call
  BY DEF T!CallAssumption
<1>2. /\ op.kind \in {"follow", "exec", "detached", "upload", "build", "download"}
      /\ op.input \in Int /\ op.deadline \in BOOLEAN
  BY <1>1 DEF T!Call, T!Kinds
<1>3. op.deadline => op.kind \in {"follow", "exec"}
  BY DEF T!CallAssumption
<1>4. T!Sends => op.input >= 0
  BY DEF T!CallAssumption, T!Sends
<1>5. QED BY <1>2, <1>3, <1>4

\* Before it begins nothing is written, read or known.
LEMMA CallStarts ==
  ASSUME T!CallAssumption, T!Init
  PROVE  CallInv
<1>. USE DEF T!Init, T!CallAssumption, T!Call
<1>1. T!TypeOK
  <2>1. out.kind \in T!Outcomes /\ out.code \in Codes \cup {T!NoCode}
    BY DEF T!Outcomes
  <2>2. told \in 0..op.input \cup {0} /\ 0 \in 0..MaxOut
    OBVIOUS
  <2>3. op \in Calls /\ half \in BOOLEAN /\ code \in Codes
    OBVIOUS
  <2>4. produced \in 0..MaxOut /\ delivered \in 0..produced /\ broken \in 0..produced
    OBVIOUS
  <2>5. QED BY <2>1, <2>2, <2>3, <2>4 DEF T!TypeOK
<1>2. Setup /\ Streaming
  BY DEF Setup, Streaming
<1>3. T!InputInOrder /\ T!ReturnedIsWhole /\ T!RejectionWins /\ T!CodeIsReal /\ T!LateIsQuiet
  BY DEF T!InputInOrder, T!ReturnedIsWhole, T!RejectionWins, T!CodeIsReal, T!LateIsQuiet
<1>4. QED BY <1>1, <1>2, <1>3 DEF CallInv

\* One lemma for each action. Setting up: nothing streams before the header, and an exec that
\* could not be told the end of its input is refused before it is created.
LEMMA BeginKeeps ==
  ASSUME T!CallAssumption, CallInv, T!Begin
  PROVE  CallInv'
<1>. USE DEF CallInv, T!daemon
<1>1. /\ pc = "begin" /\ delivered = 0 /\ end = "none" /\ told = 0 /\ ~eof /\ header = "none"
      /\ link # "open" /\ produced = 0 /\ broken = 0
  BY DEF T!Begin, Setup, T!TypeOK
<1>2. /\ UNCHANGED <<op, half, entered, told, eof, delivered, end, late, T!daemon>>
      /\ \/ /\ pc' = "over" /\ link' # "open" /\ out'.kind \in {"usage", "transport"} /\ out'.code = T!NoCode
            /\ link' \in {"none", "closed"}
         \/ /\ pc' = "create" /\ op.kind = "detached" /\ ~T!Input /\ UNCHANGED <<link, out>>
         \/ /\ T!StdinCapable /\ link' = "open" /\ UNCHANGED out /\ op.kind # "detached"
            /\ pc' = IF T!Attached THEN "create" ELSE "write"
  <2>1. CASE op.kind = "detached"
    BY <1>1, <2>1 DEF T!Begin, T!Throw, T!Leave, T!Goto, T!TypeOK
  <2>2. CASE op.kind # "detached"
    <3>1. \/ T!Throw("transport") \/ T!Throw("usage")
          \/ /\ T!StdinCapable /\ link' = "open" /\ pc' = IF T!Attached THEN "create" ELSE "write"
             /\ UNCHANGED <<op, half, entered, told, eof, delivered, end, out>>
      BY <2>2 DEF T!Begin
    <3>2. UNCHANGED <<late, T!daemon>>
      BY DEF T!Begin
    <3>. HIDE DEF T!Begin
    <3>3. CASE \E k \in {"transport", "usage"} : T!Throw(k)
      BY <1>1, <3>2, <3>3 DEF T!Throw, T!Leave, T!TypeOK
    <3>4. QED BY <2>2, <3>1, <3>2, <3>3
  <2>3. QED BY <2>1, <2>2
<1>. HIDE DEF T!Begin
<1>3. T!TypeOK'
  BY <1>1, <1>2 DEF T!TypeOK, T!Outcomes
<1>4. Setup'
  BY <1>1, <1>2 DEF Setup, T!StdinCapable, T!Attached, T!Input
<1>5. Streaming'
  BY <1>1, <1>2 DEF Streaming
<1>6. T!InputInOrder' /\ T!LateIsQuiet'
  BY <1>1, <1>2 DEF T!InputInOrder, T!LateIsQuiet, T!Attached, T!Input
<1>9. T!RejectionWins'
  <2>1. header' # "error" /\ out'.kind # "stalled"
    BY <1>1, <1>2 DEF Setup, Streaming
  <2> QED BY <2>1, WordKept
<1>7. T!ReturnedIsWhole' /\ T!CodeIsReal'
  BY <1>1, <1>2 DEF T!ReturnedIsWhole, T!CodeIsReal, T!Recorded, T!Attached
<1>8. QED BY <1>3, <1>4, <1>5, <1>6, <1>7, <1>9

LEMMA CreateKeeps ==
  ASSUME T!CallAssumption, CallInv, T!Create
  PROVE  CallInv'
<1>. USE DEF CallInv, T!Create, T!Throw, T!Leave, T!Goto, T!Attached, T!Input, T!Sends, T!Accepted
<1>1. T!TypeOK'
  BY DEF T!TypeOK, T!Outcomes
<1>2. Setup'
  BY DEF Setup
<1>3. Streaming'
  BY DEF Streaming
<1>4. T!InputInOrder'
  BY DEF T!InputInOrder, Setup
<1>5. T!ReturnedIsWhole'
  BY DEF T!TypeOK, T!ReturnedIsWhole, Setup, T!Recorded
<1>6. T!RejectionWins'
  BY DEF T!RejectionWins, Setup
<1>7. T!CodeIsReal'
  BY DEF T!CodeIsReal, Streaming
<1>8. T!LateIsQuiet'
  BY DEF T!LateIsQuiet
<1>9. QED BY <1>1, <1>2, <1>3, <1>4, <1>5, <1>6, <1>7, <1>8

LEMMA WriteKeeps ==
  ASSUME T!CallAssumption, CallInv, T!Write
  PROVE  CallInv'
<1>. USE DEF CallInv, T!Write, T!Throw, T!Leave, T!Goto, T!Attached, T!Input, T!Sends, T!Accepted
<1>1. T!TypeOK'
  BY DEF T!TypeOK, T!CallAssumption, T!Outcomes
<1>2. Setup'
  BY DEF Setup
<1>3. Streaming'
  BY DEF Streaming
<1>4. T!InputInOrder'
  BY DEF T!InputInOrder
<1>5. T!ReturnedIsWhole'
  BY DEF T!TypeOK, T!ReturnedIsWhole, Setup, T!Recorded
<1>6. T!RejectionWins'
  BY DEF T!RejectionWins, Setup
<1>7. T!CodeIsReal'
  BY DEF T!CodeIsReal
<1>8. T!LateIsQuiet'
  BY DEF T!LateIsQuiet
<1>9. QED BY <1>1, <1>2, <1>3, <1>4, <1>5, <1>6, <1>7, <1>8

\* The body of an upload or a build; a rejection is looked for before the broken pipe is reported.
LEMMA SendBlockKeeps ==
  ASSUME T!CallAssumption, CallInv, T!SendBlock
  PROVE  CallInv'
<1>. USE DEF CallInv, T!SendBlock, T!daemon, T!Attached, T!Input, T!Sends, T!Accepted
<1>0. T!Sends /\ op.input \in Int /\ op.input >= 0 /\ told \in 0..op.input
  BY OfTheCall DEF Setup, T!TypeOK
<1>1. T!TypeOK'
  <2>1. told' \in 0..op.input \cup {0}
    BY <1>0
  <2>2. eof' \in BOOLEAN
    BY DEF T!TypeOK
  <2>3. pc' \in {"blocks", "header", "feed", "pump", "read"}
    OBVIOUS
  <2>4. QED BY <2>1, <2>2, <2>3 DEF T!TypeOK
<1>2. Setup'
  BY DEF Setup
<1>3. Streaming'
  BY DEF Streaming
<1>4. T!InputInOrder'
  BY <1>0 DEF T!InputInOrder
<1>5. T!ReturnedIsWhole'
  BY DEF T!ReturnedIsWhole, Streaming
<1>6. T!RejectionWins'
  <2>1. out'.kind = "none"
    BY DEF Streaming
  <2> HIDE DEF CallInv
  <2> QED BY <2>1, WordKept
<1>7. T!CodeIsReal'
  BY DEF T!CodeIsReal
<1>8. T!LateIsQuiet'
  BY DEF T!LateIsQuiet, Streaming
<1>9. QED BY <1>1, <1>2, <1>3, <1>4, <1>5, <1>6, <1>7, <1>8

LEMMA SendFailsKeeps ==
  ASSUME T!CallAssumption, CallInv, T!SendFails
  PROVE  CallInv'
<1>. USE DEF CallInv, T!SendFails, T!Throw, T!Leave, T!Diagnosis, T!daemon, T!Attached, T!Input, T!Sends, T!Accepted
<1>1. T!TypeOK'
  BY DEF T!TypeOK, T!Outcomes
<1>2. Setup'
  BY DEF Setup
<1>3. Streaming'
  BY DEF Streaming
<1>4. T!InputInOrder'
  BY DEF T!InputInOrder
<1>5. T!ReturnedIsWhole'
  BY DEF T!TypeOK, T!ReturnedIsWhole, Setup, T!Recorded
<1>6. T!RejectionWins'
  <2>1. CASE header = "error" /\ T!Throw(T!Diagnosis)
    BY <2>1, WordKept
  <2>2. CASE ended = "cut" /\ T!Throw("transport")
    BY <2>2, WordKept
  <2>3. CASE ended = "no" /\ T!Throw("stalled")
    BY <2>3 DEF T!RejectionWins, Setup
  <2>4. CASE told < op.input /\ T!Throw("caller")
    BY <2>4, WordKept
  <2> QED BY <2>1, <2>2, <2>3, <2>4
<1>7. T!CodeIsReal'
  BY DEF T!CodeIsReal
<1>8. T!LateIsQuiet'
  BY DEF T!LateIsQuiet
<1>9. QED BY <1>1, <1>2, <1>3, <1>4, <1>5, <1>6, <1>7, <1>8

LEMMA ReadHeaderKeeps ==
  ASSUME T!CallAssumption, CallInv, T!ReadHeader
  PROVE  CallInv'
<1>. USE DEF CallInv, T!ReadHeader, T!Throw, T!Leave, T!Goto, T!daemon, T!Attached, T!Input, T!Sends, T!Accepted
<1>1. T!TypeOK'
  BY DEF T!TypeOK, T!Outcomes
<1>2. Setup'
  BY DEF Setup
<1>3. Streaming'
  BY OfTheCall DEF T!TypeOK, Setup, Streaming
<1>4. T!InputInOrder'
  BY DEF T!InputInOrder
<1>5. T!ReturnedIsWhole'
  BY DEF T!TypeOK, T!ReturnedIsWhole, Setup, T!Recorded
<1>6. T!RejectionWins'
  BY DEF T!RejectionWins
<1>7. T!CodeIsReal'
  BY DEF T!CodeIsReal
<1>8. T!LateIsQuiet'
  BY DEF T!LateIsQuiet
<1>9. QED BY <1>1, <1>2, <1>3, <1>4, <1>5, <1>6, <1>7, <1>8

\* The streaming phase: what is late neither feeds nor reads.
LEMMA EnterKeeps ==
  ASSUME T!CallAssumption, CallInv, T!Enter
  PROVE  CallInv'
<1>. USE DEF CallInv, T!daemon
<1>1. /\ pc = "enter" /\ UNCHANGED <<op, half, link, told, eof, delivered, out, late, T!daemon>>
      /\ \/ T!TooLate /\ end' = "deadline" /\ pc' = "close" /\ entered' = "late"
         \/ /\ ~T!TooLate /\ UNCHANGED end /\ entered' = "intime" /\ pc' \in {"pump", "feed", "read"}
            /\ pc' \in {"pump", "feed"} => T!Attached /\ T!Input
  <2>1. CASE T!TooLate
    BY <2>1 DEF T!Enter, T!TooLate
  <2>2. CASE ~T!TooLate
    BY <2>2 DEF T!Enter, T!TooLate
  <2>3. QED BY <2>1, <2>2
<1>2. /\ T!TooLate => op.kind \in {"follow", "exec"}
      /\ T!Accepted /\ op.kind \in {"follow", "exec", "build", "download"}
      /\ delivered = 0 /\ (~T!Sends => told = 0 /\ ~eof)
  BY <1>1, OfTheCall DEF T!TooLate, Setup, Streaming, T!TypeOK
<1>3. T!TypeOK'
  BY <1>1 DEF T!TypeOK
<1>4. Setup'
  BY <1>1 DEF Setup, T!Attached, T!Input
<1>5. Streaming'
  BY <1>1, <1>2 DEF Streaming, T!Attached, T!Input, T!Accepted
<1>6. T!InputInOrder' /\ T!RejectionWins' /\ T!LateIsQuiet'
  BY <1>1, <1>2 DEF T!InputInOrder, T!RejectionWins, T!LateIsQuiet, T!Attached, T!Input, T!Sends
<1>7. T!ReturnedIsWhole' /\ T!CodeIsReal'
  BY <1>1 DEF T!ReturnedIsWhole, T!CodeIsReal, T!Recorded, T!Attached
<1>8. QED BY <1>3, <1>4, <1>5, <1>6, <1>7

LEMMA FeedKeeps ==
  ASSUME T!CallAssumption, CallInv, T!Feed
  PROVE  CallInv'
<1>. USE DEF CallInv, T!Feed, T!daemon, T!Attached, T!Input, T!Sends, T!Accepted
<1>0. op.input \in Int /\ told \in 0..op.input
  BY OfTheCall DEF Streaming, T!TypeOK
<1>1. T!TypeOK'
  <2>1. told' \in 0..op.input \cup {0}
    BY <1>0
  <2>2. eof' \in BOOLEAN
    BY DEF T!TypeOK
  <2>3. pc' \in {"blocks", "header", "feed", "pump", "read"}
    OBVIOUS
  <2>4. QED BY <2>1, <2>2, <2>3 DEF T!TypeOK
<1>2. Setup'
  BY DEF Setup
<1>3. Streaming'
  BY DEF Streaming
<1>4. T!InputInOrder'
  BY DEF T!TypeOK, T!CallAssumption, T!Call, T!InputInOrder, Streaming
<1>5. T!ReturnedIsWhole'
  BY DEF T!ReturnedIsWhole, Streaming
<1>6. T!RejectionWins'
  <2>1. out'.kind = "none"
    BY DEF Streaming
  <2> HIDE DEF CallInv
  <2> QED BY <2>1, WordKept
<1>7. T!CodeIsReal'
  BY DEF T!CodeIsReal
<1>8. T!LateIsQuiet'
  BY DEF T!LateIsQuiet, Streaming
<1>9. QED BY <1>1, <1>2, <1>3, <1>4, <1>5, <1>6, <1>7, <1>8

LEMMA FeedFailsKeeps ==
  ASSUME T!CallAssumption, CallInv, T!FeedFails
  PROVE  CallInv'
<1>. USE DEF CallInv, T!FeedFails, T!Throw, T!Leave, T!daemon, T!Attached, T!Input, T!Sends, T!Accepted
<1>1. T!TypeOK'
  BY DEF T!TypeOK, T!Outcomes
<1>2. Setup'
  BY DEF Setup
<1>3. Streaming'
  BY DEF Streaming
<1>4. T!InputInOrder'
  BY DEF T!InputInOrder
<1>5. T!ReturnedIsWhole'
  BY DEF T!ReturnedIsWhole, Streaming
<1>6. T!RejectionWins'
  BY DEF T!RejectionWins, Streaming
<1>7. T!CodeIsReal'
  BY DEF T!CodeIsReal
<1>8. T!LateIsQuiet'
  BY DEF T!LateIsQuiet
<1>9. QED BY <1>1, <1>2, <1>3, <1>4, <1>5, <1>6, <1>7, <1>8

LEMMA DeliverKeeps ==
  ASSUME T!CallAssumption, CallInv, T!Deliver
  PROVE  CallInv'
<1>. USE DEF CallInv, T!Deliver, T!Reading, T!TooLate, T!Leave, T!daemon, T!Attached, T!Input, T!Sends, T!Accepted
<1>1. T!TypeOK'
  BY DEF T!TypeOK, T!Outcomes
<1>2. Setup'
  BY DEF Setup
<1>3. Streaming'
  BY DEF Streaming
<1>4. T!InputInOrder'
  BY DEF T!InputInOrder
<1>5. T!ReturnedIsWhole'
  BY DEF T!TypeOK, T!ReturnedIsWhole, Streaming
<1>6. T!RejectionWins'
  BY DEF T!RejectionWins
<1>7. T!CodeIsReal'
  BY DEF T!CodeIsReal
<1>8. T!LateIsQuiet'
  BY DEF T!LateIsQuiet, Streaming
<1>9. QED BY <1>1, <1>2, <1>3, <1>4, <1>5, <1>6, <1>7, <1>8

LEMMA ExpiresKeeps ==
  ASSUME T!CallAssumption, CallInv, T!Expires
  PROVE  CallInv'
<1>. USE DEF CallInv, T!Expires, T!Reading, T!TooLate, T!daemon, T!Attached, T!Input, T!Sends, T!Accepted
<1>1. T!TypeOK'
  BY DEF T!TypeOK
<1>2. Setup'
  BY DEF Setup
<1>3. Streaming'
  BY OfTheCall DEF T!TypeOK, Streaming
<1>4. T!InputInOrder'
  BY DEF T!InputInOrder
<1>5. T!ReturnedIsWhole'
  BY DEF T!TypeOK, T!CallAssumption, T!ReturnedIsWhole
<1>6. T!RejectionWins'
  BY DEF T!RejectionWins
<1>7. T!CodeIsReal'
  BY DEF T!CodeIsReal
<1>8. T!LateIsQuiet'
  BY DEF T!LateIsQuiet
<1>9. QED BY <1>1, <1>2, <1>3, <1>4, <1>5, <1>6, <1>7, <1>8

\* The ends of the stream: a cut is not an end, and a recorded build error comes first.
LEMMA StreamEndsKeeps ==
  ASSUME T!CallAssumption, CallInv, T!StreamEnds
  PROVE  CallInv'
<1>. USE DEF CallInv, T!daemon
<1>1. /\ pc \in {"read", "pump"} /\ UNCHANGED <<op, half, entered, told, eof, delivered, late, T!daemon>>
      /\ (ended = "done" /\ delivered = produced) \/ ended = "cut"
      /\ out.kind = "none" /\ T!Accepted /\ entered # "late"
  BY DEF T!StreamEnds, Streaming, T!Reading
<1>2. \/ /\ op.kind \in {"follow", "exec"} /\ end' = "ended" /\ pc' = "close" /\ UNCHANGED <<link, out>>
      \/ /\ op.kind = "build" /\ T!Leave(T!BuildOutcome, T!NoCode) /\ UNCHANGED end
      \/ /\ op.kind = "download" /\ UNCHANGED end
         /\ T!Leave(IF ended = "done" THEN "returned" ELSE "transport", T!NoCode)
  <2>1. op.kind \in {"follow", "exec", "build", "download"}
    BY <1>1 DEF Streaming
  <2>2. QED BY <2>1 DEF T!StreamEnds, T!WholeMessage
<1>3. T!BuildOutcome \in {"build", "transport", "returned"} /\ (T!Recorded => T!BuildOutcome = "build")
  BY DEF T!BuildOutcome
<1>4. /\ T!BuildOutcome = "returned" => ended = "done" /\ ~T!Recorded
  BY <1>1 DEF T!BuildOutcome
<1>. HIDE DEF T!StreamEnds, T!BuildOutcome
<1>5. T!TypeOK'
  BY <1>1, <1>2, <1>3 DEF T!TypeOK, T!Leave, T!Outcomes
<1>6. Setup'
  BY <1>1, <1>2 DEF Setup, T!Leave, T!Attached, T!Input
<1>7. Streaming'
  BY <1>1, <1>2, <1>3 DEF Streaming, T!Leave, T!Accepted
<1>8. T!InputInOrder' /\ T!LateIsQuiet'
  <2> HIDE DEF CallInv
  <2>1. T!InputInOrder /\ T!LateIsQuiet
    BY DEF CallInv
  <2>2. T!InputInOrder'
    BY <1>1, <2>1 DEF T!InputInOrder, T!Attached, T!Input, T!Accepted
  <2>3. T!LateIsQuiet'
    BY <1>1, <2>1 DEF T!LateIsQuiet
  <2> QED BY <2>2, <2>3
<1>12. T!RejectionWins'
  <2>1. header' # "error"
    BY <1>1 DEF T!Accepted
  <2>2. out'.kind # "stalled"
    BY <1>1, <1>2, <1>3 DEF T!Leave
  <2> QED BY <2>1, <2>2, WordKept
<1>9. T!ReturnedIsWhole'
  BY <1>1, <1>2, <1>3, <1>4 DEF T!ReturnedIsWhole, T!Recorded, T!Leave, T!TypeOK, Streaming
<1>10. T!CodeIsReal'
  BY <1>1, <1>2 DEF T!CodeIsReal, T!Attached
<1>11. QED BY <1>5, <1>6, <1>7, <1>8, <1>9, <1>10, <1>12

LEMMA ReadTimesOutKeeps ==
  ASSUME T!CallAssumption, CallInv, T!ReadTimesOut
  PROVE  CallInv'
<1>. USE DEF CallInv, T!ReadTimesOut, T!Throw, T!Leave, T!daemon, T!Attached, T!Input, T!Sends, T!Accepted
<1>1. T!TypeOK'
  BY DEF T!TypeOK, T!Outcomes
<1>2. Setup'
  BY DEF Setup
<1>3. Streaming'
  BY DEF Streaming
<1>4. T!InputInOrder'
  BY DEF T!InputInOrder
<1>5. T!ReturnedIsWhole'
  BY DEF T!ReturnedIsWhole, T!Recorded
<1>6. T!RejectionWins'
  BY DEF T!RejectionWins, Streaming
<1>7. T!CodeIsReal'
  BY DEF T!CodeIsReal
<1>8. T!LateIsQuiet'
  BY DEF T!LateIsQuiet
<1>9. QED BY <1>1, <1>2, <1>3, <1>4, <1>5, <1>6, <1>7, <1>8

\* After the stream: the exit code is that of a command that has exited.
LEMMA CloseKeeps ==
  ASSUME T!CallAssumption, CallInv, T!Close
  PROVE  CallInv'
<1>. USE DEF CallInv, T!Close, T!daemon, T!Attached, T!Input, T!Sends, T!Accepted
<1>1. T!TypeOK'
  BY DEF T!TypeOK, T!Outcomes
<1>2. Setup'
  BY DEF Setup
<1>3. Streaming'
  BY DEF Streaming
<1>4. T!InputInOrder'
  BY DEF T!InputInOrder
<1>5. T!ReturnedIsWhole'
  BY DEF T!ReturnedIsWhole, Streaming
<1>6. T!RejectionWins'
  BY DEF T!RejectionWins, Streaming
<1>7. T!CodeIsReal'
  BY DEF T!CodeIsReal
<1>8. T!LateIsQuiet'
  BY DEF T!LateIsQuiet
<1>9. QED BY <1>1, <1>2, <1>3, <1>4, <1>5, <1>6, <1>7, <1>8

LEMMA InspectKeeps ==
  ASSUME T!CallAssumption, CallInv, T!Inspect
  PROVE  CallInv'
<1>. USE DEF CallInv, T!Inspect, T!Throw, T!Leave, T!ExitCode, T!daemon, T!Attached, T!Input, T!Sends, T!Accepted
<1>1. T!TypeOK'
  BY DEF T!TypeOK, T!CallAssumption, T!Outcomes
<1>2. Setup'
  BY DEF Setup
<1>3. Streaming'
  BY DEF Streaming
<1>4. T!InputInOrder'
  BY DEF T!InputInOrder
<1>5. T!ReturnedIsWhole'
  BY DEF T!ReturnedIsWhole, Streaming
<1>6. T!RejectionWins'
  BY DEF T!RejectionWins, Streaming
<1>7. T!CodeIsReal'
  BY DEF T!CodeIsReal
<1>8. T!LateIsQuiet'
  BY DEF T!LateIsQuiet
<1>9. QED BY <1>1, <1>2, <1>3, <1>4, <1>5, <1>6, <1>7, <1>8

\* The clock, the daemon and the command.
LEMMA ExpireKeeps ==
  ASSUME T!CallAssumption, CallInv, T!Expire
  PROVE  CallInv'
<1>. USE DEF CallInv, T!Expire, T!client, T!daemon, T!Attached, T!Input, T!Sends, T!Accepted
<1>1. T!TypeOK'
  BY DEF T!TypeOK
<1>2. Setup'
  BY DEF Setup
<1>3. Streaming'
  BY DEF Streaming
<1>4. T!InputInOrder'
  BY DEF T!InputInOrder
<1>5. T!ReturnedIsWhole'
  BY DEF T!TypeOK, T!CallAssumption, T!ReturnedIsWhole
<1>6. T!RejectionWins'
  BY DEF T!RejectionWins
<1>7. T!CodeIsReal'
  BY DEF T!CodeIsReal
<1>8. T!LateIsQuiet'
  BY DEF T!LateIsQuiet
<1>9. QED BY <1>1, <1>2, <1>3, <1>4, <1>5, <1>6, <1>7, <1>8

LEMMA ReplyKeeps ==
  ASSUME T!CallAssumption, CallInv, T!Reply
  PROVE  CallInv'
<1>. USE DEF CallInv, T!Reply, T!client, T!Serving, T!Attached, T!Input, T!Sends, T!Accepted
<1>1. T!TypeOK'
  BY DEF T!TypeOK
<1>2. Setup'
  BY DEF Setup
<1>3. Streaming'
  BY DEF Streaming
<1>4. T!InputInOrder'
  BY DEF T!InputInOrder, Setup
<1>5. T!ReturnedIsWhole'
  BY DEF T!ReturnedIsWhole, Streaming
<1>6. T!RejectionWins'
  BY DEF T!RejectionWins, Streaming
<1>7. T!CodeIsReal'
  BY DEF T!CodeIsReal, Streaming
<1>8. T!LateIsQuiet'
  BY DEF T!LateIsQuiet
<1>9. QED BY <1>1, <1>2, <1>3, <1>4, <1>5, <1>6, <1>7, <1>8

LEMMA ProduceKeeps ==
  ASSUME T!CallAssumption, CallInv, T!Produce
  PROVE  CallInv'
<1>. USE DEF CallInv, T!Produce, T!client, T!Serving, T!Attached, T!Input, T!Sends, T!Accepted
<1>1. T!TypeOK'
  BY DEF T!TypeOK, T!CallAssumption
<1>2. Setup'
  BY DEF Setup
<1>3. Streaming'
  BY DEF Streaming
<1>4. T!InputInOrder'
  BY DEF T!InputInOrder
<1>5. T!ReturnedIsWhole'
  BY DEF T!ReturnedIsWhole, Streaming
<1>6. T!RejectionWins'
  BY DEF T!RejectionWins
<1>7. T!CodeIsReal'
  BY DEF T!CodeIsReal
<1>8. T!LateIsQuiet'
  BY DEF T!LateIsQuiet
<1>9. QED BY <1>1, <1>2, <1>3, <1>4, <1>5, <1>6, <1>7, <1>8

LEMMA ExitsKeeps ==
  ASSUME T!CallAssumption, CallInv, T!Exits
  PROVE  CallInv'
<1>. USE DEF CallInv, T!Exits, T!client, T!Attached, T!Input, T!Sends, T!Accepted
<1>1. T!TypeOK'
  BY DEF T!TypeOK
<1>2. Setup'
  BY DEF Setup
<1>3. Streaming'
  BY DEF Streaming
<1>4. T!InputInOrder'
  BY DEF T!InputInOrder
<1>5. T!ReturnedIsWhole'
  BY DEF T!ReturnedIsWhole, T!Recorded
<1>6. T!RejectionWins'
  BY DEF T!RejectionWins
<1>7. T!CodeIsReal'
  BY DEF T!CodeIsReal
<1>8. T!LateIsQuiet'
  BY DEF T!LateIsQuiet
<1>9. QED BY <1>1, <1>2, <1>3, <1>4, <1>5, <1>6, <1>7, <1>8

LEMMA CompletesKeeps ==
  ASSUME T!CallAssumption, CallInv, T!Completes
  PROVE  CallInv'
<1>. USE DEF CallInv, T!Completes, T!client, T!Serving, T!Attached, T!Input, T!Sends, T!Accepted
<1>1. T!TypeOK'
  BY DEF T!TypeOK
<1>2. Setup'
  BY DEF Setup
<1>3. Streaming'
  BY DEF Streaming
<1>4. T!InputInOrder'
  BY DEF T!InputInOrder
<1>5. T!ReturnedIsWhole'
  BY DEF T!ReturnedIsWhole, Streaming
<1>6. T!RejectionWins'
  BY DEF T!RejectionWins
<1>7. T!CodeIsReal'
  BY DEF T!CodeIsReal
<1>8. T!LateIsQuiet'
  BY DEF T!LateIsQuiet
<1>9. QED BY <1>1, <1>2, <1>3, <1>4, <1>5, <1>6, <1>7, <1>8

LEMMA CutKeeps ==
  ASSUME T!CallAssumption, CallInv, T!Cut
  PROVE  CallInv'
<1>. USE DEF CallInv, T!Cut, T!client, T!Serving, T!Attached, T!Input, T!Sends, T!Accepted
<1>1. T!TypeOK'
  BY DEF T!TypeOK
<1>2. Setup'
  BY DEF Setup
<1>3. Streaming'
  BY DEF Streaming
<1>4. T!InputInOrder'
  BY DEF T!InputInOrder
<1>5. T!ReturnedIsWhole'
  BY DEF T!ReturnedIsWhole, Streaming
<1>6. T!RejectionWins'
  BY DEF T!RejectionWins
<1>7. T!CodeIsReal'
  BY DEF T!CodeIsReal
<1>8. T!LateIsQuiet'
  BY DEF T!LateIsQuiet
<1>9. QED BY <1>1, <1>2, <1>3, <1>4, <1>5, <1>6, <1>7, <1>8

LEMMA CallStutters ==
  ASSUME CallInv, UNCHANGED T!vars
  PROVE  CallInv'
<1>. USE DEF T!vars, T!client, T!daemon, T!Attached, T!Input, T!Sends, T!Accepted, T!Recorded
<1>1. T!TypeOK'
  BY DEF CallInv, T!TypeOK
<1>2. Setup' /\ Streaming'
  BY DEF CallInv, Setup, Streaming
<1>3. /\ T!InputInOrder' /\ T!ReturnedIsWhole' /\ T!RejectionWins' /\ T!CodeIsReal'
      /\ T!LateIsQuiet'
  BY DEF CallInv, T!InputInOrder, T!ReturnedIsWhole, T!RejectionWins, T!CodeIsReal, T!LateIsQuiet
<1>4. QED BY <1>1, <1>2, <1>3 DEF CallInv

\* Every step of the call, of the daemon and of the clock keeps it.
LEMMA CallSteps ==
  ASSUME T!CallAssumption, CallInv, [T!Next]_(T!vars)
  PROVE  CallInv'
<1>1. CASE T!Next
  <2>1. CASE T!Done
    BY <2>1, CallStutters DEF T!Done
  <2>2. QED
    BY <1>1, <2>1, BeginKeeps, CreateKeeps, WriteKeeps, SendBlockKeeps, SendFailsKeeps,
       ReadHeaderKeeps, EnterKeeps, FeedKeeps, FeedFailsKeeps, DeliverKeeps, ExpiresKeeps,
       StreamEndsKeeps, ReadTimesOutKeeps, CloseKeeps, InspectKeeps, ExpireKeeps, ReplyKeeps,
       ProduceKeeps, ExitsKeeps, CompletesKeeps, CutKeeps
       DEF T!Next
<1>2. QED BY <1>1, CallStutters

-----------------------------------------------------------------------------
(* The credentials of a pull.                                              *)

\* What may be sent to a registry.
MayHave(a, registry) ==
  a # Anonymous =>
    /\ a.for = registry \/ (registry = P!Hub /\ a.for = P!HubAuthKey)
    /\ a.source \in Helpers => (a.kind = "token" <=> a.for \in Tokens)

(* The inductive invariant: an entry of the cache is for the registry it   *)
(* is under, and a pull asks a helper for the registry of its own name.    *)
CacheInv ==
  /\ DOMAIN cache = Helpers \X P!Registries
  /\ \A h \in Helpers, g \in P!Registries :
       cache[<<h, g>>] # Anonymous => MayHave(cache[<<h, g>>].auth, g)

PullFields == {"pc", "name", "helper", "auth", "age", "told"}

PullsInv ==
  \A t \in Threads :
    /\ DOMAIN pulls[t] = PullFields
    /\ pulls[t].pc \in {"idle", "asking", "storing", "pulling"}
    /\ pulls[t].pc \in {"storing", "pulling"} => MayHave(pulls[t].auth, pulls[t].name)
    /\ pulls[t].pc \in {"asking", "storing"} =>
         pulls[t].helper \in Helpers /\ pulls[t].name \in P!Registries

CredInv == /\ prefix \in HubPrefixes /\ config \in Configs
       /\ DOMAIN pulls = Threads /\ CacheInv /\ PullsInv

-----------------------------------------------------------------------------
\* resolve_registry after the hub prefix: a registry.
LEMMA Named ==
  ASSUME P!CredentialsAssumption, CredInv, NEW image \in P!Images
  PROVE  P!ResolveRegistry(P!Substitute(image)) \in P!Registries
BY DEF P!CredentialsAssumption, CredInv, P!Images, P!Registries, P!ResolveRegistry, P!Substitute

\* A plain entry is the registry's own, or for the hub that of its alias.
LEMMA PlainScoped ==
  ASSUME P!CredentialsAssumption, NEW registry \in P!Registries
  PROVE  MayHave(P!Plain(registry), registry)
BY DEF P!CredentialsAssumption, P!Plain, P!EntryKey, P!Auth, MayHave

\* What a helper says is for the registry it was asked about.
LEMMA HelperScoped ==
  ASSUME NEW h \in Helpers, NEW registry \in P!Registries
  PROVE  MayHave(P!HelperOutput(h, P!ServerUrl(registry)), registry)
BY DEF P!HelperOutput, P!ServerUrl, P!Auth, MayHave

\* select_credential_helper: one of the helpers, or none.
LEMMA HelperSelected ==
  ASSUME P!CredentialsAssumption, CredInv, NEW registry \in P!Registries
  PROVE  P!SelectHelper(registry) \in Helpers \cup {Anonymous}
BY DEF P!CredentialsAssumption, CredInv, P!ConfigType, P!SelectHelper, P!EntryKey, P!Keys, P!Registries

\* One thread's pull changes; the cache does not.
LEMMA PullStep ==
  ASSUME CredInv, NEW t \in Threads, NEW p, P!Set(t, p), UNCHANGED <<prefix, config, cache>>,
         DOMAIN p = PullFields, p.pc \in {"idle", "asking", "storing", "pulling"},
         p.pc \in {"storing", "pulling"} => MayHave(p.auth, p.name),
         p.pc \in {"asking", "storing"} => p.helper \in Helpers /\ p.name \in P!Registries
  PROVE  CredInv'
BY DEF CredInv, CacheInv, PullsInv, P!Set, MayHave

\* Reading the config and asking a helper, with what the cache is then given.
LEMMA ResolveStep ==
  ASSUME P!CredentialsAssumption, CredInv, NEW t \in Threads, P!Resolve(t)
  PROVE  CredInv'
<1>1. PICK image \in P!Images :
        LET registry == P!ResolveRegistry(P!Substitute(image))
            helper   == P!SelectHelper(registry)
            key      == P!CacheKey(helper, registry)
            To(at, auth, toldAt) == P!Set(t, [pc |-> at, name |-> registry, helper |-> helper,
                                          auth |-> auth, age |-> 0, told |-> toldAt])
        IN  IF P!Plain(registry) # Anonymous THEN To("pulling", P!Plain(registry), 0)
            ELSE IF helper = Anonymous     THEN To("pulling", Anonymous, 0)
            ELSE IF P!Hit(key)               THEN To("pulling", cache[key].auth, cache[key].told)
            ELSE To("asking", Anonymous, 0)
  BY DEF P!Resolve
<1> DEFINE registry == P!ResolveRegistry(P!Substitute(image))
           helper   == P!SelectHelper(registry)
           To(at, auth, toldAt) == [pc |-> at, name |-> registry, helper |-> helper,
                                  auth |-> auth, age |-> 0, told |-> toldAt]
<1>2. registry \in P!Registries /\ helper \in Helpers \cup {Anonymous}
  BY Named, HelperSelected
<1>3. UNCHANGED <<prefix, config, cache>>
  BY DEF P!Resolve
<1> HIDE DEF registry, helper
<1>4. CASE P!Set(t, To("pulling", P!Plain(registry), 0))
  BY <1>2, <1>3, <1>4, PlainScoped, PullStep DEF PullFields
<1>5. CASE P!Set(t, To("pulling", Anonymous, 0))
  BY <1>3, <1>5, PullStep DEF MayHave, PullFields
<1>6. ASSUME NEW key, key = P!CacheKey(helper, registry), helper \in Helpers, P!Hit(key),
             P!Set(t, To("pulling", cache[key].auth, cache[key].told))
      PROVE  CredInv'
  <2>1. MayHave(cache[key].auth, registry)
    BY <1>2, <1>6 DEF CredInv, CacheInv, P!CacheKey, P!Hit
  <2> QED BY <1>3, <1>6, <2>1, PullStep DEF PullFields
<1>7. CASE helper \in Helpers /\ P!Set(t, To("asking", Anonymous, 0))
  BY <1>2, <1>3, <1>7, PullStep DEF PullFields
<1> QED BY <1>1, <1>2, <1>4, <1>5, <1>6, <1>7 DEF registry, helper

\* The caller's own credentials, the helper's answer and its way into the cache, and the
\* end of the pull.
LEMMA PullsOn ==
  ASSUME P!CredentialsAssumption, CredInv, NEW t \in Threads,
         P!Explicit(t) \/ P!Ask(t) \/ P!Store(t) \/ P!Pulled(t)
  PROVE  CredInv'
<1>0. {"config", "caller"} \cap Helpers = {}
  BY DEF P!CredentialsAssumption
<1>1. CASE P!Explicit(t)
  <2>1. PICK site \in P!Registries :
          P!Set(t, [P!Idle EXCEPT !.pc = "pulling", !.name = site, !.auth = P!Auth("password", "caller", site)])
    BY <1>1 DEF P!Explicit
  <2> DEFINE p == [P!Idle EXCEPT !.pc = "pulling", !.name = site, !.auth = P!Auth("password", "caller", site)]
  <2>2. MayHave(P!Auth("password", "caller", site), site)
    BY <1>0 DEF MayHave, P!Auth
  <2>3. DOMAIN p = PullFields /\ p.pc = "pulling" /\ p.name = site /\ p.auth = P!Auth("password", "caller", site)
    BY DEF P!Idle, PullFields
  <2>4. UNCHANGED <<prefix, config, cache>>
    BY <1>1 DEF P!Explicit
  <2> QED BY <2>1, <2>2, <2>3, <2>4, PullStep
<1>2. CASE P!Ask(t)
  <2>1. PICK auth \in {P!HelperOutput(pulls[t].helper, P!ServerUrl(pulls[t].name)), Anonymous} :
          P!Set(t, [pulls[t] EXCEPT !.pc = "storing", !.auth = auth])
    BY <1>2 DEF P!Ask
  <2> DEFINE p == [pulls[t] EXCEPT !.pc = "storing", !.auth = auth]
  <2>2. pulls[t].helper \in Helpers /\ pulls[t].name \in P!Registries
    BY <1>2 DEF P!Ask, CredInv, PullsInv
  <2>3. MayHave(auth, pulls[t].name)
    BY <2>2, HelperScoped DEF MayHave
  <2>4. UNCHANGED <<prefix, config, cache>> /\ pulls[t].pc = "asking"
    BY <1>2 DEF P!Ask
  <2>5. /\ DOMAIN p = PullFields /\ p.pc = "storing" /\ p.auth = auth
        /\ p.helper = pulls[t].helper /\ p.name = pulls[t].name
    BY DEF CredInv, PullsInv, PullFields
  <2> QED BY <2>1, <2>2, <2>3, <2>4, <2>5, PullStep
<1>3. CASE P!Store(t)
  BY <1>3 DEF P!Store, P!CacheKey, P!Set, CredInv, CacheInv, PullsInv, MayHave
<1>4. CASE P!Pulled(t)
  BY <1>4, PullStep DEF P!Pulled, P!Idle, PullFields
<1> QED BY <1>1, <1>2, <1>3, <1>4

\* Time and docker login change nothing of what was fetched for whom.
LEMMA TickStep == ASSUME CredInv, P!Tick PROVE CredInv'
<1>1. CacheInv'
  <2>1. DOMAIN cache' = DOMAIN cache
    BY DEF P!Tick
  <2>2. ASSUME NEW h \in Helpers, NEW g \in P!Registries, cache'[<<h, g>>] # Anonymous
        PROVE  MayHave(cache'[<<h, g>>].auth, g)
    <3> DEFINE k == <<h, g>>
    <3>1. k \in DOMAIN cache
      BY DEF CredInv, CacheInv
    <3>2. /\ cache[k] # Anonymous
          /\ cache'[k] = [cache[k] EXCEPT !.age = P!Older(@), !.told = P!Older(@)]
      BY <2>2, <3>1 DEF P!Tick
    <3>3. cache'[k].auth = cache[k].auth
      BY <3>2
    <3> QED BY <3>2, <3>3 DEF CredInv, CacheInv, MayHave
  <2> QED BY <2>1, <2>2 DEF CredInv, CacheInv, MayHave
<1>2. PullsInv'
  <2>1. SUFFICES ASSUME NEW t \in Threads
                 PROVE  /\ DOMAIN pulls'[t] = DOMAIN pulls[t]
                        /\ pulls'[t].pc = pulls[t].pc /\ pulls'[t].name = pulls[t].name
                        /\ pulls'[t].auth = pulls[t].auth /\ pulls'[t].helper = pulls[t].helper
    BY DEF CredInv, PullsInv, MayHave
  <2>2. pulls'[t] \in {pulls[t], [pulls[t] EXCEPT !.age = @ + 1],
                       [pulls[t] EXCEPT !.age = @ + 1, !.told = @ + 1]}
    BY DEF P!Tick
  <2>3. CASE pulls'[t] = pulls[t]
    BY <2>3
  <2>4. CASE pulls'[t] = [pulls[t] EXCEPT !.age = @ + 1]
    BY <2>4
  <2>5. CASE pulls'[t] = [pulls[t] EXCEPT !.age = @ + 1, !.told = @ + 1]
    BY <2>5
  <2> QED BY <2>2, <2>3, <2>4, <2>5
<1>3. DOMAIN pulls' = Threads
  BY DEF P!Tick
<1> QED BY <1>1, <1>2, <1>3 DEF CredInv, P!Tick

\* Before the first pull the cache is empty.
LEMMA PullInit == ASSUME P!CredentialsAssumption PROVE P!Init => CredInv
BY DEF P!Init, P!Idle, CredInv, CacheInv, PullsInv, PullFields, MayHave

\* Every step of the threads, of time and of the user keeps it.
LEMMA PullKeeps == ASSUME P!CredentialsAssumption PROVE CredInv /\ [P!Next]_(P!vars) => CredInv'
<1> SUFFICES ASSUME CredInv, [P!Next]_(P!vars) PROVE CredInv'
  OBVIOUS
<1>1. CASE \E t \in Threads : P!Resolve(t) \/ P!Explicit(t) \/ P!Ask(t) \/ P!Store(t) \/ P!Pulled(t)
  BY <1>1, ResolveStep, PullsOn
<1>2. CASE P!Login
  BY <1>2 DEF P!Login, CredInv, CacheInv, PullsInv, MayHave
<1>3. CASE P!Tick
  BY <1>3, TickStep
<1>4. CASE UNCHANGED P!vars
  BY <1>4 DEF P!vars, CredInv, CacheInv, PullsInv, MayHave
<1> QED BY <1>1, <1>2, <1>3, <1>4 DEF P!Next

-----------------------------------------------------------------------------
(* Types and ages. An entry is as old as its insert, and its outcome at    *)
(* most one run of the helper older; only a young entry is served, and the *)
(* outcome of a run goes to the pull that asked before it is any older.    *)

Entry(e) ==
  /\ DOMAIN e = {"auth", "age", "told"} /\ e.auth \in P!Auths
  /\ e.age \in P!Ages /\ e.told \in P!Ages /\ e.told <= e.age + Slow

Timely(p) ==
  /\ p.name \in P!Registries /\ p.auth \in P!Auths /\ p.age \in P!Ages /\ p.told \in P!Ages
  /\ p.pc = "asking"  => p.age <= Slow /\ p.told = 0
  /\ p.pc = "storing" => p.told <= p.age /\ p.age <= Slow
  /\ p.pc = "pulling" => p.told < Ttl + Slow

Times ==
  /\ \A h \in Helpers, g \in P!Registries : cache[<<h, g>>] # Anonymous => Entry(cache[<<h, g>>])
  /\ \A t \in Threads : Timely(pulls[t])

\* No time at all is an age, and the shortest lifetime is longer.
LEMMA NoAge ==
  ASSUME P!CredentialsAssumption
  PROVE  0 \in P!Ages /\ 0 < Ttl + Slow /\ Slow < Ttl + Slow /\ \A n \in P!Ages : n \in Nat
BY DEF P!CredentialsAssumption, P!Ages

\* One thread's pull changes; the cache does not.
LEMMA PullTimes ==
  ASSUME CredInv, Times, NEW t \in Threads, NEW p, P!Set(t, p), UNCHANGED cache, Timely(p)
  PROVE  Times'
<1>1. \A u \in Threads : pulls'[u] = IF u = t THEN p ELSE pulls[u]
  BY DEF CredInv, P!Set
<1>2. \A u \in Threads : Timely(pulls'[u])
  BY <1>1 DEF Times
<1> QED BY <1>2 DEF Times, Timely, Entry

\* What is read from the config, given by the caller or told by a helper.
LEMMA AuthsFound ==
  ASSUME P!CredentialsAssumption, CredInv, NEW registry \in P!Registries
  PROVE  /\ P!Plain(registry) \in P!Auths /\ Anonymous \in P!Auths
         /\ \A h \in Helpers : P!HelperOutput(h, P!ServerUrl(registry)) \in P!Auths
         /\ P!Auth("password", "caller", registry) \in P!Auths
<1>1. /\ P!EntryKey(config.auths, registry, "absent") \in P!Keys
      /\ registry \in P!Keys /\ P!ServerUrl(registry) \in P!Keys
  BY DEF P!EntryKey, P!Keys, P!Registries, P!ServerUrl
<1> QED BY <1>1 DEF P!Plain, P!HelperOutput, P!Auth, P!Auths

LEMMA ResolveTimes ==
  ASSUME P!CredentialsAssumption, CredInv, Times, NEW t \in Threads, P!Resolve(t)
  PROVE  Times'
<1>1. PICK image \in P!Images :
        LET registry == P!ResolveRegistry(P!Substitute(image))
            helper   == P!SelectHelper(registry)
            key      == P!CacheKey(helper, registry)
            To(at, auth, toldAt) == P!Set(t, [pc |-> at, name |-> registry, helper |-> helper,
                                          auth |-> auth, age |-> 0, told |-> toldAt])
        IN  IF P!Plain(registry) # Anonymous THEN To("pulling", P!Plain(registry), 0)
            ELSE IF helper = Anonymous     THEN To("pulling", Anonymous, 0)
            ELSE IF P!Hit(key)               THEN To("pulling", cache[key].auth, cache[key].told)
            ELSE To("asking", Anonymous, 0)
  BY DEF P!Resolve
<1> DEFINE registry == P!ResolveRegistry(P!Substitute(image))
           helper   == P!SelectHelper(registry)
           To(at, auth, toldAt) == [pc |-> at, name |-> registry, helper |-> helper,
                                  auth |-> auth, age |-> 0, told |-> toldAt]
<1>2. registry \in P!Registries /\ helper \in Helpers \cup {Anonymous}
  BY Named, HelperSelected
<1>3. UNCHANGED <<prefix, config, cache>>
  BY DEF P!Resolve
<1> HIDE DEF registry, helper
<1>4. ASSUME NEW at \in {"pulling", "asking"}, NEW auth \in P!Auths, NEW toldAt \in P!Ages,
             toldAt < Ttl + Slow, at = "asking" => toldAt = 0
      PROVE  Timely(To(at, auth, toldAt))
  <2>1. 0 <= Slow /\ 0 \in P!Ages
    BY NoAge DEF P!CredentialsAssumption
  <2> QED BY <1>2, <1>4, <2>1 DEF Timely
<1>5. CASE P!Set(t, To("pulling", P!Plain(registry), 0))
  <2>1. Timely(To("pulling", P!Plain(registry), 0))
    BY <1>2, <1>4, AuthsFound, NoAge
  <2> QED BY <1>3, <1>5, <2>1, PullTimes
<1>6. CASE P!Set(t, To("pulling", Anonymous, 0))
  <2>1. Timely(To("pulling", Anonymous, 0))
    BY <1>2, <1>4, AuthsFound, NoAge
  <2> QED BY <1>3, <1>6, <2>1, PullTimes
<1>7. ASSUME NEW key, key = P!CacheKey(helper, registry), helper \in Helpers, P!Hit(key),
             P!Set(t, To("pulling", cache[key].auth, cache[key].told))
      PROVE  Times'
  <2>1. Entry(cache[key]) /\ cache[key].age < Ttl
    BY <1>2, <1>7 DEF Times, P!CacheKey, P!Hit
  <2>2. cache[key].told < Ttl + Slow
    BY <2>1, NoAge DEF Entry, P!CredentialsAssumption
  <2>3. Timely(To("pulling", cache[key].auth, cache[key].told))
    BY <1>4, <2>1, <2>2 DEF Entry
  <2> QED BY <1>3, <1>7, <2>3, PullTimes
<1>8. CASE P!Set(t, To("asking", Anonymous, 0))
  <2>1. Timely(To("asking", Anonymous, 0))
    BY <1>2, <1>4, AuthsFound, NoAge
  <2> QED BY <1>3, <1>8, <2>1, PullTimes
<1> QED BY <1>1, <1>2, <1>5, <1>6, <1>7, <1>8 DEF registry, helper

LEMMA OnTimes ==
  ASSUME P!CredentialsAssumption, CredInv, Times, NEW t \in Threads,
         P!Explicit(t) \/ P!Ask(t) \/ P!Store(t) \/ P!Pulled(t)
  PROVE  Times'
<1>0. Timely(pulls[t]) /\ DOMAIN pulls[t] = PullFields /\ Slow \in Nat /\ Ttl \in Nat \ {0}
  BY DEF Times, CredInv, PullsInv, P!CredentialsAssumption
<1>1. CASE P!Explicit(t)
  <2>1. PICK site \in P!Registries :
          P!Set(t, [P!Idle EXCEPT !.pc = "pulling", !.name = site, !.auth = P!Auth("password", "caller", site)])
    BY <1>1 DEF P!Explicit
  <2>2. Timely([P!Idle EXCEPT !.pc = "pulling", !.name = site, !.auth = P!Auth("password", "caller", site)])
    BY AuthsFound, NoAge DEF Timely, P!Idle
  <2> QED BY <1>1, <2>1, <2>2, PullTimes DEF P!Explicit
<1>2. CASE P!Ask(t)
  <2>1. PICK auth \in {P!HelperOutput(pulls[t].helper, P!ServerUrl(pulls[t].name)), Anonymous} :
          P!Set(t, [pulls[t] EXCEPT !.pc = "storing", !.auth = auth])
    BY <1>2 DEF P!Ask
  <2> DEFINE p == [pulls[t] EXCEPT !.pc = "storing", !.auth = auth]
  <2>2. pulls[t].helper \in Helpers /\ pulls[t].name \in P!Registries /\ pulls[t].pc = "asking"
    BY <1>2 DEF P!Ask, CredInv, PullsInv
  <2>3. auth \in P!Auths
    BY <2>2, AuthsFound
  <2>4. /\ p.pc = "storing" /\ p.auth = auth /\ p.name = pulls[t].name /\ p.age = pulls[t].age
        /\ p.told = pulls[t].told
    BY <1>0 DEF PullFields
  <2>5. pulls[t].told = 0 /\ pulls[t].age \in Nat /\ pulls[t].age <= Slow
    BY <1>0, <2>2, NoAge DEF Timely
  <2>6. Timely(p)
    <3> HIDE DEF p
    <3> QED BY <1>0, <2>3, <2>4, <2>5 DEF Timely
  <2> QED BY <1>2, <2>1, <2>6, PullTimes DEF P!Ask
<1>3. CASE P!Store(t)
  <2> DEFINE k == P!CacheKey(pulls[t].helper, pulls[t].name)
             e == [auth |-> pulls[t].auth, age |-> 0, told |-> pulls[t].told]
             p == [pulls[t] EXCEPT !.pc = "pulling", !.age = 0]
  <2>1. pulls[t].pc = "storing" /\ cache' = [cache EXCEPT ![k] = e] /\ P!Set(t, p)
    BY <1>3 DEF P!Store
  <2>2. pulls[t].told \in Nat /\ pulls[t].age \in Nat /\ pulls[t].told <= Slow
    BY <1>0, <2>1, NoAge DEF Timely
  <2>3. Entry(e)
    BY <1>0, <2>2, NoAge DEF Entry, Timely
  <2>4. p.pc = "pulling" /\ p.auth = pulls[t].auth /\ p.name = pulls[t].name /\ p.age = 0
        /\ p.told = pulls[t].told
    BY <1>0 DEF PullFields
  <2>5. Timely(p)
    <3> HIDE DEF p
    <3> QED BY <1>0, <2>2, <2>4, NoAge DEF Timely
  <2>6. \A h \in Helpers, g \in P!Registries : cache'[<<h, g>>] \in {e, cache[<<h, g>>]}
    <3> HIDE DEF e
    <3> QED BY <2>1 DEF CredInv, CacheInv
  <2>7. \A u \in Threads : pulls'[u] \in {p, pulls[u]}
    <3> HIDE DEF p
    <3> QED BY <2>1 DEF P!Set, CredInv
  <2> HIDE DEF e, p
  <2>8. /\ \A h \in Helpers, g \in P!Registries : cache'[<<h, g>>] # Anonymous => Entry(cache'[<<h, g>>])
        /\ \A u \in Threads : Timely(pulls'[u])
    BY <2>3, <2>5, <2>6, <2>7 DEF Times
  <2> QED BY <2>8 DEF Times, Entry, Timely
<1>4. CASE P!Pulled(t)
  <2>1. Timely(P!Idle)
    BY AuthsFound, NoAge DEF Timely, P!Idle, P!Registries
  <2> QED BY <1>4, <2>1, PullTimes DEF P!Pulled
<1> QED BY <1>1, <1>2, <1>3, <1>4

\* Time passes for the entries and for the helpers that run, which are not slower than Slow.
LEMMA TickTimes ==
  ASSUME P!CredentialsAssumption, CredInv, Times, P!Tick
  PROVE  Times'
<1>0. Slow \in Nat /\ Ttl \in Nat \ {0}
  BY DEF P!CredentialsAssumption
<1>1. ASSUME NEW h \in Helpers, NEW g \in P!Registries, cache'[<<h, g>>] # Anonymous
      PROVE  Entry(cache'[<<h, g>>])
  <2> DEFINE e == cache[<<h, g>>]
  <2>1. <<h, g>> \in DOMAIN cache
    BY DEF CredInv, CacheInv
  <2>2. e # Anonymous /\ cache'[<<h, g>>] = [e EXCEPT !.age = P!Older(@), !.told = P!Older(@)]
    BY <1>1, <2>1 DEF P!Tick
  <2>3. Entry(e)
    BY <2>2 DEF Times
  <2>4. /\ DOMAIN cache'[<<h, g>>] = DOMAIN e /\ cache'[<<h, g>>].auth = e.auth
        /\ cache'[<<h, g>>].age = P!Older(e.age) /\ cache'[<<h, g>>].told = P!Older(e.told)
    BY <2>2, <2>3 DEF Entry
  <2>5. /\ P!Older(e.age) \in P!Ages /\ P!Older(e.told) \in P!Ages
        /\ P!Older(e.told) <= P!Older(e.age) + Slow
    BY <1>0, <2>3 DEF Entry, P!Older, P!Ages
  <2> QED BY <2>3, <2>4, <2>5 DEF Entry
<1>2. ASSUME NEW t \in Threads PROVE Timely(pulls'[t])
  <2> DEFINE p == pulls[t]
  <2>0. /\ Timely(p) /\ DOMAIN p = PullFields /\ (P!Busy(p) => p.age < Slow)
        /\ p.pc \in {"idle", "asking", "storing", "pulling"}
    BY DEF Times, CredInv, PullsInv, P!Tick
  <2>1. pulls'[t] = CASE p.pc = "asking"  -> [p EXCEPT !.age = @ + 1]
                      [] p.pc = "storing" -> [p EXCEPT !.age = @ + 1, !.told = @ + 1]
                      [] OTHER            -> p
    BY DEF P!Tick
  <2> HIDE DEF p
  <2>2. CASE p.pc = "asking"
    <3>1. pulls'[t] = [p EXCEPT !.age = @ + 1]
      BY <2>1, <2>2
    <3>2. /\ pulls'[t].pc = p.pc /\ pulls'[t].name = p.name /\ pulls'[t].auth = p.auth
          /\ pulls'[t].age = p.age + 1 /\ pulls'[t].told = p.told
      BY ONLY <2>0, <3>1 DEF PullFields
    <3> QED BY <1>0, <2>0, <2>2, <3>2 DEF Timely, P!Busy, P!Ages
  <2>3. CASE p.pc = "storing"
    <3>1. pulls'[t] = [p EXCEPT !.age = @ + 1, !.told = @ + 1]
      BY <2>1, <2>3
    <3>2. /\ pulls'[t].pc = p.pc /\ pulls'[t].name = p.name /\ pulls'[t].auth = p.auth
          /\ pulls'[t].age = p.age + 1 /\ pulls'[t].told = p.told + 1
      BY ONLY <2>0, <3>1 DEF PullFields
    <3> QED BY <1>0, <2>0, <2>3, <3>2 DEF Timely, P!Busy, P!Ages
  <2>4. CASE p.pc \notin {"asking", "storing"}
    BY <2>0, <2>1, <2>4
  <2> QED BY <2>2, <2>3, <2>4
<1> QED BY <1>1, <1>2 DEF Times, Entry, Timely

LEMMA TimesInit == ASSUME P!CredentialsAssumption, P!Init PROVE Times
<1>1. CredInv
  BY PullInit
<1>2. Timely(P!Idle)
  BY <1>1, AuthsFound, NoAge DEF Timely, P!Idle, P!Registries
<1> QED BY <1>2 DEF P!Init, Times

LEMMA TimesStep == ASSUME P!CredentialsAssumption, CredInv, Times, [P!Next]_(P!vars) PROVE Times'
<1>1. CASE \E t \in Threads : P!Resolve(t) \/ P!Explicit(t) \/ P!Ask(t) \/ P!Store(t) \/ P!Pulled(t)
  BY <1>1, ResolveTimes, OnTimes
<1>2. CASE P!Login
  BY <1>2 DEF P!Login, Times, Entry, Timely
<1>3. CASE P!Tick
  BY <1>3, TickTimes
<1>4. CASE UNCHANGED P!vars
  BY <1>4 DEF P!vars, Times, Entry, Timely
<1> QED BY <1>1, <1>2, <1>3, <1>4 DEF P!Next

-----------------------------------------------------------------------------
(* The client.                                                             *)

\* What holds of the sessions at all times, and of the other parts in their own behaviours.
ClientInv ==
  /\ Inv
  /\ part = "call" => CallInv
  /\ part = "pull" => CredInv /\ Times

\* A part starts as its own specification says, next to clients that nobody uses.
LEMMA ClientStarts ==
  ASSUME ClientAssumption, ClientInit
  PROVE  ClientInv
<1>1. Init
  BY DEF ClientInit, Unused
<1>2. Inv
  BY <1>1, InitInv DEF ClientAssumption
<1>3. CASE part = "session"
  BY <1>2, <1>3 DEF ClientInv
<1>4. CASE part = "call" /\ T!Init
  BY <1>2, <1>4, CallStarts DEF ClientInv, ClientAssumption
<1>5. CASE part = "pull" /\ P!Init
  BY <1>2, <1>5, PullInit, TimesInit DEF ClientInv, ClientAssumption
<1>6. QED BY <1>3, <1>4, <1>5 DEF ClientInit

\* A step of one part leaves the others as they are.
LEMMA ClientSteps ==
  ASSUME ClientAssumption, ClientInv, [ClientNext]_allVars
  PROVE  ClientInv'
<1>1. /\ [Next]_vars /\ part' = part
      /\ part = "call" => [T!Next]_(T!vars)
      /\ part = "pull" => [P!Next]_(P!vars)
  <2>1. CASE part = "session" /\ Next /\ UNCHANGED <<part, callVars, pullVars>>
    BY <2>1
  <2>2. CASE part = "call" /\ T!Next /\ UNCHANGED <<part, vars, pullVars>>
    BY <2>2
  <2>3. CASE part = "pull" /\ P!Next /\ UNCHANGED <<part, vars, callVars>>
    BY <2>3
  <2>4. CASE UNCHANGED allVars
    BY <2>4 DEF allVars, callVars, pullVars, T!vars, T!client, T!daemon, P!vars
  <2>5. QED BY <2>1, <2>2, <2>3, <2>4 DEF ClientNext
<1>2. Inv'
  BY <1>1, StepInv DEF ClientInv, ClientAssumption
<1>3. part = "call" => CallInv'
  BY <1>1, CallSteps DEF ClientInv, ClientAssumption
<1>4. part = "pull" => CredInv' /\ Times'
  BY <1>1, PullKeeps, TimesStep DEF ClientInv, ClientAssumption
<1>5. QED BY <1>1, <1>2, <1>3, <1>4 DEF ClientInv

LEMMA ClientInvariant == ClientSpec => []ClientInv
<1>1. ClientInit => ClientInv
  BY ClientStarts, ClientAssumption
<1>2. ClientInv /\ [ClientNext]_allVars => ClientInv'
  BY ClientSteps, ClientAssumption
<1>3. QED BY <1>1, <1>2, PTL DEF ClientSpec

\* The state of the clients, of a streamed call and of the pulls keeps its types: a call delivers
\* no more than was produced and sends no more than its input (docker/DockerClient.cpp).
THEOREM ClientTypeCorrect == ClientSpec => []ClientTypes
<1>1. ClientInv => ClientTypes
  <2>1. Inv => TypeOK
    BY DEF Inv
  <2>2. CallInv => T!TypeOK
    BY DEF CallInv
  <2>3. CredInv /\ Times => P!TypeOK
    BY DEF CredInv, PullsInv, Times, Entry, Timely, P!TypeOK
  <2>4. QED BY <2>1, <2>2, <2>3 DEF ClientInv, ClientTypes
<1>2. QED BY <1>1, ClientInvariant, PTL

\* Wherever the connection is cut, whatever expires and whoever throws, a streamed call of
\* docker/DockerClient.cpp passes on its input and its output in order, returns only what is whole
\* (a build or an archive that was cut is an error, and a recorded build error the outcome),
\* reports a rejection rather than the broken pipe, an exit code only of what has exited, and
\* nothing is fed or delivered once its deadline has passed.
THEOREM CallsHonest == ClientSpec => []CallHonest
<1>1. ClientInv => CallHonest
  BY DEF ClientInv, CallInv, CallHonest
<1>2. QED BY <1>1, ClientInvariant, PTL

\* However the config is edited and the fetches of the threads overlap, no pull sends a secret to
\* another registry than its own, the alias of the hub, the mirror that replaces it and the shared
\* cache included, nor one (or the news that there is none) that its helper has told longer ago
\* than the cache keeps it and a helper runs (docker/Auth.cpp).
THEOREM SecretsSafe == ClientSpec => []SecretsInPlace
<1>1. CredInv => P!SecretScoped
  BY DEF CredInv, PullsInv, MayHave, P!SecretScoped
<1>2. Times => P!SecretFresh
  BY DEF Times, Timely, P!SecretFresh
<1>3. ClientInv => SecretsInPlace
  BY <1>1, <1>2 DEF ClientInv, SecretsInPlace, P!SecretsInPlace
<1>4. QED BY <1>3, ClientInvariant, PTL
=============================================================================
