---------------------------- MODULE ReaperProofs ----------------------------
(***************************************************************************)
(* Theorems about the reaper, for every number of threads, daemons, filter *)
(* lines and Ryuk containers. Under every fault: its state is well typed,  *)
(* a daemon is watched by at most one Ryuk of a live process, and what was *)
(* recorded stays. Without the fault that each one names: what is reported *)
(* was acknowledged, what a failed bootstrap leaves behind can sweep       *)
(* nothing, every resource is watched, and CrashSafety's promise is kept.  *)
(***************************************************************************)
EXTENDS Reaper, SequenceTheorems, TLAPS

Message == [line : Lines, live : BOOLEAN]

(* The inductive invariant: mutex_ is held by whoever is inside, a bootstrap *)
(* owns a Ryuk of a daemon that has no entry yet, and every open connection  *)
(* belongs to an entry or to a bootstrap.                                    *)
MutexInv == \A t \in Threads : pc[t] \in Inside => holder = t

CallInv == \A t \in Threads :
  /\ call[t].line # Session => call[t].ep = Env
  /\ pc[t] \in {"write", "reply"} => call[t].ep = Env /\ daemons[Env] \in Ryuks

BootInv == \A t \in Threads :
  /\ IF pc[t] \in Booting THEN /\ booting[t] \in Ryuks
                              /\ host[booting[t]] = call[t].ep
                              /\ ryuk[booting[t]] # "none"
                         ELSE booting[t] = Absent
  /\ pc[t] \in Booting \cup {"boot"} => daemons[call[t].ep] = Absent
  /\ pc[t] \in {"connect", "hello", "ack"} => tries[t] < MaxTries
  /\ pc[t] \in {"start", "inspect"} => link[booting[t]] # "open"

EntryInv == \A e \in Endpoints : daemons[e] \in Ryuks =>
  host[daemons[e]] = e /\ ryuk[daemons[e]] # "none"

LinkInv == \A r \in Ryuks :
  /\ ryuk[r] = "none" => link[r] = "none"
  /\ alive /\ link[r] = "open" => \/ daemons[host[r]] = r
                                  \/ \E t \in Threads : booting[t] = r

Ownership == MutexInv /\ CallInv /\ BootInv /\ EntryInv /\ LinkInv
Inv == TypeOK /\ Ownership

-----------------------------------------------------------------------------
(* The actions that touch sequences keep them sequences.                   *)

\* Closing a connection leaves a sequence of messages behind.
LEMMA CloseType ==
  ASSUME TypeOK, NEW r \in Ryuks, Close(r)
  PROVE  /\ link' \in [Ryuks -> {"none", "open", "closed"}]
         /\ replies' \in [Ryuks -> Seq(BOOLEAN)]
         /\ inbox' \in [Ryuks -> Seq(Message)]
<1> DEFINE stale == [i \in DOMAIN inbox[r] |-> [inbox[r][i] EXCEPT !.live = FALSE]]
<1>1. inbox[r] \in Seq(Message)
  BY DEF TypeOK, Message
<1>2. DOMAIN inbox[r] = 1..Len(inbox[r]) /\ Len(inbox[r]) \in Nat
  BY <1>1, LenProperties
<1>3. \A i \in DOMAIN inbox[r] : stale[i] \in Message
  <2>1. SUFFICES ASSUME NEW i \in 1..Len(inbox[r])
                 PROVE  [inbox[r][i] EXCEPT !.live = FALSE] \in Message
    BY <1>2
  <2>2. inbox[r][i] \in Message
    BY <1>1, ElementOfSeq
  <2>3. QED BY <2>2 DEF Message
<1>4. stale \in Seq(Message)
  <2>1. stale \in [1..Len(inbox[r]) -> Message]
    BY <1>2, <1>3
  <2>2. QED BY <2>1, <1>2, SeqDef
<1>5. inbox' \in [Ryuks -> Seq(Message)]
  <2>1. <<>> \in Seq(Message)
    BY EmptySeq
  <2>2. QED BY <2>1, <1>4 DEF Close, TypeOK, Message
<1>6. replies' \in [Ryuks -> Seq(BOOLEAN)]
  BY EmptySeq DEF Close, TypeOK
<1>7. link' \in [Ryuks -> {"none", "open", "closed"}]
  BY DEF Close, TypeOK
<1> QED BY <1>5, <1>6, <1>7

\* Reading a reply leaves a sequence of replies behind.
LEMMA ReadReplyType ==
  ASSUME TypeOK, NEW r \in Ryuks, NEW b \in BOOLEAN, ReadReply(r, b)
  PROVE  replies' \in [Ryuks -> Seq(BOOLEAN)]
<1>1. PICK n \in 1..Len(replies[r]) :
        replies' = [replies EXCEPT ![r] = SubSeq(@, n + 1, Len(@))]
  BY DEF ReadReply
<1>2. replies[r] \in Seq(BOOLEAN) /\ Len(replies[r]) \in Nat
  BY LenProperties DEF TypeOK
<1>3. SubSeq(replies[r], n + 1, Len(replies[r])) \in Seq(BOOLEAN)
  <2>1. \A i \in (n + 1)..Len(replies[r]) : replies[r][i] \in BOOLEAN
    BY <1>2, ElementOfSeq
  <2>2. QED BY <1>1, <1>2, <2>1, SubSeqProperties
<1> QED BY <1>1, <1>3 DEF TypeOK

\* Sending a line appends one message.
LEMMA SendType ==
  ASSUME TypeOK, NEW t \in Threads, NEW r \in Ryuks, NEW l \in Lines, Send(t, r, l)
  PROVE  inbox' \in [Ryuks -> Seq(Message)]
<1>1. [line |-> l, live |-> TRUE] \in Message /\ inbox[r] \in Seq(Message)
  BY DEF Message, TypeOK
<1>2. Append(inbox[r], [line |-> l, live |-> TRUE]) \in Seq(Message)
  BY <1>1, AppendProperties
<1> QED BY <1>2 DEF Send, TypeOK, Message

-----------------------------------------------------------------------------
(* Type correctness, one step per action.                                  *)

\* A process starts with an empty, well-typed registry (Reaper::instance).
LEMMA TypeInit == Init => TypeOK
<1> SUFFICES ASSUME Init PROVE TypeOK
  OBVIOUS
<1>1. /\ filters \in [Ryuks -> Seq(Lines)]
      /\ inbox \in [Ryuks -> Seq([line : Lines, live : BOOLEAN])]
      /\ replies \in [Ryuks -> Seq(BOOLEAN)]
  BY EmptySeq DEF Init
<1> QED BY <1>1, ReaperAssumption DEF Init, TypeOK, PCs, Lines

\* What a thread does inside the library.
LEMMA TypeStep ==
  ASSUME TypeOK, BootInv, CallInv, NEW t \in Threads, Step(t)
  PROVE  TypeOK'
<1> USE ReaperAssumption DEF TypeOK, PCs, threadVars, ryukVars, Leave, Throw, Goto
<1>1. CASE Lock(t)
  BY <1>1 DEF Lock
<1>2. CASE SkipWindows(t)
  BY <1>2 DEF SkipWindows
<1>3. CASE CreateRyuk(t)
  <2>1. PICK r \in Ryuks : /\ ryuk' = [ryuk EXCEPT ![r] = "created"]
                          /\ host' = [host EXCEPT ![r] = call[t].ep]
                          /\ booting' = [booting EXCEPT ![t] = r]
    BY <1>3 DEF CreateRyuk
  <2>2. call[t].ep \in Endpoints
    OBVIOUS
  <2>3. QED BY <1>3, <2>1, <2>2 DEF CreateRyuk
<1>4. CASE StartRyuk(t)
  BY <1>4 DEF StartRyuk
<1>5. CASE InspectRyuk(t)
  <2>1. 0 \in 0..MaxTries
    OBVIOUS
  <2>2. tries' \in [Threads -> 0..MaxTries]
    BY <1>5, <2>1 DEF InspectRyuk
  <2>3. QED BY <1>5, <2>2 DEF InspectRyuk
<1>6. CASE DaemonThrows(t)
  BY <1>6 DEF DaemonThrows
<1>7. CASE NoPort(t)
  BY <1>7 DEF NoPort, Kill
<1>8. CASE Connect(t)
  BY <1>8 DEF Connect
<1>9. CASE SendHello(t)
  <2>1. booting[t] \in Ryuks /\ Session \in Lines
    BY <1>9 DEF SendHello, BootInv, Booting, Lines
  <2>2. inbox' \in [Ryuks -> Seq(Message)]
    BY <1>9, <2>1, SendType DEF SendHello
  <2>3. QED BY <1>9, <2>2 DEF SendHello, Send, Message
<1>10. CASE Handshaken(t)
  <2>1. booting[t] \in Ryuks /\ Session \in Lines
    BY <1>10 DEF Handshaken, BootInv, Booting, Lines
  <2>2. replies' \in [Ryuks -> Seq(BOOLEAN)]
    BY <1>10, <2>1, ReadReplyType DEF Handshaken
  <2>3. <<Session>> \in Seq(Lines)
    BY <2>1
  <2>4. filters' \in [Ryuks -> Seq(Lines)]
    BY <1>10, <2>3 DEF Handshaken
  <2>5. QED BY <1>10, <2>1, <2>2, <2>4 DEF Handshaken
<1>11. CASE NotAcknowledged(t)
  <2>1. booting[t] \in Ryuks /\ Close(booting[t])
    BY <1>11 DEF NotAcknowledged, BootInv, Booting
  <2>2. QED BY <1>11, <2>1, CloseType DEF NotAcknowledged, Kill, Message
<1>12. CASE AttemptFails(t)
  <2>1. booting[t] \in Ryuks /\ Close(booting[t])
    BY <1>12 DEF AttemptFails, BootInv, Booting
  <2>2. tries[t] + 1 \in 0..MaxTries
    BY <1>12 DEF AttemptFails, Deadline, BootInv
  <2>3. tries' \in [Threads -> 0..MaxTries]
    BY <1>12, <2>2 DEF AttemptFails
  <2>4. QED BY <1>12, <2>1, <2>3, CloseType DEF AttemptFails, Kill, Message
<1>13. CASE SendFilter(t)
  <2>1. daemons[Env] \in Ryuks /\ call[t].line \in Lines
    BY <1>13 DEF SendFilter, CallInv
  <2>2. inbox' \in [Ryuks -> Seq(Message)]
    BY <1>13, <2>1, SendType DEF SendFilter
  <2>3. QED BY <1>13, <2>2 DEF SendFilter, Send, Message
<1>14. CASE Registered(t)
  <2>1. daemons[Env] \in Ryuks /\ call[t].line \in Lines
    BY <1>14 DEF Registered, CallInv
  <2>2. replies' \in [Ryuks -> Seq(BOOLEAN)]
    BY <1>14, <2>1, ReadReplyType DEF Registered
  <2>3. Append(filters[daemons[Env]], call[t].line) \in Seq(Lines)
    BY <2>1, AppendProperties
  <2>4. filters' \in [Ryuks -> Seq(Lines)]
    BY <1>14, <2>3 DEF Registered
  <2>5. QED BY <1>14, <2>2, <2>4 DEF Registered
<1>15. CASE RegisterThrows(t)
  <2>1. replies' \in [Ryuks -> Seq(BOOLEAN)]
    BY <1>15, ReadReplyType DEF RegisterThrows, CallInv
  <2>2. QED BY <1>15, <2>1 DEF RegisterThrows
<1> QED BY <1>1, <1>2, <1>3, <1>4, <1>5, <1>6, <1>7, <1>8, <1>9, <1>10, <1>11, <1>12, <1>13,
           <1>14, <1>15 DEF Step

\* The caller's side of a call, the death of the process, and Ryuk.
LEMMA TypeOther ==
  ASSUME TypeOK, \/ \E t \in Threads : Call(t) \/ Create(t)
                 \/ Crash
                 \/ \E r \in Ryuks : Serve(r) \/ Reap(r) \/ Lose(r)
  PROVE  TypeOK'
<1> USE ReaperAssumption DEF TypeOK, PCs, threadVars, ryukVars, Goto
<1>1. ASSUME NEW t \in Threads, Call(t) PROVE TypeOK'
  <2>1. Session \in Lines /\ Projects \subseteq Lines
    BY DEF Lines
  <2>2. PICK c \in [ep : Endpoints, line : Lines] : call' = [call EXCEPT ![t] = c]
    <3>1. CASE \E e \in Endpoints : call' = [call EXCEPT ![t] = [ep |-> e, line |-> Session]]
      BY <3>1, <2>1
    <3>2. CASE \E p \in Projects : call' = [call EXCEPT ![t] = [ep |-> Env, line |-> p]]
      BY <3>2, <2>1
    <3>3. QED BY <1>1, <3>1, <3>2 DEF Call
  <2>3. QED BY <1>1, <2>2 DEF Call
<1>2. ASSUME NEW t \in Threads, Create(t) PROVE TypeOK'
  <2>1. [ep |-> call[t].ep, labels |-> LabelsOf(t)] \in [ep : Endpoints, labels : SUBSET Lines]
    BY DEF LabelsOf
  <2>2. QED BY <1>2, <2>1 DEF Create
<1>3. CASE Crash
  BY <1>3 DEF Crash
<1>4. ASSUME NEW r \in Ryuks, Serve(r) PROVE TypeOK'
  <2>1. inbox[r] \in Seq(Message) /\ inbox[r] # <<>>
    BY <1>4 DEF Serve, Message
  <2>2. Head(inbox[r]) \in Message /\ Tail(inbox[r]) \in Seq(Message)
    BY <2>1, HeadTailProperties
  <2>3. inbox' \in [Ryuks -> Seq(Message)]
    <3>1. inbox' = [inbox EXCEPT ![r] = Tail(inbox[r])]
      BY <1>4 DEF Serve
    <3>2. inbox \in [Ryuks -> Seq(Message)]
      BY DEF Message
    <3>3. QED BY <3>1, <3>2, <2>2
  <2>4. \A b \in BOOLEAN : Append(replies[r], b) \in Seq(BOOLEAN)
    BY AppendProperties
  <2>5. replies' \in [Ryuks -> Seq(BOOLEAN)]
    BY <1>4, <2>4 DEF Serve
  <2>6. known' \in [Ryuks -> SUBSET Lines]
    <3>1. Head(inbox[r]).line \in Lines
      BY <2>2 DEF Message
    <3>2. \/ known' = [known EXCEPT ![r] = @ \cup {Head(inbox[r]).line}]
          \/ known' = known
      BY <1>4 DEF Serve
    <3>3. CASE known' = [known EXCEPT ![r] = @ \cup {Head(inbox[r]).line}]
      BY <3>1, <3>3
    <3>4. QED BY <3>2, <3>3
  <2>7. QED BY <1>4, <2>3, <2>5, <2>6 DEF Serve, Message
<1>5. ASSUME NEW r \in Ryuks, Reap(r) PROVE TypeOK'
  BY <1>5 DEF Reap
<1>6. ASSUME NEW r \in Ryuks, Lose(r) PROVE TypeOK'
  <2>1. link' \in [Ryuks -> {"none", "open", "closed"}]
    BY <1>6 DEF Lose
  <2>2. ryuk' \in [Ryuks -> {"none", "created", "running", "gone"}]
    <3>1. ryuk' = ryuk \/ ryuk' = [ryuk EXCEPT ![r] = "gone"]
      BY <1>6 DEF Lose
    <3>2. QED BY <3>1
  <2>3. QED BY <1>6, <2>1, <2>2 DEF Lose
<1> QED BY <1>1, <1>2, <1>3, <1>4, <1>5, <1>6

-----------------------------------------------------------------------------
(* Ownership is inductive.                                                 *)

\* A process starts with a free mutex_, no entry and no connection.
LEMMA OwnershipInit == Init => Ownership
BY ReaperAssumption DEF Init, Ownership, MutexInv, CallInv, BootInv, EntryInv, LinkInv, Inside,
   Booting

\* While a thread takes a step in the library, no other thread is inside it.
LEMMA Alone ==
  ASSUME Inv, NEW t \in Threads, Step(t)
  PROVE  /\ \A u \in Threads \ {t} : /\ pc[u] \notin Inside /\ booting[u] = Absent
                                      /\ pc'[u] = pc[u] /\ booting'[u] = Absent
         /\ call' = call /\ alive' = alive
<1> USE DEF Goto, Leave, Throw, Send, threadVars, ryukVars
<1>1. (pc[t] = "lock" /\ holder = NoThread) \/ pc[t] \in Inside
  BY DEF Step, Lock, SkipWindows, CreateRyuk, StartRyuk, InspectRyuk, DaemonThrows, NoPort, Connect,
         SendHello, Handshaken, NotAcknowledged, AttemptFails, SendFilter, Registered,
         RegisterThrows, Inside, Booting, MutexFree
<1>2. holder \in {t, NoThread}
  BY <1>1 DEF Inv, Ownership, MutexInv
<1>3. \A u \in Threads \ {t} : pc[u] \notin Inside /\ booting[u] = Absent
  BY <1>2, ReaperAssumption DEF Inv, Ownership, MutexInv, BootInv, Inside
<1>4. /\ \E x : pc' = [pc EXCEPT ![t] = x]
      /\ booting' = booting \/ \E x : booting' = [booting EXCEPT ![t] = x]
      /\ call' = call /\ alive' = alive
  <2>1. CASE Lock(t)            BY <2>1 DEF Lock
  <2>2. CASE SkipWindows(t)     BY <2>2 DEF SkipWindows
  <2>3. CASE CreateRyuk(t)      BY <2>3 DEF CreateRyuk
  <2>4. CASE StartRyuk(t)       BY <2>4 DEF StartRyuk
  <2>5. CASE InspectRyuk(t)     BY <2>5 DEF InspectRyuk
  <2>6. CASE DaemonThrows(t)    BY <2>6 DEF DaemonThrows
  <2>7. CASE NoPort(t)          BY <2>7 DEF NoPort
  <2>8. CASE Connect(t)         BY <2>8 DEF Connect
  <2>9. CASE SendHello(t)       BY <2>9 DEF SendHello
  <2>10. CASE Handshaken(t)     BY <2>10 DEF Handshaken
  <2>11. CASE NotAcknowledged(t) BY <2>11 DEF NotAcknowledged
  <2>12. CASE AttemptFails(t)   BY <2>12 DEF AttemptFails
  <2>13. CASE SendFilter(t)     BY <2>13 DEF SendFilter
  <2>14. CASE Registered(t)     BY <2>14 DEF Registered
  <2>15. CASE RegisterThrows(t) BY <2>15 DEF RegisterThrows
  <2> QED BY <2>1, <2>2, <2>3, <2>4, <2>5, <2>6, <2>7, <2>8, <2>9, <2>10, <2>11, <2>12, <2>13,
             <2>14, <2>15 DEF Step
<1> QED BY <1>3, <1>4 DEF Inv, TypeOK

\* What the invariant says of the one thread that is inside the library.
ThreadOwns(t) ==
  /\ pc[t] \in Inside => holder = t
  /\ call[t].line # Session => call[t].ep = Env
  /\ pc[t] \in {"write", "reply"} => call[t].ep = Env /\ daemons[Env] \in Ryuks
  /\ IF pc[t] \in Booting THEN /\ booting[t] \in Ryuks
                              /\ host[booting[t]] = call[t].ep
                              /\ ryuk[booting[t]] # "none"
                         ELSE booting[t] = Absent
  /\ pc[t] \in Booting \cup {"boot"} => daemons[call[t].ep] = Absent
  /\ pc[t] \in {"connect", "hello", "ack"} => tries[t] < MaxTries
  /\ pc[t] \in {"start", "inspect"} => link[booting[t]] # "open"
  /\ EntryInv
  /\ \A r \in Ryuks :
       /\ ryuk[r] = "none" => link[r] = "none"
       /\ alive /\ link[r] = "open" => daemons[host[r]] = r \/ booting[t] = r

\* What the invariant says of a thread before its step: the Ryuk it boots is its
\* own, on a daemon without an entry.
LEMMA OwnsBefore ==
  ASSUME Inv, NEW t \in Threads, Step(t)
  PROVE  ThreadOwns(t)
BY Alone, ReaperAssumption DEF ThreadOwns, Inv, Ownership, MutexInv, CallInv, BootInv, LinkInv

\* As no other thread is inside, that is all the invariant says.
LEMMA OwnsAfter ==
  ASSUME Inv, NEW t \in Threads, Step(t), ThreadOwns(t)'
  PROVE  Ownership'
<1>1. MutexInv'
  BY Alone DEF MutexInv, ThreadOwns
<1>2. CallInv'
  BY Alone DEF CallInv, Inv, Ownership, Inside, ThreadOwns
<1>3. BootInv'
  BY Alone, ReaperAssumption DEF BootInv, Inv, Ownership, Inside, Booting, ThreadOwns
<1>4. LinkInv'
  BY Alone DEF LinkInv, ThreadOwns
<1> QED BY <1>1, <1>2, <1>3, <1>4 DEF Ownership, ThreadOwns

\* Every step inside the library keeps mutex_ with whoever is inside and every
\* open connection with an entry or a bootstrap.
LEMMA OwnershipStep ==
  ASSUME Inv, NEW t \in Threads, Step(t)
  PROVE  Ownership'
<1> SUFFICES ThreadOwns(t)'
  BY OwnsAfter
<1>0. ThreadOwns(t) /\ TypeOK
  BY OwnsBefore DEF Inv
<1> USE <1>0, ReaperAssumption
    DEF ThreadOwns, EntryInv, TypeOK, Inside, Booting, threadVars, ryukVars, Leave, Throw, Goto
<1>1. CASE Lock(t)
  BY <1>1 DEF Lock, MutexFree, Served
<1>2. CASE SkipWindows(t)
  BY <1>2 DEF SkipWindows
<1>3. CASE CreateRyuk(t)
  <2>1. PICK r \in Ryuks : /\ ryuk[r] = "none"
                          /\ ryuk' = [ryuk EXCEPT ![r] = "created"]
                          /\ host' = [host EXCEPT ![r] = call[t].ep]
                          /\ booting' = [booting EXCEPT ![t] = r]
    BY <1>3 DEF CreateRyuk
  <2> QED BY <1>3, <2>1 DEF CreateRyuk
<1>4. CASE StartRyuk(t)
  BY <1>4 DEF StartRyuk
<1>5. CASE InspectRyuk(t)
  BY <1>5 DEF InspectRyuk
<1>6. CASE DaemonThrows(t)
  <2>1. \/ ryuk' = ryuk
        \/ pc[t] = "start" /\ ryuk' = [ryuk EXCEPT ![booting[t]] = "running"]
    BY <1>6 DEF DaemonThrows
  <2> QED BY <1>6, <2>1 DEF DaemonThrows
<1>7. CASE NoPort(t)
  <2>1. \/ ryuk' = ryuk
        \/ ryuk' = [ryuk EXCEPT ![booting[t]] = "gone"]
    BY <1>7 DEF NoPort, Kill
  <2> QED BY <1>7, <2>1 DEF NoPort
<1>8. CASE Connect(t)
  BY <1>8 DEF Connect
<1>9. CASE SendHello(t)
  BY <1>9 DEF SendHello, Send
<1>10. CASE Handshaken(t)
  <2>1. CASE call[t].line = Session
    BY <1>10, <2>1 DEF Handshaken
  <2>2. CASE call[t].line # Session
    BY <1>10, <2>2 DEF Handshaken
  <2> QED BY <2>1, <2>2
<1>11. CASE NotAcknowledged(t)
  <2>1. \/ ryuk' = ryuk
        \/ ryuk' = [ryuk EXCEPT ![booting[t]] = "gone"]
    BY <1>11 DEF NotAcknowledged, Kill
  <2>2. link' = [link EXCEPT ![booting[t]] = IF @ = "open" THEN "closed" ELSE @]
    BY <1>11 DEF NotAcknowledged, Close
  <2>3. /\ pc[t] = "ack" /\ pc' = [pc EXCEPT ![t] = "idle"]
        /\ booting' = [booting EXCEPT ![t] = Absent]
        /\ UNCHANGED <<alive, call, tries, daemons, host>>
    BY <1>11 DEF NotAcknowledged
  <2>4. EntryInv'
    BY <2>1, <2>3
  <2> HIDE DEF EntryInv
  <2> QED BY <2>1, <2>2, <2>3, <2>4
<1>12. CASE AttemptFails(t)
  BY <1>12 DEF AttemptFails, Kill, Close, Deadline
<1>13. CASE SendFilter(t)
  BY <1>13 DEF SendFilter, Send
<1>14. CASE Registered(t)
  BY <1>14 DEF Registered
<1>15. CASE RegisterThrows(t)
  <2>1. pc[t] \in {"write", "reply"}
    BY <1>15 DEF RegisterThrows
  <2> QED BY <1>15, <2>1 DEF RegisterThrows
<1> QED BY <1>1, <1>2, <1>3, <1>4, <1>5, <1>6, <1>7, <1>8, <1>9, <1>10, <1>11, <1>12, <1>13,
           <1>14, <1>15 DEF Step

\* The caller's side of a call, the death of the process, and Ryuk.
LEMMA OwnershipOther ==
  ASSUME Inv, \/ \E t \in Threads : Call(t) \/ Create(t)
              \/ Crash
              \/ \E r \in Ryuks : Serve(r) \/ Reap(r) \/ Lose(r)
  PROVE  Ownership'
<1> USE ReaperAssumption DEF Inv, Ownership, MutexInv, CallInv, BootInv, EntryInv, LinkInv, TypeOK,
        Inside, Booting, threadVars, ryukVars, Goto
<1>1. ASSUME NEW t \in Threads, Call(t) PROVE Ownership'
  <2>1. \E c : call' = [call EXCEPT ![t] = c] /\ (c.line # Session => c.ep = Env)
    <3>1. ASSUME NEW e, call' = [call EXCEPT ![t] = [ep |-> e, line |-> Session]]
          PROVE  \E c : call' = [call EXCEPT ![t] = c] /\ (c.line # Session => c.ep = Env)
      <4> WITNESS [ep |-> e, line |-> Session]
      <4> QED BY <3>1
    <3>2. ASSUME NEW p, call' = [call EXCEPT ![t] = [ep |-> Env, line |-> p]]
          PROVE  \E c : call' = [call EXCEPT ![t] = c] /\ (c.line # Session => c.ep = Env)
      <4> WITNESS [ep |-> Env, line |-> p]
      <4> QED BY <3>2
    <3>3. QED BY <1>1, <3>1, <3>2 DEF Call
  <2>2. pc[t] = "idle" /\ pc' = [pc EXCEPT ![t] = "lock"]
    BY <1>1 DEF Call
  <2>3. UNCHANGED <<alive, holder, booting, tries, daemons, ryuk, host, link>>
    BY <1>1 DEF Call
  <2> QED BY <2>1, <2>2, <2>3
<1>2. ASSUME NEW t \in Threads, Create(t) PROVE Ownership'
  BY <1>2 DEF Create
<1>3. CASE Crash
  BY <1>3 DEF Crash
<1>4. ASSUME NEW r \in Ryuks, Serve(r) PROVE Ownership'
  BY <1>4 DEF Serve
<1>5. ASSUME NEW r \in Ryuks, Reap(r) PROVE Ownership'
  BY <1>5 DEF Reap
<1>6. ASSUME NEW r \in Ryuks, Lose(r) PROVE Ownership'
  <2>1. ryuk' = ryuk \/ ryuk' = [ryuk EXCEPT ![r] = "gone"]
    BY <1>6 DEF Lose
  <2>2. link[r] = "open" /\ link' = [link EXCEPT ![r] = "closed"]
    BY <1>6 DEF Lose
  <2>3. UNCHANGED <<alive, threadVars, daemons, host>>
    BY <1>6 DEF Lose
  <2> QED BY <2>1, <2>2, <2>3
<1> QED BY <1>1, <1>2, <1>3, <1>4, <1>5, <1>6

-----------------------------------------------------------------------------
(* The theorems that hold under every fault.                               *)

\* Ownership and the types are kept by every step.
LEMMA InvNext == Inv /\ [Next]_vars => Inv'
<1> SUFFICES ASSUME Inv, [Next]_vars PROVE Inv'
  OBVIOUS
<1>1. ASSUME NEW t \in Threads, Step(t) PROVE Inv'
  BY <1>1, TypeStep, OwnershipStep DEF Inv, Ownership
<1>2. CASE \/ \E t \in Threads : Call(t) \/ Create(t)
           \/ Crash
           \/ \E r \in Ryuks : Serve(r) \/ Reap(r) \/ Lose(r)
  BY <1>2, TypeOther, OwnershipOther DEF Inv
<1>3. CASE UNCHANGED vars
  BY <1>3 DEF vars, threadVars, ryukVars, Inv, TypeOK, Ownership, MutexInv, CallInv, BootInv,
              EntryInv, LinkInv
<1> QED BY <1>1, <1>2, <1>3 DEF Next

\* The inductive invariant: whoever is inside the registry holds mutex_, and
\* every open control connection has an owner (Reaper.cpp: daemon_locked,
\* boot_daemon_locked, register_filter).
THEOREM Invariant == Spec => []Inv
<1>1. Init => Inv
  BY TypeInit, OwnershipInit DEF Inv
<1> QED BY <1>1, InvNext, PTL DEF Spec

\* The state of the reaper is well typed; the handshake never makes more
\* attempts than its deadline allows (Reaper.cpp: the retry loop).
THEOREM TypeCorrect == Spec => []TypeOK
<1>1. Inv => TypeOK
  BY DEF Inv
<1> QED BY <1>1, Invariant, PTL

\* At any time a daemon is watched by at most one Ryuk of a live process,
\* whatever fails and however many threads ask for it at once (Reaper.hpp:
\* "opens its persistent control connection exactly once").
THEOREM OneWatcherPerDaemon == Spec => []OneWatcher
<1>1. Inv => OneWatcher
  <2> SUFFICES ASSUME Inv, alive, NEW r \in Ryuks, NEW s \in Ryuks,
                      link[r] = "open", link[s] = "open", host[r] = host[s]
               PROVE  r = s
    BY DEF OneWatcher
  <2>1. \A q \in {r, s} : daemons[host[q]] = q \/ \E t \in Threads : booting[t] = q
    BY DEF Inv, Ownership, LinkInv
  <2>2. \A q \in {r, s}, t \in Threads :
          booting[t] = q => /\ pc[t] \in Booting /\ holder = t
                            /\ daemons[host[q]] = Absent
    BY ReaperAssumption DEF Inv, Ownership, BootInv, MutexInv, Inside
  <2>3. CASE daemons[host[r]] = r
    BY <2>1, <2>2, <2>3, ReaperAssumption
  <2>4. CASE daemons[host[r]] # r
    BY <2>1, <2>2, <2>4, ReaperAssumption
  <2> QED BY <2>3, <2>4
<1> QED BY <1>1, Invariant, PTL

-----------------------------------------------------------------------------
(* Records only grow. Only the Ryuk of an entry has filters on record, so  *)
(* that the first one is written to an empty list.                         *)
RecordInv == \A r \in Ryuks : filters[r] # <<>> => daemons[host[r]] = r

EntriesStay == \A e \in Endpoints : daemons[e] # Absent => daemons'[e] = daemons[e]
FiltersGrow == \A r \in Ryuks : IsPrefix(filters[r], filters'[r])

\* A list is a prefix of itself, of itself with one more line, and the empty one of any.
LEMMA StillPrefix ==
  ASSUME NEW S, NEW s \in Seq(S)
  PROVE  /\ IsPrefix(s, s)
         /\ \A x \in S : IsPrefix(s, Append(s, x)) /\ IsPrefix(<<>>, <<x>>)
<1>1. Len(s) \in Nat
  BY LenProperties
<1>2. IsPrefix(s, s)
  BY <1>1 DEF IsPrefix
<1>3. ASSUME NEW x \in S PROVE IsPrefix(s, Append(s, x)) /\ IsPrefix(<<>>, <<x>>)
  <2> DEFINE t == Append(s, x)
  <2>1. t \in Seq(S) /\ Len(t) = Len(s) + 1 /\ \A i \in 1..Len(s) : t[i] = s[i]
    BY <1>1, AppendProperties
  <2>2. SubSeq(t, 1, Len(s)) = [i \in 1..Len(s) |-> s[i]]
    BY <1>1, <2>1
  <2>3. SubSeq(s, 1, Len(s)) = [i \in 1..Len(s) |-> s[i]]
    BY <1>1
  <2> HIDE DEF t
  <2>4. IsPrefix(s, t)
    BY <1>1, <2>1, <2>2, <2>3 DEF IsPrefix
  <2>5. IsPrefix(<<>>, <<x>>)
    BY SubSeqEmpty DEF IsPrefix
  <2> QED BY <2>4, <2>5 DEF t
<1> QED BY <1>2, <1>3

\* An entry is written once, by the bootstrap that found none, and a filter is appended.
LEMMA RecordStep ==
  ASSUME Inv, RecordInv, Next
  PROVE  RecordInv' /\ EntriesStay /\ FiltersGrow
<1> USE ReaperAssumption DEF Goto, threadVars, ryukVars
<1>0. /\ filters \in [Ryuks -> Seq(Lines)] /\ daemons \in [Endpoints -> Ryuks \cup {Absent, Skipped}]
      /\ host \in [Ryuks -> Endpoints] /\ EntryInv
  BY DEF Inv, Ownership, TypeOK
<1>1. \A r \in Ryuks : IsPrefix(filters[r], filters[r])
  BY <1>0, StillPrefix
<1>2. CASE UNCHANGED <<daemons, filters, host>>
  BY <1>1, <1>2 DEF RecordInv, EntriesStay, FiltersGrow
<1>3. ASSUME NEW t \in Threads, SkipWindows(t) PROVE RecordInv' /\ EntriesStay /\ FiltersGrow
  <2>1. /\ daemons' = [daemons EXCEPT ![call[t].ep] = Skipped] /\ UNCHANGED <<filters, host>>
        /\ daemons[call[t].ep] = Absent
    BY <1>3 DEF SkipWindows, Inv, Ownership, BootInv
  <2>2. EntriesStay
    BY <1>0, <2>1 DEF EntriesStay
  <2>3. RecordInv'
    BY <1>0, <2>1 DEF RecordInv
  <2> QED BY <1>1, <2>1, <2>2, <2>3 DEF FiltersGrow
<1>4. ASSUME NEW t \in Threads, CreateRyuk(t) PROVE RecordInv' /\ EntriesStay /\ FiltersGrow
  <2>1. PICK r \in Ryuks : ryuk[r] = "none" /\ host' = [host EXCEPT ![r] = call[t].ep]
    BY <1>4 DEF CreateRyuk
  <2>2. UNCHANGED <<daemons, filters>>
    BY <1>4 DEF CreateRyuk
  <2>3. filters[r] = <<>>
    BY <1>0, <2>1 DEF RecordInv, EntryInv
  <2> QED BY <1>0, <1>1, <2>1, <2>2, <2>3 DEF RecordInv, EntriesStay, FiltersGrow
<1>5. ASSUME NEW t \in Threads, Handshaken(t) PROVE RecordInv' /\ EntriesStay /\ FiltersGrow
  <2>1. PICK r \in Ryuks : r = booting[t] /\ host[r] = call[t].ep /\ daemons[call[t].ep] = Absent
    BY <1>5 DEF Handshaken, Inv, Ownership, BootInv, Booting
  <2>2. /\ daemons' = [daemons EXCEPT ![call[t].ep] = r]
        /\ filters' = [filters EXCEPT ![r] = <<Session>>] /\ UNCHANGED host
    BY <1>5, <2>1 DEF Handshaken
  <2>3. filters[r] = <<>> /\ Session \in Lines
    BY <1>0, <2>1 DEF RecordInv, Lines
  <2>4. IsPrefix(<<>>, <<Session>>)
    <3>1. <<>> \in Seq(Lines)
      BY EmptySeq
    <3> QED BY <2>3, <3>1, StillPrefix
  <2>5. FiltersGrow
    <3> SUFFICES ASSUME NEW q \in Ryuks PROVE IsPrefix(filters[q], filters'[q])
      BY DEF FiltersGrow
    <3>1. CASE q = r
      BY <1>0, <2>2, <2>3, <2>4, <3>1
    <3>2. CASE q # r
      BY <1>0, <1>1, <2>2, <3>2
    <3> QED BY <3>1, <3>2
  <2>6. EntriesStay
    BY <1>0, <2>1, <2>2 DEF EntriesStay
  <2>7. RecordInv'
    <3> SUFFICES ASSUME NEW q \in Ryuks, filters'[q] # <<>> PROVE daemons'[host[q]] = q
      BY <2>2 DEF RecordInv
    <3>1. CASE q = r
      BY <1>0, <2>1, <2>2, <3>1
    <3>2. CASE q # r
      BY <1>0, <2>1, <2>2, <3>2 DEF RecordInv
    <3> QED BY <3>1, <3>2
  <2> QED BY <2>5, <2>6, <2>7
<1>6. ASSUME NEW t \in Threads, Registered(t) PROVE RecordInv' /\ EntriesStay /\ FiltersGrow
  <2>1. /\ daemons[Env] \in Ryuks /\ call[t].line \in Lines
        /\ filters' = [filters EXCEPT ![daemons[Env]] = Append(@, call[t].line)]
        /\ UNCHANGED <<daemons, host>>
    BY <1>6 DEF Registered, Inv, Ownership, CallInv, TypeOK
  <2>2. IsPrefix(filters[daemons[Env]], Append(filters[daemons[Env]], call[t].line))
    BY <1>0, <2>1, StillPrefix
  <2>3. FiltersGrow
    BY <1>0, <1>1, <2>1, <2>2 DEF FiltersGrow
  <2>4. RecordInv'
    BY <1>0, <2>1 DEF RecordInv, EntryInv
  <2> QED BY <2>1, <2>3, <2>4 DEF EntriesStay
<1>7. ASSUME NEW t \in Threads, Step(t)
      PROVE  \/ SkipWindows(t) \/ CreateRyuk(t) \/ Handshaken(t) \/ Registered(t)
             \/ UNCHANGED <<daemons, filters, host>>
  BY <1>7 DEF Step, Lock, StartRyuk, InspectRyuk, DaemonThrows, NoPort, Connect, SendHello,
              NotAcknowledged, AttemptFails, SendFilter, RegisterThrows, Send
<1>8. ASSUME \/ \E t \in Threads : Call(t) \/ Create(t)
             \/ Crash
             \/ \E r \in Ryuks : Serve(r) \/ Reap(r) \/ Lose(r)
      PROVE  UNCHANGED <<daemons, filters, host>>
  BY <1>8 DEF Call, Create, Crash, Serve, Reap, Lose
<1> QED BY <1>2, <1>3, <1>4, <1>5, <1>6, <1>7, <1>8 DEF Next

\* An entry of daemons_ is never replaced, by a second bootstrap, a failed one or a skipped
\* one, and the filters it reports only grow (Reaper.cpp: daemon_locked, register_filter).
THEOREM RecordsGrow == Spec => RecordsOnlyGrow
<1>1. Init => RecordInv
  BY DEF Init, RecordInv
<1>2. Inv /\ RecordInv /\ [Next]_vars => RecordInv'
  BY RecordStep DEF vars, ryukVars, RecordInv
<1>3. Inv /\ RecordInv /\ [Next]_vars =>
        [/\ \A e \in Endpoints : daemons[e] # Absent => daemons'[e] = daemons[e]
         /\ \A r \in Ryuks : IsPrefix(filters[r], filters'[r])]_vars
  BY RecordStep DEF EntriesStay, FiltersGrow
<1> QED BY <1>1, <1>2, <1>3, Invariant, PTL DEF Spec, RecordsOnlyGrow
-----------------------------------------------------------------------------
(* What Ryuk has been told. The inductive invariants behind the theorems   *)
(* that follow; each names the faults that would break it.                 *)

\* A Ryuk that nothing has been sent to: not yet created, not yet started, or started by a
\* bootstrap that has not connected.
Fresh(r) ==
  \/ ryuk[r] \in {"none", "created"}
  \/ \E t \in Threads : pc[t] \in {"start", "inspect"} /\ booting[t] = r

Blank(r) == known[r] = {} /\ inbox[r] = <<>> /\ replies[r] = <<>>

FreshInv == \A r \in Ryuks : /\ Fresh(r) => Blank(r)
                             /\ link[r] # "none" => ryuk[r] \in {"running", "gone"}

\* A Ryuk without an entry is told of the session only.
SessionInv == \A r \in Ryuks : daemons[host[r]] # r =>
  known[r] \subseteq {Session} /\ \A i \in DOMAIN inbox[r] : inbox[r][i].line = Session

\* An entry lists the session and no line twice, and only a Windows engine is skipped.
FilterInv ==
  /\ \A e \in Endpoints : daemons[e] \in Ryuks => Session \in ToSet(filters[daemons[e]])
  /\ \A e \in Endpoints : daemons[e] = Skipped => e \in WindowsEngines
  /\ \A r \in Ryuks : ryuk[r] # "none" => host[r] \notin WindowsEngines
  /\ \A r \in Ryuks : IsInjective(filters[r])
  /\ \A t \in Threads : pc[t] \in {"write", "reply"} =>
                          call[t].line \notin ToSet(filters[daemons[Env]])
  /\ \A t \in Threads : pc[t] \in Booting => call[t].ep \notin WindowsEngines

\* Disabled, the reaper boots nothing.
OffInv == disabled =>
  /\ \A e \in Endpoints : daemons[e] = Absent
  /\ \A r \in Ryuks : ryuk[r] = "none"
  /\ \A t \in Threads : pc[t] \in {"idle", "lock", "granted"}

\* Under every fault.
Told == RecordInv /\ FreshInv /\ SessionInv /\ FilterInv /\ OffInv

\* The lines in an inbox that are of the connection that is open now.
Live(r) == {i \in DOMAIN inbox[r] : inbox[r][i].live}

\* No line of this connection is unread, and no answer.
Quiet(r) == Live(r) = {} /\ replies[r] = <<>>

\* The Ryuk of an entry whose connection is broken: nothing is sent to it again.
Cut(r) == link[r] # "open" /\ daemons[host[r]] = r

\* A thread waits for the answer of r to line l.
Awaits(t, r, l) ==
  \/ pc[t] = "ack" /\ r = booting[t] /\ l = Session
  \/ pc[t] = "reply" /\ r = daemons[Env] /\ l = call[t].line

\* It is on its way, at most once: first the line, then the answer.
OnItsWay(r, l) ==
  \/ Quiet(r)
  \/ /\ replies[r] = <<>>
     /\ \E i \in DOMAIN inbox[r] : Live(r) = {i} /\ inbox[r][i].line = l
  \/ /\ Live(r) = {}
     /\ \E b \in BOOLEAN : replies[r] = <<b>> /\ (b => l \in known[r])

\* While an answer is awaited it is the only one on its way; otherwise none is. A late answer
\* ("slow") breaks this.
AnswerInv ==
  alive => \A r \in Ryuks :
    /\ \A t \in Threads, l \in Lines : Awaits(t, r, l) => OnItsWay(r, l)
    /\ (\A t \in Threads, l \in Lines : ~Awaits(t, r, l)) => Quiet(r) \/ Cut(r)

\* What is on record was acknowledged.
KnownInv == \A r \in Ryuks : ToSet(filters[r]) \subseteq known[r]

\* Daemon e watches for one of the lines ls, or cannot run a reaper.
Backed(e, ls) == e \in WindowsEngines \/ (daemons[e] \in Ryuks /\ ls \cap known[daemons[e]] # {})

\* So it is for every call that has returned and for every resource.
BackedInv == ~disabled =>
  /\ \A t \in Threads : pc[t] = "granted" => Backed(call[t].ep, {call[t].line})
  /\ \A x \in resources : x.labels # {} => Backed(x.ep, x.labels)

\* Where no answer is late.
Answered == AnswerInv /\ KnownInv /\ BackedInv

\* A running Ryuk is of an entry, knows nothing, or is of a daemon without an entry and, while
\* the process lives, of the bootstrap that is at it. A removal that fails ("rm") breaks this.
OrphanInv == \A r \in Ryuks : ryuk[r] = "running" =>
  \/ daemons[host[r]] = r
  \/ known[r] = {} /\ inbox[r] = <<>>
  \/ daemons[host[r]] = Absent /\ (alive => \E t \in Threads : booting[t] = r)

\* The Ryuk of an entry runs and is connected, and so is one that has been connected to. A cut
\* connection ("drop") or a Ryuk that disappears ("die") breaks this.
HealthInv == alive =>
  /\ \A e \in Endpoints : daemons[e] \in Ryuks =>
       ryuk[daemons[e]] = "running" /\ link[daemons[e]] = "open"
  /\ \A t \in Threads : pc[t] \in {"hello", "ack"} =>
       ryuk[booting[t]] = "running" /\ link[booting[t]] = "open"

-----------------------------------------------------------------------------
(* What the actions do to the sequences of lines and answers.              *)

\* Closing a connection leaves nothing of it on its way; what Ryuk may still read are lines
\* that were sent.
LEMMA CloseQuiet ==
  ASSUME TypeOK, NEW r \in Ryuks, Close(r)
  PROVE  /\ Quiet(r)'
         /\ \A i \in DOMAIN inbox'[r] : i \in DOMAIN inbox[r] /\ inbox'[r][i].line = inbox[r][i].line
         /\ inbox[r] = <<>> => inbox'[r] = <<>>
         /\ \A q \in Ryuks : q # r => inbox'[q] = inbox[q] /\ replies'[q] = replies[q] /\ link'[q] = link[q]
         /\ link'[r] # "open"
<1> DEFINE stale == [i \in DOMAIN inbox[r] |-> [inbox[r][i] EXCEPT !.live = FALSE]]
<1>1. /\ inbox \in [Ryuks -> Seq(Message)] /\ replies \in [Ryuks -> Seq(BOOLEAN)]
      /\ link \in [Ryuks -> {"none", "open", "closed"}]
  BY DEF TypeOK, Message
<1>2. /\ replies' = [replies EXCEPT ![r] = <<>>]
      /\ inbox' = [inbox EXCEPT ![r] = <<>>] \/ inbox' = [inbox EXCEPT ![r] = stale]
      /\ link' = [link EXCEPT ![r] = IF @ = "open" THEN "closed" ELSE @]
  BY DEF Close
<1>3. \A i \in DOMAIN inbox[r] : inbox[r][i] \in Message
  BY <1>1, ElementOfSeq, LenProperties
<1>4. /\ DOMAIN stale = DOMAIN inbox[r]
      /\ \A i \in DOMAIN inbox[r] : stale[i].line = inbox[r][i].line /\ ~stale[i].live
  BY <1>3 DEF Message
<1>5. inbox[r] = <<>> => stale = <<>>
  <2> SUFFICES ASSUME inbox[r] = <<>> PROVE stale = <<>>
    OBVIOUS
  <2>1. DOMAIN stale = {}
    BY <1>4
  <2>2. stale \in [1..0 -> Message]
    BY <2>1
  <2>3. stale \in Seq(Message) /\ Len(stale) = 0
    BY <2>2, SeqDef, LenProperties
  <2> QED BY <2>3, EmptySeq
<1> HIDE DEF stale
<1>6. DOMAIN <<>> = {}
  OBVIOUS
<1> QED BY <1>1, <1>2, <1>4, <1>5, <1>6 DEF Quiet, Live

\* A line that is sent is the last of its inbox, and of this connection.
LEMMA SendLast ==
  ASSUME TypeOK, NEW t \in Threads, NEW r \in Ryuks, NEW l \in Lines, Send(t, r, l)
  PROVE  \E n \in Nat :
           /\ n \notin DOMAIN inbox[r] /\ DOMAIN inbox'[r] = DOMAIN inbox[r] \cup {n}
           /\ inbox'[r][n] = [line |-> l, live |-> TRUE]
           /\ \A i \in DOMAIN inbox[r] : inbox'[r][i] = inbox[r][i]
           /\ \A q \in Ryuks : q # r => inbox'[q] = inbox[q]
           /\ Live(r)' = Live(r) \cup {n}
<1> DEFINE m == [line |-> l, live |-> TRUE]
           n == Len(inbox[r]) + 1
<1>1. inbox \in [Ryuks -> Seq(Message)] /\ m \in Message
  BY DEF TypeOK, Message
<1>2. inbox' = [inbox EXCEPT ![r] = Append(inbox[r], m)]
  BY DEF Send
<1>3. inbox'[r] = Append(inbox[r], m) /\ \A q \in Ryuks : q # r => inbox'[q] = inbox[q]
  BY <1>1, <1>2
<1>4. /\ Len(inbox[r]) \in Nat /\ DOMAIN inbox[r] = 1..Len(inbox[r])
      /\ Len(inbox'[r]) = n /\ inbox'[r][n] = m /\ inbox'[r] \in Seq(Message)
      /\ \A i \in 1..Len(inbox[r]) : inbox'[r][i] = inbox[r][i]
  BY <1>1, <1>3, AppendProperties, LenProperties
<1>5. DOMAIN inbox'[r] = 1..n
  BY <1>4, LenProperties
<1>6. n \in Nat /\ n \notin DOMAIN inbox[r] /\ DOMAIN inbox'[r] = DOMAIN inbox[r] \cup {n}
  BY <1>4, <1>5
<1>7. m.live
  OBVIOUS
<1> HIDE DEF m, n
<1>8. Live(r)' = Live(r) \cup {n}
  BY <1>4, <1>6, <1>7 DEF Live
<1> QED BY <1>3, <1>4, <1>6, <1>8 DEF m

\* Ryuk reads the first line; the others move up.
LEMMA ServeFirst ==
  ASSUME TypeOK, NEW r \in Ryuks, Serve(r)
  PROVE  /\ 1 \in DOMAIN inbox[r] /\ Head(inbox[r]) = inbox[r][1] /\ inbox[r][1] \in Message
         /\ \A i \in DOMAIN inbox'[r] :
              i \in Nat \ {0} /\ i + 1 \in DOMAIN inbox[r] /\ inbox'[r][i] = inbox[r][i + 1]
         /\ \A i \in DOMAIN inbox[r] : i = 1 \/ i - 1 \in DOMAIN inbox'[r]
         /\ DOMAIN inbox[r] \subseteq Nat
         /\ \A q \in Ryuks : q # r => /\ inbox'[q] = inbox[q] /\ replies'[q] = replies[q]
                                     /\ known'[q] = known[q]
<1>1. inbox \in [Ryuks -> Seq(Message)] /\ inbox[r] # <<>> /\ inbox[r] \in Seq(Message)
  BY DEF TypeOK, Message, Serve
<1>2. inbox' = [inbox EXCEPT ![r] = Tail(inbox[r])]
  BY DEF Serve
<1>3. inbox'[r] = Tail(inbox[r]) /\ \A q \in Ryuks : q # r => inbox'[q] = inbox[q]
  BY <1>1, <1>2
<1>4. /\ Len(inbox[r]) \in Nat \ {0} /\ DOMAIN inbox[r] = 1..Len(inbox[r])
      /\ DOMAIN inbox'[r] = 1..(Len(inbox[r]) - 1)
      /\ \A i \in 1..(Len(inbox[r]) - 1) : inbox'[r][i] = inbox[r][i + 1]
      /\ Head(inbox[r]) = inbox[r][1]
  BY <1>1, <1>3, HeadTailProperties, LenProperties, EmptySeq
<1>5. inbox[r][1] \in Message
  BY <1>1, <1>4, ElementOfSeq
<1>6. \A q \in Ryuks : q # r => replies'[q] = replies[q] /\ known'[q] = known[q]
  BY DEF Serve, TypeOK
<1> QED BY <1>3, <1>4, <1>5, <1>6

\* An answer that is read leaves fewer behind, and none if it was the only one.
LEMMA ReadLess ==
  ASSUME TypeOK, NEW r \in Ryuks, NEW b \in BOOLEAN, ReadReply(r, b)
  PROVE  /\ replies[r] # <<>> /\ Head(replies[r]) = b
         /\ \A c \in BOOLEAN : replies[r] = <<c>> => c = b /\ replies'[r] = <<>>
         /\ \A q \in Ryuks : q # r => replies'[q] = replies[q]
<1>1. replies \in [Ryuks -> Seq(BOOLEAN)]
  BY DEF TypeOK
<1>2. PICK n \in 1..Len(replies[r]) :
        replies' = [replies EXCEPT ![r] = SubSeq(replies[r], n + 1, Len(replies[r]))]
  BY DEF ReadReply
<1>3. ASSUME NEW c \in BOOLEAN, replies[r] = <<c>> PROVE c = b /\ replies'[r] = <<>>
  <2>1. Len(replies[r]) = 1 /\ n = 1 /\ Head(replies[r]) = c
    BY <1>3
  <2>2. SubSeq(replies[r], 2, 1) = <<>>
    BY <1>1, <2>1, SubSeqEmpty
  <2> QED BY <1>1, <1>2, <2>1, <2>2 DEF ReadReply
<1> QED BY <1>1, <1>2, <1>3 DEF ReadReply

\* The elements of a list with one more.
LEMMA ToSetAppend ==
  ASSUME NEW S, NEW s \in Seq(S), NEW x \in S
  PROVE  ToSet(Append(s, x)) = ToSet(s) \cup {x}
<1> DEFINE a == Append(s, x)
<1>1. /\ Len(s) \in Nat /\ DOMAIN s = 1..Len(s) /\ DOMAIN a = 1..(Len(s) + 1)
      /\ \A i \in 1..Len(s) : a[i] = s[i]
      /\ a[Len(s) + 1] = x
  BY AppendProperties, LenProperties
<1> HIDE DEF a
<1>2. ToSet(a) = ToSet(s) \cup {x}
  BY <1>1 DEF ToSet
<1> QED BY <1>2 DEF a

\* A list stays without repetitions when a new element is appended.
LEMMA InjectiveAppend ==
  ASSUME NEW S, NEW s \in Seq(S), NEW x \in S, IsInjective(s), x \notin ToSet(s)
  PROVE  IsInjective(Append(s, x))
<1> DEFINE a == Append(s, x)
<1>1. /\ Len(s) \in Nat /\ DOMAIN s = 1..Len(s) /\ DOMAIN a = 1..(Len(s) + 1)
      /\ \A i \in 1..Len(s) : a[i] = s[i]
      /\ a[Len(s) + 1] = x
  BY AppendProperties, LenProperties
<1> HIDE DEF a
<1>2. IsInjective(a)
  BY <1>1 DEF ToSet, IsInjective
<1> QED BY <1>2 DEF a

\* A list of one element, and the empty one.
LEMMA ToSetSmall == \A x : ToSet(<<x>>) = {x} /\ IsInjective(<<x>>) /\ ToSet(<<>>) = {}
<1> TAKE x
<1>1. DOMAIN <<x>> = {1} /\ <<x>>[1] = x /\ DOMAIN <<>> = {}
  OBVIOUS
<1> QED BY <1>1 DEF ToSet, IsInjective

-----------------------------------------------------------------------------
(* What holds whatever fails.                                              *)

\* A step keeps every Ryuk that is fresh now what it was: nothing is sent to it, and no Ryuk
\* becomes fresh again.
LEMMA FreshStep ==
  ASSUME Inv, FreshInv, NEW t \in Threads, Step(t)
  PROVE  FreshInv'
<1> USE DEF threadVars, ryukVars, Leave, Throw, Goto, Booting, Inside
<1>0. TypeOK /\ ThreadOwns(t)
  BY OwnsBefore DEF Inv
<1>a. /\ \A u \in Threads \ {t} : pc'[u] \notin {"start", "inspect"}
      /\ \A u \in Threads \ {t} : pc[u] \notin {"start", "inspect"}
  BY Alone
<1> SUFFICES /\ \A r \in Ryuks : Fresh(r)' => Fresh(r) /\ Blank(r)'
             /\ \A r \in Ryuks : link'[r] # "none" => ryuk'[r] \in {"running", "gone"}
  BY DEF FreshInv
<1> USE <1>0, <1>a, ReaperAssumption DEF FreshInv, Fresh, Blank, ThreadOwns
<1>1. CASE Lock(t)
  BY <1>1 DEF Lock, TypeOK
<1>2. CASE SkipWindows(t)
  BY <1>2 DEF SkipWindows, TypeOK
<1>3. CASE CreateRyuk(t)
  <2>1. PICK r \in Ryuks : /\ ryuk[r] = "none"
                          /\ ryuk' = [ryuk EXCEPT ![r] = "created"]
                          /\ booting' = [booting EXCEPT ![t] = r]
    BY <1>3 DEF CreateRyuk
  <2> QED BY <1>3, <2>1 DEF CreateRyuk, TypeOK
<1>4. CASE StartRyuk(t)
  BY <1>4 DEF StartRyuk, TypeOK
<1>5. CASE InspectRyuk(t)
  BY <1>5 DEF InspectRyuk, TypeOK
<1>6. CASE DaemonThrows(t)
  <2>1. \/ ryuk' = ryuk
        \/ pc[t] = "start" /\ ryuk' = [ryuk EXCEPT ![booting[t]] = "running"]
    BY <1>6 DEF DaemonThrows
  <2> QED BY <1>6, <2>1 DEF DaemonThrows, TypeOK
<1>7. CASE NoPort(t)
  BY <1>7 DEF NoPort, TypeOK, Kill
<1>8. CASE Connect(t)
  BY <1>8 DEF Connect, TypeOK
<1>9. CASE SendHello(t)
  BY <1>9 DEF SendHello, Send, TypeOK
<1>10. CASE Handshaken(t)
  <2>1. replies[booting[t]] # <<>> /\ \A q \in Ryuks : q # booting[t] => replies'[q] = replies[q]
    BY <1>10, ReadLess DEF Handshaken
  <2> QED BY <1>10, <2>1 DEF Handshaken, TypeOK
<1>11. ASSUME NEW b \in Ryuks, Close(b)
       PROVE  /\ \A q \in Ryuks : Blank(q) /\ known' = known => Blank(q)'
              /\ \A q \in Ryuks : link'[q] # "none" => link[q] # "none"
  <2>1. /\ \A q \in Ryuks : inbox[q] = <<>> => inbox'[q] = <<>>
        /\ \A q \in Ryuks : replies[q] = <<>> => replies'[q] = <<>>
    BY <1>11, CloseQuiet DEF Quiet
  <2>2. link' = [link EXCEPT ![b] = IF @ = "open" THEN "closed" ELSE @]
    BY <1>11 DEF Close
  <2> QED BY <2>1, <2>2 DEF TypeOK
<1>12. CASE NotAcknowledged(t) \/ AttemptFails(t)
  <2>1. /\ Close(booting[t]) /\ booting[t] \in Ryuks /\ known' = known
        /\ pc[t] \in {"connect", "hello", "ack"} /\ pc'[t] \in {"idle", "connect"}
        /\ ryuk' = ryuk \/ ryuk' = [ryuk EXCEPT ![booting[t]] = "gone"]
    BY <1>12 DEF NotAcknowledged, AttemptFails, Kill, TypeOK
  <2>0. \A q \in Ryuks : Fresh(q) => Blank(q)'
    BY <1>11, <2>1
  <2>2. \A q \in Ryuks : Fresh(q)' => Fresh(q)
    BY <2>1 DEF TypeOK
  <2>3. \A q \in Ryuks : link'[q] # "none" => ryuk'[q] \in {"running", "gone"}
    BY <1>11, <2>1 DEF TypeOK
  <2> QED BY <2>0, <2>2, <2>3
<1>13. CASE SendFilter(t)
  BY <1>13 DEF SendFilter, Send, TypeOK
<1>14. CASE Registered(t)
  BY <1>14, ReadLess DEF Registered, TypeOK
<1>15. CASE RegisterThrows(t)
  BY <1>15, ReadLess DEF RegisterThrows, TypeOK
<1> QED BY <1>1, <1>2, <1>3, <1>4, <1>5, <1>6, <1>7, <1>8, <1>9, <1>10, <1>11, <1>12, <1>13,
           <1>14, <1>15 DEF Step

\* Only a running Ryuk reads, and what is fresh has nothing to read.
LEMMA FreshOther ==
  ASSUME Inv, FreshInv, \/ \E t \in Threads : Call(t) \/ Create(t)
                        \/ Crash
                        \/ \E r \in Ryuks : Serve(r) \/ Reap(r) \/ Lose(r)
  PROVE  FreshInv'
<1> USE ReaperAssumption DEF FreshInv, Fresh, Blank, threadVars, ryukVars, Goto
<1>0. TypeOK
  BY DEF Inv
<1>1. ASSUME NEW t \in Threads, Call(t) \/ Create(t) PROVE FreshInv'
  BY <1>0, <1>1 DEF TypeOK, Call, Create
<1>2. CASE Crash
  BY <1>0, <1>2 DEF TypeOK, Crash
<1>3. ASSUME NEW r \in Ryuks, Serve(r) PROVE FreshInv'
  <2>1. \A q \in Ryuks : q # r => inbox'[q] = inbox[q] /\ replies'[q] = replies[q] /\ known'[q] = known[q]
    BY <1>0, <1>3, ServeFirst
  <2>2. UNCHANGED <<pc, booting, ryuk, link>> /\ inbox[r] # <<>>
    BY <1>3 DEF Serve
  <2> QED BY <2>1, <2>2
<1>4. ASSUME NEW r \in Ryuks, Reap(r) PROVE FreshInv'
  BY <1>0, <1>4 DEF TypeOK, Reap
<1>5. ASSUME NEW r \in Ryuks, Lose(r) PROVE FreshInv'
  <2>1. ryuk' = ryuk \/ ryuk' = [ryuk EXCEPT ![r] = "gone"]
    BY <1>5 DEF Lose
  <2> QED BY <1>0, <1>5, <2>1 DEF TypeOK, Lose
<1> QED BY <1>1, <1>2, <1>3, <1>4, <1>5

\* What is on record of a disabled reaper, and who is on record of an enabled one.
LEMMA OffNext ==
  ASSUME Inv, OffInv, Next
  PROVE  OffInv'
<1> USE ReaperAssumption DEF Inv, TypeOK, threadVars, ryukVars, Goto, Leave, Throw, OffInv
<1>1. ASSUME NEW t \in Threads, Step(t) PROVE OffInv'
  <2>1. disabled => pc[t] = "lock"
    BY <1>1 DEF Step, Lock, SkipWindows, CreateRyuk, StartRyuk, InspectRyuk, DaemonThrows, NoPort,
           Connect, SendHello, Handshaken, NotAcknowledged, AttemptFails, SendFilter, Registered,
           RegisterThrows
  <2>2. disabled' = disabled
    BY <1>1 DEF Step, Lock, SkipWindows, CreateRyuk, StartRyuk, InspectRyuk, DaemonThrows, NoPort,
           Connect, SendHello, Send, Handshaken, NotAcknowledged, AttemptFails, SendFilter,
           Registered, RegisterThrows
  <2>3. disabled => Lock(t)
    BY <1>1, <2>1 DEF Step, Lock, SkipWindows, CreateRyuk, StartRyuk, InspectRyuk, DaemonThrows,
           NoPort, Connect, SendHello, Handshaken, NotAcknowledged, AttemptFails, SendFilter,
           Registered, RegisterThrows
  <2> QED BY <2>2, <2>3 DEF Lock
<1>2. ASSUME NEW t \in Threads, Call(t) \/ Create(t) PROVE OffInv'
  BY <1>2 DEF Call, Create
<1>3. CASE Crash
  BY <1>3 DEF Crash
<1>4. ASSUME NEW r \in Ryuks, Serve(r) \/ Reap(r) \/ Lose(r) PROVE OffInv'
  <2>1. ryuk[r] # "none"
    BY <1>4 DEF Serve, Reap, Lose, Ownership, LinkInv
  <2> QED BY <1>4, <2>1 DEF Serve, Reap, Lose
<1> QED BY <1>1, <1>2, <1>3, <1>4 DEF Next

\* A Ryuk without an entry is told the session, and nothing else.
LEMMA SessionNext ==
  ASSUME Inv, FreshInv, SessionInv, Next
  PROVE  SessionInv'
<1> USE ReaperAssumption DEF threadVars, ryukVars, Goto
<1>0. TypeOK /\ EntryInv
  BY DEF Inv, Ownership
<1>1. CASE UNCHANGED <<daemons, host, known, inbox>>
  BY <1>1 DEF SessionInv
<1>2. ASSUME NEW t \in Threads, SkipWindows(t) PROVE SessionInv'
  <2>1. /\ daemons' = [daemons EXCEPT ![call[t].ep] = Skipped] /\ UNCHANGED <<host, known, inbox>>
        /\ daemons[call[t].ep] = Absent
    BY <1>2 DEF SkipWindows, Inv, Ownership, BootInv
  <2>2. \A r \in Ryuks : daemons'[host[r]] # r => daemons[host[r]] # r
    BY <1>0, <2>1 DEF TypeOK
  <2> QED BY <2>1, <2>2 DEF SessionInv
<1>3. ASSUME NEW t \in Threads, CreateRyuk(t) PROVE SessionInv'
  <2>1. PICK r \in Ryuks : ryuk[r] = "none" /\ host' = [host EXCEPT ![r] = call[t].ep]
    BY <1>3 DEF CreateRyuk
  <2>2. UNCHANGED <<daemons, known, inbox>>
    BY <1>3 DEF CreateRyuk
  <2>3. known[r] = {} /\ inbox[r] = <<>> /\ DOMAIN inbox[r] = {}
    BY <2>1 DEF FreshInv, Fresh, Blank
  <2> QED BY <1>0, <2>1, <2>2, <2>3 DEF SessionInv, TypeOK
<1>4. ASSUME NEW t \in Threads, Handshaken(t) PROVE SessionInv'
  <2>1. booting[t] \in Ryuks /\ daemons[call[t].ep] = Absent /\ host[booting[t]] = call[t].ep
    BY <1>4 DEF Handshaken, Inv, Ownership, BootInv, Booting
  <2>2. /\ daemons' = [daemons EXCEPT ![call[t].ep] = booting[t]]
        /\ UNCHANGED <<host, known, inbox>>
    BY <1>4 DEF Handshaken
  <2>3. \A r \in Ryuks : daemons'[host[r]] # r => daemons[host[r]] # r
    BY <1>0, <2>1, <2>2 DEF TypeOK
  <2> QED BY <2>2, <2>3 DEF SessionInv
<1>5. ASSUME NEW t \in Threads, NotAcknowledged(t) \/ AttemptFails(t) PROVE SessionInv'
  <2>1. booting[t] \in Ryuks /\ Close(booting[t]) /\ UNCHANGED <<daemons, host, known>>
    BY <1>5 DEF NotAcknowledged, AttemptFails, Inv, Ownership, BootInv, Booting
  <2>2. \A q \in Ryuks : \A i \in DOMAIN inbox'[q] :
          i \in DOMAIN inbox[q] /\ inbox'[q][i].line = inbox[q][i].line
    BY <1>0, <2>1, CloseQuiet
  <2> QED BY <2>1, <2>2 DEF SessionInv
<1>6. ASSUME NEW t \in Threads, SendHello(t) PROVE SessionInv'
  <2>1. booting[t] \in Ryuks /\ Session \in Lines /\ UNCHANGED <<daemons, host, known>>
    BY <1>6 DEF SendHello, Send, Inv, Ownership, BootInv, Booting, Lines
  <2>2. PICK n \in Nat :
          /\ DOMAIN inbox'[booting[t]] = DOMAIN inbox[booting[t]] \cup {n}
          /\ inbox'[booting[t]][n] = [line |-> Session, live |-> TRUE]
          /\ \A i \in DOMAIN inbox[booting[t]] : inbox'[booting[t]][i] = inbox[booting[t]][i]
          /\ \A q \in Ryuks : q # booting[t] => inbox'[q] = inbox[q]
    BY <1>0, <1>6, <2>1, SendLast DEF SendHello
  <2>3. inbox'[booting[t]][n].line = Session
    BY <2>2
  <2> QED BY <2>1, <2>2, <2>3 DEF SessionInv
<1>7. ASSUME NEW t \in Threads, SendFilter(t) PROVE SessionInv'
  <2>1. /\ daemons[Env] \in Ryuks /\ call[t].line \in Lines /\ UNCHANGED <<daemons, host, known>>
        /\ host[daemons[Env]] = Env
    BY <1>0, <1>7 DEF SendFilter, Send, Inv, Ownership, CallInv, EntryInv, TypeOK
  <2>2. \A q \in Ryuks : q # daemons[Env] => inbox'[q] = inbox[q]
    BY <1>0, <1>7 DEF SendFilter, Send, TypeOK
  <2> QED BY <2>1, <2>2 DEF SessionInv
<1>8. ASSUME NEW r \in Ryuks, Serve(r) PROVE SessionInv'
  <2>1. /\ 1 \in DOMAIN inbox[r] /\ Head(inbox[r]) = inbox[r][1]
        /\ \A i \in DOMAIN inbox'[r] : i + 1 \in DOMAIN inbox[r] /\ inbox'[r][i] = inbox[r][i + 1]
        /\ \A q \in Ryuks : q # r => inbox'[q] = inbox[q] /\ known'[q] = known[q]
    BY <1>0, <1>8, ServeFirst
  <2>2. /\ known'[r] \in {known[r], known[r] \cup {Head(inbox[r]).line}}
        /\ UNCHANGED <<daemons, host>>
    BY <1>0, <1>8 DEF Serve, TypeOK
  <2> QED BY <2>1, <2>2 DEF SessionInv
<1>9. ASSUME NEW t \in Threads, Step(t)
      PROVE  \/ SkipWindows(t) \/ CreateRyuk(t) \/ Handshaken(t) \/ SendHello(t) \/ SendFilter(t)
             \/ NotAcknowledged(t) \/ AttemptFails(t) \/ UNCHANGED <<daemons, host, known, inbox>>
  BY <1>9 DEF Step, Lock, StartRyuk, InspectRyuk, DaemonThrows, NoPort, Connect, Registered,
              RegisterThrows
<1>10. ASSUME \/ \E t \in Threads : Call(t) \/ Create(t)
              \/ Crash
              \/ \E r \in Ryuks : Reap(r) \/ Lose(r)
       PROVE  UNCHANGED <<daemons, host, known, inbox>>
  BY <1>10 DEF Call, Create, Crash, Reap, Lose
<1> QED BY <1>1, <1>2, <1>3, <1>4, <1>5, <1>6, <1>7, <1>8, <1>9, <1>10 DEF Next

\* An entry reports the session first, and every line once.
LEMMA FilterNext ==
  ASSUME Inv, FilterInv, RecordInv, Next
  PROVE  FilterInv'
<1> USE ReaperAssumption DEF threadVars, ryukVars, Goto, Leave, Throw
<1>0. TypeOK /\ EntryInv
  BY DEF Inv, Ownership
<1>1. ASSUME NEW t \in Threads, Step(t) PROVE FilterInv'
  <2> USE DEF Booting, Inside
  <2>0. /\ ThreadOwns(t) /\ call' = call
        /\ \A u \in Threads \ {t} : pc'[u] \notin Inside /\ pc[u] \notin Inside
    BY <1>1, Alone, OwnsBefore
  <2>1. CASE SkipWindows(t)
    BY <1>0, <2>0, <2>1 DEF SkipWindows, FilterInv, TypeOK, ThreadOwns
  <2>2. CASE CreateRyuk(t)
    <3>1. PICK r \in Ryuks : /\ ryuk[r] = "none"
                            /\ ryuk' = [ryuk EXCEPT ![r] = "created"]
                            /\ host' = [host EXCEPT ![r] = call[t].ep]
      BY <2>2 DEF CreateRyuk
    <3>2. /\ call[t].ep \notin WindowsEngines /\ UNCHANGED <<daemons, filters>>
          /\ pc' = [pc EXCEPT ![t] = "start"]
      BY <2>2 DEF CreateRyuk
    <3> QED BY <1>0, <2>0, <3>1, <3>2 DEF FilterInv, TypeOK
  <2>3. CASE Handshaken(t)
    <3>1. PICK r \in Ryuks : r = booting[t] /\ host[r] = call[t].ep /\ daemons[call[t].ep] = Absent
      BY <2>0, <2>3 DEF Handshaken, ThreadOwns
    <3>2. /\ daemons' = [daemons EXCEPT ![call[t].ep] = r]
          /\ filters' = [filters EXCEPT ![r] = <<Session>>] /\ UNCHANGED <<host, ryuk>>
          /\ pc'[t] = "granted" \/ (pc'[t] = "write" /\ call[t].line # Session)
      BY <1>0, <2>3, <3>1 DEF Handshaken, TypeOK
    <3>3. ToSet(<<Session>>) = {Session} /\ IsInjective(<<Session>>)
      BY ToSetSmall
    <3>4. filters'[r] = <<Session>> /\ \A q \in Ryuks : q # r => filters'[q] = filters[q]
      BY <1>0, <3>2 DEF TypeOK
    <3>5. daemons'[call[t].ep] = r /\ \A e \in Endpoints : e # call[t].ep => daemons'[e] = daemons[e]
      BY <1>0, <3>2 DEF TypeOK
    <3>6. \A e \in Endpoints : e # call[t].ep => daemons[e] # r
      BY <1>0, <3>1 DEF EntryInv
    <3>7. call[t].line # Session => call[t].ep = Env
      BY <2>0 DEF ThreadOwns
    <3>8. \A e \in Endpoints : daemons'[e] \in Ryuks => Session \in ToSet(filters'[daemons'[e]])
      BY <3>3, <3>4, <3>5, <3>6 DEF FilterInv
    <3>9. /\ \A e \in Endpoints : daemons'[e] = Skipped => e \in WindowsEngines
          /\ \A q \in Ryuks : IsInjective(filters'[q])
      BY <3>1, <3>3, <3>4, <3>5 DEF FilterInv
    <3>10. pc'[t] \in {"write", "reply"} => call'[t].line \notin ToSet(filters'[daemons'[Env]])
      BY <2>0, <3>2, <3>3, <3>4, <3>5, <3>7
    <3> QED BY <2>0, <3>2, <3>8, <3>9, <3>10 DEF FilterInv
  <2>4. CASE Registered(t)
    <3>1. /\ daemons[Env] \in Ryuks /\ call[t].line \in Lines
          /\ filters' = [filters EXCEPT ![daemons[Env]] = Append(@, call[t].line)]
          /\ call[t].line \notin ToSet(filters[daemons[Env]])
          /\ pc' = [pc EXCEPT ![t] = "granted"] /\ UNCHANGED <<daemons, host, ryuk>>
      BY <1>0, <2>0, <2>4 DEF Registered, FilterInv, ThreadOwns, TypeOK
    <3>2. /\ ToSet(Append(filters[daemons[Env]], call[t].line))
               = ToSet(filters[daemons[Env]]) \cup {call[t].line}
          /\ IsInjective(Append(filters[daemons[Env]], call[t].line))
      <4>1. filters[daemons[Env]] \in Seq(Lines) /\ IsInjective(filters[daemons[Env]])
        BY <1>0, <3>1 DEF FilterInv, TypeOK
      <4>2. call[t].line \notin ToSet(filters[daemons[Env]])
        BY <3>1
      <4>3. ToSet(Append(filters[daemons[Env]], call[t].line))
              = ToSet(filters[daemons[Env]]) \cup {call[t].line}
        BY <3>1, <4>1, ToSetAppend
      <4>4. IsInjective(Append(filters[daemons[Env]], call[t].line))
        BY <3>1, <4>1, <4>2, InjectiveAppend
      <4> QED BY <4>3, <4>4
    <3>3. \A q \in Ryuks : IsInjective(filters'[q]) /\ ToSet(filters[q]) \subseteq ToSet(filters'[q])
      BY <1>0, <3>1, <3>2 DEF FilterInv, TypeOK
    <3> QED BY <1>0, <2>0, <3>1, <3>3 DEF FilterInv, TypeOK
  <2>5. CASE Lock(t)
    <3>1. UNCHANGED <<daemons, filters, host, ryuk>>
      BY <2>5 DEF Lock
    <3>2. /\ pc'[t] \in {"granted", "boot", "write"}
          /\ pc'[t] = "write" => daemons[call[t].ep] \notin {Absent} /\ ~Served(t, daemons[call[t].ep])
      BY <1>0, <2>5 DEF Lock, TypeOK
    <3>3. pc'[t] = "write" => call[t].line \notin ToSet(filters[daemons[Env]])
      BY <2>0, <3>2 DEF Served, ThreadOwns
    <3> QED BY <2>0, <3>1, <3>2, <3>3 DEF FilterInv
  <2>6. ASSUME UNCHANGED <<daemons, filters, host>>,
               \A r \in Ryuks : ryuk'[r] # "none" => ryuk[r] # "none",
               pc'[t] \in Booting => pc[t] \in Booting,
               pc'[t] \in {"write", "reply"} => pc[t] \in {"write", "reply"}
        PROVE  FilterInv'
    BY <2>0, <2>6 DEF FilterInv
  <2>7. CASE StartRyuk(t) \/ InspectRyuk(t) \/ DaemonThrows(t)
    <3>1. \/ ryuk' = ryuk
          \/ pc[t] = "start" /\ ryuk' = [ryuk EXCEPT ![booting[t]] = "running"]
      BY <2>7 DEF StartRyuk, InspectRyuk, DaemonThrows
    <3>2. /\ UNCHANGED <<daemons, filters, host>>
          /\ pc'[t] = "idle" \/ (pc[t] \in Booting /\ pc'[t] \in Booting)
      BY <1>0, <2>7 DEF StartRyuk, InspectRyuk, DaemonThrows, TypeOK
    <3> QED BY <1>0, <2>0, <2>6, <3>1, <3>2 DEF TypeOK, ThreadOwns
  <2>8. CASE NoPort(t) \/ NotAcknowledged(t) \/ AttemptFails(t)
    <3>1. ryuk' = ryuk \/ ryuk' = [ryuk EXCEPT ![booting[t]] = "gone"]
      BY <2>8 DEF NoPort, NotAcknowledged, AttemptFails, Kill
    <3>2. /\ UNCHANGED <<daemons, filters, host>> /\ pc[t] \in Booting
          /\ pc'[t] \in {"idle", "connect"}
      BY <1>0, <2>8 DEF NoPort, NotAcknowledged, AttemptFails, TypeOK
    <3> QED BY <1>0, <2>0, <2>6, <3>1, <3>2 DEF TypeOK, ThreadOwns
  <2>9. CASE Connect(t) \/ SendHello(t) \/ SendFilter(t) \/ RegisterThrows(t)
    BY <1>0, <2>6, <2>9 DEF Connect, SendHello, SendFilter, Send, RegisterThrows, TypeOK
  <2> QED BY <1>1, <2>1, <2>2, <2>3, <2>4, <2>5, <2>7, <2>8, <2>9 DEF Step
<1>2. ASSUME NEW t \in Threads, Call(t) PROVE FilterInv'
  BY <1>0, <1>2 DEF Call, FilterInv, TypeOK, Booting
<1>3. ASSUME NEW t \in Threads, Create(t) PROVE FilterInv'
  BY <1>0, <1>3 DEF Create, FilterInv, TypeOK, Booting
<1>4. CASE Crash
  BY <1>4 DEF Crash, FilterInv, Booting
<1>5. ASSUME NEW r \in Ryuks, Serve(r) \/ Reap(r) \/ Lose(r) PROVE FilterInv'
  <2>1. ryuk[r] # "none" /\ (ryuk' = ryuk \/ ryuk' = [ryuk EXCEPT ![r] = "gone"])
    BY <1>5 DEF Serve, Reap, Lose, Inv, Ownership, LinkInv
  <2>2. UNCHANGED <<daemons, filters, host, pc, call>>
    BY <1>5 DEF Serve, Reap, Lose
  <2> QED BY <1>0, <2>1, <2>2 DEF FilterInv, TypeOK
<1> QED BY <1>1, <1>2, <1>3, <1>4, <1>5 DEF Next

-----------------------------------------------------------------------------
(* Where no answer is late.                                                *)

\* While its thread waits, an answer is on its way; otherwise nothing is, unless on the
\* connection of an entry that has been cut. An answer that is late breaks this.
LEMMA AnswerStep ==
  ASSUME Inv, FreshInv, AnswerInv, "slow" \notin Faults, NEW t \in Threads, alive, Step(t)
  PROVE  AnswerInv'
<1> USE ReaperAssumption DEF threadVars, ryukVars, Goto, Leave, Throw, Booting, Inside
<1>0. /\ TypeOK /\ EntryInv /\ ThreadOwns(t) /\ call' = call
      /\ \A u \in Threads \ {t} : pc'[u] \notin Inside /\ pc[u] \notin Inside
  BY Alone, OwnsBefore DEF Inv, Ownership
<1>1. /\ \A r \in Ryuks, l \in Lines : Awaits(t, r, l) => OnItsWay(r, l)
      /\ \A r \in Ryuks : (\A l \in Lines : ~Awaits(t, r, l)) => Quiet(r) \/ Cut(r)
  BY <1>0 DEF AnswerInv, Awaits
<1> SUFFICES /\ \A r \in Ryuks, l \in Lines : Awaits(t, r, l)' => OnItsWay(r, l)'
             /\ \A r \in Ryuks : (\A l \in Lines : ~Awaits(t, r, l)') => Quiet(r)' \/ Cut(r)'
  BY <1>0 DEF AnswerInv, Awaits
\* Steps that neither send nor read.
<1>2. ASSUME pc[t] \notin {"ack", "reply"}, pc'[t] \notin {"ack", "reply"},
             \A r \in Ryuks : Quiet(r) \/ Cut(r) => Quiet(r)' \/ Cut(r)'
      PROVE  /\ \A r \in Ryuks, l \in Lines : Awaits(t, r, l)' => OnItsWay(r, l)'
             /\ \A r \in Ryuks : (\A l \in Lines : ~Awaits(t, r, l)') => Quiet(r)' \/ Cut(r)'
  BY <1>1, <1>2 DEF Awaits
<1>3. ASSUME UNCHANGED <<inbox, replies>> PROVE \A r \in Ryuks : Quiet(r) => Quiet(r)'
  BY <1>3 DEF Quiet, Live
<1>4. CASE Lock(t) \/ StartRyuk(t) \/ InspectRyuk(t) \/ DaemonThrows(t) \/ NoPort(t)
  <2>1. /\ UNCHANGED <<inbox, replies, daemons, host, link>>
        /\ pc[t] \notin {"ack", "reply"} /\ pc'[t] \notin {"ack", "reply"}
    BY <1>0, <1>4 DEF Lock, StartRyuk, InspectRyuk, DaemonThrows, NoPort, TypeOK
  <2> QED BY <1>2, <1>3, <2>1 DEF Cut
<1>5. CASE SkipWindows(t)
  <2>1. /\ UNCHANGED <<inbox, replies, host, link>> /\ daemons[call[t].ep] = Absent
        /\ daemons' = [daemons EXCEPT ![call[t].ep] = Skipped]
        /\ pc[t] \notin {"ack", "reply"} /\ pc'[t] \notin {"ack", "reply"}
    BY <1>0, <1>5 DEF SkipWindows, TypeOK, ThreadOwns
  <2>2. \A r \in Ryuks : Cut(r) => Cut(r)'
    BY <1>0, <2>1 DEF Cut, TypeOK
  <2> QED BY <1>2, <1>3, <2>1, <2>2
<1>6. CASE CreateRyuk(t)
  <2>1. PICK r \in Ryuks : ryuk[r] = "none" /\ host' = [host EXCEPT ![r] = call[t].ep]
    BY <1>6 DEF CreateRyuk
  <2>2. /\ UNCHANGED <<inbox, replies, daemons, link>>
        /\ pc[t] \notin {"ack", "reply"} /\ pc'[t] \notin {"ack", "reply"}
    BY <1>0, <1>6 DEF CreateRyuk, TypeOK
  <2>3. inbox[r] = <<>> /\ replies[r] = <<>> /\ DOMAIN inbox[r] = {}
    BY <2>1 DEF FreshInv, Fresh, Blank
  <2>4. Quiet(r)
    BY <2>3 DEF Quiet, Live
  <2>5. \A q \in Ryuks : q # r /\ Cut(q) => Cut(q)'
    BY <1>0, <2>1, <2>2 DEF Cut, TypeOK
  <2> QED BY <1>2, <1>3, <2>2, <2>4, <2>5
<1>7. pc[t] \in {"connect", "hello"} => /\ booting[t] \in Ryuks /\ Quiet(booting[t])
                                        /\ daemons[host[booting[t]]] = Absent
  BY <1>0, <1>1 DEF ThreadOwns, Cut, Awaits
<1>8. CASE Connect(t)
  <2>1. /\ UNCHANGED <<inbox, replies, daemons, host>>
        /\ link' = [link EXCEPT ![booting[t]] = "open"]
        /\ pc[t] = "connect" /\ pc'[t] = "hello"
    BY <1>0, <1>8 DEF Connect, TypeOK
  <2>2. \A q \in Ryuks : Cut(q) => Cut(q)'
    BY <1>0, <1>7, <2>1 DEF Cut, TypeOK
  <2> QED BY <1>2, <1>3, <2>1, <2>2
\* Sending, on a quiet connection.
<1>9. ASSUME NEW r \in Ryuks, NEW l \in Lines, Send(t, r, l), Quiet(r), pc[t] \notin {"ack", "reply"},
             \A q \in Ryuks, k \in Lines : Awaits(t, q, k)' <=> (q = r /\ k = l)
      PROVE  /\ \A q \in Ryuks, k \in Lines : Awaits(t, q, k)' => OnItsWay(q, k)'
             /\ \A q \in Ryuks : (\A k \in Lines : ~Awaits(t, q, k)') => Quiet(q)' \/ Cut(q)'
  <2>1. UNCHANGED <<replies, daemons, host, link>>
    BY <1>9 DEF Send
  <2>2. PICK n \in Nat :
          /\ n \in DOMAIN inbox'[r] /\ inbox'[r][n] = [line |-> l, live |-> TRUE]
          /\ \A q \in Ryuks : q # r => inbox'[q] = inbox[q]
          /\ Live(r)' = Live(r) \cup {n}
    BY <1>0, <1>9, SendLast
  <2>3. OnItsWay(r, l)'
    <3>1. Live(r)' = {n} /\ inbox'[r][n].line = l /\ replies'[r] = <<>>
      BY <1>9, <2>1, <2>2 DEF Quiet
    <3> QED BY <2>2, <3>1 DEF OnItsWay
  <2>4. \A q \in Ryuks : q # r /\ (Quiet(q) \/ Cut(q)) => Quiet(q)' \/ Cut(q)'
    BY <2>1, <2>2 DEF Quiet, Live, Cut
  <2>5. \A q \in Ryuks : Quiet(q) \/ Cut(q)
    BY <1>1, <1>9 DEF Awaits
  <2> QED BY <1>9, <2>3, <2>4, <2>5
<1>10. CASE SendHello(t)
  <2>1. /\ pc[t] = "hello" /\ pc'[t] = "ack" /\ booting'[t] = booting[t]
        /\ Send(t, booting[t], Session)
    BY <1>0, <1>10 DEF SendHello, Send, TypeOK
  <2>2. Session \in Lines /\ booting[t] \in Ryuks /\ Quiet(booting[t])
    BY <1>7, <2>1 DEF Lines
  <2>3. \A q \in Ryuks, k \in Lines : Awaits(t, q, k)' <=> (q = booting[t] /\ k = Session)
    BY <2>1 DEF Awaits
  <2> QED BY <1>9, <2>1, <2>2, <2>3
<1>11. CASE SendFilter(t)
  <2>1. /\ pc[t] = "write" /\ pc'[t] = "reply" /\ daemons' = daemons
        /\ Send(t, daemons[Env], call[t].line)
    BY <1>0, <1>11 DEF SendFilter, Send, TypeOK
  <2>2. call[t].line \in Lines /\ daemons[Env] \in Ryuks /\ Quiet(daemons[Env])
    BY <1>0, <1>1, <2>1 DEF ThreadOwns, TypeOK, Send, Awaits, Cut
  <2>3. \A q \in Ryuks, k \in Lines : Awaits(t, q, k)' <=> (q = daemons[Env] /\ k = call[t].line)
    BY <1>0, <2>1 DEF Awaits
  <2> QED BY <1>9, <2>1, <2>2, <2>3
\* Reading the answer that was on its way.
<1>12. ASSUME NEW r \in Ryuks, NEW l \in Lines, NEW b \in BOOLEAN, Awaits(t, r, l), ReadReply(r, b),
              inbox' = inbox
       PROVE  Quiet(r)' /\ \A q \in Ryuks : q # r => (Quiet(q) => Quiet(q)')
  <2>1. /\ replies[r] # <<>> /\ \A q \in Ryuks : q # r => replies'[q] = replies[q]
        /\ \A c \in BOOLEAN : replies[r] = <<c>> => replies'[r] = <<>>
    BY <1>0, <1>12, ReadLess
  <2>2. OnItsWay(r, l)
    BY <1>1, <1>12
  <2>3. Live(r) = {} /\ \E c \in BOOLEAN : replies[r] = <<c>>
    BY <2>1, <2>2 DEF OnItsWay, Quiet
  <2> QED BY <1>12, <2>1, <2>3 DEF Quiet, Live
\* Steps that end the wait for r.
<1>13. ASSUME NEW r \in Ryuks, Quiet(r)' \/ Cut(r)', pc'[t] \notin {"ack", "reply"},
              \A q \in Ryuks \ {r} : ~(\E l \in Lines : Awaits(t, q, l)),
              \A q \in Ryuks \ {r} : Quiet(q) \/ Cut(q) => Quiet(q)' \/ Cut(q)'
       PROVE  /\ \A q \in Ryuks, k \in Lines : Awaits(t, q, k)' => OnItsWay(q, k)'
              /\ \A q \in Ryuks : (\A k \in Lines : ~Awaits(t, q, k)') => Quiet(q)' \/ Cut(q)'
  BY <1>1, <1>13 DEF Awaits
<1>14. CASE Handshaken(t)
  <2>0. PICK r \in Ryuks : r = booting[t]
    BY <1>0, <1>14 DEF Handshaken, ThreadOwns
  <2>1. /\ daemons[call[t].ep] = Absent /\ Session \in Lines
        /\ daemons' = [daemons EXCEPT ![call[t].ep] = r]
        /\ UNCHANGED <<inbox, host, link>> /\ ReadReply(r, TRUE)
        /\ pc[t] = "ack" /\ pc'[t] \notin {"ack", "reply"}
    BY <1>0, <1>14, <2>0 DEF Handshaken, ThreadOwns, TypeOK, Lines
  <2>2. Awaits(t, r, Session) /\ \A q \in Ryuks, l \in Lines : Awaits(t, q, l) => q = r
    BY <2>0, <2>1 DEF Awaits
  <2>3. \A q \in Ryuks : Cut(q) => Cut(q)'
    BY <1>0, <2>1 DEF Cut, TypeOK
  <2>4. Quiet(r)' /\ \A q \in Ryuks : q # r => (Quiet(q) => Quiet(q)')
    BY <1>12, <2>1, <2>2
  <2> QED BY <1>13, <2>1, <2>2, <2>3, <2>4
<1>15. CASE Registered(t) \/ RegisterThrows(t)
  <2>0. PICK r \in Ryuks : r = daemons[Env]
    BY <1>0, <1>15 DEF Registered, RegisterThrows, ThreadOwns
  <2>1. /\ UNCHANGED <<inbox, daemons, host, link>> /\ call[t].line \in Lines
        /\ daemons[host[r]] = r
        /\ pc[t] \in {"write", "reply"} /\ pc'[t] \notin {"ack", "reply"}
    <3>1. /\ UNCHANGED <<inbox, daemons, host, link>>
          /\ pc[t] \in {"write", "reply"} /\ pc'[t] \notin {"ack", "reply"}
      BY <1>0, <1>15 DEF Registered, RegisterThrows, TypeOK
    <3>2. call[t].line \in Lines /\ host[r] = Env
      BY <1>0, <2>0 DEF TypeOK, EntryInv
    <3> QED BY <2>0, <3>1, <3>2
  <2>2. /\ \A q \in Ryuks, l \in Lines : Awaits(t, q, l) => q = r
        /\ pc[t] = "reply" => Awaits(t, r, call[t].line)
    BY <2>0, <2>1 DEF Awaits
  <2>3. \/ \E b \in BOOLEAN : pc[t] = "reply" /\ ReadReply(r, b)
        \/ replies' = replies /\ link[r] # "open"
    BY <1>15, <2>0 DEF Registered, RegisterThrows
  <2>4. \A q \in Ryuks : Cut(q) => Cut(q)'
    BY <2>1 DEF Cut
  <2>5. CASE \E b \in BOOLEAN : pc[t] = "reply" /\ ReadReply(r, b)
    <3>1. Quiet(r)' /\ \A q \in Ryuks : q # r => (Quiet(q) => Quiet(q)')
      BY <1>12, <2>1, <2>2, <2>5
    <3> QED BY <1>13, <2>1, <2>2, <2>4, <3>1
  <2>6. CASE replies' = replies /\ link[r] # "open"
    <3>1. Cut(r)'
      BY <2>1, <2>6 DEF Cut
    <3> QED BY <1>3, <1>13, <2>1, <2>2, <2>4, <2>6, <3>1
  <2> QED BY <2>3, <2>5, <2>6
<1>16. CASE NotAcknowledged(t) \/ AttemptFails(t)
  <2>0. PICK r \in Ryuks : r = booting[t]
    BY <1>0, <1>16 DEF NotAcknowledged, AttemptFails, ThreadOwns
  <2>1. /\ Close(r) /\ UNCHANGED <<daemons, host>>
        /\ pc[t] \in {"connect", "hello", "ack"} /\ pc'[t] \notin {"ack", "reply"}
    BY <1>0, <1>16, <2>0 DEF NotAcknowledged, AttemptFails, ThreadOwns, TypeOK
  <2>2. \A q \in Ryuks, l \in Lines : Awaits(t, q, l) => q = r
    BY <2>0, <2>1 DEF Awaits
  <2>3. Quiet(r)'
    BY <1>0, <2>1, CloseQuiet
  <2>4. \A q \in Ryuks : q # r => inbox'[q] = inbox[q] /\ replies'[q] = replies[q] /\ link'[q] = link[q]
    BY <1>0, <2>1, CloseQuiet
  <2>5. \A q \in Ryuks \ {r} : Quiet(q) \/ Cut(q) => Quiet(q)' \/ Cut(q)'
    BY <2>1, <2>4 DEF Quiet, Live, Cut
  <2> QED BY <1>13, <2>1, <2>2, <2>3, <2>5
<1> QED BY <1>4, <1>5, <1>6, <1>8, <1>10, <1>11, <1>14, <1>15, <1>16 DEF Step

\* Ryuk turns the line that is on its way into the answer that is; what it reads of an earlier
\* connection it does not answer.
LEMMA AnswerOther ==
  ASSUME Inv, AnswerInv, \/ \E t \in Threads : Call(t) \/ Create(t)
                         \/ Crash
                         \/ \E r \in Ryuks : Serve(r) \/ Reap(r) \/ Lose(r)
  PROVE  AnswerInv'
<1> USE ReaperAssumption DEF threadVars, ryukVars, Goto
<1>0. TypeOK
  BY DEF Inv
<1>1. ASSUME NEW t \in Threads, Call(t) \/ Create(t) PROVE AnswerInv'
  <2>1. /\ UNCHANGED <<alive, booting, daemons, host, link, inbox, replies, known>>
        /\ pc[t] \in {"idle", "granted"} /\ pc'[t] \in {"idle", "lock"}
        /\ \A u \in Threads \ {t} : pc'[u] = pc[u] /\ call'[u] = call[u]
    BY <1>0, <1>1 DEF Call, Create, TypeOK
  <2>2. \A u \in Threads, r \in Ryuks, l \in Lines : Awaits(u, r, l)' <=> Awaits(u, r, l)
    BY <2>1 DEF Awaits
  <2>3. \A r \in Ryuks : (Quiet(r)' <=> Quiet(r)) /\ (Cut(r)' <=> Cut(r))
    BY <2>1 DEF Quiet, Live, Cut
  <2>4. \A r \in Ryuks, l \in Lines : OnItsWay(r, l)' <=> OnItsWay(r, l)
    BY <2>1 DEF OnItsWay, Quiet, Live
  <2> QED BY <2>1, <2>2, <2>3, <2>4 DEF AnswerInv
<1>2. CASE Crash
  BY <1>2 DEF Crash, AnswerInv
<1>3. ASSUME NEW r \in Ryuks, Reap(r) \/ Lose(r) PROVE AnswerInv'
  <2>1. /\ UNCHANGED <<alive, pc, call, booting, daemons, host, inbox, replies, known>>
        /\ \A q \in Ryuks : link'[q] = "open" => link[q] = "open"
    BY <1>0, <1>3 DEF Reap, Lose, TypeOK
  <2>2. \A u \in Threads, q \in Ryuks, l \in Lines : Awaits(u, q, l)' <=> Awaits(u, q, l)
    BY <2>1 DEF Awaits
  <2>3. \A q \in Ryuks : (Quiet(q)' <=> Quiet(q)) /\ (Cut(q) => Cut(q)')
    BY <2>1 DEF Quiet, Live, Cut
  <2>4. \A q \in Ryuks, l \in Lines : OnItsWay(q, l)' <=> OnItsWay(q, l)
    BY <2>1 DEF OnItsWay, Quiet, Live
  <2> QED BY <2>1, <2>2, <2>3, <2>4 DEF AnswerInv
<1>4. ASSUME NEW r \in Ryuks, Serve(r) PROVE AnswerInv'
  <2>1. UNCHANGED <<alive, pc, call, booting, daemons, host, link>>
    BY <1>4 DEF Serve
  <2>2. /\ 1 \in DOMAIN inbox[r] /\ Head(inbox[r]) = inbox[r][1] /\ inbox[r][1] \in Message
        /\ \A i \in DOMAIN inbox'[r] :
             i \in Nat \ {0} /\ i + 1 \in DOMAIN inbox[r] /\ inbox'[r][i] = inbox[r][i + 1]
        /\ \A i \in DOMAIN inbox[r] : i = 1 \/ i - 1 \in DOMAIN inbox'[r]
        /\ DOMAIN inbox[r] \subseteq Nat
        /\ \A q \in Ryuks : q # r => inbox'[q] = inbox[q] /\ replies'[q] = replies[q] /\ known'[q] = known[q]
    BY <1>0, <1>4, ServeFirst
  <2>3. \A u \in Threads, q \in Ryuks, l \in Lines : Awaits(u, q, l)' <=> Awaits(u, q, l)
    BY <2>1 DEF Awaits
  <2>4. \A q \in Ryuks : q # r => (Quiet(q)' <=> Quiet(q))
    BY <2>2 DEF Quiet, Live
  <2>5. \A q \in Ryuks : Cut(q)' <=> Cut(q)
    BY <2>1 DEF Cut
  <2>6. \A q \in Ryuks, l \in Lines : q # r /\ OnItsWay(q, l) => OnItsWay(q, l)'
    BY <2>2 DEF OnItsWay, Quiet, Live
  <2>8. \E b \in BOOLEAN :
          /\ replies'[r] = IF inbox[r][1].live /\ link[r] = "open" THEN Append(replies[r], b) ELSE replies[r]
          /\ known[r] \subseteq known'[r] /\ (b => inbox[r][1].line \in known'[r])
    <3> DEFINE said(b) == replies' = [replies EXCEPT ![r] = IF inbox[r][1].live /\ link[r] = "open"
                                                             THEN Append(@, b) ELSE @]
    <3>1. ASSUME NEW b \in BOOLEAN, said(b)
          PROVE  replies'[r] = IF inbox[r][1].live /\ link[r] = "open" THEN Append(replies[r], b)
                                                                      ELSE replies[r]
      BY <1>0, <3>1 DEF TypeOK
    <3>2. \/ said(TRUE) /\ known' = [known EXCEPT ![r] = @ \cup {inbox[r][1].line}]
          \/ said(FALSE) /\ known' = known
      BY <1>4, <2>2 DEF Serve
    <3> HIDE DEF said
    <3>3. CASE said(TRUE) /\ known' = [known EXCEPT ![r] = @ \cup {inbox[r][1].line}]
      <4>1. known'[r] = known[r] \cup {inbox[r][1].line}
        BY <1>0, <3>3 DEF TypeOK
      <4> WITNESS TRUE \in BOOLEAN
      <4> QED BY <3>1, <3>3, <4>1
    <3>4. CASE said(FALSE) /\ known' = known
      <4> WITNESS FALSE \in BOOLEAN
      <4> QED BY <3>1, <3>4
    <3> QED BY <3>2, <3>3, <3>4
  <2>9. Quiet(r) => Quiet(r)'
    <3> SUFFICES ASSUME Quiet(r) PROVE Quiet(r)'
      OBVIOUS
    <3>1. \A i \in DOMAIN inbox[r] : ~inbox[r][i].live
      BY DEF Quiet, Live
    <3> QED BY <2>2, <2>8, <3>1 DEF Quiet, Live
  <2>10. ASSUME NEW l \in Lines, OnItsWay(r, l) PROVE OnItsWay(r, l)'
    <3>1. CASE Quiet(r)
      BY <2>9, <3>1 DEF OnItsWay
    <3>2. ASSUME replies[r] = <<>>, NEW i \in DOMAIN inbox[r], Live(r) = {i}, inbox[r][i].line = l
          PROVE  OnItsWay(r, l)'
      <4>1. inbox[r][i].live /\ \A j \in DOMAIN inbox[r] : inbox[r][j].live => j = i
        BY <3>2 DEF Live
      <4>2. CASE i = 1
        <5>1. Live(r)' = {}
          BY <2>2, <4>1, <4>2 DEF Live
        <5>2. PICK b \in BOOLEAN :
                /\ replies'[r] = <<>> \/ replies'[r] = Append(<<>>, b)
                /\ b => l \in known'[r]
          BY <2>8, <3>2, <4>2
        <5>3. Append(<<>>, b) = <<b>>
          OBVIOUS
        <5>4. CASE replies'[r] = <<>>
          BY <5>1, <5>4 DEF OnItsWay, Quiet
        <5>5. CASE replies'[r] = <<b>>
          BY <5>1, <5>2, <5>5 DEF OnItsWay
        <5> QED BY <5>2, <5>3, <5>4, <5>5
      <4>3. CASE i # 1
        <5>1. ~inbox[r][1].live
          BY <2>2, <4>1, <4>3
        <5>2. replies'[r] = <<>>
          BY <2>8, <3>2, <5>1
        <5>3. i - 1 \in DOMAIN inbox'[r] /\ i \in Nat
          BY <2>2, <4>3
        <5>4. inbox'[r][i - 1] = inbox[r][i]
          BY <2>2, <5>3
        <5>5. Live(r)' = {i - 1}
          BY <2>2, <4>1, <5>3, <5>4 DEF Live
        <5> QED BY <3>2, <5>2, <5>3, <5>4, <5>5 DEF OnItsWay
      <4> QED BY <4>2, <4>3
    <3>3. ASSUME Live(r) = {}, NEW b \in BOOLEAN, replies[r] = <<b>>, b => l \in known[r]
          PROVE  OnItsWay(r, l)'
      <4>1. \A j \in DOMAIN inbox[r] : ~inbox[r][j].live
        BY <3>3 DEF Live
      <4>2. Live(r)' = {}
        BY <2>2, <4>1 DEF Live
      <4>3. replies'[r] = <<b>> /\ known[r] \subseteq known'[r]
        BY <2>2, <2>8, <3>3, <4>1
      <4> QED BY <3>3, <4>2, <4>3 DEF OnItsWay
    <3> QED BY <2>10, <3>1, <3>2, <3>3 DEF OnItsWay
  <2> QED BY <2>1, <2>3, <2>4, <2>5, <2>6, <2>9, <2>10 DEF AnswerInv
<1> QED BY <1>1, <1>2, <1>3, <1>4

\* An answer that is read as an acknowledgement is the answer to the line that was sent.
LEMMA AcknowledgedKnown ==
  ASSUME Inv, AnswerInv, alive, NEW t \in Threads
  PROVE  /\ Handshaken(t) => booting[t] \in Ryuks /\ Session \in known[booting[t]]
         /\ Registered(t) => daemons[Env] \in Ryuks /\ call[t].line \in known[daemons[Env]]
<1>0. TypeOK /\ Session \in Lines
  BY DEF Inv, Lines
<1>1. ASSUME NEW r \in Ryuks, NEW l \in Lines, Awaits(t, r, l), ReadReply(r, TRUE)
      PROVE  l \in known[r]
  <2>1. OnItsWay(r, l)
    BY <1>1 DEF AnswerInv
  <2>2. replies[r] # <<>> /\ \A c \in BOOLEAN : replies[r] = <<c>> => c = TRUE
    BY <1>0, <1>1, ReadLess
  <2> QED BY <2>1, <2>2 DEF OnItsWay, Quiet
<1>2. Handshaken(t) => booting[t] \in Ryuks /\ Session \in known[booting[t]]
  <2> SUFFICES ASSUME Handshaken(t) PROVE booting[t] \in Ryuks /\ Session \in known[booting[t]]
    OBVIOUS
  <2>1. pc[t] = "ack" /\ ReadReply(booting[t], TRUE) /\ booting[t] \in Ryuks
    BY DEF Handshaken, Inv, Ownership, BootInv, Booting
  <2> QED BY <1>0, <1>1, <2>1 DEF Awaits
<1>3. Registered(t) => daemons[Env] \in Ryuks /\ call[t].line \in known[daemons[Env]]
  <2> SUFFICES ASSUME Registered(t) PROVE daemons[Env] \in Ryuks /\ call[t].line \in known[daemons[Env]]
    OBVIOUS
  <2>1. /\ pc[t] = "reply" /\ ReadReply(daemons[Env], TRUE) /\ daemons[Env] \in Ryuks
        /\ call[t].line \in Lines
    BY <1>0 DEF Registered, Inv, Ownership, CallInv, TypeOK
  <2> QED BY <1>1, <2>1 DEF Awaits
<1> QED BY <1>2, <1>3

\* What Ryuk has registered it does not forget.
LEMMA KnownGrows ==
  ASSUME Inv, Next
  PROVE  \A r \in Ryuks : known[r] \subseteq known'[r]
<1>1. ASSUME NEW t \in Threads, Step(t) PROVE known' = known
  BY <1>1 DEF Step, Lock, SkipWindows, CreateRyuk, StartRyuk, InspectRyuk, DaemonThrows, NoPort,
         Connect, SendHello, Send, Handshaken, NotAcknowledged, AttemptFails, SendFilter,
         Registered, RegisterThrows, ryukVars
<1>2. ASSUME \/ \E t \in Threads : Call(t) \/ Create(t)
             \/ Crash
             \/ \E r \in Ryuks : Reap(r) \/ Lose(r)
      PROVE  known' = known
  BY <1>2 DEF Call, Create, Crash, Reap, Lose, ryukVars
<1>3. ASSUME NEW r \in Ryuks, Serve(r) PROVE \A q \in Ryuks : known[q] \subseteq known'[q]
  <2>1. DOMAIN known = Ryuks
    BY DEF Inv, TypeOK
  <2>2. known' = known \/ \E x : known' = [known EXCEPT ![r] = @ \cup {x}]
    BY <1>3 DEF Serve
  <2> QED BY <2>1, <2>2
<1> QED BY <1>1, <1>2, <1>3 DEF Next

\* What is reported was acknowledged.
LEMMA KnownNext ==
  ASSUME Inv, AnswerInv, KnownInv, Next
  PROVE  KnownInv'
<1>0. TypeOK /\ \A r \in Ryuks : known[r] \subseteq known'[r]
  BY KnownGrows DEF Inv
<1>1. CASE filters' = filters
  BY <1>0, <1>1 DEF KnownInv
<1>2. ASSUME NEW t \in Threads, alive, Handshaken(t) PROVE KnownInv'
  <2>1. /\ booting[t] \in Ryuks /\ Session \in known[booting[t]]
        /\ filters' = [filters EXCEPT ![booting[t]] = <<Session>>]
    BY <1>2, AcknowledgedKnown DEF Handshaken
  <2>2. ToSet(<<Session>>) = {Session}
    BY ToSetSmall
  <2>3. /\ filters'[booting[t]] = <<Session>>
        /\ \A q \in Ryuks : q # booting[t] => filters'[q] = filters[q]
    BY <1>0, <2>1 DEF TypeOK
  <2> QED BY <1>0, <2>1, <2>2, <2>3 DEF KnownInv
<1>3. ASSUME NEW t \in Threads, alive, Registered(t) PROVE KnownInv'
  <2> DEFINE r == daemons[Env]
             l == call[t].line
  <2>1. /\ r \in Ryuks /\ l \in known[r] /\ l \in Lines
        /\ filters' = [filters EXCEPT ![r] = Append(@, l)]
    BY <1>0, <1>3, AcknowledgedKnown DEF Registered, TypeOK
  <2>2. ToSet(Append(filters[r], l)) = ToSet(filters[r]) \cup {l}
    <3>1. filters[r] \in Seq(Lines)
      BY <1>0, <2>1 DEF TypeOK
    <3> QED BY <2>1, <3>1, ToSetAppend
  <2>3. filters'[r] = Append(filters[r], l) /\ \A q \in Ryuks : q # r => filters'[q] = filters[q]
    BY <1>0, <2>1 DEF TypeOK
  <2> HIDE DEF r, l
  <2> QED BY <1>0, <2>1, <2>2, <2>3 DEF KnownInv
<1>4. ASSUME NEW t \in Threads, Step(t) PROVE Handshaken(t) \/ Registered(t) \/ filters' = filters
  BY <1>4 DEF Step, Lock, SkipWindows, CreateRyuk, StartRyuk, InspectRyuk, DaemonThrows, NoPort,
         Connect, SendHello, Send, NotAcknowledged, AttemptFails, SendFilter, RegisterThrows
<1>5. ASSUME \/ \E t \in Threads : Call(t) \/ Create(t)
             \/ Crash
             \/ \E r \in Ryuks : Serve(r) \/ Reap(r) \/ Lose(r)
      PROVE  filters' = filters
  BY <1>5 DEF Call, Create, Crash, Serve, Reap, Lose
<1> QED BY <1>1, <1>2, <1>3, <1>4, <1>5 DEF Next

\* A call is let go only with an entry that watches for its line, and the entry stays.
LEMMA BackedNext ==
  ASSUME Inv, Told, AnswerInv, KnownInv, BackedInv, Next
  PROVE  BackedInv'
<1> USE ReaperAssumption DEF threadVars, ryukVars, Goto, Leave
<1>0. TypeOK /\ EntryInv
  BY DEF Inv, Ownership
<1>1. \A e \in Endpoints : \A ls : Backed(e, ls) => Backed(e, ls)'
  <2>1. EntriesStay /\ \A r \in Ryuks : known[r] \subseteq known'[r]
    BY RecordStep, KnownGrows DEF Told
  <2> QED BY <2>1 DEF Backed, EntriesStay
<1>2. ASSUME disabled' = disabled, resources' \subseteq resources,
             \A t \in Threads : pc'[t] = "granted" => pc[t] = "granted" /\ call'[t] = call[t]
      PROVE  BackedInv'
  <2>1. \A t \in Threads : call[t].ep \in Endpoints
    BY <1>0 DEF TypeOK
  <2>2. \A x \in resources : x.ep \in Endpoints
    BY <1>0 DEF TypeOK
  <2> QED BY <1>1, <1>2, <2>1, <2>2 DEF BackedInv
\* The calls that return.
<1>3. ASSUME NEW t \in Threads, UNCHANGED <<disabled, resources, call>>, Leave(t),
             ~disabled => Backed(call[t].ep, {call[t].line})'
      PROVE  BackedInv'
  <2>1. /\ \A u \in Threads : call[u].ep \in Endpoints
        /\ \A u \in Threads \ {t} : pc'[u] = pc[u]
    BY <1>0, <1>3 DEF TypeOK
  <2>2. \A x \in resources : x.ep \in Endpoints
    BY <1>0 DEF TypeOK
  <2>3. call'[t] = call[t]
    BY <1>3
  <2> QED BY <1>1, <1>3, <2>1, <2>2, <2>3 DEF BackedInv
<1>4. ASSUME NEW t \in Threads, alive, Step(t) PROVE BackedInv'
  <2>1. CASE Lock(t)
    <3>1. UNCHANGED <<disabled, resources, call, daemons, known>>
      BY <2>1 DEF Lock
    <3>2. CASE Leave(t) /\ (disabled \/ (daemons[call[t].ep] # Absent /\ Served(t, daemons[call[t].ep])))
      <4>1. ~disabled => Backed(call[t].ep, {call[t].line})
        <5> SUFFICES ASSUME daemons[call[t].ep] # Absent, Served(t, daemons[call[t].ep])
                     PROVE  Backed(call[t].ep, {call[t].line})
          BY <3>2
        <5>1. daemons[call[t].ep] \in Ryuks \cup {Skipped}
          BY <1>0 DEF TypeOK
        <5>2. CASE daemons[call[t].ep] = Skipped
          BY <1>0, <5>2 DEF Told, FilterInv, TypeOK, Backed
        <5>3. CASE daemons[call[t].ep] \in Ryuks
          <6>1. call[t].line \in ToSet(filters[daemons[call[t].ep]])
            BY <1>0, <5>3 DEF Told, FilterInv, TypeOK, Served
          <6> QED BY <5>3, <6>1 DEF KnownInv, Backed
        <5> QED BY <5>1, <5>2, <5>3
      <4>2. call[t].ep \in Endpoints /\ call'[t] = call[t]
        BY <1>0, <3>1 DEF TypeOK
      <4> QED BY <1>1, <1>3, <3>1, <3>2, <4>1, <4>2
    <3>3. CASE pc' = [pc EXCEPT ![t] = "boot"] \/ pc' = [pc EXCEPT ![t] = "write"]
      BY <1>0, <1>2, <3>1, <3>3 DEF TypeOK
    <3> QED BY <2>1, <3>2, <3>3 DEF Lock
  <2>2. CASE SkipWindows(t)
    <3>1. UNCHANGED <<disabled, resources, call>> /\ Leave(t) /\ call[t].ep \in WindowsEngines
      BY <2>2 DEF SkipWindows
    <3> QED BY <1>3, <3>1 DEF Backed
  <2>3. CASE Handshaken(t)
    <3>1. /\ booting[t] \in Ryuks /\ Session \in known[booting[t]]
          /\ UNCHANGED <<disabled, resources, call, known>>
          /\ daemons' = [daemons EXCEPT ![call[t].ep] = booting[t]]
      BY <2>3, <1>4, AcknowledgedKnown DEF Handshaken, Told
    <3>2. CASE call[t].line = Session
      <4>1. Leave(t) /\ call'[t] = call[t]
        BY <2>3, <3>1, <3>2 DEF Handshaken
      <4>2. daemons'[call[t].ep] = booting[t]
        BY <1>0, <3>1 DEF TypeOK
      <4>3. Backed(call[t].ep, {call[t].line})'
        BY <3>1, <3>2, <4>1, <4>2 DEF Backed
      <4> QED BY <1>3, <3>1, <4>1, <4>3
    <3>3. CASE call[t].line # Session
      <4>1. pc' = [pc EXCEPT ![t] = "write"]
        BY <2>3, <3>3 DEF Handshaken
      <4> QED BY <1>0, <1>2, <3>1, <4>1 DEF TypeOK
    <3> QED BY <3>2, <3>3
  <2>4. CASE Registered(t)
    <3>1. /\ daemons[Env] \in Ryuks /\ call[t].line \in known[daemons[Env]]
          /\ UNCHANGED <<disabled, resources, call, known, daemons>> /\ Leave(t)
          /\ call[t].ep = Env
      BY <2>4, <1>4, AcknowledgedKnown DEF Registered, Told, Inv, Ownership, CallInv
    <3>2. call'[t] = call[t]
      BY <3>1
    <3>3. Backed(call[t].ep, {call[t].line})'
      BY <3>1, <3>2 DEF Backed
    <3> QED BY <1>3, <3>1, <3>3
  <2>5. ASSUME ~(Lock(t) \/ SkipWindows(t) \/ Handshaken(t) \/ Registered(t))
        PROVE  BackedInv'
    <3>1. /\ UNCHANGED <<disabled, resources, call>>
          /\ \E x \in PCs \ {"granted"} : pc' = [pc EXCEPT ![t] = x]
      BY <1>4, <2>5 DEF Step, CreateRyuk, StartRyuk, InspectRyuk, DaemonThrows, NoPort, Connect,
         SendHello, Send, NotAcknowledged, AttemptFails, SendFilter, RegisterThrows, Throw, PCs
    <3> QED BY <1>0, <1>2, <3>1 DEF TypeOK
  <2> QED BY <2>1, <2>2, <2>3, <2>4, <2>5
<1>5. ASSUME NEW t \in Threads, Call(t) PROVE BackedInv'
  <2>1. UNCHANGED <<disabled, resources>> /\ \A u \in Threads \ {t} : call'[u] = call[u] /\ pc'[u] = pc[u]
    BY <1>0, <1>5 DEF Call, TypeOK
  <2>2. pc'[t] = "lock"
    BY <1>0, <1>5 DEF Call, TypeOK
  <2> QED BY <1>2, <2>1, <2>2
<1>6. ASSUME NEW t \in Threads, Create(t) PROVE BackedInv'
  <2>1. /\ resources' = resources \cup {[ep |-> call[t].ep, labels |-> LabelsOf(t)]}
        /\ UNCHANGED <<disabled, call, daemons, known>> /\ pc[t] = "granted"
    BY <1>6 DEF Create
  <2>2. \A u \in Threads : pc'[u] = "granted" => pc[u] = "granted"
    BY <1>0, <1>6 DEF Create, TypeOK
  <2>3. ~disabled => LabelsOf(t) = {call[t].line}
    BY DEF LabelsOf
  <2>4. \A e, ls : Backed(e, ls)' <=> Backed(e, ls)
    BY <2>1 DEF Backed
  <2> QED BY <2>1, <2>2, <2>3, <2>4 DEF BackedInv
<1>7. CASE Crash
  BY <1>0, <1>2, <1>7 DEF Crash
<1>8. ASSUME NEW r \in Ryuks, Serve(r) \/ Reap(r) \/ Lose(r) PROVE BackedInv'
  BY <1>2, <1>8 DEF Serve, Reap, Lose
<1> QED BY <1>4, <1>5, <1>6, <1>7, <1>8 DEF Next

-----------------------------------------------------------------------------
(* Where no removal fails; where no Ryuk and no connection is lost.        *)

\* A bootstrap that fails takes its Ryuk with it, or leaves one that was never spoken to.
LEMMA OrphanNext ==
  ASSUME Inv, FreshInv, FilterInv, OrphanInv, "rm" \notin Faults, Next
  PROVE  OrphanInv'
<1> USE ReaperAssumption DEF threadVars, ryukVars, Goto, Leave, Throw, Booting, Inside
<1>0. TypeOK /\ EntryInv
  BY DEF Inv, Ownership
<1>1. ASSUME NEW t \in Threads, alive, Step(t) PROVE OrphanInv'
  <2>0. /\ ThreadOwns(t) /\ call' = call /\ alive' = alive
        /\ \A u \in Threads \ {t} : booting[u] = Absent /\ booting'[u] = Absent
    BY <1>1, Alone, OwnsBefore
  <2>1. \A q \in Ryuks : (\E u \in Threads : booting[u] = q) <=> booting[t] = q
    BY <2>0
  \* What a step leaves as it was.
  <2>2. ASSUME NEW q \in Ryuks, ryuk'[q] = "running" => ryuk[q] = "running",
               host'[q] = host[q], known'[q] = known[q], inbox[q] = <<>> => inbox'[q] = <<>>,
               daemons'[host[q]] = daemons[host[q]],
               daemons[host[q]] = Absent => (booting[t] = q => booting'[t] = q)
        PROVE  (ryuk'[q] = "running" => \/ daemons'[host'[q]] = q
                                        \/ known'[q] = {} /\ inbox'[q] = <<>>
                                        \/ daemons'[host'[q]] = Absent /\ booting'[t] = q)
    BY <1>1, <2>1, <2>2 DEF OrphanInv
  <2> SUFFICES ASSUME NEW q \in Ryuks, ryuk'[q] = "running"
               PROVE  \/ daemons'[host'[q]] = q
                      \/ known'[q] = {} /\ inbox'[q] = <<>>
                      \/ daemons'[host'[q]] = Absent /\ booting'[t] = q
    BY <2>0 DEF OrphanInv
  <2>3. CASE Lock(t) \/ InspectRyuk(t) \/ Connect(t)
    <3>1. UNCHANGED <<ryuk, host, known, inbox, daemons>> /\ (booting[t] # Absent => booting'[t] = booting[t])
      BY <1>0, <2>0, <2>3 DEF Lock, InspectRyuk, Connect, TypeOK, ThreadOwns
    <3> QED BY <2>2, <3>1
  <2>4. CASE Registered(t) \/ RegisterThrows(t)
    <3>1. UNCHANGED <<ryuk, host, known, inbox, daemons>> /\ booting[t] = Absent
      BY <1>0, <2>0, <2>4 DEF Registered, RegisterThrows, ThreadOwns
    <3> QED BY <2>2, <3>1
  <2>5. CASE SkipWindows(t)
    <3>1. /\ UNCHANGED <<ryuk, host, known, inbox>> /\ call[t].ep \in WindowsEngines
          /\ daemons' = [daemons EXCEPT ![call[t].ep] = Skipped] /\ booting[t] = Absent
      BY <2>0, <2>5 DEF SkipWindows, ThreadOwns
    <3>2. host[q] # call[t].ep
      BY <3>1 DEF FilterInv
    <3>3. daemons'[host[q]] = daemons[host[q]]
      BY <1>0, <3>1, <3>2 DEF TypeOK
    <3> QED BY <2>2, <3>1, <3>3
  <2>6. CASE CreateRyuk(t)
    <3>1. PICK r \in Ryuks : /\ ryuk[r] = "none" /\ ryuk' = [ryuk EXCEPT ![r] = "created"]
                             /\ host' = [host EXCEPT ![r] = call[t].ep]
      BY <2>6 DEF CreateRyuk
    <3>2. UNCHANGED <<known, inbox, daemons>> /\ booting[t] = Absent
      BY <2>0, <2>6 DEF CreateRyuk, ThreadOwns
    <3>3. q # r
      BY <1>0, <3>1 DEF TypeOK
    <3> QED BY <1>0, <2>2, <3>1, <3>2, <3>3 DEF TypeOK
  <2>7. CASE StartRyuk(t)
    <3>1. /\ UNCHANGED <<host, known, inbox, daemons, booting>> /\ booting[t] \in Ryuks
          /\ ryuk' = [ryuk EXCEPT ![booting[t]] = "running"] /\ daemons[host[booting[t]]] = Absent
      BY <2>0, <2>7 DEF StartRyuk, ThreadOwns
    <3> QED BY <1>0, <2>2, <3>1 DEF TypeOK
  <2>8. CASE DaemonThrows(t) \/ NoPort(t)
    <3>1. /\ UNCHANGED <<host, known, inbox, daemons>>
          /\ pc[t] = "boot" => ryuk' = ryuk
          /\ \A r \in Ryuks : r # booting[t] => ryuk'[r] = ryuk[r]
      BY <1>0, <2>0, <2>8 DEF DaemonThrows, NoPort, Kill, TypeOK
    <3>2. CASE q = booting[t]
      <4>1. known[q] = {} /\ inbox[q] = <<>>
        BY <2>0, <2>8, <3>2 DEF DaemonThrows, NoPort, FreshInv, Fresh, Blank, ThreadOwns
      <4> QED BY <3>1, <4>1
    <3>3. CASE q # booting[t]
      BY <2>2, <3>1, <3>3
    <3> QED BY <3>2, <3>3
  <2>9. CASE SendHello(t) \/ SendFilter(t)
    <3>1. PICK r \in Ryuks : /\ (booting[t] = r /\ daemons[host[r]] = Absent) \/ daemons[host[r]] = r
                             /\ \A s \in Ryuks : s # r => inbox'[s] = inbox[s]
                             /\ UNCHANGED <<ryuk, host, known, daemons, booting>>
      <4>1. CASE SendHello(t)
        <5>1. /\ booting[t] \in Ryuks /\ daemons[host[booting[t]]] = Absent
              /\ \A s \in Ryuks : s # booting[t] => inbox'[s] = inbox[s]
          BY <1>0, <2>0, <4>1 DEF SendHello, Send, ThreadOwns, TypeOK
        <5> QED BY <4>1, <5>1 DEF SendHello, Send
      <4>2. CASE SendFilter(t)
        <5>1. /\ daemons[Env] \in Ryuks /\ booting[t] = Absent /\ host[daemons[Env]] = Env
              /\ \A s \in Ryuks : s # daemons[Env] => inbox'[s] = inbox[s]
          BY <1>0, <2>0, <4>2 DEF SendFilter, Send, ThreadOwns, TypeOK, EntryInv
        <5> QED BY <4>2, <5>1 DEF SendFilter, Send
      <4> QED BY <2>9, <4>1, <4>2
    <3>2. CASE q = r
      <4>1. daemons'[host'[r]] = daemons[host[r]] /\ booting'[t] = booting[t]
        BY <3>1
      <4> QED BY <3>1, <3>2, <4>1
    <3>3. CASE q # r
      <4>1. inbox'[q] = inbox[q]
        BY <3>1, <3>3
      <4> QED BY <2>2, <3>1, <4>1
    <3> QED BY <3>2, <3>3
  <2>10. CASE Handshaken(t)
    <3>1. PICK r \in Ryuks : r = booting[t] /\ host[r] = call[t].ep /\ daemons[call[t].ep] = Absent
      BY <2>0, <2>10 DEF Handshaken, ThreadOwns
    <3>2. /\ UNCHANGED <<ryuk, host, known, inbox>>
          /\ daemons' = [daemons EXCEPT ![call[t].ep] = r]
      BY <2>10, <3>1 DEF Handshaken
    <3>3. CASE q = r
      BY <1>0, <3>1, <3>2, <3>3 DEF TypeOK
    <3>4. CASE q # r /\ host[q] = call[t].ep
      BY <1>1, <2>1, <3>1, <3>2, <3>4 DEF OrphanInv
    <3>5. CASE q # r /\ host[q] # call[t].ep
      <4>1. daemons'[host[q]] = daemons[host[q]]
        BY <1>0, <3>2, <3>5 DEF TypeOK
      <4> QED BY <2>2, <3>1, <3>2, <3>5, <4>1
    <3> QED BY <3>3, <3>4, <3>5
  <2>11. CASE NotAcknowledged(t) \/ AttemptFails(t)
    <3>1. PICK r \in Ryuks : /\ r = booting[t] /\ Close(r)
                             /\ daemons[host[r]] = Absent
      BY <2>0, <2>11 DEF NotAcknowledged, AttemptFails, ThreadOwns
    <3>2. /\ UNCHANGED <<host, known, daemons>>
          /\ ryuk' = [ryuk EXCEPT ![r] = "gone"] \/ (ryuk' = ryuk /\ booting' = booting)
      BY <2>11, <3>1 DEF NotAcknowledged, AttemptFails, Kill
    <3>3. \A s \in Ryuks : s # r => inbox'[s] = inbox[s]
      BY <1>0, <3>1, CloseQuiet
    <3>4. CASE q = r
      BY <1>0, <3>1, <3>2, <3>4 DEF TypeOK
    <3>5. CASE q # r
      BY <1>0, <2>2, <3>1, <3>2, <3>3, <3>5 DEF TypeOK
    <3> QED BY <3>4, <3>5
  <2> QED BY <1>1, <2>3, <2>4, <2>5, <2>6, <2>7, <2>8, <2>9, <2>10, <2>11 DEF Step
<1>2. ASSUME \/ \E t \in Threads : Call(t) \/ Create(t)
             \/ Crash
      PROVE  OrphanInv'
  <2>1. /\ UNCHANGED <<ryuk, host, known, inbox, daemons>>
        /\ alive' => alive' = alive /\ booting' = booting
    BY <1>2 DEF Call, Create, Crash
  <2> QED BY <2>1 DEF OrphanInv
<1>3. ASSUME NEW r \in Ryuks, Serve(r) PROVE OrphanInv'
  <2>1. /\ UNCHANGED <<alive, ryuk, host, daemons, booting>> /\ inbox[r] # <<>>
        /\ \A q \in Ryuks : q # r => inbox'[q] = inbox[q] /\ known'[q] = known[q]
    BY <1>0, <1>3 DEF Serve, TypeOK
  <2> QED BY <2>1 DEF OrphanInv
<1>4. ASSUME NEW r \in Ryuks, Reap(r) \/ Lose(r) PROVE OrphanInv'
  <2>1. /\ UNCHANGED <<alive, host, known, inbox, daemons, booting>>
        /\ \A q \in Ryuks : ryuk'[q] = "running" => ryuk[q] = "running"
    BY <1>0, <1>4 DEF Reap, Lose, TypeOK
  <2> QED BY <2>1 DEF OrphanInv
<1> QED BY <1>1, <1>2, <1>3, <1>4 DEF Next

\* Where no Ryuk and no connection is lost, the Ryuk of an entry runs and its connection is
\* open for as long as the process lives.
LEMMA HealthNext ==
  ASSUME Inv, HealthInv, "drop" \notin Faults, "die" \notin Faults, Next
  PROVE  HealthInv'
<1> USE ReaperAssumption DEF threadVars, ryukVars, Goto, Leave, Throw, Booting, Inside
<1>0. TypeOK /\ EntryInv
  BY DEF Inv, Ownership
<1> DEFINE Healthy(r) == ryuk[r] = "running" /\ link[r] = "open"
<1>1. ASSUME NEW t \in Threads, alive, Step(t) PROVE HealthInv'
  <2>0. /\ ThreadOwns(t) /\ call' = call /\ alive' = alive
        /\ \A u \in Threads \ {t} : pc'[u] \notin Inside
    BY <1>1, Alone, OwnsBefore
  \* A Ryuk that is being booted has no entry.
  <2>1. pc[t] \in Booting => \A e \in Endpoints : daemons[e] # booting[t]
    BY <1>0, <2>0 DEF ThreadOwns, EntryInv
  <2>2. ASSUME \A r \in Ryuks : Healthy(r) => Healthy(r)' \/ (pc[t] \in Booting /\ r = booting[t]),
               daemons' = daemons, pc'[t] \notin {"hello", "ack"}
        PROVE  HealthInv'
    BY <1>1, <2>0, <2>1, <2>2 DEF HealthInv
  <2>3. CASE Lock(t) \/ InspectRyuk(t) \/ Registered(t) \/ RegisterThrows(t) \/ SendFilter(t)
    <3>1. UNCHANGED <<ryuk, link, daemons>> /\ pc'[t] \notin {"hello", "ack"}
      BY <1>0, <2>3 DEF Lock, InspectRyuk, Registered, RegisterThrows, SendFilter, Send, TypeOK
    <3> QED BY <2>2, <3>1
  <2>4. CASE SkipWindows(t)
    <3>1. /\ UNCHANGED <<ryuk, link>> /\ pc'[t] \notin {"hello", "ack"}
          /\ daemons' = [daemons EXCEPT ![call[t].ep] = Skipped]
      BY <1>0, <2>4 DEF SkipWindows, TypeOK
    <3>2. \A e \in Endpoints : daemons'[e] \in Ryuks => daemons[e] = daemons'[e]
      BY <1>0, <3>1 DEF TypeOK
    <3> QED BY <1>1, <2>0, <3>1, <3>2 DEF HealthInv
  <2>5. CASE CreateRyuk(t)
    <3>1. PICK r \in Ryuks : ryuk[r] = "none" /\ ryuk' = [ryuk EXCEPT ![r] = "created"]
      BY <2>5 DEF CreateRyuk
    <3>2. UNCHANGED <<link, daemons>> /\ pc'[t] = "start"
      BY <1>0, <2>5 DEF CreateRyuk, TypeOK
    <3> QED BY <1>0, <2>2, <3>1, <3>2 DEF TypeOK
  <2>6. CASE StartRyuk(t) \/ DaemonThrows(t)
    <3>1. /\ UNCHANGED <<link, daemons>> /\ pc'[t] \notin {"hello", "ack"}
          /\ \A r \in Ryuks : ryuk[r] = "running" => ryuk'[r] = "running"
      BY <1>0, <2>6 DEF StartRyuk, DaemonThrows, TypeOK
    <3> QED BY <2>2, <3>1
  <2>7. CASE NoPort(t)
    <3>1. /\ UNCHANGED <<link, daemons>> /\ pc[t] \in Booting /\ pc'[t] \notin {"hello", "ack"}
          /\ \A r \in Ryuks : r # booting[t] => ryuk'[r] = ryuk[r]
      BY <1>0, <2>7 DEF NoPort, Kill, TypeOK
    <3> QED BY <2>2, <3>1
  <2>8. CASE NotAcknowledged(t) \/ AttemptFails(t)
    <3>1. /\ daemons' = daemons /\ pc[t] \in Booting /\ pc'[t] \notin {"hello", "ack"}
          /\ \A r \in Ryuks : r # booting[t] => ryuk'[r] = ryuk[r] /\ link'[r] = link[r]
      BY <1>0, <2>8 DEF NotAcknowledged, AttemptFails, Kill, Close, TypeOK
    <3> QED BY <2>2, <3>1
  <2>9. CASE Connect(t)
    <3>1. /\ UNCHANGED <<ryuk, daemons, booting>> /\ booting[t] \in Ryuks
          /\ ryuk[booting[t]] = "running" /\ link' = [link EXCEPT ![booting[t]] = "open"]
      BY <2>0, <2>9 DEF Connect, ThreadOwns
    <3> QED BY <1>0, <1>1, <2>0, <3>1 DEF HealthInv, TypeOK
  <2>10. CASE SendHello(t)
    <3>1. UNCHANGED <<ryuk, link, daemons, booting>> /\ pc[t] = "hello"
      BY <2>10 DEF SendHello, Send
    <3> QED BY <1>1, <2>0, <3>1 DEF HealthInv
  <2>11. CASE Handshaken(t)
    <3>1. /\ UNCHANGED <<ryuk, link>> /\ pc[t] = "ack" /\ pc'[t] \notin {"hello", "ack"}
          /\ daemons' = [daemons EXCEPT ![call[t].ep] = booting[t]]
      BY <1>0, <2>11 DEF Handshaken, TypeOK
    <3>2. Healthy(booting[t])
      BY <1>1, <3>1 DEF HealthInv
    <3>3. \A e \in Endpoints : daemons'[e] = daemons[e] \/ daemons'[e] = booting[t]
      BY <1>0, <3>1 DEF TypeOK
    <3> QED BY <1>1, <2>0, <3>1, <3>2, <3>3 DEF HealthInv
  <2> QED BY <1>1, <2>3, <2>4, <2>5, <2>6, <2>7, <2>8, <2>9, <2>10, <2>11 DEF Step
<1>2. ASSUME NEW t \in Threads, Call(t) \/ Create(t) PROVE HealthInv'
  <2>1. /\ UNCHANGED <<alive, ryuk, link, daemons, booting>>
        /\ \A u \in Threads : pc'[u] \in {"hello", "ack"} => pc[u] \in {"hello", "ack"}
    BY <1>0, <1>2 DEF Call, Create, TypeOK
  <2> QED BY <2>1 DEF HealthInv
<1>3. CASE Crash
  BY <1>3 DEF Crash, HealthInv
<1>4. ASSUME NEW r \in Ryuks, Serve(r) \/ Reap(r) \/ Lose(r) PROVE HealthInv'
  <2>1. CASE Serve(r)
    BY <2>1 DEF Serve, HealthInv
  <2>2. CASE Reap(r)
    <3>1. /\ UNCHANGED <<alive, pc, booting, daemons, link>> /\ link[r] # "open"
          /\ \A q \in Ryuks : q # r => ryuk'[q] = ryuk[q]
      BY <1>0, <2>2 DEF Reap, TypeOK
    <3>2. \A u \in Threads : pc[u] \in {"hello", "ack"} => booting[u] \in Ryuks
      BY DEF Inv, Ownership, BootInv
    <3> QED BY <3>1, <3>2 DEF HealthInv
  <2>3. ~Lose(r)
    BY DEF Lose
  <2> QED BY <1>4, <2>1, <2>2, <2>3
<1> QED BY <1>1, <1>2, <1>3, <1>4 DEF Next

-----------------------------------------------------------------------------
(* The theorems that hold in an environment that spares the reaper a fault. *)

\* What Ryuk has been told and what is on record of it, whatever fails.
LEMMA ToldAlways == Spec => [](Inv /\ Told)
<1>1. Init => Inv /\ Told
  <2> SUFFICES ASSUME Init PROVE Inv /\ Told
    OBVIOUS
  <2>1. Inv
    BY TypeInit, OwnershipInit DEF Inv
  <2>2. \A r \in Ryuks : DOMAIN inbox[r] = {} /\ IsInjective(filters[r])
    <3>1. DOMAIN <<>> = {} /\ IsInjective(<<>>)
      BY DEF IsInjective
    <3> QED BY <3>1 DEF Init
  <2>3. RecordInv /\ FreshInv /\ SessionInv /\ OffInv
    BY <2>2, ReaperAssumption DEF Init, RecordInv, FreshInv, Fresh, Blank, SessionInv, OffInv
  <2>4. FilterInv
    BY <2>2, ReaperAssumption DEF Init, FilterInv, Booting
  <2> QED BY <2>1, <2>3, <2>4 DEF Told
<1>2. Inv /\ Told /\ [Next]_vars => (Inv /\ Told)'
  <2> SUFFICES ASSUME Inv, Told, [Next]_vars PROVE Inv' /\ Told'
    OBVIOUS
  <2>1. Inv'
    BY InvNext
  <2>2. CASE UNCHANGED vars
    <3> USE <2>2 DEF vars, threadVars, ryukVars
    <3>1. RecordInv' /\ FreshInv' /\ SessionInv'
      BY DEF Told, RecordInv, FreshInv, Fresh, Blank, SessionInv
    <3>2. FilterInv' /\ OffInv'
      BY DEF Told, FilterInv, OffInv
    <3> QED BY <2>1, <3>1, <3>2 DEF Told
  <2>3. CASE Next
    <3>1. RecordInv' /\ SessionInv' /\ FilterInv' /\ OffInv'
      BY <2>3, RecordStep, SessionNext, FilterNext, OffNext DEF Told
    <3>2. FreshInv'
      <4>1. ASSUME NEW t \in Threads, Step(t) PROVE FreshInv'
        BY <4>1, FreshStep DEF Told
      <4>2. CASE \/ \E t \in Threads : Call(t) \/ Create(t)
                 \/ Crash
                 \/ \E r \in Ryuks : Serve(r) \/ Reap(r) \/ Lose(r)
        BY <4>2, FreshOther DEF Told
      <4> QED BY <2>3, <4>1, <4>2 DEF Next
    <3> QED BY <2>1, <3>1, <3>2 DEF Told
  <2> QED BY <2>1, <2>2, <2>3
<1> QED BY <1>1, <1>2, PTL DEF Spec

\* What has been answered and what it is the answer to, where no answer is late.
LEMMA AnsweredAlways ==
  ASSUME "slow" \notin Faults
  PROVE  Spec => []Answered
<1>1. Init => Answered
  <2> SUFFICES ASSUME Init PROVE Answered
    OBVIOUS
  <2>1. \A r \in Ryuks : DOMAIN inbox[r] = {} /\ replies[r] = <<>> /\ ToSet(filters[r]) = {}
    BY ToSetSmall DEF Init
  <2>2. AnswerInv
    BY <2>1 DEF Init, AnswerInv, Awaits, Quiet, Live
  <2> QED BY <2>1, <2>2 DEF Init, Answered, KnownInv, BackedInv
<1>2. Inv /\ Told /\ Answered /\ [Next]_vars => Answered'
  <2> SUFFICES ASSUME Inv, Told, Answered, [Next]_vars PROVE Answered'
    OBVIOUS
  <2>1. CASE UNCHANGED vars
    BY <2>1 DEF vars, threadVars, ryukVars, Answered, AnswerInv, Awaits, OnItsWay, Quiet, Cut, Live,
                KnownInv, BackedInv, Backed
  <2>2. CASE Next
    <3>1. AnswerInv'
      BY <2>2, AnswerStep, AnswerOther DEF Answered, Told, Next
    <3>2. KnownInv' /\ BackedInv'
      BY <2>2, KnownNext, BackedNext DEF Answered
    <3> QED BY <3>1, <3>2 DEF Answered
  <2> QED BY <2>1, <2>2
<1> QED BY <1>1, <1>2, ToldAlways, PTL DEF Spec

\* Whatever else fails: as long as no answer outlives its leg of the budget, registered_filters()
\* reports what Ryuk has acknowledged, each line once (Reaper.cpp: register_filter,
\* send_filter_line). With late answers it does not.
THEOREM OnlyAcknowledged ==
  ASSUME "slow" \notin Faults
  PROVE  Spec => []FiltersAcknowledged
<1>1. Told /\ Answered => FiltersAcknowledged
  BY DEF Told, Answered, FilterInv, KnownInv, FiltersAcknowledged
<1> QED BY <1>1, ToldAlways, AnsweredAlways, PTL

\* A running Ryuk is of an entry, knows nothing, or is being booted.
LEMMA OrphansAlways ==
  ASSUME "rm" \notin Faults
  PROVE  Spec => []OrphanInv
<1>1. Init => OrphanInv
  BY DEF Init, OrphanInv
<1>2. Inv /\ Told /\ OrphanInv /\ [Next]_vars => OrphanInv'
  <2>1. Inv /\ Told /\ OrphanInv /\ Next => OrphanInv'
    BY OrphanNext DEF Told
  <2>2. OrphanInv /\ UNCHANGED vars => OrphanInv'
    BY DEF vars, threadVars, ryukVars, OrphanInv
  <2> QED BY <2>1, <2>2
<1> QED BY <1>1, <1>2, ToldAlways, PTL DEF Spec

\* Whatever else fails: as long as a failed bootstrap can remove its Ryuk, what it leaves behind
\* can sweep nothing (Reaper.cpp: start_ryuk, boot_daemon_locked).
THEOREM OrphansHarmless ==
  ASSUME "rm" \notin Faults
  PROVE  Spec => []OrphanKnowsNothing
<1>1. Inv /\ OrphanInv => OrphanKnowsNothing
  <2> SUFFICES ASSUME Inv, OrphanInv, alive, NEW r \in Ryuks, ryuk[r] = "running",
                      r \notin {daemons[e] : e \in Endpoints}, r \notin {booting[t] : t \in Threads}
               PROVE  known[r] = {}
    BY DEF OrphanKnowsNothing
  <2>1. host[r] \in Endpoints
    BY DEF Inv, TypeOK
  <2> QED BY <2>1 DEF OrphanInv
<1> QED BY <1>1, Invariant, OrphansAlways, PTL

\* An entry, and a connection that has been opened, is never lost where nothing is.
LEMMA HealthAlways ==
  ASSUME "drop" \notin Faults, "die" \notin Faults
  PROVE  Spec => []HealthInv
<1>1. Init => HealthInv
  BY ReaperAssumption DEF Init, HealthInv
<1>2. Inv /\ HealthInv /\ [Next]_vars => HealthInv'
  <2>1. Inv /\ HealthInv /\ Next => HealthInv'
    BY HealthNext
  <2>2. HealthInv /\ UNCHANGED vars => HealthInv'
    BY DEF vars, threadVars, ryukVars, HealthInv
  <2> QED BY <2>1, <2>2
<1> QED BY <1>1, <1>2, Invariant, PTL DEF Spec

\* Whatever a bootstrap or a removal does: as long as no Ryuk, no connection and no answer is
\* lost, each labelled resource of a live process is watched by the running Ryuk of its daemon's
\* entry, over a connection that ends with the process (Reaper.cpp: ensure_started,
\* register_filter, before run() and the others create anything).
THEOREM ResourcesWatched ==
  ASSUME Faults \cap {"slow", "drop", "die"} = {}
  PROVE  Spec => []Watched
<1>1. Inv /\ Answered /\ HealthInv => Watched
  <2> SUFFICES ASSUME Inv, Answered, HealthInv, alive, ~disabled, NEW x \in resources,
                      x.labels # {}, x.ep \notin WindowsEngines
               PROVE  /\ daemons[x.ep] \in Ryuks
                      /\ ryuk[daemons[x.ep]] = "running" /\ link[daemons[x.ep]] = "open"
                      /\ x.labels \cap known[daemons[x.ep]] # {}
    BY DEF Watched
  <2>1. x.ep \in Endpoints
    BY DEF Inv, TypeOK
  <2>2. daemons[x.ep] \in Ryuks /\ x.labels \cap known[daemons[x.ep]] # {}
    BY DEF Answered, BackedInv, Backed
  <2> QED BY <2>1, <2>2 DEF HealthInv
<1>2. "slow" \notin Faults /\ "drop" \notin Faults /\ "die" \notin Faults
  OBVIOUS
<1> QED BY <1>1, <1>2, Invariant, AnsweredAlways, HealthAlways, PTL

-----------------------------------------------------------------------------
(* The promise is kept, step by step.                                      *)

\* What CrashSafety says of the states and the steps; its fairness is left to TLC.
PromiseKept == Promise!Init /\ [][Promise!Next]_(Promise!vars)

\* What each daemon watches for, as the promise sees it.
watching == [e \in Endpoints |-> IF daemons[e] \in Ryuks THEN known[daemons[e]] ELSE {}]

\* A Ryuk sweeps only after the process that it served, or nothing at all.
LEMMA ReapPromise ==
  ASSUME Inv, Told, Answered, OrphanInv, HealthInv, NEW r \in Ryuks, Reap(r)
  PROVE  \/ UNCHANGED <<disabled, alive, watching, resources>>
         \/ \E d \in Endpoints : Promise!Sweep(d)
<1> USE ReaperAssumption
<1>0. TypeOK /\ EntryInv
  BY DEF Inv, Ownership
<1>1. /\ ryuk[r] = "running" /\ link[r] # "open" /\ host[r] \in Endpoints
      /\ resources' = {x \in resources : x.ep # host[r] \/ x.labels \cap known[r] = {}}
      /\ UNCHANGED <<disabled, alive, daemons, known>>
  BY <1>0 DEF Reap, TypeOK
<1>2. UNCHANGED watching
  BY <1>1 DEF watching
<1>3. CASE daemons[host[r]] = r
  <2>1. ~alive
    BY <1>1, <1>3 DEF HealthInv
  <2>2. watching[host[r]] = known[r]
    BY <1>1, <1>3 DEF watching
  <2>3. resources' = {x \in resources : x.ep # host[r] \/ ~(x.labels \cap watching[x.ep] # {})}
    BY <1>1, <2>2
  <2>4. Promise!Sweep(host[r])
    BY <1>1, <1>2, <2>1, <2>3 DEF Promise!Sweep, Promise!Covered, watching
  <2> QED BY <1>1, <2>4
<1>4. CASE daemons[host[r]] # r
  <2>1. known[r] = {} \/ daemons[host[r]] = Absent
    BY <1>1, <1>4 DEF OrphanInv
  <2>2. ~disabled /\ host[r] \notin WindowsEngines
    BY <1>1 DEF Told, OffInv, FilterInv
  <2>3. ASSUME NEW x \in resources, x.ep = host[r], x.labels \cap known[r] # {} PROVE FALSE
    <3>1. Backed(x.ep, x.labels)
      BY <2>2, <2>3 DEF Answered, BackedInv
    <3> QED BY <2>1, <2>2, <2>3, <3>1 DEF Backed
  <2>4. resources' = resources
    BY <1>1, <2>3
  <2> QED BY <1>1, <1>2, <2>4
<1> QED BY <1>3, <1>4

\* A step of Ryuk or of a thread makes its daemon watch for one line more, or is not seen.
LEMMA WatchPromise ==
  ASSUME Inv, Told, Answered, Next, UNCHANGED <<disabled, alive, resources>>
  PROVE  \/ UNCHANGED watching
         \/ \E d \in Endpoints, l \in Lines : watching' = [watching EXCEPT ![d] = @ \cup {l}]
<1> USE ReaperAssumption DEF threadVars, ryukVars
<1>0. TypeOK /\ EntryInv
  BY DEF Inv, Ownership
<1>1. CASE UNCHANGED <<daemons, known>>
  BY <1>1 DEF watching
<1>2. ASSUME NEW t \in Threads, SkipWindows(t) PROVE UNCHANGED watching
  <2>1. /\ daemons' = [daemons EXCEPT ![call[t].ep] = Skipped] /\ known' = known
        /\ daemons[call[t].ep] = Absent
    BY <1>2 DEF SkipWindows, Inv, Ownership, BootInv
  <2>2. \A e \in Endpoints : \/ daemons'[e] = daemons[e]
                             \/ daemons[e] \notin Ryuks /\ daemons'[e] \notin Ryuks
    BY <1>0, <2>1 DEF TypeOK
  <2> QED BY <2>1, <2>2 DEF watching
<1>3. ASSUME NEW t \in Threads, alive, Handshaken(t)
      PROVE  \E d \in Endpoints, l \in Lines : watching' = [watching EXCEPT ![d] = @ \cup {l}]
  <2>1. PICK r \in Ryuks : r = booting[t] /\ host[r] = call[t].ep /\ daemons[call[t].ep] = Absent
    BY <1>3 DEF Handshaken, Inv, Ownership, BootInv, Booting
  <2>2. PICK d \in Endpoints : d = call[t].ep
    BY <1>0 DEF TypeOK
  <2>3. daemons' = [daemons EXCEPT ![d] = r] /\ known' = known
    BY <1>3, <2>1, <2>2 DEF Handshaken
  <2>4. known[r] = {Session}
    <3>1. Session \in known[r]
      BY <1>3, <2>1, AcknowledgedKnown DEF Answered
    <3>2. known[r] \subseteq {Session}
      BY <2>1 DEF Told, SessionInv
    <3> QED BY <3>1, <3>2
  <2>5. watching' = [watching EXCEPT ![d] = @ \cup {Session}]
    <3>1. watching[d] = {}
      BY <2>1, <2>2 DEF watching
    <3>2. \A e \in Endpoints : (IF daemons'[e] \in Ryuks THEN known'[daemons'[e]] ELSE {})
                                 = IF e = d THEN {Session} ELSE watching[e]
      BY <1>0, <2>3, <2>4 DEF watching, TypeOK
    <3> QED BY <3>1, <3>2 DEF watching
  <2>6. Session \in Lines
    BY DEF Lines
  <2> QED BY <2>5, <2>6
<1>4. ASSUME NEW r \in Ryuks, Serve(r)
      PROVE  \/ UNCHANGED watching
             \/ \E d \in Endpoints, l \in Lines : watching' = [watching EXCEPT ![d] = @ \cup {l}]
  <2>1. PICK l \in Lines : known' = known \/ known' = [known EXCEPT ![r] = @ \cup {l}]
    <3>1. Head(inbox[r]).line \in Lines
      BY <1>0, <1>4, ServeFirst DEF Message
    <3> QED BY <1>4, <3>1 DEF Serve
  <2>2. daemons' = daemons
    BY <1>4 DEF Serve
  <2>3. CASE known' = known
    BY <2>2, <2>3 DEF watching
  <2>4. CASE known' = [known EXCEPT ![r] = @ \cup {l}] /\ daemons[host[r]] = r
    <3>1. PICK d \in Endpoints : d = host[r]
      BY <1>0 DEF TypeOK
    <3>2. \A e \in Endpoints : daemons[e] = r <=> e = d
      BY <1>0, <2>4, <3>1 DEF EntryInv
    <3>3. \A e \in Endpoints : (IF daemons'[e] \in Ryuks THEN known'[daemons'[e]] ELSE {})
                                 = IF e = d THEN watching[e] \cup {l} ELSE watching[e]
      BY <1>0, <2>2, <2>4, <3>2 DEF watching, TypeOK
    <3>4. watching' = [watching EXCEPT ![d] = @ \cup {l}]
      BY <3>3 DEF watching
    <3> QED BY <3>4
  <2>5. CASE known' = [known EXCEPT ![r] = @ \cup {l}] /\ daemons[host[r]] # r
    <3>1. \A e \in Endpoints : daemons[e] # r
      BY <1>0, <2>5 DEF EntryInv
    <3>2. \A e \in Endpoints : daemons[e] \in Ryuks => known'[daemons[e]] = known[daemons[e]]
      BY <1>0, <2>5, <3>1 DEF TypeOK
    <3> QED BY <2>2, <3>2 DEF watching
  <2> QED BY <2>1, <2>3, <2>4, <2>5
<1>5. ASSUME NEW t \in Threads, Step(t)
      PROVE  SkipWindows(t) \/ Handshaken(t) \/ UNCHANGED <<daemons, known>>
  BY <1>5 DEF Step, Lock, CreateRyuk, StartRyuk, InspectRyuk, DaemonThrows, NoPort, Connect,
         SendHello, Send, NotAcknowledged, AttemptFails, SendFilter, Registered, RegisterThrows
<1>6. ASSUME \/ \E t \in Threads : Call(t) \/ Create(t)
             \/ Crash
             \/ \E r \in Ryuks : Reap(r) \/ Lose(r)
      PROVE  UNCHANGED <<daemons, known>>
  BY <1>6 DEF Call, Create, Crash, Reap, Lose
<1> QED BY <1>1, <1>2, <1>3, <1>4, <1>5, <1>6 DEF Next

\* Where no Ryuk, no connection, no answer and no removal is lost, every step of the reaper is a
\* step of the promise: a resource exists only where something already watches for it, and
\* nothing of a live process is swept (Reaper.cpp as a whole; Reaper.hpp: crash-safe reaping).
THEOREM KeepsPromise ==
  ASSUME Faults \subseteq {"garble"}
  PROVE  Spec => PromiseKept
<1> USE ReaperAssumption DEF threadVars, ryukVars
<1>0. "slow" \notin Faults /\ "drop" \notin Faults /\ "die" \notin Faults /\ "rm" \notin Faults
  OBVIOUS
<1>1. Init => Promise!Init
  <2> SUFFICES ASSUME Init PROVE Promise!Init
    OBVIOUS
  <2>1. [e \in Endpoints |-> IF daemons[e] \in Ryuks THEN known[daemons[e]] ELSE {}]
          = [d \in Endpoints |-> {}]
    BY DEF Init
  <2> QED BY <2>1 DEF Init, Promise!Init
<1>2. Inv /\ Told /\ Answered /\ OrphanInv /\ HealthInv /\ [Next]_vars
        => [Promise!Next]_(Promise!vars)
  <2> SUFFICES ASSUME Inv, Told, Answered, OrphanInv, HealthInv, [Next]_vars
               PROVE  Promise!Next \/ UNCHANGED <<disabled, alive, watching, resources>>
    BY DEF Promise!vars, watching
  <2>1. ASSUME Next, UNCHANGED <<disabled, alive, resources>>
        PROVE  Promise!Next \/ UNCHANGED <<disabled, alive, watching, resources>>
    <3>1. \A d \in Endpoints, l \in Lines :
            watching' = [watching EXCEPT ![d] = @ \cup {l}] => Promise!Watch(d, l)
      BY <2>1 DEF Promise!Watch, watching
    <3> QED BY <2>1, <3>1, WatchPromise DEF Promise!Next
  <2>2. ASSUME NEW t \in Threads, alive, Create(t) PROVE Promise!Next
    <3> DEFINE x == [ep |-> call[t].ep, labels |-> LabelsOf(t)]
    <3>1. x \in [ep : Endpoints, labels : SUBSET Lines]
      BY DEF Inv, TypeOK, LabelsOf
    <3>2. /\ resources' = resources \cup {x} /\ pc[t] = "granted"
          /\ UNCHANGED <<disabled, alive, daemons, known>>
      BY <2>2 DEF Create, Goto
    <3>3. Promise!Exempt(x) \/ Promise!Covered(x)
      <4>1. CASE disabled
        BY <4>1 DEF Promise!Exempt
      <4>2. CASE ~disabled
        <5>1. Backed(call[t].ep, {call[t].line}) /\ LabelsOf(t) = {call[t].line}
          BY <3>2, <4>2 DEF Answered, BackedInv, LabelsOf
        <5>2. call[t].ep \in Endpoints
          BY DEF Inv, TypeOK
        <5> QED BY <5>1, <5>2 DEF Backed, Promise!Exempt, Promise!Covered
      <4> QED BY <4>1, <4>2
    <3> HIDE DEF x
    <3>4. Promise!Create(x)
      BY <2>2, <3>2, <3>3 DEF Promise!Create
    <3> QED BY <3>1, <3>4 DEF Promise!Next
  <2>3. CASE Crash
    <3>1. Promise!Die
      BY <2>3 DEF Crash, Promise!Die
    <3> QED BY <3>1 DEF Promise!Next
  <2>4. ASSUME NEW r \in Ryuks, Reap(r)
        PROVE  Promise!Next \/ UNCHANGED <<disabled, alive, watching, resources>>
    BY <2>4, ReapPromise DEF Promise!Next
  <2>5. CASE UNCHANGED vars
    BY <2>5 DEF vars, watching
  <2>6. ASSUME NEW t \in Threads, Step(t) PROVE UNCHANGED <<disabled, alive, resources>>
    BY <2>6 DEF Step, Lock, SkipWindows, CreateRyuk, StartRyuk, InspectRyuk, DaemonThrows, NoPort,
         Connect, SendHello, Send, Handshaken, NotAcknowledged, AttemptFails, SendFilter,
         Registered, RegisterThrows
  <2>7. ASSUME \/ \E t \in Threads : Call(t)
               \/ \E r \in Ryuks : Serve(r) \/ Lose(r)
        PROVE  UNCHANGED <<disabled, alive, resources>>
    BY <2>7 DEF Call, Serve, Lose
  <2> QED BY <2>1, <2>2, <2>3, <2>4, <2>5, <2>6, <2>7 DEF Next
<1>3. Spec => []OrphanInv
  BY <1>0, OrphansAlways
<1> QED BY <1>0, <1>1, <1>2, <1>3, ToldAlways, AnsweredAlways, HealthAlways, PTL
        DEF Spec, PromiseKept
=============================================================================
