--------------------------- MODULE SessionClient ---------------------------
(***************************************************************************)
(* The connections of Docker clients (docker/DockerClient.hpp and .cpp):   *)
(* one fresh connection per request, the scoped keep-alive session of GETs *)
(* with its single replay on a stale connection, nested session guards,    *)
(* the API version negotiated on first use, the retried pull, and what     *)
(* copies and moves of a client do to all of it. The daemon may answer,    *)
(* answer and close, close while idle or in the middle, or stay silent.    *)
(***************************************************************************)
EXTENDS Naturals, Sequences, SequencesExt

CONSTANTS
  Clients,       \* DockerClient instances
  Hosts,         \* the daemons they may talk to
  Reveals,       \* the daemons that answer with an Api-Version
  Conns,         \* connections that may be open at once
  PullAttempts,  \* PullRetry::attempts, at least 1
  MaxNesting,    \* bound: session guards open on one client
  NoConn,        \* no connection
  Gone,          \* the host of a client that was moved from
  Unset,         \* api_prefix_ is disengaged
  Unpinned       \* api_prefix_ is empty: the daemon reveals no version

\* Assumed of the constants; the instances that are checked state it.
SessionAssumption ==
  /\ Reveals \subseteq Hosts
  /\ PullAttempts \in Nat \ {0} /\ MaxNesting \in Nat
  /\ NoConn \notin Conns
  /\ {Gone, Unset, Unpinned} \cap Hosts = {} /\ Unset # Unpinned

VARIABLES
  host,     \* host_
  pin,      \* api_prefix_: the daemon whose version it names
  enabled,  \* session_enabled_
  held,     \* session_transport_
  guards,   \* the Session guards open on a client: does each own the session
  call,     \* the request each client is working on
  sent,     \* how often its current call has been written to a connection
  conn      \* the connections

instance == <<host, pin, enabled, held, guards>>
vars == <<instance, call, sent, conn>>

Methods == {"GET", "POST", "pull"}
Tags == [by : Clients, no : {0, 1}]
Kinds == {"keep", "close", "big", "5xx"}

\* negotiating: the ping that precedes a typed call; no: tells this request from
\* the one before; reused: on the session's connection; tries: of a pull.
NoCall == [at |-> "idle", method |-> "GET", negotiating |-> FALSE, no |-> 0,
           reused |-> FALSE, conn |-> NoConn, tries |-> 0]
NotOpen == [host |-> Gone, peer |-> "closed", inbox |-> <<>>, replies |-> <<>>]

TypeOK ==
  /\ host \in [Clients -> Hosts \cup {Gone}]
  /\ pin \in [Clients -> Hosts \cup {Unset, Unpinned}]
  /\ enabled \in [Clients -> BOOLEAN]
  /\ held \in [Clients -> Conns \cup {NoConn}]
  /\ guards \in [Clients -> Seq(BOOLEAN)]
  /\ call \in [Clients -> [at : {"idle", "route", "write", "read"}, method : Methods,
                           negotiating : BOOLEAN, no : {0, 1}, reused : BOOLEAN,
                           conn : Conns \cup {NoConn}, tries : 0..PullAttempts]]
  /\ sent \in [Clients -> 0..(PullAttempts + 1)]
  /\ conn \in [Conns -> [host : Hosts \cup {Gone}, peer : {"open", "closed"},
                         inbox : Seq(Tags), replies : Seq([to : Tags, kind : Kinds])]]

Init ==
  /\ host \in [Clients -> Hosts]
  /\ pin = [c \in Clients |-> Unset]
  /\ enabled = [c \in Clients |-> FALSE]
  /\ held = [c \in Clients |-> NoConn]
  /\ guards = [c \in Clients |-> <<>>]
  /\ call = [c \in Clients |-> NoCall]
  /\ sent = [c \in Clients |-> 0]
  /\ conn = [k \in Conns |-> NotOpen]

-----------------------------------------------------------------------------
(* Guards, copies and moves, between requests.                             *)

Idle(c) == call[c].at = "idle"

\* A transport closes with its last owner; k may be NoConn.
Released(k) == [j \in Conns |-> IF j = k /\ \A c \in Clients : held'[c] # k
                                THEN NotOpen ELSE conn[j]]

OpenSession(c) ==
  /\ Idle(c) /\ Len(guards[c]) < MaxNesting
  /\ guards' = [guards EXCEPT ![c] = Append(@, ~enabled[c])]
  /\ enabled' = [enabled EXCEPT ![c] = TRUE]
  /\ UNCHANGED <<host, pin, held, call, sent, conn>>

\* Only the outermost guard does.
Owns(c) == Last(guards[c])

CloseSession(c) ==
  /\ Idle(c) /\ guards[c] # <<>>
  /\ guards' = [guards EXCEPT ![c] = Front(@)]
  /\ IF Owns(c)
     THEN /\ enabled' = [enabled EXCEPT ![c] = FALSE]
          /\ held' = [held EXCEPT ![c] = NoConn]
          /\ conn' = Released(held[c])
     ELSE UNCHANGED <<enabled, held, conn>>
  /\ UNCHANGED <<host, pin, call, sent>>

\* Mutant: the session is copied with the rest.
InheritSession(c, d) ==
  /\ enabled' = [enabled EXCEPT ![d] = enabled[c]]
  /\ held' = [held EXCEPT ![d] = held[c]]
  /\ conn' = Released(held[d])

\* Neither copies nor moves transfer the session; d starts without one.
DropSession(c, d) ==
  /\ enabled' = [enabled EXCEPT ![d] = FALSE]
  /\ held' = [held EXCEPT ![d] = NoConn]
  /\ conn' = Released(held[d])

\* d is copy-constructed or copy-assigned from c.
Copy(c, d) ==
  /\ c # d /\ Idle(c) /\ Idle(d)
  /\ host' = [host EXCEPT ![d] = host[c]]
  /\ pin' = [pin EXCEPT ![d] = pin[c]]
  /\ DropSession(c, d)
  /\ UNCHANGED <<guards, call, sent>>

\* Mutant: moving out of the optional leaves it engaged with an empty string.
LeaveEngaged == Unpinned

\* The moved-from prefix is not negotiated yet.
ResetPrefix == Unset

\* d is move-constructed or move-assigned from c, whose strings go with it.
Move(c, d) ==
  /\ c # d /\ Idle(c) /\ Idle(d)
  /\ host' = [host EXCEPT ![d] = host[c], ![c] = Gone]
  /\ pin' = [pin EXCEPT ![d] = pin[c], ![c] = ResetPrefix]
  /\ DropSession(c, d)
  /\ UNCHANGED <<guards, call, sent>>

-----------------------------------------------------------------------------
(* request_with_io_timeout, api_prefix and pull_image.                     *)

\* A typed call negotiates first, a raw request never does. One thread uses the
\* clients: those of different threads share nothing.
Begin(c) ==
  /\ \A d \in Clients : Idle(d)
  /\ \E m \in Methods, typed \in BOOLEAN :
       /\ m = "pull" => typed
       /\ call' = [call EXCEPT ![c] = [@ EXCEPT !.at = "route", !.method = m, !.tries = 1,
                                                !.negotiating = typed /\ pin[c] = Unset]]
  /\ UNCHANGED <<instance, sent, conn>>

\* Mutant: every request rides the session.
ReuseAll(c) == enabled[c]

\* Session reuse is for GETs only; the version ping is one.
Reuse(c) == enabled[c] /\ (call[c].method = "GET" \/ call[c].negotiating)

\* The call returns or throws.
End(c) == /\ call' = [call EXCEPT ![c] = [NoCall EXCEPT !.no = call[c].no]]
          /\ sent' = [sent EXCEPT ![c] = 0]

\* The connection the request goes out on.
UseHeld(c) ==
  /\ call[c].at = "route" /\ Reuse(c) /\ held[c] # NoConn
  /\ call' = [call EXCEPT ![c] = [@ EXCEPT !.at = "write", !.conn = held[c], !.reused = TRUE]]
  /\ UNCHANGED <<instance, sent, conn>>

Connect(c) ==
  /\ call[c].at = "route" /\ ~(Reuse(c) /\ held[c] # NoConn)
  /\ host[c] # Gone
  /\ \E k \in Conns :
       /\ conn[k] = NotOpen /\ \A d \in Clients : held[d] # k /\ call[d].conn # k
       /\ conn' = [conn EXCEPT ![k] = [@ EXCEPT !.host = host[c], !.peer = "open"]]
       /\ call' = [call EXCEPT ![c] = [@ EXCEPT !.at = "write", !.conn = k, !.reused = FALSE]]
  /\ UNCHANGED <<instance, sent>>

\* docker::connect throws.
ConnectThrows(c) ==
  /\ call[c].at = "route" /\ ~(Reuse(c) /\ held[c] # NoConn)
  /\ End(c)
  /\ UNCHANGED <<instance, conn>>

\* Mutant: a failed connection stays the session's.
KeepHeld(c) == UNCHANGED held

\* Whatever fails on the session's connection, it is given up.
GiveUpHeld(c) == held' = IF call[c].reused THEN [held EXCEPT ![c] = NoConn] ELSE held

\* A DockerError other than an expiry: the session's connection is taken for
\* stale and the request goes out once more, on a fresh one.
Broken(c) ==
  /\ GiveUpHeld(c)
  /\ conn' = Released(call[c].conn)
  /\ IF call[c].reused
     THEN /\ call' = [call EXCEPT ![c] = [@ EXCEPT !.at = "route", !.conn = NoConn,
                                                    !.reused = FALSE]]
          /\ UNCHANGED sent
     ELSE End(c)
  /\ UNCHANGED <<host, pin, enabled, guards>>

\* The write reaches the peer, or a closed one: noticed now, or by the read.
Write(c) ==
  LET k == call[c].conn
      n == 1 - call[c].no
  IN
  /\ call[c].at = "write"
  /\ call' = [call EXCEPT ![c] = [@ EXCEPT !.at = "read", !.no = n]]
  /\ sent' = IF call[c].negotiating THEN sent ELSE [sent EXCEPT ![c] = @ + 1]
  /\ conn' = IF conn[k].peer = "open"
             THEN [conn EXCEPT ![k].inbox = Append(@, [by |-> c, no |-> n])] ELSE conn
  /\ UNCHANGED instance

WriteThrows(c) ==
  /\ call[c].at = "write" /\ conn[call[c].conn].peer = "closed"
  /\ Broken(c)

Answer(c) == Head(conn[call[c].conn].replies)
Answered(c) == call[c].at = "read" /\ conn[call[c].conn].replies # <<>>

\* The connection closed before the response completed, or the response exceeds
\* max_response_body.
ReadThrows(c) ==
  /\ \/ Answered(c) /\ Answer(c).kind = "big"
     \/ call[c].at = "read" /\ ~Answered(c) /\ conn[call[c].conn].peer = "closed"
  /\ Broken(c)

\* The io deadline expires in the write or the read: not staleness, no replay.
TimesOut(c) ==
  /\ call[c].at \in {"write", "read"} /\ ~Answered(c)
  /\ GiveUpHeld(c)
  /\ conn' = Released(call[c].conn)
  /\ End(c)
  /\ UNCHANGED <<host, pin, enabled, guards>>

\* conn_reusable: the whole response arrived and neither side closes.
Reusable(c) == Reuse(c) /\ Answer(c).kind # "close"

\* Mutant: one try too many.
OneMoreTry(c) == Answer(c).kind = "5xx" /\ call[c].tries <= PullAttempts

\* A pull answered with a 5xx, while tries remain.
TriesAgain(c) == Answer(c).kind = "5xx" /\ call[c].tries < PullAttempts

\* What follows a complete response: the call itself after its ping, the next
\* try of a pull, or the return.
Proceed(c) ==
  LET Again(call1) == /\ call' = [call EXCEPT ![c] = [call1 EXCEPT !.at = "route", !.conn = NoConn,
                                                                  !.reused = FALSE]]
                      /\ UNCHANGED sent
  IN  IF call[c].negotiating THEN Again([call[c] EXCEPT !.negotiating = FALSE])
      ELSE IF call[c].method = "pull" /\ TriesAgain(c) THEN Again([call[c] EXCEPT !.tries = @ + 1])
      ELSE End(c)

Read(c) ==
  LET k == call[c].conn IN
  /\ Answered(c) /\ Answer(c).kind # "big"
  /\ IF Reusable(c)
     THEN /\ held' = [held EXCEPT ![c] = k]
          /\ conn' = [conn EXCEPT ![k].replies = Tail(@)]
     ELSE /\ GiveUpHeld(c)
          /\ conn' = Released(k)
  /\ pin' = IF call[c].negotiating
            THEN [pin EXCEPT ![c] = IF conn[k].host \in Reveals THEN conn[k].host ELSE Unpinned]
            ELSE pin
  /\ Proceed(c)
  /\ UNCHANGED <<host, enabled, guards>>

-----------------------------------------------------------------------------
(* The daemon, or what is between.                                         *)

\* The daemon's side of a connection after it has answered its first request.
Serving(l, kind) ==
  [l EXCEPT !.inbox = Tail(l.inbox),
            !.replies = Append(l.replies, [to |-> Head(l.inbox), kind |-> kind]),
            !.peer = IF kind = "close" THEN "closed" ELSE l.peer]

Serve(k) ==
  /\ conn[k].peer = "open" /\ conn[k].inbox # <<>>
  /\ \E kind \in Kinds : conn' = [conn EXCEPT ![k] = Serving(conn[k], kind)]
  /\ UNCHANGED <<instance, call, sent>>

PeerCloses(k) ==
  /\ conn[k].peer = "open"
  /\ \E r \in {conn[k].replies, <<>>} :
       conn' = [conn EXCEPT ![k] = [@ EXCEPT !.peer = "closed", !.inbox = <<>>, !.replies = r]]
  /\ UNCHANGED <<instance, call, sent>>

Step(c) ==
  \/ UseHeld(c) \/ Connect(c) \/ ConnectThrows(c) \/ Write(c) \/ WriteThrows(c)
  \/ ReadThrows(c) \/ TimesOut(c) \/ Read(c)

Next ==
  \/ \E c \in Clients : OpenSession(c) \/ CloseSession(c) \/ Begin(c) \/ Step(c)
  \/ \E c, d \in Clients : Copy(c, d) \/ Move(c, d)
  \/ \E k \in Conns : Serve(k) \/ PeerCloses(k)

Spec == Init /\ [][Next]_vars

-----------------------------------------------------------------------------
(* Properties. *)

\* A response that a call may read answers the request this call has written,
\* never an earlier one's: a connection abandoned in the middle is not reused.
AnswersOwn ==
  \A c \in Clients : call[c].at = "read" =>
    \A i \in DOMAIN conn[call[c].conn].replies :
      conn[call[c].conn].replies[i].to = [by |-> c, no |-> call[c].no]

\* "Two instances writing into one socket would interleave requests": a
\* connection belongs to one client, also after copies and moves.
NotShared ==
  \A c, d \in Clients : c # d =>
    ({held[c], call[c].conn} \cap {held[d], call[d].conn}) \subseteq {NoConn}

\* "A stale-connection retry can never replay a side effect": a POST is written
\* once per call, a GET at most twice, a pull once per try.
WrittenOnce ==
  \A c \in Clients : ~Idle(c) =>
    sent[c] <= CASE call[c].method = "GET" -> 2
                 [] call[c].method = "POST" -> 1
                 [] call[c].method = "pull" -> call[c].tries

\* A kept connection has a guard that will close it: no instance is stuck in
\* reuse mode, whatever was copied, moved or nested.
SessionGuarded ==
  \A c \in Clients : /\ enabled[c] => \E i \in DOMAIN guards[c] : guards[c][i]
                     /\ held[c] # NoConn => enabled[c]

\* The daemons a client talks to: its host, and the peers of its connections.
Daemons(c) == ({host[c]} \ {Gone}) \cup
              {conn[k].host : k \in {held[c], call[c].conn} \ {NoConn}}

\* A request goes to the daemon of its client, under the API version that this
\* daemon revealed, whatever was assigned to the client since.
OwnDaemon ==
  \A c \in Clients :
    /\ \A g, h \in Daemons(c) : g = h
    /\ pin[c] \in Hosts => Daemons(c) \subseteq {pin[c]}
    /\ pin[c] = Unpinned => Daemons(c) \cap Reveals = {}

\* A connection serves the client it was opened for: the answer a call reads is its own,
\* nobody else holds the connection, and it leads to the client's daemon.
OwnAnswer == AnswersOwn /\ NotShared /\ OwnDaemon

\* What is sent twice is only what may be, and a kept connection is given back.
NeverReplayed == WrittenOnce /\ SessionGuarded
=============================================================================
