------------------------------- MODULE Client -------------------------------
(***************************************************************************)
(* What a DockerClient does on its connections and with its credentials,   *)
(* for one run of TLC and one set of theorems: a behaviour is one of       *)
(* SessionClient, StreamCall or Credentials, which part tells. The         *)
(* variables of the others are off; SessionClient's are those of clients   *)
(* nobody uses. A run may add parts of its own.                            *)
(***************************************************************************)
EXTENDS SessionClient, Integers

CONSTANTS
  Calls, MaxOut, Codes,                                 \* of StreamCall
  Threads, Mirrors, HubPrefixes, Helpers, Configs,      \* of Credentials
  Ttl, Slow, Tokens, Anonymous

VARIABLES
  part,
  told, link,       \* StreamCall's sent and conn
  op, pc, half, late, entered, eof, delivered, end, out,
  exec, code, header, produced, broken, ended,
  prefix, config, cache, pulls

callVars == <<told, link, op, pc, half, late, entered, eof, delivered, end, out,
              exec, code, header, produced, broken, ended>>
pullVars == <<prefix, config, cache, pulls>>
allVars  == <<part, vars, callVars, pullVars>>

-----------------------------------------------------------------------------
(* The components.                                                         *)

T == INSTANCE StreamCall WITH sent <- told, conn <- link
P == INSTANCE Credentials WITH Hosts <- Mirrors

ASSUME ClientAssumption == SessionAssumption /\ T!CallAssumption /\ P!CredentialsAssumption

-----------------------------------------------------------------------------
Off(v) == v = "off"

\* Clients of one daemon.
Unused == Init /\ \E h \in Reveals : host = [c \in Clients |-> h]

CallsOff ==
  /\ Off(told) /\ Off(link) /\ Off(op) /\ Off(pc) /\ Off(half) /\ Off(late) /\ Off(entered)
  /\ Off(eof) /\ Off(delivered) /\ Off(end) /\ Off(out) /\ Off(exec) /\ Off(code) /\ Off(header)
  /\ Off(produced) /\ Off(broken) /\ Off(ended)
PullsOff == Off(prefix) /\ Off(config) /\ Off(cache) /\ Off(pulls)

ClientInit ==
  \/ part = "session" /\ Init /\ CallsOff /\ PullsOff
  \/ part = "call" /\ T!Init /\ Unused /\ PullsOff
  \/ part = "pull" /\ P!Init /\ Unused /\ CallsOff

ClientNext ==
  \/ part = "session" /\ Next /\ UNCHANGED <<part, callVars, pullVars>>
  \/ part = "call" /\ T!Next /\ UNCHANGED <<part, vars, pullVars>>
  \/ part = "pull" /\ P!Next /\ UNCHANGED <<part, vars, callVars>>

ClientSpec == ClientInit /\ [][ClientNext]_allVars

-----------------------------------------------------------------------------
(* The properties of the components, each where it applies; those of the   *)
(* sessions, OwnAnswer and NeverReplayed, are SessionClient's.             *)

ClientTypes ==
  /\ TypeOK
  /\ part = "call" => T!TypeOK
  /\ part = "pull" => P!TypeOK

\* A streamed call passes its input and its output on whole and in order, reports as its
\* result only what really happened, says why it cannot succeed, and does nothing when late.
CallHonest ==
  part = "call" =>
    /\ T!InputInOrder /\ T!ReturnedIsWhole /\ T!CodeIsReal
    /\ T!RejectionWins /\ T!LateIsQuiet

\* A pull sends the credentials of its own registry, and none that are out of date.
SecretsInPlace == part = "pull" => P!SecretsInPlace
=============================================================================
