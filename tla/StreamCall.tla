----------------------------- MODULE StreamCall -----------------------------
(***************************************************************************)
(* One streaming call of a DockerClient on a connection of its own:        *)
(* following a log, an exec attached or detached, an upload, a build and a *)
(* download. The output is a row of chunks, numbered as they were produced;*)
(* the connection keeps their order. The daemon and the command are the    *)
(* environment. The full-duplex pump inside an exec is DuplexExchange.     *)
(***************************************************************************)
EXTENDS Integers

CONSTANTS
  Calls,     \* the calls to try
  MaxOut,    \* bound: chunks of output
  Codes      \* exit codes

NoCode == -1

Kinds == {"follow", "exec", "detached", "upload", "build", "download"}

\* input: blocks of a body, or of stdin_data with -1 for none.
Call == [kind : Kinds, input : Int, deadline : BOOLEAN]

\* Assumed of the constants; the instances that are checked state it.
CallAssumption ==
  /\ Calls \subseteq Call /\ MaxOut \in Nat /\ 0 \in Codes /\ Codes \subseteq Nat
  /\ \A c \in Calls : /\ c.deadline => c.kind \in {"follow", "exec"}
                      /\ c.kind \in {"upload", "build"} => c.input >= 0

VARIABLES
  op, pc,
  half,       \* the transport can half-close
  conn,       \* the connection of the stream
  late,       \* the deadline has passed
  entered,    \* whether the streaming phase began before it
  sent, eof,  \* what the client wrote of the input, and its end
  delivered,  \* chunks the consumer got
  end,        \* FollowEnd
  out,        \* how the call ended
  \* the daemon
  exec, code, \* the command, and what it exits with
  header,     \* the response header
  produced,   \* chunks of output
  broken,     \* the chunk that records a build error, 0 for none
  ended       \* how the response ended

client == <<op, pc, half, conn, entered, sent, eof, delivered, end, out>>
daemon == <<exec, code, header, produced, broken, ended>>
vars == <<client, late, daemon>>

Attached == op.kind = "exec"
Sends    == op.kind \in {"upload", "build"}
Accepted == header \in {"ok", "upgraded"}
Input    == op.input >= 0

\* returned, or what was thrown: a status, a transport or a usage error, the
\* build's error, an exception of the caller's consumer or producer, or (stalled)
\* the transport's time-out of a block of the body.
Outcomes == {"none", "returned", "status", "transport", "usage", "build", "caller", "stalled"}

TypeOK ==
  /\ op \in Calls /\ half \in BOOLEAN /\ late \in BOOLEAN /\ eof \in BOOLEAN
  /\ pc \in {"begin", "create", "write", "blocks", "header", "enter", "feed", "pump",
             "read", "close", "inspect", "over"}
  /\ conn \in {"none", "open", "closed"} /\ entered \in {"no", "intime", "late"}
  /\ sent \in 0..op.input \cup {0} /\ delivered \in 0..produced /\ produced \in 0..MaxOut
  /\ end \in {"none", "ended", "stopped", "deadline"}
  /\ out.kind \in Outcomes /\ out.code \in Codes \cup {NoCode}
  /\ exec \in {"none", "created", "running", "exited"} /\ code \in Codes
  /\ header \in {"none", "ok", "upgraded", "error"} /\ broken \in 0..produced
  /\ ended \in {"no", "done", "cut"}

Init ==
  /\ op \in Calls /\ pc = "begin" /\ half \in BOOLEAN /\ conn = "none"
  /\ late = FALSE /\ entered = "no" /\ sent = 0 /\ eof = FALSE /\ delivered = 0
  /\ end = "none" /\ out = [kind |-> "none", code |-> NoCode]
  /\ exec = "none" /\ code \in Codes /\ header = "none"
  /\ produced = 0 /\ broken = 0 /\ ended = "no"

-----------------------------------------------------------------------------
(* How a call ends.                                                        *)

\* Every way out closes the connection, or its owner goes out of scope.
Leave(kind, c) ==
  /\ pc' = "over" /\ out' = [kind |-> kind, code |-> c]
  /\ conn' = IF conn = "open" THEN "closed" ELSE conn

Throw(kind) == Leave(kind, NoCode) /\ UNCHANGED <<op, half, entered, sent, eof, delivered, end>>

Goto(p) == pc' = p /\ UNCHANGED <<op, half, conn, entered, sent, eof, delivered, end, out>>

-----------------------------------------------------------------------------
(* Setting up: connect, exec_create, the request, read_ok_header.          *)

\* Mutant: the capability is checked when the stdin is fed.
CheckedLater == TRUE

\* require_stdin_capable, before there is an exec instance.
StdinCapable == ~(Attached /\ Input /\ ~half)

\* exec_stream_impl: detach with stdin_data is refused; connect may fail.
Begin ==
  /\ pc = "begin" /\ UNCHANGED <<late, daemon>>
  /\ CASE op.kind = "detached" -> IF Input THEN Throw("usage") ELSE Goto("create")
       [] op.kind # "detached" ->
            \/ Throw("transport")
            \/ /\ ~StdinCapable /\ Throw("usage")
            \/ /\ StdinCapable /\ conn' = "open"
               /\ pc' = IF Attached THEN "create" ELSE "write"
               /\ UNCHANGED <<op, half, entered, sent, eof, delivered, end, out>>

\* exec_create, a round-trip of its own.
Create ==
  /\ pc = "create" /\ UNCHANGED <<late, code, header, produced, broken, ended>>
  /\ \/ exec' = "created" /\ Goto("write")
     \/ \E e \in {"status", "transport"} : Throw(e) /\ UNCHANGED exec

\* exec_start, exec_start_detached, the header of an upload, a GET. A detached
\* exec answers at once and keeps running.
Write ==
  /\ pc = "write" /\ UNCHANGED <<late, code, header, produced, broken, ended>>
  /\ \/ Throw("transport") /\ UNCHANGED exec
     \/ /\ op.kind = "detached" /\ exec' = "running"
        /\ Leave("returned", 0) /\ UNCHANGED <<op, half, entered, sent, eof, delivered, end>>
     \/ /\ op.kind # "detached" /\ UNCHANGED exec
        /\ Goto(IF Sends THEN "blocks" ELSE "header")

\* write_chunked_request: a block, or the terminating chunk after the last.
SendBlock ==
  /\ pc = "blocks" /\ UNCHANGED <<late, daemon>>
  /\ IF sent < op.input THEN sent' = sent + 1 /\ UNCHANGED <<pc, eof>>
                        ELSE eof' = TRUE /\ pc' = "header" /\ UNCHANGED sent
  /\ UNCHANGED <<op, half, conn, entered, delivered, end, out>>

\* Mutant: the write error is what is reported.
SymptomFirst == "transport"

\* throw_upload_error: the daemon's early error response, if it can be read.
Diagnosis == IF header = "error" /\ ended = "no" THEN "status" ELSE "transport"

\* A write breaks when the daemon has rejected the upload or is gone. One that
\* times out has a wedged peer: nothing is read, not even a rejection that has
\* arrived. The producer may throw.
SendFails ==
  /\ pc = "blocks" /\ UNCHANGED <<late, daemon>>
  /\ \/ header = "error" /\ Throw(Diagnosis)
     \/ ended = "cut" /\ Throw("transport")
     \/ ended = "no" /\ Throw("stalled")
     \/ sent < op.input /\ Throw("caller")

\* read_ok_header; copy_to_archive reads the whole response.
ReadHeader ==
  /\ pc = "header" /\ UNCHANGED <<late, daemon>>
  /\ \/ header = "error" /\ Throw("status")
     \/ Accepted /\ op.kind = "upload" /\ ended # "cut"
        /\ Leave("returned", NoCode)
        /\ UNCHANGED <<op, half, entered, sent, eof, delivered, end>>
     \/ Accepted /\ op.kind = "upload" /\ ended = "cut" /\ Throw("transport")
     \/ Accepted /\ op.kind # "upload" /\ Goto("enter")
     \/ (header = "none" \/ ended = "cut") /\ Throw("transport")

-----------------------------------------------------------------------------
(* The streaming phase.                                                    *)

\* Mutant: the deadline is first looked at by a read.
EntersAnyway == FALSE

\* arm_streaming_deadline and the first line of pump_exec_stream.
TooLate == op.deadline /\ late

\* After the header: stdin on an upgraded stream is pumped, else it is fed first.
Enter ==
  /\ pc = "enter" /\ UNCHANGED <<late, daemon>>
  /\ entered' = IF op.deadline /\ late THEN "late" ELSE "intime"
  /\ IF TooLate
     THEN end' = "deadline" /\ pc' = "close"
     ELSE /\ UNCHANGED end
          /\ pc' = CASE Attached /\ Input /\ header = "upgraded"  -> "pump"
                     [] Attached /\ Input /\ header # "upgraded" -> "feed"
                     [] ~(Attached /\ Input)                     -> "read"
  /\ UNCHANGED <<op, half, conn, sent, eof, delivered, out>>

\* feed_stdin, and the writing half of the pump: the input, then its end.
Feed ==
  /\ pc \in {"feed", "pump"} /\ ~eof /\ ended = "no" /\ UNCHANGED <<late, daemon>>
  /\ IF sent < op.input THEN sent' = sent + 1 /\ UNCHANGED <<pc, eof>>
                        ELSE /\ eof' = TRUE /\ UNCHANGED sent
                             /\ pc' = IF pc = "feed" THEN "read" ELSE "pump"
  /\ UNCHANGED <<op, half, conn, entered, delivered, end, out>>

\* The sequential write fails or times out; the pump's idle guard, which only
\* watches without a deadline, trips.
FeedFails ==
  /\ UNCHANGED <<late, daemon>>
  /\ \/ pc = "feed"
     \/ pc = "pump" /\ ~op.deadline /\ ~eof
  /\ Throw("transport")

Reading == pc \in {"read", "pump"}

\* A chunk; the consumer goes on, stops or throws.
Deliver ==
  /\ Reading /\ ~TooLate /\ delivered < produced /\ UNCHANGED <<late, daemon>>
  /\ delivered' = delivered + 1 /\ UNCHANGED <<op, half, entered, sent, eof>>
  /\ \/ UNCHANGED <<pc, conn, end, out>>
     \/ /\ op.kind \in {"follow", "exec"} /\ end' = "stopped" /\ pc' = "close"
        /\ UNCHANGED <<conn, out>>
     \/ Leave("caller", NoCode) /\ UNCHANGED end

\* The deadline, re-armed before every read.
Expires ==
  /\ Reading /\ TooLate /\ UNCHANGED <<late, daemon>>
  /\ end' = "deadline" /\ pc' = "close"
  /\ UNCHANGED <<op, half, conn, entered, sent, eof, delivered, out>>

\* Mutant: an end of the stream is the end of the archive.
AnyEnd == TRUE

\* read_block: the end of the archive is the end of the message only.
WholeMessage == ended = "done"

\* The build's error, seen by the scanner.
Recorded == broken > 0 /\ delivered >= broken

\* Mutant: the transport error is looked at first.
TransportFirst == IF ended = "cut" THEN "transport" ELSE IF Recorded THEN "build" ELSE "returned"

\* scanner.finish() comes before the transport error.
BuildOutcome == IF Recorded THEN "build" ELSE IF ended = "cut" THEN "transport" ELSE "returned"

\* The message is complete, or the read fails: a reset may lose what was in flight.
StreamEnds ==
  /\ Reading /\ UNCHANGED <<late, daemon>>
  /\ (ended = "done" /\ delivered = produced) \/ ended = "cut"
  /\ CASE op.kind \in {"follow", "exec"} ->
            /\ end' = "ended" /\ pc' = "close"
            /\ UNCHANGED <<op, half, conn, entered, sent, eof, delivered, out>>
       [] op.kind = "build" ->
            /\ Leave(BuildOutcome, NoCode)
            /\ UNCHANGED <<op, half, entered, sent, eof, delivered, end>>
       [] op.kind = "download" ->
            /\ Leave(IF WholeMessage THEN "returned" ELSE "transport", NoCode)
            /\ UNCHANGED <<op, half, entered, sent, eof, delivered, end>>

\* A silent daemon: the io deadline of a build or a download; the streaming
\* phase of a log or an exec has none of its own.
ReadTimesOut ==
  /\ pc = "read" /\ op.kind \in {"build", "download"} /\ UNCHANGED <<late, daemon>>
  /\ ended = "no" /\ delivered = produced
  /\ Throw(IF op.kind = "build" /\ Recorded THEN "build" ELSE "transport")

Close ==
  /\ pc = "close" /\ UNCHANGED <<late, daemon>>
  /\ conn' = "closed"
  /\ IF Attached THEN pc' = "inspect" /\ UNCHANGED out
                 ELSE pc' = "over" /\ out' = [kind |-> "returned", code |-> NoCode]
  /\ UNCHANGED <<op, half, entered, sent, eof, delivered, end>>

\* Mutant: the status of a running command is taken.
StatusAsIs == code

\* parse_exec_status: the exit code is known when the command has exited. Without
\* a deadline a running command reads as 0, by contract.
ExitCode == IF exec = "exited" THEN code ELSE IF op.deadline THEN NoCode ELSE 0

\* The inspect, on a fresh connection.
Inspect ==
  /\ pc = "inspect" /\ UNCHANGED <<late, daemon>>
  /\ \/ \E e \in {"status", "transport"} : Throw(e)
     \/ /\ Leave("returned", ExitCode)
        /\ UNCHANGED <<op, half, entered, sent, eof, delivered, end>>

-----------------------------------------------------------------------------
(* The clock, the daemon and the command.                                  *)

Expire == op.deadline /\ ~late /\ late' = TRUE /\ UNCHANGED <<client, daemon>>

Serving == conn = "open" /\ ended = "no"

\* The response header; an upload may be rejected before it is complete.
Reply ==
  /\ Serving /\ header = "none" /\ UNCHANGED <<client, late, code, produced, broken, ended>>
  /\ \/ pc \in {"header", "blocks"} /\ header' = "error" /\ UNCHANGED exec
     \/ pc = "header" /\ ~Attached /\ header' = "ok" /\ UNCHANGED exec
     \/ pc = "header" /\ Attached /\ header' \in {"ok", "upgraded"} /\ exec' = "running"

\* A chunk of output; a build may record an error in one.
Produce ==
  /\ Serving /\ Accepted /\ op.kind # "upload" /\ produced < MaxOut
  /\ Attached => exec = "running"
  /\ produced' = produced + 1
  /\ broken' \in {broken} \cup (IF op.kind = "build" /\ broken = 0 THEN {produced + 1} ELSE {})
  /\ UNCHANGED <<client, late, exec, code, header, ended>>

Exits ==
  /\ exec = "running" /\ exec' = "exited"
  /\ UNCHANGED <<client, late, code, header, produced, broken, ended>>

Completes ==
  /\ Serving /\ Accepted /\ (Attached => exec = "exited")
  /\ ended' = "done"
  /\ UNCHANGED <<client, late, exec, code, header, produced, broken>>

Cut ==
  /\ Serving /\ pc \notin {"begin", "create", "write"} /\ ended' = "cut"
  /\ UNCHANGED <<client, late, exec, code, header, produced, broken>>

Done == pc = "over" /\ UNCHANGED vars

Next ==
  \/ Begin \/ Create \/ Write \/ SendBlock \/ SendFails \/ ReadHeader
  \/ Enter \/ Feed \/ FeedFails \/ Deliver \/ Expires \/ StreamEnds \/ ReadTimesOut
  \/ Close \/ Inspect
  \/ Expire \/ Reply \/ Produce \/ Exits \/ Completes \/ Cut \/ Done

Spec == Init /\ [][Next]_vars

-----------------------------------------------------------------------------
(* Properties. *)

\* Stdin goes out after the start response and ends after its last byte (bytes
\* before the 101 are dropped by intermediaries), and an exec that could never
\* be told the end of its input is not even created.
InputInOrder ==
  /\ (Attached /\ (sent > 0 \/ eof)) => Accepted
  /\ eof => sent = op.input
  /\ (Attached /\ Input /\ ~half) => exec = "none"

\* What was delivered is a whole response whenever the call says so: a truncated
\* archive or build never reads as a complete one, a recorded build error is the
\* outcome whatever the connection did, and a log or an exec that was not
\* interrupted has delivered everything.
ReturnedIsWhole ==
  /\ (op.kind \in {"build", "download"} /\ out.kind = "returned") =>
        ended = "done" /\ delivered = produced /\ broken = 0
  /\ (op.kind = "build" /\ out.kind \in {"returned", "transport"}) => ~Recorded
  /\ (end = "ended" /\ ended = "done") => delivered = produced

\* A rejected upload reports the daemon's status rather than the broken pipe,
\* as long as the daemon kept its response readable; it is only missed by a write
\* that timed out, which is then what is reported, of an unfinished body.
RejectionWins ==
  /\ (Sends /\ header = "error" /\ ended = "no") =>
        out.kind \in {"none", "status", "caller", "stalled"}
  /\ out.kind = "stalled" => Sends /\ ~eof

\* An exit code is reported of an exited command only: one that outlives a
\* deadline has none.
CodeIsReal ==
  (out.kind = "returned" /\ Attached /\ out.code # NoCode) =>
     \/ exec = "exited" /\ out.code = code
     \/ ~op.deadline /\ out.code = 0

\* A deadline that has passed before the streaming phase delivers nothing and
\* feeds nothing.
LateIsQuiet == entered = "late" => delivered = 0 /\ sent = 0 /\ ~eof
=============================================================================
