--------------------------- MODULE DuplexExchange ---------------------------
(***************************************************************************)
(* The full-duplex pump of an exec with stdin (docker/DuplexExchange.hpp): *)
(* a read chain and a write chain of asynchronous operations on one        *)
(* stream, driven from the calling thread, the half-close after the input, *)
(* the idle and absolute deadlines, and the epilogue that cancels and      *)
(* drains what is still in flight. The operating system and the peer are   *)
(* the environment; a unit of data is one completed operation's worth.     *)
(***************************************************************************)
EXTENDS Naturals

CONSTANTS
  MaxInput,   \* bound: units of input
  Flushes,    \* the half-close flushes first: a message-mode named pipe, of which
              \* EchoComplete does not hold
  Window,     \* units each direction can buffer
  Faults      \* stop: the consumer declines; throw: it throws; exit: the peer
              \* ends early; zero: a half-close arrives as a zero-byte read

FaultKinds == {"stop", "throw", "exit", "zero"}

DuplexAssumption ==
  /\ MaxInput \in Nat /\ Window \in Nat \ {0}
  /\ Flushes \in BOOLEAN
  /\ Faults \subseteq FaultKinds

VARIABLES
  \* the frame of duplex_exchange
  args,        \* the call: units of input, eof_after_input, whether an io_timeout
               \* and a deadline are set
  pc,          \* loop, run (in run_one), drain (in the final run), returned, thrown
  sent,        \* input units the write chain has sent
  readDone, readEc, drained, eofOwed, stopping, expired,
  ec,          \* the outcome
  delivered,   \* units handed to on_chunk
  \* the asio operations: idle, pending, or a completion waiting for its handler
  reading, writing,
  \* the world
  late,        \* the deadline has passed
  toPeer, fromPeer,  \* units in transit
  halfClosed,  \* the send side is shut
  echoed,      \* units the peer has written
  peer,        \* open, or how its side has ended: eof, reset
  obliging     \* the peer echoes what it reads and ends with its input; any
               \* other owes nothing

frame == <<args, pc, sent, readDone, readEc, drained, eofOwed, stopping, expired, ec, delivered>>
world == <<late, toPeer, fromPeer, halfClosed, echoed, peer, obliging>>
vars  == <<frame, reading, writing, world>>

Operation == [at : {"idle", "pending", "completed"}, n : {0, 1},
              ec : {"none", "eof", "reset", "broken", "aborted"}]
Idle    == [at |-> "idle", n |-> 0, ec |-> "none"]
Pending == [at |-> "pending", n |-> 0, ec |-> "none"]
Done(n, e) == [at |-> "completed", n |-> n, ec |-> e]

Calls == [input : 0..MaxInput, eof : BOOLEAN, io : BOOLEAN, deadline : BOOLEAN]

TypeOK ==
  /\ args \in Calls /\ obliging \in BOOLEAN
  /\ pc \in {"loop", "run", "drain", "returned", "thrown"}
  /\ sent \in 0..args.input /\ delivered \in 0..args.input
  /\ readDone \in BOOLEAN /\ drained \in BOOLEAN /\ eofOwed \in BOOLEAN
  /\ stopping \in BOOLEAN /\ expired \in BOOLEAN
  /\ readEc \in {"none", "eof", "reset"}
  /\ ec \in {"none", "eof", "reset", "timed_out"}
  /\ reading \in Operation /\ writing \in Operation
  /\ late \in BOOLEAN /\ halfClosed \in BOOLEAN
  /\ toPeer \in 0..Window /\ fromPeer \in 0..Window /\ echoed \in 0..args.input
  /\ peer \in {"open", "eof", "reset"}

\* start_read, start_write.
Init ==
  /\ args \in Calls /\ obliging \in BOOLEAN
  /\ pc = "loop"
  /\ sent = 0 /\ delivered = 0
  /\ readDone = FALSE /\ readEc = "none"
  /\ drained = (args.input = 0) /\ eofOwed = args.eof
  /\ stopping = FALSE /\ expired = FALSE /\ ec = "none"
  /\ reading = Pending
  /\ writing = IF args.input = 0 THEN Idle ELSE Pending
  /\ late = FALSE
  /\ toPeer = 0 /\ fromPeer = 0 /\ halfClosed = FALSE /\ echoed = 0 /\ peer = "open"

-----------------------------------------------------------------------------
(* The loop of the calling thread.                                         *)

Completed(op) == op.at = "completed"

\* The input has gone out and its end is still to be told.
HalfCloseDue == drained /\ eofOwed

\* FlushFileBuffers keeps the calling thread until the peer has read it all.
FlushBlocks == Flushes /\ toPeer > 0 /\ peer = "open"

\* The top of the loop: the half-close, the deadline check, run_one.
Loop ==
  /\ pc = "loop" /\ ~readDone
  /\ HalfCloseDue => ~FlushBlocks
  /\ halfClosed' = (halfClosed \/ HalfCloseDue)
  /\ eofOwed' = (eofOwed /\ ~HalfCloseDue)
  /\ expired' = late
  /\ pc' = IF late THEN "drain" ELSE "run"
  /\ UNCHANGED <<args, sent, readDone, readEc, drained, stopping, ec, delivered, reading, writing,
                 late, toPeer, fromPeer, echoed, peer, obliging>>

\* Mutant: the idle bound stays armed after the input has gone out.
IdleAlways == args.io

\* The idle bound is armed while the input is still going out.
IdleBound == args.io /\ ~drained

\* run_one_for ends without having run a handler.
Expire ==
  /\ pc = "run" /\ (late \/ IdleBound)
  /\ ~Completed(reading) /\ ~Completed(writing)
  /\ expired' = TRUE /\ pc' = "drain"
  /\ UNCHANGED <<args, sent, readDone, readEc, drained, eofOwed, stopping, ec, delivered,
                 reading, writing, world>>

\* Handlers only run inside run_one and the final run.
Driven == pc \in {"run", "drain"} /\ (pc = "drain" => stopping)

\* What is left of the frame after a handler: back to the loop, or draining on.
HandlerReturns == pc' = IF pc = "run" THEN "loop" ELSE pc

\* Mutant: a drained handler goes on as ever.
NeverQuiet == FALSE

\* Drained by the epilogue: neither deliver nor re-arm.
Quiet == stopping

\* Mutant: a zero-byte read is taken for data.
ZeroIsData(c) == c.ec

\* A successful read of nothing is the peer's half-close.
EndOf(c) == IF c.ec = "none" /\ c.n = 0 THEN "eof" ELSE c.ec

\* The completion handler of a read: deliver, then end the chain or re-arm it.
ReadHandler ==
  /\ Driven /\ Completed(reading)
  /\ \/ /\ Quiet /\ reading' = Idle /\ HandlerReturns
        /\ UNCHANGED <<readDone, readEc, delivered>>
     \/ /\ ~Quiet /\ reading.n = 1 /\ EndOf(reading) = "none"
        /\ delivered' = delivered + 1
        /\ \/ reading' = Pending /\ HandlerReturns /\ UNCHANGED readDone
           \/ "stop" \in Faults /\ readDone' = TRUE /\ reading' = Idle /\ HandlerReturns
           \/ "throw" \in Faults /\ pc' = "thrown" /\ reading' = Idle /\ UNCHANGED readDone
        /\ UNCHANGED readEc
     \/ /\ ~Quiet /\ reading.n = 0 /\ HandlerReturns
        /\ IF EndOf(reading) = "none"
           THEN reading' = Pending /\ UNCHANGED <<readDone, readEc>>
           ELSE reading' = Idle /\ readDone' = TRUE /\ readEc' = EndOf(reading)
        /\ UNCHANGED delivered
  /\ UNCHANGED <<args, sent, drained, eofOwed, stopping, expired, ec, writing, world>>

\* Mutant: the half-close is still owed down a broken send side.
OwedRegardless(c) == eofOwed

\* A broken send side is not half-closed.
StillOwed(c) == eofOwed /\ c.ec = "none"

\* Mutant: one chunk too many.
OneMoreChunk(c) == c.ec = "none" /\ ~Quiet /\ sent + c.n <= args.input

More(c) == c.ec = "none" /\ ~Quiet /\ sent + c.n < args.input

\* The completion handler of a write: end the chain, or send the next chunk.
WriteHandler ==
  LET c == writing IN
  /\ Driven /\ Completed(writing)
  /\ sent' = sent + c.n
  /\ writing' = IF More(c) THEN Pending ELSE Idle
  /\ drained' = (drained \/ ~More(c))
  /\ eofOwed' = StillOwed(c)
  /\ HandlerReturns
  /\ UNCHANGED <<args, readDone, readEc, stopping, expired, ec, delivered, reading, world>>

-----------------------------------------------------------------------------
(* The epilogue.                                                           *)

Cancelled(op) == IF op = Pending THEN Done(0, "aborted") ELSE op

\* cancel() reaches what is pending; a completion already queued stays.
Cancel ==
  /\ ~stopping /\ (pc = "drain" \/ (pc = "loop" /\ readDone))
  /\ pc' = "drain" /\ stopping' = TRUE
  /\ reading' = Cancelled(reading) /\ writing' = Cancelled(writing)
  /\ UNCHANGED <<args, sent, readDone, readEc, drained, eofOwed, expired, ec, delivered, world>>

\* Mutant: the outcome is what the read side last said.
LastRead == readEc

\* Why the loop ended, never what the drain happened to complete.
Outcome == IF expired \/ ~readDone THEN "timed_out" ELSE readEc

\* Mutant: the final run() does not wait for the cancelled handlers.
NoWait == TRUE

\* run() returns when no work is left.
NoWork == reading = Idle /\ writing = Idle

Finish ==
  /\ pc = "drain" /\ stopping /\ NoWork
  /\ pc' = "returned" /\ ec' = Outcome
  /\ UNCHANGED <<args, sent, readDone, readEc, drained, eofOwed, stopping, expired, delivered,
                 reading, writing, world>>

-----------------------------------------------------------------------------
(* The operating system and the peer.                                      *)

ReadCompletes ==
  /\ reading = Pending
  /\ \/ /\ fromPeer > 0
        /\ fromPeer' = fromPeer - 1
        /\ reading' = Done(1, "none")
     \/ /\ fromPeer = 0 /\ peer # "open"
        /\ reading' \in {Done(0, peer)}
             \cup IF "zero" \in Faults /\ peer = "eof" THEN {Done(0, "none")} ELSE {}
        /\ UNCHANGED fromPeer
  /\ UNCHANGED <<frame, writing, late, toPeer, halfClosed, echoed, peer, obliging>>

WriteCompletes ==
  /\ writing = Pending
  /\ \/ /\ toPeer < Window
        /\ toPeer' = toPeer + 1
        /\ writing' = Done(1, "none")
     \/ /\ peer # "open"
        /\ writing' = Done(0, "broken")
        /\ UNCHANGED toPeer
  /\ UNCHANGED <<frame, reading, late, fromPeer, halfClosed, echoed, peer, obliging>>

\* A peer that echoes its input: it stops reading while its output is full.
Echo ==
  /\ peer = "open" /\ toPeer > 0 /\ fromPeer < Window
  /\ toPeer' = toPeer - 1 /\ fromPeer' = fromPeer + 1 /\ echoed' = echoed + 1
  /\ UNCHANGED <<frame, reading, writing, late, halfClosed, peer, obliging>>

\* It ends with its input; a faulty one ends or breaks at any time.
PeerEnds ==
  /\ peer = "open"
  /\ \/ peer' = "eof" /\ halfClosed /\ toPeer = 0
     \/ "exit" \in Faults /\ ~obliging /\ peer' \in {"eof", "reset"}
  /\ UNCHANGED <<frame, reading, writing, late, toPeer, fromPeer, halfClosed, echoed, obliging>>

DeadlinePasses ==
  /\ args.deadline /\ ~late /\ late' = TRUE
  /\ UNCHANGED <<frame, reading, writing, toPeer, fromPeer, halfClosed, echoed, peer, obliging>>

Caller == Loop \/ Expire \/ ReadHandler \/ WriteHandler \/ Cancel \/ Finish
System == ReadCompletes \/ WriteCompletes

Next == Caller \/ System \/ Echo \/ PeerEnds \/ DeadlinePasses

Spec == Init /\ [][Next]_vars

\* The thread runs, the operating system completes what it can, time passes, and
\* an obliging peer keeps its promises. Any other peer owes nothing.
Fairness == /\ WF_vars(Caller) /\ WF_vars(DeadlinePasses)
            /\ WF_vars(ReadCompletes) /\ WF_vars(WriteCompletes)
            /\ WF_vars(obliging /\ Echo) /\ WF_vars(obliging /\ PeerEnds)

FairSpec == Spec /\ Fairness

-----------------------------------------------------------------------------
(* Properties. *)

Quiesced == reading = Idle /\ writing = Idle

\* "The pending handlers reference this frame ... so every one of them must have
\* completed before returning": no operation is in flight once the call returns.
ReturnsQuiet == pc = "returned" => Quiesced

\* The half-close comes after all of the input and never down a broken send
\* side: the peer sees the end of its stdin only after the whole stdin.
HalfCloseAfterInput == halfClosed => sent = args.input

\* The contract of ITransport::exchange: empty only after a consumer stop; the
\* stream's end only when the peer has ended and, for a clean end, everything it
\* wrote has been delivered; timed_out only after an expiry. The send side never
\* decides.
OutcomeTrue ==
  pc = "returned" =>
    CASE ec = "none"  -> readDone /\ "stop" \in Faults /\ delivered > 0
      [] ec = "eof"   -> peer = "eof" /\ delivered = echoed /\ fromPeer = 0
      [] ec = "reset" -> peer = "reset"
      [] ec = "timed_out" -> expired /\ (late \/ args.io)

\* What a caller of exchange() relies on.
Contract == ReturnsQuiet /\ HalfCloseAfterInput /\ OutcomeTrue

\* "Once the input has been sent, reads wait unbounded unless deadline says
\* otherwise": a command that is silent for longer than the io timeout is not
\* given up after its stdin has gone out.
Tolerates == (expired' /\ ~expired) => (late \/ ~drained)

\* An expiry stays timed_out: whatever the drain completes afterwards changes
\* neither the outcome nor what the consumer has seen.
Silent ==
  (pc = "drain") => /\ delivered' = delivered
                    /\ halfClosed' = halfClosed
                    /\ expired /\ pc' = "returned" => ec' = "timed_out"

\* With a deadline, neither the loop nor the final drain blocks forever, whatever
\* the peer does not do: bounded leads to over.
Bounded == args.deadline
Over    == pc \in {"returned", "thrown"}

\* "A peer that echoes a large input back can never wedge the send side": without
\* any time bound, the whole output of a peer that echoes and ends with its input
\* is delivered and its end reported, unless the consumer itself ends the exchange.
Owed == obliging /\ args.eof /\ ~args.io /\ ~args.deadline
Paid == \/ pc = "returned" /\ ec = "eof" /\ delivered = args.input
        \/ pc = "thrown" \/ (readDone /\ readEc = "none")
EchoComplete == Owed => <>Paid
=============================================================================
