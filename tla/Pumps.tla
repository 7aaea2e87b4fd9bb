------------------------------- MODULE Pumps -------------------------------
(***************************************************************************)
(* The two pumps that feed a peer and read what it makes of it, for one    *)
(* run of TLC and one set of theorems: a behaviour is one of               *)
(* DuplexExchange (an exec with stdin) or ChildProcess (run_process),      *)
(* which part tells, and the variables of the other are off.               *)
(***************************************************************************)
EXTENDS Integers

CONSTANTS
  MaxInput, Flushes, Window, Faults,         \* of DuplexExchange
  Runs, Endless, MaxIn, MaxOut, Room         \* of ChildProcess

VARIABLES
  part,
  args, pc, sent, readDone, readEc, drained, eofOwed, stopping, expired, ec, delivered,
  reading, writing, late, toPeer, fromPeer, halfClosed, echoed, peer, obliging,
  ignored, plan, at, file, ends, output, result, child, status, fed, wrote, pipe, holds

exchangeVars ==
  <<args, pc, sent, readDone, readEc, drained, eofOwed, stopping, expired, ec, delivered,
    reading, writing, late, toPeer, fromPeer, halfClosed, echoed, peer, obliging>>
processVars ==
  <<ignored, plan, at, file, ends, output, result, child, status, fed, wrote, pipe, holds>>
allVars == <<part, exchangeVars, processVars>>

-----------------------------------------------------------------------------
(* The components.                                                         *)

D == INSTANCE DuplexExchange
P == INSTANCE ChildProcess

ASSUME PumpsAssumption == D!DuplexAssumption /\ P!ProcessAssumption

-----------------------------------------------------------------------------
Off(v) == v = "off"

ExchangeOff ==
  /\ Off(args) /\ Off(pc) /\ Off(sent) /\ Off(readDone) /\ Off(readEc) /\ Off(drained)
  /\ Off(eofOwed) /\ Off(stopping) /\ Off(expired) /\ Off(ec) /\ Off(delivered) /\ Off(reading)
  /\ Off(writing) /\ Off(late) /\ Off(toPeer) /\ Off(fromPeer) /\ Off(halfClosed) /\ Off(echoed)
  /\ Off(peer) /\ Off(obliging)
ProcessOff ==
  /\ Off(ignored) /\ Off(plan) /\ Off(at) /\ Off(file) /\ Off(ends) /\ Off(output) /\ Off(result)
  /\ Off(child) /\ Off(status) /\ Off(fed) /\ Off(wrote) /\ Off(pipe) /\ Off(holds)

Exchange(A) == part = "exchange" /\ A /\ UNCHANGED <<part, processVars>>
Process(A)  == part = "process" /\ A /\ UNCHANGED <<part, exchangeVars>>

Init == \/ part = "exchange" /\ D!Init /\ ProcessOff
        \/ part = "process" /\ P!Init /\ ExchangeOff

Next == Exchange(D!Next) \/ Process(P!Next)

Spec == Init /\ [][Next]_allVars

\* The calling thread, the operating system and an obliging peer go on; so do the threads
\* and the children of run_process.
FairSpec ==
  /\ Spec
  /\ WF_allVars(Exchange(D!Caller)) /\ WF_allVars(Exchange(D!DeadlinePasses))
  /\ WF_allVars(Exchange(D!ReadCompletes)) /\ WF_allVars(Exchange(D!WriteCompletes))
  /\ WF_allVars(Exchange(obliging /\ D!Echo)) /\ WF_allVars(Exchange(obliging /\ D!PeerEnds))
  /\ \A r \in Runs : WF_allVars(Process(P!Call(r))) /\ WF_allVars(Process(P!Goes(r)))

-----------------------------------------------------------------------------
(* The properties of the components, each where it applies.                *)

TypeOK == /\ part = "exchange" => D!TypeOK
          /\ part = "process" => P!TypeOK

\* A pump reports what happened, and leaves nothing behind it: no operation of an
\* exchange, no file, pipe or unread output of a child.
Contract == /\ part = "exchange" => D!Contract
            /\ part = "process" => P!Captured /\ P!NothingLeft

\* An exchange expires only where a bound is armed, and then nothing changes its outcome.
ExpirySteps == [][part = "exchange" => D!Tolerates /\ D!Silent]_allVars

\* An exchange with a deadline returns, and so does the run of a child that ends, or can:
\* whatever is not read, and whichever other child never ends.
Returns ==
  /\ (part = "exchange" /\ D!Bounded) => <>(part = "exchange" /\ D!Over)
  /\ \A r \in Runs \ Endless : <>(part = "process" => P!Over(r))

\* A peer that echoes its input is never wedged.
EchoComplete == (part = "exchange" /\ D!Owed) => <>(part = "exchange" /\ D!Paid)
=============================================================================
