----------------------------- MODULE PumpProofs -----------------------------
(***************************************************************************)
(* Theorems about the two pumps, for every input, window, peer, plan and   *)
(* set of runs: the outcome an exchange reports is what happened, nothing  *)
(* of it is in flight when it returns, and its input ends whole; a run of  *)
(* a child reports all of its output and its real exit status, and leaves  *)
(* neither its file nor its pipe behind.                                   *)
(***************************************************************************)
EXTENDS Pumps, TLAPS

-----------------------------------------------------------------------------
(* The exchange. Its inductive invariant says where every unit is: a unit  *)
(* of input is still to be sent, in transit, echoed; a unit that the peer  *)
(* has written is in transit, in a completed read, or delivered.           *)

\* A unit that a completed operation carries and its handler has not counted yet.
Carried(op) == IF D!Completed(op) THEN op.n ELSE 0

\* The write chain ends with the input or with the send side; only the first is owed
\* a half-close.
WriteChain ==
  /\ \/ writing = D!Idle
     \/ writing \in {D!Pending, D!Done(1, "none")} /\ sent < args.input
     \/ writing = D!Done(0, "broken")
     \/ writing = D!Done(0, "aborted") /\ stopping
  /\ drained <=> writing = D!Idle
  /\ sent + Carried(writing) = toPeer + echoed
  /\ drained /\ eofOwed /\ ~stopping => sent = args.input
  /\ halfClosed => sent = args.input

\* A completed read of nothing is the end of the peer's side, which has nothing more in
\* transit.
EndRead(e) ==
  /\ reading = D!Done(0, e) /\ peer # "open" /\ fromPeer = 0
  /\ e = peer \/ (e = "none" /\ peer = "eof")

\* The read chain ends with the peer's side or at the consumer's wish; what the drain
\* discards is the only output that is not delivered.
ReadChain ==
  /\ \/ reading \in {D!Idle, D!Pending, D!Done(1, "none")}
     \/ \E e \in {"none", "eof", "reset"} : EndRead(e)
     \/ reading = D!Done(0, "aborted") /\ stopping
  /\ ~stopping => delivered + Carried(reading) + fromPeer = echoed
  /\ delivered + fromPeer <= echoed
  /\ readDone => reading = D!Idle
  /\ readEc # "none" => readDone /\ peer = readEc /\ fromPeer = 0 /\ delivered = echoed
  /\ readDone /\ readEc = "none" => "stop" \in Faults /\ delivered > 0

\* The epilogue is entered for one of two reasons, which stay.
Epilogue ==
  /\ pc \in {"loop", "run"} => ~expired /\ ~stopping
  /\ pc = "drain" => stopping \/ expired
  /\ pc = "returned" => stopping /\ D!NoWork /\ ec = D!Outcome
  /\ stopping => readDone \/ expired
  /\ expired => late \/ args.io

ExchangeInv == D!TypeOK /\ WriteChain /\ ReadChain /\ Epilogue

-----------------------------------------------------------------------------
\* start_read and start_write: nothing has been sent or read.
LEMMA ExchangeStarts ==
  ASSUME D!Init
  PROVE  ExchangeInv
<1>. USE DEF D!Init, D!Calls, D!Idle, D!Pending, D!Done, D!Completed
<1>1. /\ args.input \in 0..MaxInput /\ args.eof \in BOOLEAN
      /\ args.input = 0 => writing = D!Idle
      /\ args.input # 0 => writing = D!Pending
  OBVIOUS
<1>2. drained <=> args.input = 0
  OBVIOUS
<1>3. D!TypeOK
  <2>1. reading \in D!Operation /\ writing \in D!Operation
    BY <1>1 DEF D!Operation
  <2>2. args \in D!Calls /\ 0 \in 0..args.input /\ 0 \in 0..Window
    BY <1>1, PumpsAssumption DEF D!DuplexAssumption
  <2>3. QED BY <1>1, <1>2, <2>1, <2>2 DEF D!TypeOK
<1>4. WriteChain
  <2>1. CASE args.input = 0
    BY <1>1, <1>2, <2>1 DEF WriteChain, Carried
  <2>2. CASE args.input # 0
    BY <1>1, <1>2, <2>2, PumpsAssumption DEF WriteChain, Carried
  <2>3. QED BY <2>1, <2>2
<1>5. ReadChain /\ Epilogue
  BY DEF ReadChain, Epilogue, Carried
<1>6. QED BY <1>3, <1>4, <1>5 DEF ExchangeInv

\* The top of the loop: only a drained write chain that still owes it half-closes.
LEMMA LoopKeeps ==
  ASSUME ExchangeInv, D!Loop
  PROVE  ExchangeInv'
<1>. USE PumpsAssumption DEF ExchangeInv, D!TypeOK, D!Calls, D!DuplexAssumption, D!Loop,
       D!HalfCloseDue, D!Idle, D!Pending, D!Done, D!Completed
<1>1. D!TypeOK'
  BY DEF D!Operation
<1>2. WriteChain'
  BY DEF WriteChain, Epilogue
<1>3. ReadChain'
  BY DEF ReadChain, EndRead
<1>4. Epilogue'
  BY DEF Epilogue
<1>5. QED BY <1>1, <1>2, <1>3, <1>4

\* run_one_for without a handler.
LEMMA ExpireKeeps ==
  ASSUME ExchangeInv, D!Expire
  PROVE  ExchangeInv'
<1>. USE PumpsAssumption DEF ExchangeInv, D!TypeOK, D!Calls, D!DuplexAssumption, D!Expire,
       D!IdleBound, D!world, D!Idle, D!Pending, D!Done, D!Completed
<1>1. D!TypeOK'
  BY DEF D!Operation
<1>2. WriteChain'
  BY DEF WriteChain
<1>3. ReadChain'
  BY DEF ReadChain, EndRead
<1>4. Epilogue'
  BY DEF Epilogue
<1>5. QED BY <1>1, <1>2, <1>3, <1>4

\* A completed read: its unit is delivered or, by the epilogue, discarded.
LEMMA ReadHandlerKeeps ==
  ASSUME ExchangeInv, D!ReadHandler
  PROVE  ExchangeInv'
<1>. USE PumpsAssumption DEF ExchangeInv, D!TypeOK, D!Calls, D!DuplexAssumption, D!ReadHandler,
       D!Driven, D!HandlerReturns, D!Quiet, D!EndOf, D!world, D!Idle, D!Pending, D!Done, D!Completed
<1>1. D!TypeOK'
  <2>1. delivered' \in 0..args.input
    BY DEF ReadChain, Carried
  <2>2. readDone' \in BOOLEAN
    OBVIOUS
  <2>3. readEc' \in {"none", "eof", "reset"}
    <3>1. CASE D!Quiet \/ reading.n = 1
      BY <3>1
    <3>2. CASE ~D!Quiet /\ reading.n = 0
      <4>1. D!EndOf(reading) \in {"none", "eof", "reset"}
        BY <3>2 DEF ReadChain, EndRead
      <4>2. QED BY <3>2, <4>1
    <3>3. QED BY <3>1, <3>2
  <2>4. reading' \in D!Operation
    BY DEF D!Operation
  <2>5. QED BY <2>1, <2>2, <2>3, <2>4
<1>2. WriteChain'
  BY DEF WriteChain
<1>3. ReadChain'
  BY DEF ReadChain, EndRead, Carried
<1>4. Epilogue'
  BY DEF Epilogue
<1>5. QED BY <1>1, <1>2, <1>3, <1>4

\* A completed write: a chunk counts as sent, and the chain goes on below the end of
\* the input only.
LEMMA WriteHandlerKeeps ==
  ASSUME ExchangeInv, D!WriteHandler
  PROVE  ExchangeInv'
<1>. USE PumpsAssumption DEF ExchangeInv, D!TypeOK, D!Calls, D!DuplexAssumption, D!world,
       D!Idle, D!Pending, D!Done
<1>1. /\ D!Driven /\ sent' = sent + writing.n /\ D!HandlerReturns
      /\ writing' = IF D!More(writing) THEN D!Pending ELSE D!Idle
      /\ drained' = (drained \/ ~D!More(writing))
      /\ eofOwed' = D!StillOwed(writing)
      /\ UNCHANGED <<args, readDone, readEc, stopping, expired, ec, delivered, reading, D!world>>
  BY DEF D!WriteHandler
<1>2. /\ D!More(writing) <=> writing.ec = "none" /\ ~stopping /\ sent + writing.n < args.input
      /\ D!StillOwed(writing) <=> eofOwed /\ writing.ec = "none"
  BY DEF D!More, D!StillOwed, D!Quiet
<1>3. \/ /\ writing = D!Done(1, "none") /\ writing.n = 1 /\ writing.ec = "none"
         /\ sent < args.input /\ sent + 1 = toPeer + echoed /\ ~drained /\ ~halfClosed
      \/ /\ writing.n = 0 /\ writing.ec # "none" /\ sent = toPeer + echoed /\ ~drained
  BY DEF D!WriteHandler, D!Completed, WriteChain, Carried
<1>4. /\ sent' \in 0..args.input /\ drained' \in BOOLEAN /\ eofOwed' \in BOOLEAN
      /\ drained' <=> ~D!More(writing)
      /\ drained' /\ eofOwed' /\ ~stopping => sent' = args.input
      /\ D!More(writing) => sent' < args.input
      /\ sent' = toPeer + echoed
  <2>1. /\ drained' \in BOOLEAN /\ (drained' <=> ~D!More(writing))
        /\ eofOwed' \in BOOLEAN /\ (eofOwed' <=> eofOwed /\ writing.ec = "none")
    <3>1. drained' <=> ~D!More(writing)
      BY <1>1, <1>3
    <3>2. eofOwed' <=> eofOwed /\ writing.ec = "none"
      BY <1>1, <1>2
    <3>3. drained' \in BOOLEAN /\ eofOwed' \in BOOLEAN
      BY <1>1 DEF D!StillOwed
    <3>4. QED BY <3>1, <3>2, <3>3
  <2>2. sent' \in 0..args.input /\ sent' = toPeer + echoed
    BY <1>1, <1>3
  <2>3. QED BY <1>1, <1>2, <1>3, <2>1, <2>2
<1>5. writing' = D!Idle <=> drained'
  BY <1>1, <1>4
<1>6. D!TypeOK'
  BY <1>1, <1>4 DEF D!Operation, D!HandlerReturns
<1>7. WriteChain'
  <2>1. /\ Carried(writing)' = 0 /\ writing' \in {D!Idle, D!Pending}
        /\ writing' = D!Pending => sent' < args.input
    BY <1>1, <1>4 DEF Carried
  <2>2. halfClosed' => sent' = args'.input
    BY <1>1, <1>3 DEF WriteChain
  <2>3. QED BY <1>1, <1>4, <1>5, <2>1, <2>2 DEF WriteChain
<1>8. ReadChain'
  BY <1>1 DEF ReadChain, EndRead
<1>9. Epilogue'
  BY <1>1 DEF Epilogue, D!Driven, D!HandlerReturns
<1>10. QED BY <1>6, <1>7, <1>8, <1>9

\* cancel() leaves completions alone, and aborts what is pending.
LEMMA CancelKeeps ==
  ASSUME ExchangeInv, D!Cancel
  PROVE  ExchangeInv'
<1>. USE PumpsAssumption DEF ExchangeInv, D!TypeOK, D!Calls, D!DuplexAssumption, D!Cancel,
       D!Cancelled, D!world, D!Idle, D!Pending, D!Done, D!Completed
<1>1. D!TypeOK'
  BY DEF D!Operation
<1>2. WriteChain'
  BY DEF WriteChain, Carried
<1>3. ReadChain'
  BY DEF ReadChain, EndRead
<1>4. Epilogue'
  BY DEF Epilogue
<1>5. QED BY <1>1, <1>2, <1>3, <1>4

\* The end of the final run().
LEMMA FinishKeeps ==
  ASSUME ExchangeInv, D!Finish
  PROVE  ExchangeInv'
<1>. USE PumpsAssumption DEF ExchangeInv, D!TypeOK, D!Calls, D!DuplexAssumption, D!Finish,
       D!NoWork, D!Outcome, D!world, D!Idle, D!Pending, D!Done, D!Completed
<1>1. D!TypeOK'
  BY DEF D!Operation
<1>2. WriteChain'
  BY DEF WriteChain
<1>3. ReadChain'
  BY DEF ReadChain
<1>4. Epilogue'
  BY DEF Epilogue
<1>5. QED BY <1>1, <1>2, <1>3, <1>4

\* A read completes with a unit, or with the end of a peer that has nothing in transit.
LEMMA ReadCompletesKeeps ==
  ASSUME ExchangeInv, D!ReadCompletes
  PROVE  ExchangeInv'
<1>. USE PumpsAssumption DEF ExchangeInv, D!TypeOK, D!Calls, D!DuplexAssumption,
       D!ReadCompletes, D!frame, D!Idle, D!Pending, D!Done, D!Completed
<1>1. D!TypeOK'
  BY DEF D!Operation
<1>2. WriteChain'
  BY DEF WriteChain
<1>3. ReadChain'
  BY DEF ReadChain, EndRead, Carried
<1>4. Epilogue'
  BY DEF Epilogue, D!NoWork
<1>5. QED BY <1>1, <1>2, <1>3, <1>4

\* A write completes with a unit in transit, or with a broken send side.
LEMMA WriteCompletesKeeps ==
  ASSUME ExchangeInv, D!WriteCompletes
  PROVE  ExchangeInv'
<1>. USE PumpsAssumption DEF ExchangeInv, D!TypeOK, D!Calls, D!DuplexAssumption,
       D!WriteCompletes, D!frame, D!Idle, D!Pending, D!Done, D!Completed
<1>1. D!TypeOK'
  BY DEF D!Operation
<1>2. WriteChain'
  BY DEF WriteChain, Carried
<1>3. ReadChain'
  BY DEF ReadChain, EndRead
<1>4. Epilogue'
  BY DEF Epilogue, D!NoWork
<1>5. QED BY <1>1, <1>2, <1>3, <1>4

\* The peer reads a unit and writes it back.
LEMMA EchoKeeps ==
  ASSUME ExchangeInv, D!Echo
  PROVE  ExchangeInv'
<1>. USE PumpsAssumption DEF ExchangeInv, D!TypeOK, D!Calls, D!DuplexAssumption, D!Echo,
       D!frame, D!Idle, D!Pending, D!Done, D!Completed
<1>1. D!TypeOK'
  BY DEF WriteChain, Carried
<1>2. WriteChain'
  BY DEF WriteChain
<1>3. ReadChain'
  BY DEF ReadChain, EndRead, Carried
<1>4. Epilogue'
  BY DEF Epilogue, D!NoWork, D!Outcome
<1>5. QED BY <1>1, <1>2, <1>3, <1>4

\* The peer ends its side.
LEMMA PeerEndsKeeps ==
  ASSUME ExchangeInv, D!PeerEnds
  PROVE  ExchangeInv'
<1>. USE PumpsAssumption DEF ExchangeInv, D!TypeOK, D!Calls, D!DuplexAssumption, D!PeerEnds,
       D!frame, D!Idle, D!Pending, D!Done, D!Completed
<1>1. D!TypeOK'
  BY DEF D!Operation
<1>2. WriteChain'
  BY DEF WriteChain
<1>3. ReadChain'
  BY DEF ReadChain, EndRead
<1>4. Epilogue'
  BY DEF Epilogue, D!NoWork, D!Outcome
<1>5. QED BY <1>1, <1>2, <1>3, <1>4

\* Time passes.
LEMMA DeadlinePassesKeeps ==
  ASSUME ExchangeInv, D!DeadlinePasses
  PROVE  ExchangeInv'
<1>. USE PumpsAssumption DEF ExchangeInv, D!TypeOK, D!Calls, D!DuplexAssumption,
       D!DeadlinePasses, D!frame, D!Idle, D!Pending, D!Done, D!Completed
<1>1. D!TypeOK'
  BY DEF D!Operation
<1>2. WriteChain'
  BY DEF WriteChain
<1>3. ReadChain'
  BY DEF ReadChain, EndRead
<1>4. Epilogue'
  BY DEF Epilogue, D!NoWork, D!Outcome
<1>5. QED BY <1>1, <1>2, <1>3, <1>4

-----------------------------------------------------------------------------
(* The run of a child: how far it has come, and what it has opened and    *)
(* learnt by then.                                                         *)

\* The call. It asks for the status when nobody can write to its pipe any more.
CallInv(r) ==
  /\ at[r] \in {"stage", "pipe", "spawn"} => child[r] = "none"
  /\ at[r] \in {"read", "wait"} => child[r] # "none"
  /\ at[r] \in {"stage", "pipe"} => ends[r] = {}
  /\ at[r] = "read" => ends[r] = {"read"}
  /\ at[r] = "wait" => child[r] \in {"ended", "reaped"}
  /\ at[r] \in {"wait", "remove", "returned", "threw"} /\ child[r] # "none" =>
       ends[r] = {} /\ pipe[r] = 0 /\ child[r] # "running"
  /\ at[r] \notin {"remove", "returned", "threw"} => result[r] = P!Unknown
  /\ result[r] # P!Unknown => child[r] # "none" /\ result[r] = status[r]
  /\ at[r] = "returned" => result[r] # P!Unknown
  /\ at[r] \in {"returned", "threw"} => ~file[r]

\* A child holds the write end of its own pipe, and its status is its own: success only
\* after all of its input and output.
ChildInv(r) ==
  /\ holds[r] = IF child[r] = "none" THEN {} ELSE {r}
  /\ child[r] = "ended" => status[r] \in {0, 1, P!Signal}
  /\ status[r] = 0 => P!Complete(r)

\* Every run has its row in every variable.
Typed ==
  /\ at \in [Runs -> {"stage", "pipe", "spawn", "read", "wait", "remove", "returned", "threw"}]
  /\ file \in [Runs -> BOOLEAN] /\ ends \in [Runs -> SUBSET {"read", "write"}]
  /\ output \in [Runs -> Nat] /\ result \in [Runs -> Int] /\ status \in [Runs -> Int]
  /\ child \in [Runs -> {"none", "running", "ended", "reaped"}]
  /\ fed \in [Runs -> Nat] /\ wrote \in [Runs -> Nat] /\ pipe \in [Runs -> Nat]
  /\ holds \in [Runs -> SUBSET Runs]

\* TypeOK of one run.
Row(r) ==
  /\ fed[r] \in 0..MaxIn /\ pipe[r] \in 0..Room
  /\ wrote[r] = output[r] + pipe[r] /\ wrote[r] <= plan[r].out
  /\ {result[r], status[r]} \subseteq {0, 1, P!Signal, P!Unknown}

ProcessInv ==
  /\ ignored \in BOOLEAN /\ plan \in [Runs -> [input : -1..MaxIn, out : 0..MaxOut]]
  /\ Typed /\ \A r \in Runs : Row(r) /\ CallInv(r) /\ ChildInv(r)

\* What a step of one run keeps when it leaves the others alone.
Others(r) ==
  \A q \in Runs \ {r} :
    /\ UNCHANGED <<at[q], file[q], ends[q], output[q], result[q]>>
    /\ UNCHANGED <<child[q], status[q], fed[q], wrote[q], pipe[q], holds[q]>>

\* The invariant of a run says nothing of the others.
LEMMA OneRunSteps ==
  ASSUME ProcessInv, NEW r \in Runs, Typed', UNCHANGED <<ignored, plan>>, Others(r),
         Row(r)', CallInv(r)', ChildInv(r)'
  PROVE  ProcessInv'
<1>1. ASSUME NEW q \in Runs \ {r}
      PROVE  Row(q)' /\ CallInv(q)' /\ ChildInv(q)'
  <2>1. /\ UNCHANGED <<at[q], file[q], ends[q], output[q], result[q]>>
        /\ UNCHANGED <<child[q], status[q], fed[q], wrote[q], pipe[q], holds[q], plan>>
    BY <1>1 DEF Others
  <2>2. Row(q) /\ CallInv(q) /\ ChildInv(q)
    BY <1>1 DEF ProcessInv
  <2>3. Row(q)'
    BY <2>1, <2>2 DEF Row
  <2>4. CallInv(q)'
    BY <2>1, <2>2 DEF CallInv
  <2>5. ChildInv(q)'
    BY <2>1, <2>2 DEF ChildInv, P!Complete
  <2>6. QED BY <2>3, <2>4, <2>5
<1>2. QED BY <1>1 DEF ProcessInv

\* Nothing is staged, opened or spawned.
LEMMA ProcessStarts ==
  ASSUME P!Init
  PROVE  ProcessInv
<1>1. Typed
  BY DEF P!Init, Typed, P!Unknown
<1>2. ASSUME NEW r \in Runs
      PROVE  Row(r) /\ CallInv(r) /\ ChildInv(r)
  <2>1. plan[r].out \in 0..MaxOut /\ 0 \in 0..MaxIn /\ 0 \in 0..Room
    BY PumpsAssumption DEF P!Init, P!ProcessAssumption
  <2>2. Row(r)
    BY <2>1 DEF P!Init, Row
  <2>3. /\ at[r] = "stage" /\ ends[r] = {} /\ child[r] = "none" /\ holds[r] = {}
        /\ result[r] = P!Unknown /\ status[r] = P!Unknown /\ P!Unknown # 0
    BY DEF P!Init, P!Unknown
  <2>4. CallInv(r) /\ ChildInv(r)
    BY <2>3 DEF CallInv, ChildInv
  <2>5. QED BY <2>2, <2>4
<1>3. QED BY <1>1, <1>2 DEF ProcessInv, P!Init

\* stage_stdin_file.
LEMMA StageKeeps ==
  ASSUME ProcessInv, NEW r \in Runs, P!Stage(r)
  PROVE  ProcessInv'
<1>. USE PumpsAssumption DEF ProcessInv, P!ProcessAssumption, P!Stage, P!Goto, P!world
<1>1. Typed' /\ Others(r) /\ UNCHANGED <<ignored, plan>>
  BY DEF Typed, Others
<1>2. Row(r)'
  BY DEF Row
<1>3. CallInv(r)'
  BY DEF CallInv
<1>4. ChildInv(r)'
  BY DEF ChildInv, P!Complete
<1>5. QED BY <1>1, <1>2, <1>3, <1>4, OneRunSteps

\* pipe2.
LEMMA PipeKeeps ==
  ASSUME ProcessInv, NEW r \in Runs, P!Pipe(r)
  PROVE  ProcessInv'
<1>. USE PumpsAssumption DEF ProcessInv, P!ProcessAssumption, P!Pipe, P!Goto, P!AfterThrow,
       P!world
<1>1. Typed' /\ Others(r) /\ UNCHANGED <<ignored, plan>>
  <2>1. Typed'
    <3>1. at' \in [Runs -> {"stage", "pipe", "spawn", "read", "wait", "remove", "returned", "threw"}]
      BY DEF Typed
    <3>2. ends' \in [Runs -> SUBSET {"read", "write"}]
      <4>1. {"read", "write"} \in SUBSET {"read", "write"}
        OBVIOUS
      <4>2. QED BY <4>1 DEF Typed
    <3>3. QED BY <3>1, <3>2 DEF Typed
  <2>2. Others(r)
    BY DEF Typed, Others
  <2>3. QED BY <2>1, <2>2
<1>2. Row(r)'
  BY DEF Row
<1>3. CallInv(r)'
  BY DEF Typed, CallInv
<1>4. ChildInv(r)'
  BY DEF ChildInv, P!Complete
<1>5. QED BY <1>1, <1>2, <1>3, <1>4, OneRunSteps

\* posix_spawnp, and the close of the write end.
LEMMA SpawnKeeps ==
  ASSUME ProcessInv, NEW r \in Runs, P!Spawn(r)
  PROVE  ProcessInv'
<1>. USE PumpsAssumption DEF ProcessInv, P!ProcessAssumption, P!Spawn, P!Goto, P!AfterThrow,
       P!Inherited
<1>1. Typed' /\ Others(r) /\ UNCHANGED <<ignored, plan>>
  <2>1. Typed'
    <3>1. at' \in [Runs -> {"stage", "pipe", "spawn", "read", "wait", "remove", "returned", "threw"}]
      BY DEF Typed
    <3>2. ends' \in [Runs -> SUBSET {"read", "write"}]
      <4>1. {"read"} \in SUBSET {"read", "write"}
        OBVIOUS
      <4>2. QED BY <4>1 DEF Typed
    <3>3. child' \in [Runs -> {"none", "running", "ended", "reaped"}]
      BY DEF Typed
    <3>4. holds' \in [Runs -> SUBSET Runs]
      <4>1. {r} \in SUBSET Runs
        OBVIOUS
      <4>2. QED BY <4>1 DEF Typed
    <3>5. QED BY <3>1, <3>2, <3>3, <3>4 DEF Typed
  <2>2. Others(r)
    BY DEF Typed, Others
  <2>3. QED BY <2>1, <2>2
<1>2. Row(r)'
  BY DEF Row
<1>3. CallInv(r)'
  BY DEF Typed, CallInv
<1>4. ChildInv(r)'
  BY DEF Typed, ChildInv, P!Complete
<1>5. QED BY <1>1, <1>2, <1>3, <1>4, OneRunSteps

\* A read of the pipe.
LEMMA ReadKeeps ==
  ASSUME ProcessInv, NEW r \in Runs, P!Read(r)
  PROVE  ProcessInv'
<1>. USE PumpsAssumption DEF ProcessInv, P!ProcessAssumption, P!Read
<1>1. Typed' /\ Others(r) /\ UNCHANGED <<ignored, plan>>
  BY DEF Typed, Others
<1>2. Row(r)'
  <2>1. /\ pipe'[r] = pipe[r] - 1 /\ output'[r] = output[r] + 1
        /\ UNCHANGED <<fed[r], wrote[r], result[r], status[r], plan>>
    BY DEF Typed
  <2>2. Row(r) /\ pipe[r] > 0 /\ output[r] \in Nat /\ wrote[r] \in Nat
    BY DEF Typed
  <2>3. QED BY <2>1, <2>2 DEF Row
<1>3. CallInv(r)'
  BY DEF CallInv
<1>4. ChildInv(r)'
  BY DEF ChildInv, P!Complete
<1>5. QED BY <1>1, <1>2, <1>3, <1>4, OneRunSteps

\* The end of the pipe: the child holds its write end for as long as it runs.
LEMMA CloseKeeps ==
  ASSUME ProcessInv, NEW r \in Runs, P!Close(r)
  PROVE  ProcessInv'
<1>. USE PumpsAssumption DEF ProcessInv, P!ProcessAssumption, P!Close, P!Goto, P!MayClose,
       P!AtEnd, P!world
<1>1. Typed' /\ Others(r) /\ UNCHANGED <<ignored, plan>>
  BY DEF Typed, Others
<1>2. Row(r)'
  BY DEF Row
<1>3. CallInv(r)'
  BY DEF Typed, CallInv, ChildInv
<1>4. ChildInv(r)'
  BY DEF ChildInv, P!Complete
<1>5. QED BY <1>1, <1>2, <1>3, <1>4, OneRunSteps

\* waitpid.
LEMMA WaitKeeps ==
  ASSUME ProcessInv, NEW r \in Runs, P!Wait(r)
  PROVE  ProcessInv'
<1>. USE PumpsAssumption DEF ProcessInv, P!ProcessAssumption, P!Wait, P!Goto, P!AfterThrow,
       P!ExitStatus
<1>1. Typed' /\ Others(r) /\ UNCHANGED <<ignored, plan>>
  <2>1. Typed'
    <3>1. at' \in [Runs -> {"stage", "pipe", "spawn", "read", "wait", "remove", "returned", "threw"}]
      BY DEF Typed
    <3>2. result' \in [Runs -> Int]
      <4>1. P!ExitStatus(r) \in Int
        BY DEF Typed, P!Unknown
      <4>2. QED BY <4>1 DEF Typed
    <3>3. QED BY <3>1, <3>2 DEF Typed
  <2>2. Others(r)
    BY DEF Others
  <2>3. QED BY <2>1, <2>2
<1>2. Row(r)'
  BY DEF Row
<1>3. CallInv(r)'
  <2>1. /\ at[r] = "wait" /\ child'[r] = "reaped" /\ result'[r] = P!ExitStatus(r)
        /\ child[r] \in {"ended", "reaped"} /\ ends'[r] = {} /\ pipe'[r] = 0
        /\ status'[r] = status[r]
    BY DEF Typed, CallInv
  <2>2. at'[r] = "remove"
    BY DEF Typed
  <2>3. P!ExitStatus(r) # P!Unknown => P!ExitStatus(r) = status[r]
    OBVIOUS
  <2>. HIDE DEF ProcessInv, P!Wait, P!ExitStatus
  <2>4. result'[r] # P!Unknown => result'[r] = status'[r]
    BY <2>1, <2>3
  <2>5. QED BY <2>1, <2>2, <2>4 DEF CallInv
<1>4. ChildInv(r)'
  BY DEF Typed, CallInv, ChildInv, P!Complete
<1>5. QED BY <1>1, <1>2, <1>3, <1>4, OneRunSteps

\* remove_quietly.
LEMMA RemoveKeeps ==
  ASSUME ProcessInv, NEW r \in Runs, P!Remove(r)
  PROVE  ProcessInv'
<1>. USE PumpsAssumption DEF ProcessInv, P!ProcessAssumption, P!Remove, P!Goto, P!world
<1>1. Typed' /\ Others(r) /\ UNCHANGED <<ignored, plan>>
  BY DEF Typed, Others
<1>2. Row(r)'
  BY DEF Row
<1>3. CallInv(r)'
  <2>1. at[r] = "remove" /\ ~file'[r] /\ at'[r] = IF result[r] = P!Unknown THEN "threw" ELSE "returned"
    BY DEF Typed
  <2>2. UNCHANGED <<ends[r], result[r], child[r], status[r], pipe[r]>>
    OBVIOUS
  <2>3. CallInv(r)
    OBVIOUS
  <2>. HIDE DEF ProcessInv, P!Remove
  <2>4. at'[r] \in {"threw", "returned"} /\ (at'[r] = "returned" => result'[r] # P!Unknown)
    BY <2>1, <2>2
  <2>5. QED BY <2>1, <2>2, <2>3, <2>4 DEF CallInv
<1>4. ChildInv(r)'
  BY DEF ChildInv, P!Complete
<1>5. QED BY <1>1, <1>2, <1>3, <1>4, OneRunSteps

\* The child reads its stdin.
LEMMA FeedsKeeps ==
  ASSUME ProcessInv, NEW r \in Runs, P!Feeds(r)
  PROVE  ProcessInv'
<1>. USE PumpsAssumption DEF ProcessInv, P!ProcessAssumption, P!Feeds, P!call
<1>1. Typed' /\ Others(r) /\ UNCHANGED <<ignored, plan>>
  BY DEF Typed, Others
<1>2. Row(r)'
  BY DEF Row
<1>3. CallInv(r)'
  BY DEF CallInv
<1>4. ChildInv(r)'
  <2>1. fed'[r] = fed[r] + 1 /\ fed[r] \in Nat /\ plan[r].input \in Int
    BY DEF Typed
  <2>2. UNCHANGED <<child[r], status[r], holds[r], wrote[r], plan>>
    OBVIOUS
  <2>3. ChildInv(r)
    OBVIOUS
  <2>. HIDE DEF ProcessInv, P!Feeds
  <2>4. QED BY <2>1, <2>2, <2>3 DEF ChildInv, P!Complete
<1>5. QED BY <1>1, <1>2, <1>3, <1>4, OneRunSteps

\* The child writes.
LEMMA WritesKeeps ==
  ASSUME ProcessInv, NEW r \in Runs, P!Writes(r)
  PROVE  ProcessInv'
<1>. USE PumpsAssumption DEF ProcessInv, P!ProcessAssumption, P!Writes, P!call
<1>1. Typed' /\ Others(r) /\ UNCHANGED <<ignored, plan>>
  BY DEF Typed, Others
<1>2. Row(r)'
  BY DEF Typed, Row
<1>3. CallInv(r)'
  BY DEF CallInv
<1>4. ChildInv(r)'
  BY DEF Typed, ChildInv, P!Complete
<1>5. QED BY <1>1, <1>2, <1>3, <1>4, OneRunSteps

\* The child ends.
LEMMA EndsKeeps ==
  ASSUME ProcessInv, NEW r \in Runs, P!Ends(r)
  PROVE  ProcessInv'
<1>. USE PumpsAssumption DEF ProcessInv, P!ProcessAssumption, P!Ends, P!call
<1>1. Typed' /\ Others(r) /\ UNCHANGED <<ignored, plan>>
  BY DEF Typed, Others
<1>2. Row(r)'
  BY DEF Row
<1>3. CallInv(r)'
  BY DEF CallInv
<1>4. ChildInv(r)'
  BY DEF Typed, ChildInv, P!Complete
<1>5. QED BY <1>1, <1>2, <1>3, <1>4, OneRunSteps

-----------------------------------------------------------------------------
(* What a step of each pump keeps.                                         *)

\* Every step of an exchange.
LEMMA ExchangeSteps ==
  ASSUME ExchangeInv, [D!Next]_(D!vars)
  PROVE  ExchangeInv'
<1>1. CASE D!Next
  BY <1>1, LoopKeeps, ExpireKeeps, ReadHandlerKeeps, WriteHandlerKeeps, CancelKeeps, FinishKeeps,
     ReadCompletesKeeps, WriteCompletesKeeps, EchoKeeps, PeerEndsKeeps, DeadlinePassesKeeps DEF
     D!Next, D!Caller, D!System
<1>2. CASE UNCHANGED D!vars
  BY <1>2 DEF D!vars, D!frame, D!world, ExchangeInv, D!TypeOK, WriteChain, ReadChain, EndRead,
     Epilogue, D!NoWork, D!Outcome
<1>3. QED BY <1>1, <1>2

\* Every step of run_process and its children.
LEMMA ProcessSteps ==
  ASSUME ProcessInv, [P!Next]_(P!vars)
  PROVE  ProcessInv'
<1>1. CASE P!Next
  BY <1>1, StageKeeps, PipeKeeps, SpawnKeeps, ReadKeeps, CloseKeeps, WaitKeeps, RemoveKeeps,
     FeedsKeeps, WritesKeeps, EndsKeeps DEF P!Next, P!Call, P!Child
<1>2. CASE UNCHANGED P!vars
  BY <1>2 DEF P!vars, P!call, P!world, ProcessInv, Typed, Row, CallInv, ChildInv, P!Complete
<1>3. QED BY <1>1, <1>2

-----------------------------------------------------------------------------
(* What the invariants say.                                                *)

\* The invariant says what a caller of exchange() relies on.
LEMMA ExchangeTells ==
  ASSUME ExchangeInv
  PROVE  D!TypeOK /\ D!Contract
<1>. USE DEF ExchangeInv
<1>1. D!ReturnsQuiet
  BY DEF D!ReturnsQuiet, D!Quiesced, Epilogue, D!NoWork
<1>2. D!HalfCloseAfterInput
  BY DEF D!HalfCloseAfterInput, WriteChain
<1>3. D!OutcomeTrue
  <2>1. SUFFICES ASSUME pc = "returned"
                 PROVE  /\ ec = "none" => readDone /\ "stop" \in Faults /\ delivered > 0
                        /\ ec = "eof" => peer = "eof" /\ delivered = echoed /\ fromPeer = 0
                        /\ ec = "reset" => peer = "reset"
                        /\ ec = "timed_out" => expired /\ (late \/ args.io)
                        /\ ec \in {"none", "eof", "reset", "timed_out"}
    BY DEF D!OutcomeTrue
  <2>2. stopping /\ ec = IF expired \/ ~readDone THEN "timed_out" ELSE readEc
    BY <2>1 DEF Epilogue, D!Outcome
  <2>3. QED BY <2>2 DEF Epilogue, ReadChain, D!TypeOK
<1>4. QED BY <1>1, <1>2, <1>3 DEF D!Contract

\* The invariant says what a caller of run_process relies on.
LEMMA ProcessTells ==
  ASSUME ProcessInv
  PROVE  P!TypeOK /\ P!Captured /\ P!NothingLeft
<1>1. P!TypeOK
  BY DEF ProcessInv, Typed, Row, P!TypeOK
<1>2. P!NothingLeft
  BY DEF ProcessInv, CallInv, P!NothingLeft
<1>3. P!Captured
  <2>1. SUFFICES ASSUME NEW r \in Runs, at[r] = "returned"
                 PROVE  /\ output[r] = wrote[r] /\ result[r] = status[r]
                        /\ result[r] = 0 => output[r] = plan[r].out /\ fed[r] >= plan[r].input
    BY DEF P!Captured
  <2>2. result[r] = status[r] /\ pipe[r] = 0
    BY <2>1 DEF ProcessInv, CallInv
  <2>3. output[r] = wrote[r]
    BY <2>2 DEF ProcessInv, Row, Typed
  <2>4. QED BY <2>2, <2>3 DEF ProcessInv, ChildInv, P!Complete
<1>4. QED BY <1>1, <1>2, <1>3

-----------------------------------------------------------------------------
(* The theorems.                                                           *)

\* Each pump is the one it began as, and keeps the invariant of it.
Inv == /\ part \in {"exchange", "process"}
       /\ part = "exchange" => ExchangeInv
       /\ part = "process" => ProcessInv

\* Both invariants, in every behaviour.
LEMMA Invariant == Spec => []Inv
<1>1. Init => Inv
  BY ExchangeStarts, ProcessStarts DEF Init, Inv
<1>2. Inv /\ [Next]_allVars => Inv'
  <2>1. SUFFICES ASSUME Inv, [Next]_allVars
                 PROVE  Inv'
    OBVIOUS
  <2>2. part' = part
    BY <2>1 DEF Next, Exchange, Process, allVars
  <2>3. CASE part = "exchange"
    <3>1. [D!Next]_(D!vars)
      BY <2>1, <2>3 DEF Next, Exchange, Process, allVars, exchangeVars, D!vars, D!frame, D!world
    <3>2. QED BY <2>1, <2>2, <2>3, <3>1, ExchangeSteps DEF Inv
  <2>4. CASE part = "process"
    <3>1. [P!Next]_(P!vars)
      BY <2>1, <2>4 DEF Next, Exchange, Process, allVars, processVars, P!vars, P!call, P!world
    <3>2. QED BY <2>1, <2>2, <2>4, <3>1, ProcessSteps DEF Inv
  <2>5. QED BY <2>1, <2>3, <2>4 DEF Inv
<1>3. QED BY <1>1, <1>2, PTL DEF Spec

\* Type correctness of DuplexExchange and ChildProcess.
THEOREM TypeCorrect == Spec => []TypeOK
<1>1. Inv => TypeOK
  BY ExchangeTells, ProcessTells DEF Inv, TypeOK
<1>2. QED BY <1>1, Invariant, PTL

\* ITransport::exchange and run_process keep what their callers rely on: the outcome of
\* an exchange is why its loop has ended, nothing of it is in flight when it returns,
\* and a half-close follows the whole input (DuplexExchange.hpp); the output of a child
\* is whole, its exit status its own, and neither its file nor its pipe is left behind
\* (Process.cpp).
THEOREM PumpsHonest == Spec => []Contract
<1>1. Inv => Contract
  BY ExchangeTells, ProcessTells DEF Inv, Contract
<1>2. QED BY <1>1, Invariant, PTL

\* run_one_for and the epilogue: an exchange expires only when its deadline has passed or
\* while its input is still going out, and once it drains, no chunk is delivered, no
\* half-close is made, and an expiry is the outcome.
THEOREM ExpiriesStay == Spec => ExpirySteps
<1>1. ASSUME ExchangeInv, [D!Next]_(D!vars)
      PROVE  D!Tolerates /\ D!Silent
  <2>. USE <1>1 DEF ExchangeInv, Epilogue, D!TypeOK, D!Tolerates, D!Silent, D!vars, D!frame, D!world
  <2>1. CASE UNCHANGED D!vars
    BY <2>1
  <2>2. CASE D!Loop \/ D!Expire
    BY <2>2 DEF D!Loop, D!Expire, D!IdleBound
  <2>3. CASE D!ReadHandler \/ D!WriteHandler
    BY <2>3 DEF D!ReadHandler, D!WriteHandler, D!Driven, D!Quiet, D!HandlerReturns
  <2>4. CASE D!Cancel
    BY <2>4 DEF D!Cancel
  <2>5. CASE D!Finish
    BY <2>5 DEF D!Finish, D!Outcome
  <2>6. CASE D!System \/ D!Echo \/ D!PeerEnds \/ D!DeadlinePasses
    BY <2>6 DEF D!System, D!ReadCompletes, D!WriteCompletes, D!Echo, D!PeerEnds, D!DeadlinePasses
  <2>7. QED BY <2>1, <2>2, <2>3, <2>4, <2>5, <2>6 DEF D!Next, D!Caller
<1>2. Inv /\ [Next]_allVars => [part = "exchange" => D!Tolerates /\ D!Silent]_allVars
  <2>1. SUFFICES ASSUME Inv, [Next]_allVars, part = "exchange"
                 PROVE  D!Tolerates /\ D!Silent
    OBVIOUS
  <2>2. [D!Next]_(D!vars)
    BY <2>1 DEF Next, Exchange, Process, allVars, exchangeVars, D!vars, D!frame, D!world
  <2>3. QED BY <1>1, <2>1, <2>2 DEF Inv
<1>3. QED BY <1>2, Invariant, PTL DEF Spec, ExpirySteps

=============================================================================
