---------------------------- MODULE ChildProcess ----------------------------
(***************************************************************************)
(* run_process (Process.cpp): concurrent calls, each of which stages its   *)
(* child's stdin in a file, makes one pipe for the child's stdout and      *)
(* stderr, spawns the child, reads the pipe to its end and then asks for   *)
(* the exit status. The children and the operating system are the          *)
(* environment; a child does its reads and writes in any order. The text   *)
(* is the POSIX one; on Windows the handle list and the handle guards do   *)
(* what close-on-exec and the explicit close() calls do here.              *)
(***************************************************************************)
EXTENDS Integers

CONSTANTS
  Runs,     \* calls of run_process, each on a thread of its own
  Endless,  \* those whose child does not end
  MaxIn,    \* bound: units of stdin
  MaxOut,   \* bound: units of output
  Room      \* units the pipe holds

ProcessAssumption == Endless \subseteq Runs /\ {MaxIn, MaxOut, Room} \subseteq Nat

VARIABLES
  ignored,  \* the embedder has set SIGCHLD to SIG_IGN
  plan,     \* of a run: its input, -1 for none, and what its child will write
  \* of a run's call
  at,       \* what it does
  file,     \* its staged stdin is there
  ends,     \* its ends of the pipe that are open
  output,   \* what it has read
  result,   \* the exit status it reports
  \* of a run's child
  child,    \* not there, running, ended or waited for
  status,   \* how it has ended
  fed, wrote, pipe,  \* units it has read, has written, and that are in the pipe
  holds     \* the runs whose write end it has inherited

call  == <<at, file, ends, output, result>>
world == <<child, status, fed, wrote, pipe, holds>>
vars  == <<ignored, plan, call, world>>

Signal == -1   \* the status of a child that a signal has ended
Unknown == -2  \* no status

-----------------------------------------------------------------------------
TypeOK ==
  /\ ignored \in BOOLEAN /\ plan \in [Runs -> [input : -1..MaxIn, out : 0..MaxOut]]
  /\ \A r \in Runs :
       /\ at[r] \in {"stage", "pipe", "spawn", "read", "wait", "remove", "returned", "threw"}
       /\ file[r] \in BOOLEAN /\ ends[r] \subseteq {"read", "write"}
       /\ child[r] \in {"none", "running", "ended", "reaped"}
       /\ holds[r] \subseteq Runs /\ fed[r] \in 0..MaxIn
       /\ pipe[r] \in 0..Room /\ wrote[r] = output[r] + pipe[r] /\ wrote[r] <= plan[r].out
       /\ {result[r], status[r]} \subseteq {0, 1, Signal, Unknown}

Init ==
  /\ ignored \in BOOLEAN /\ plan \in [Runs -> [input : -1..MaxIn, out : 0..MaxOut]]
  /\ at = [r \in Runs |-> "stage"] /\ file = [r \in Runs |-> FALSE]
  /\ ends = [r \in Runs |-> {}] /\ output = [r \in Runs |-> 0]
  /\ result = [r \in Runs |-> Unknown]
  /\ child = [r \in Runs |-> "none"] /\ status = [r \in Runs |-> Unknown]
  /\ fed = [r \in Runs |-> 0] /\ wrote = [r \in Runs |-> 0] /\ pipe = [r \in Runs |-> 0]
  /\ holds = [r \in Runs |-> {}]

Goto(r, from, to) == at[r] = from /\ at' = [at EXCEPT ![r] = to]

-----------------------------------------------------------------------------
(* The call.                                                               *)

\* stage_stdin_file: a file cannot deadlock against the pipe.
Stage(r) ==
  /\ Goto(r, "stage", "pipe")
  /\ file' = [file EXCEPT ![r] = plan[r].input >= 0]
  /\ UNCHANGED <<ignored, plan, ends, output, result, world>>

\* Mutant: an exception passes the staged file by.
LeavesFile(r) == "threw"

\* The catch block: remove the file, then throw on.
AfterThrow(r) == "remove"

\* pipe2 may fail.
Pipe(r) ==
  /\ \/ Goto(r, "pipe", "spawn") /\ ends' = [ends EXCEPT ![r] = {"read", "write"}]
     \/ Goto(r, "pipe", AfterThrow(r)) /\ UNCHANGED ends
  /\ UNCHANGED <<ignored, plan, file, output, result, world>>

\* Mutant: the pipes are not closed on exec.
EveryPipe(r) == {q \in Runs : "write" \in ends[q]}

\* What a child inherits: of all the pipes of the process the one dup2 has given to it.
Inherited(r) == {r}

\* posix_spawnp, and the parent's write end is closed. When it fails the read end is not.
Spawn(r) ==
  /\ ends' = [ends EXCEPT ![r] = {"read"}]
  /\ \/ /\ Goto(r, "spawn", "read")
        /\ child' = [child EXCEPT ![r] = "running"]
        /\ holds' = [holds EXCEPT ![r] = Inherited(r)]
     \/ Goto(r, "spawn", AfterThrow(r)) /\ UNCHANGED <<child, holds>>
  /\ UNCHANGED <<ignored, plan, file, output, result, status, fed, wrote, pipe>>

\* The pipe ends when it is empty and nobody can write to it any more.
AtEnd(r) ==
  /\ pipe[r] = 0 /\ "write" \notin ends[r]
  /\ \A q \in Runs : child[q] = "running" => r \notin holds[q]

Read(r) ==
  /\ at[r] = "read" /\ pipe[r] > 0
  /\ pipe' = [pipe EXCEPT ![r] = @ - 1]
  /\ output' = [output EXCEPT ![r] = @ + 1]
  /\ UNCHANGED <<ignored, plan, at, file, ends, result, child, status, fed, wrote, holds>>

\* Mutant: the child is waited for before its output is read.
WaitsFirst(r) == child[r] # "running"

\* When the reading may stop.
MayClose(r) == AtEnd(r)

Close(r) ==
  /\ MayClose(r) /\ Goto(r, "read", "wait")
  /\ ends' = [ends EXCEPT ![r] = {}]
  /\ UNCHANGED <<ignored, plan, file, output, result, world>>

\* Mutant: no status is taken for success.
AssumesSuccess(r) == IF child[r] = "ended" THEN status[r] ELSE 0

\* Unknown: the child was reaped behind our back.
ExitStatus(r) == IF child[r] = "ended" THEN status[r] ELSE Unknown

\* waitpid, which throws when there is nothing to wait for.
Wait(r) ==
  /\ child[r] # "running"
  /\ Goto(r, "wait", IF ExitStatus(r) = Unknown THEN AfterThrow(r) ELSE "remove")
  /\ result' = [result EXCEPT ![r] = ExitStatus(r)]
  /\ child' = [child EXCEPT ![r] = "reaped"]
  /\ UNCHANGED <<ignored, plan, file, ends, output, status, fed, wrote, pipe, holds>>

\* remove_quietly, on both ways out.
Remove(r) ==
  /\ Goto(r, "remove", IF result[r] = Unknown THEN "threw" ELSE "returned")
  /\ file' = [file EXCEPT ![r] = FALSE]
  /\ UNCHANGED <<ignored, plan, ends, output, result, world>>

-----------------------------------------------------------------------------
(* The child.                                                              *)

Feeds(r) ==
  /\ child[r] = "running" /\ file[r] /\ fed[r] < plan[r].input
  /\ fed' = [fed EXCEPT ![r] = @ + 1]
  /\ UNCHANGED <<ignored, plan, call, child, status, wrote, pipe, holds>>

Writes(r) ==
  /\ child[r] = "running" /\ wrote[r] < plan[r].out /\ pipe[r] < Room
  /\ wrote' = [wrote EXCEPT ![r] = @ + 1] /\ pipe' = [pipe EXCEPT ![r] = @ + 1]
  /\ UNCHANGED <<ignored, plan, call, child, status, fed, holds>>

Complete(r) == fed[r] >= plan[r].input /\ wrote[r] = plan[r].out

\* With SIGCHLD ignored the system reaps it.
Ends(r) ==
  /\ child[r] = "running" /\ r \notin Endless
  /\ \E s \in {0, 1, Signal} :
       /\ s = 0 => Complete(r)
       /\ status' = [status EXCEPT ![r] = s]
  /\ child' = [child EXCEPT ![r] = IF ignored THEN "reaped" ELSE "ended"]
  /\ UNCHANGED <<ignored, plan, call, fed, wrote, pipe, holds>>

Call(r)  == Stage(r) \/ Pipe(r) \/ Spawn(r) \/ Read(r) \/ Close(r) \/ Wait(r) \/ Remove(r)
Child(r) == Feeds(r) \/ Writes(r) \/ Ends(r)

Next == \E r \in Runs : Call(r) \/ Child(r)

Spec == Init /\ [][Next]_vars

\* The threads run, and so do the children: one that can do something does it, and one
\* that has done everything ends, but none need end before.
Goes(r) == Feeds(r) \/ Writes(r) \/ (Complete(r) /\ Ends(r))

-----------------------------------------------------------------------------
(* Properties.                                                             *)

\* The result is the child's: its output to the last unit it has written, its exit
\* status, and no result when there is none to be had (SIGCHLD ignored).
Captured ==
  \A r \in Runs : at[r] = "returned" =>
    /\ output[r] = wrote[r] /\ result[r] = status[r]
    /\ result[r] = 0 => output[r] = plan[r].out /\ fed[r] >= plan[r].input

\* A call that is over leaves neither its file nor an open end of its pipe behind, but for
\* the read end of one whose spawn has failed (see Spawn).
NothingLeft ==
  \A r \in Runs : at[r] \in {"returned", "threw"} =>
    /\ ~file[r]
    /\ child[r] # "none" => ends[r] = {}

\* A child can always go on, whatever it does first, so that every call is over in the
\* end: more output than the pipe holds, stdin that is not read and another call's child
\* that never ends included.
Over(r) == at[r] \in {"returned", "threw"}
=============================================================================
