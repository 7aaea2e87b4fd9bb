------------------------------ MODULE MCClient ------------------------------
(***************************************************************************)
(* A small instance of Client for TLC, with three more parts for the same  *)
(* run: a behaviour is one of Client, or of LogStream, Archive or Glob,    *)
(* which read and make the data that a client receives and sends.          *)
(***************************************************************************)
EXTENDS Client, TLC

CONSTANTS
  d, w1, w2                       \* a credential helper, threads

VARIABLES
  log, tty, needle, fed, pending, start, inFrame, stream, len, got, buffered, scanFrom, count,
  job, stage, disk, changes, found, entries, at, left, wire,      \* stage: Archive's pc
  pattern, name, p, n, starP, starN, verdict

logVars  == <<log, tty, needle, fed, pending, start, inFrame, stream, len, got,
              buffered, scanFrom, count>>
fileVars == <<job, stage, disk, changes, found, entries, at, left, wire>>
globVars == <<pattern, name, p, n, starP, starN, verdict>>
runVars  == <<allVars, logVars, fileVars, globVars>>

-----------------------------------------------------------------------------
(* The constants of Client, and the instances of the other parts.          *)

MCCalls == [kind : {"exec"}, input : {-1, 0, 2}, deadline : BOOLEAN]
             \cup [kind : {"follow"}, input : {-1}, deadline : BOOLEAN]
             \cup [kind : {"detached"}, input : {-1, 1}, deadline : {FALSE}]
             \cup [kind : {"upload", "build"}, input : {0, 2}, deadline : {FALSE}]
             \cup [kind : {"download"}, input : {-1}, deadline : {FALSE}]

\* Empty frames, a text with itself as its border, a byte Docker never sends.
Texts  == {<<>>, <<"a">>, <<"a", "b", "a">>}
Frames == [stream : {0, 1, 2}, data : Texts] \cup {[stream |-> 9, data |-> <<"b", "a">>]}
Busy   == [stream : {1, 2}, data : {<<"a">>, <<"a", "b", "a">>}]
MCLogs == {<<>>} \cup {<<f>> : f \in Frames} \cup {<<f, g>> : f, g \in Frames}
            \cup {<<f, g, h>> : f, g, h \in Busy}

L == INSTANCE LogStream WITH
       Logs <- MCLogs, Needles <- {<<"a">>, <<"a", "a">>, <<"a", "b", "a">>},
       HeaderSize <- 3, KeepAtMost <- 2

\* A plain entry under the alias of the hub; a token for the mirror and a helper for the
\* hub; a helper for all.
MCKeys == {"index.docker.io", "https://index.docker.io/v1/", "mirror"}
Nothing == [k \in MCKeys |-> "absent"]
NoHelpers == [k \in MCKeys |-> Anonymous]
MCConfigs ==
  {[auths |-> [Nothing EXCEPT !["https://index.docker.io/v1/"] = "password"],
    credHelpers |-> NoHelpers, credsStore |-> Anonymous],
   [auths |-> [Nothing EXCEPT !["mirror"] = "token"],
    credHelpers |-> [NoHelpers EXCEPT !["https://index.docker.io/v1/"] = d], credsStore |-> Anonymous],
   [auths |-> [Nothing EXCEPT !["index.docker.io"] = "empty"],
    credHelpers |-> NoHelpers, credsStore |-> d]}

MCHubPrefixes == {"mirror", Unset}

\* Every list of two rules about a and b, to filter a directory at the root and below it.
Rules == [parts : {<<{"a"}>>, <<{"a"}, {"b"}>>, <<{"**"}, {"b"}>>, <<{"**"}>>, <<{"a"}, {"**"}, {"b"}>>},
          negated : BOOLEAN]
RuleLists == {<<>>} \cup {<<r>> : r \in Rules} \cup {<<r, s>> : r, s \in Rules}

Dir(target)   == [type |-> "dir", root |-> "tree", target |-> target]
File(target)  == [type |-> "file", root |-> "file", target |-> target]
Bytes(target) == [type |-> "bytes", root |-> "file", target |-> target]

Job(kind, sources, files, dirs, rules, times) ==
  [kind |-> kind, sources |-> sources, ignore |-> [root \in {"tree"} |-> rules], changes |-> times,
   trees |-> [root \in {"tree", "file"} |->
                IF root = "tree" THEN [files |-> files, dirs |-> dirs] ELSE [files |-> {<<>>}, dirs |-> {}]]]

MCJobs ==
  {Job("context", <<Dir(target)>>,
       {<<".dockerignore">>, <<"Dockerfile">>, <<"b">>, <<"a", "b">>, <<"a", "c", "b">>}, {}, rules, 0) :
     target \in {<<>>, <<"b">>}, rules \in RuleLists}
  \cup
  {Job("context", sources, {<<"Dockerfile">>, <<"b">>}, {}, rules, 2) :
     sources \in {<<Bytes(<<"Dockerfile">>), Dir(<<>>)>>, <<Dir(<<>>), File(<<"b">>)>>},
     rules \in {<<>>, <<[parts |-> <<{"**"}>>, negated |-> FALSE]>>}}
  \cup
  {Job("copy", sources, {<<"Dockerfile">>, <<"b">>}, {<<"a">>}, <<>>, 2) :
     sources \in {<<File(<<"b">>), Dir(<<"a", "c">>), Dir(<<"a">>)>>,
                  <<Dir(<<>>), File(<<"b">>)>>, <<Dir(<<"a">>), Bytes(<<"a", "b">>)>>}}

A == INSTANCE Archive WITH
       Jobs <- MCJobs, Order <- <<".dockerignore", "Dockerfile", "a", "b", "c">>, Block <- 1, MaxSize <- 2,
       pc <- stage

G == INSTANCE Glob WITH Chars <- {"x", "y"}, MaxPattern <- 4, MaxName <- 3

ASSUME Assumptions == L!LogAssumption /\ A!ArchiveAssumption /\ G!GlobAssumption

Symmetry == Permutations(Clients) \cup Permutations(Conns) \cup Permutations({w1, w2})

-----------------------------------------------------------------------------
LogsOff ==
  /\ Off(log) /\ Off(tty) /\ Off(needle) /\ Off(fed) /\ Off(pending) /\ Off(start) /\ Off(inFrame)
  /\ Off(stream) /\ Off(len) /\ Off(got) /\ Off(buffered) /\ Off(scanFrom) /\ Off(count)
FilesOff ==
  /\ Off(job) /\ Off(stage) /\ Off(disk) /\ Off(changes) /\ Off(found) /\ Off(entries) /\ Off(at)
  /\ Off(left) /\ Off(wire)
GlobsOff ==
  Off(pattern) /\ Off(name) /\ Off(p) /\ Off(n) /\ Off(starP) /\ Off(starN) /\ Off(verdict)
ClientOff == Unused /\ CallsOff /\ PullsOff

MCInit ==
  \/ ClientInit /\ LogsOff /\ FilesOff /\ GlobsOff
  \/ part = "log" /\ L!Init /\ ClientOff /\ FilesOff /\ GlobsOff
  \/ part = "archive" /\ A!Init /\ ClientOff /\ LogsOff /\ GlobsOff
  \/ part = "glob" /\ G!Init /\ ClientOff /\ LogsOff /\ FilesOff

MCNext ==
  \/ ClientNext /\ UNCHANGED <<logVars, fileVars, globVars>>
  \/ part = "log" /\ L!Next /\ UNCHANGED <<allVars, fileVars, globVars>>
  \/ part = "archive" /\ A!Next /\ UNCHANGED <<allVars, logVars, globVars>>
  \/ part = "glob" /\ G!Next /\ UNCHANGED <<allVars, logVars, fileVars>>

MCSpec == MCInit /\ [][MCNext]_runVars

-----------------------------------------------------------------------------
(* The properties of the other parts, each where it applies.               *)

Types ==
  /\ ClientTypes
  /\ part = "log" => L!TypeOK
  /\ part = "archive" => A!TypeOK
  /\ part = "glob" => G!TypeOK

\* How the connection splits a log makes no difference to who reads it.
ChunkingInvisible == part = "log" => L!SplitsDontMatter /\ L!CountsAgree

\* An archive that is finished holds, whole and in an order that can be extracted, what the
\* ignore rules leave of its sources; a rule's glob matches what its definition says.
ArchiveTrue ==
  /\ part = "archive" => A!ExtractsTrue /\ A!FramesWhole /\ A!ParentsFirst
  /\ part = "glob" => G!VerdictTrue
=============================================================================
