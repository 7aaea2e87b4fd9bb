------------------------------ MODULE Archive ------------------------------
(***************************************************************************)
(* The archives of docker/Tar.cpp: the context of an image build           *)
(* (GenericBuildableImage.cpp), filtered by .dockerignore, and the files   *)
(* copied to a container. The listing, the sizes and the contents are read *)
(* at different times, and the host's files may change between them.       *)
(*                                                                         *)
(* A path is the sequence of its components; a pattern is one of sets, the *)
(* names that a component of it matches (Glob), AnyDepth standing for "**".*)
(***************************************************************************)
EXTENDS Integers, Sequences, SequencesExt

CONSTANTS
  Jobs,    \* [kind, sources, trees, ignore, changes]: what is archived; bound: how often
           \* the host's files change meanwhile
  Order,   \* the component names, sorted
  Block,   \* the size of one read (kTarBlockSize)
  MaxSize  \* bound: the size of a file

AnyDepth == {"**"}
Absent   == -1  \* the size of a file that is not there

ArchiveAssumption ==
  /\ Block \in Nat \ {0} /\ MaxSize \in Nat
  /\ \A job \in Jobs : job.kind \in {"context", "copy"} /\ job.sources # <<>>

VARIABLES
  job, pc,
  disk,     \* host file -> its size, or Absent
  changes,
  found,    \* for each source that has been expanded, the host files there were
  entries,  \* PendingEntry: [name, from, dir, size]
  at, left, \* the entry being written, what its header still owes (remaining)
  wire      \* the entries sent: [name, from, dir, size, sent, real]

vars == <<job, pc, disk, changes, found, entries, at, left, wire>>

Sources == job.sources
Inline  == <<>>  \* the origin of bytes that are in memory
Tree(source) == job.trees[source.root]
HostFile(source, rel) == <<source.root>> \o rel

\* The host files of a job.
FilesOf(j) == UNION {{<<r>> \o rel : rel \in j.trees[r].files} : r \in DOMAIN j.trees}

TypeOK ==
  /\ job \in Jobs
  /\ pc \in {"list", "watch", "stat", "header", "body", "done", "failed"}
  /\ disk \in [FilesOf(job) -> {Absent} \cup 0..MaxSize]
  /\ changes \in 0..job.changes /\ Len(found) <= Len(Sources)
  /\ at \in 1..Len(entries) + 1 /\ left \in 0..MaxSize
  /\ Len(wire) <= Len(entries)
  /\ \A i \in 1..Len(wire) : wire[i].name = entries[i].name /\ wire[i].sent <= wire[i].size

Init ==
  /\ job \in Jobs /\ pc = "list"
  /\ disk = [f \in FilesOf(job) |-> Block]
  /\ changes = 0 /\ found = <<>> /\ entries = <<>> /\ at = 1 /\ left = 0 /\ wire = <<>>

-----------------------------------------------------------------------------
(* .dockerignore.                                                          *)

\* The pattern against the first end components of the path (match_from).
MatchFrom(parts, path, end) ==
  LET M[i \in 1..Len(parts) + 1, j \in 1..end + 1] ==
        IF i > Len(parts) THEN j > end
        ELSE IF parts[i] = AnyDepth THEN M[i + 1, j] \/ (j <= end /\ M[i, j + 1])
        ELSE j <= end /\ path[j] \in parts[i] /\ M[i + 1, j + 1]
  IN  M[1, 1]

\* Mutant: the path itself, its parents no more.
WholePathOnly(parts, path) == MatchFrom(parts, path, Len(path))

\* The path or a directory it is in (matches_or_parent).
MatchesOrParent(parts, path) == \E end \in 1..Len(path) : MatchFrom(parts, path, end)

\* Mutant: the first pattern that matches decides.
FirstDecides(patterns, path) ==
  LET first == SelectInSeq(patterns, LAMBDA p : MatchesOrParent(p.parts, path))
  IN  first # 0 /\ ~patterns[first].negated

\* The last pattern that matches decides (dockerignore_excludes).
Excludes(patterns, path) ==
  LET last == SelectLastInSeq(patterns, LAMBDA p : MatchesOrParent(p.parts, path))
  IN  last # 0 /\ ~patterns[last].negated

-----------------------------------------------------------------------------
(* Listing.                                                                *)

Rank(name) == CHOOSE k \in 1..Len(Order) : Order[k] = name

\* Names in their lexicographic order: a directory before what is in it.
Before(a, b) ==
  \/ Len(a) < Len(b) /\ a = SubSeq(b, 1, Len(a))
  \/ \E k \in 1..Len(a) : /\ k <= Len(b) /\ a[k] # b[k]
                          /\ SubSeq(a, 1, k - 1) = SubSeq(b, 1, k - 1)
                          /\ Rank(a[k]) < Rank(b[k])

Sorted(names) == SetToSortSeq(names, Before)

\* What a walk of the directory finds.
Present(source) == {rel \in Tree(source).files : disk[HostFile(source, rel)] # Absent}

\* Mutant: the explicit Dockerfile has to be the last source.
ExplicitLast == Sources[Len(Sources)].target = <<"Dockerfile">>

\* with_dockerfile*, with_data or with_file put an entry at "Dockerfile".
Explicit == \E k \in 1..Len(Sources) : Sources[k].target = <<"Dockerfile">>

AlwaysShipped == {<<".dockerignore">>, <<"Dockerfile">>}

\* Mutant: .dockerignore's own rules hold for every file.
FilteredAlike(source, rel) == ~Excludes(job.ignore[source.root], rel)

\* What of a directory goes into a build context (append_dir_context).
Ships(source, rel) ==
  LET rootMapped == source.target = <<>>
  IN  /\ ~(rootMapped /\ rel = <<"Dockerfile">> /\ Explicit)
      /\ \/ rootMapped /\ rel \in AlwaysShipped
         \/ ~Excludes(job.ignore[source.root], rel)

Entry(name, from, dir, size) == [name |-> name, from |-> from, dir |-> dir, size |-> size]

Origin(source) == IF source.type = "file" THEN HostFile(source, <<>>) ELSE Inline

\* The one entry of a source that is no directory.
OwnEntry(source) ==
  Entry(source.target, Origin(source), FALSE, IF source.type = "file" THEN disk[Origin(source)] ELSE 1)

\* The directory's files under its target, sorted; their sizes are still to be read.
ContextEntries(source) ==
  LET rels == Sorted({rel \in Present(source) : Ships(source, rel)})
  IN  [k \in 1..Len(rels) |-> Entry(source.target \o rels[k], HostFile(source, rels[k]), FALSE, 0)]

\* Mutant: no entries for the directories above the target.
TargetOnly(source) == {source.target}

\* The target and the directories above it.
Chain(source) == {SubSeq(source.target, 1, k) : k \in 1..Len(source.target)}

\* That chain and the whole tree with its sizes, sorted (walk_host_dir).
CopyEntries(source) ==
  LET dirs  == Chain(source) \cup {source.target \o rel : rel \in Tree(source).dirs}
      files == {source.target \o rel : rel \in Present(source)}
      names == Sorted(dirs \cup files)
      rel(name) == SubSeq(name, Len(source.target) + 1, Len(name))
  IN  [k \in 1..Len(names) |->
         IF names[k] \in dirs THEN Entry(names[k], Inline, TRUE, 0)
         ELSE LET file == HostFile(source, rel(names[k])) IN Entry(names[k], file, FALSE, disk[file])]

\* Mutant: a name that is already there is not added again.
FilesOnce(news) == SelectSeq(news, LAMBDA e : \A k \in 1..Len(entries) : entries[k].name # e.name)

\* A directory that an earlier source has listed is not listed again.
DirsOnce(news) ==
  SelectSeq(news, LAMBDA e : e.dir => \A k \in 1..Len(entries) : entries[k].name # e.name)

\* What the next source contributes, in whichever of the two archives.
Expanded(source) ==
  IF source.type # "dir" THEN <<OwnEntry(source)>>
  ELSE IF job.kind = "context" THEN ContextEntries(source) ELSE CopyEntries(source)

\* The next source; to be copied, a single file has to be there now.
List ==
  /\ pc = "list" /\ Len(found) < Len(Sources)
  /\ LET source == Sources[Len(found) + 1]
         news == Expanded(source)
     IN  /\ found' = Append(found, Present(source))
         /\ IF job.kind = "copy" /\ source.type = "file" /\ disk[Origin(source)] = Absent
              THEN pc' = "failed" /\ UNCHANGED entries
              ELSE /\ entries' = entries \o (IF job.kind = "copy" THEN DirsOnce(news) ELSE news)
                   /\ UNCHANGED pc
  /\ UNCHANGED <<job, disk, changes, at, left, wire>>

\* The tree changes under the walk.
ListFails ==
  /\ pc = "list" /\ Len(found) < Len(Sources) /\ changes > 0 /\ Sources[Len(found) + 1].type = "dir"
  /\ pc' = "failed"
  /\ UNCHANGED <<job, disk, changes, found, entries, at, left, wire>>

\* A copy has its sizes; a build needs a reaper that watches, and then reads them all before
\* the archive has its first byte.
Listed ==
  /\ pc = "list" /\ Len(found) = Len(Sources)
  /\ pc' = IF job.kind = "context" THEN "watch" ELSE "header"
  /\ UNCHANGED <<job, disk, changes, found, entries, at, left, wire>>

EnsureStarted ==
  /\ pc = "watch"
  /\ pc' \in {"stat", "failed"}
  /\ UNCHANGED <<job, disk, changes, found, entries, at, left, wire>>

FromDisk(e) == ~e.dir /\ e.from # Inline

\* stat_size_or_throw, entry by entry: at is the one whose turn it is.
Stat ==
  /\ pc = "stat" /\ at <= Len(entries)
  /\ LET e == entries[at]
     IN  IF FromDisk(e) /\ disk[e.from] = Absent
           THEN pc' = "failed" /\ UNCHANGED <<entries, at>>
           ELSE /\ entries' = IF FromDisk(e) THEN [entries EXCEPT ![at].size = disk[e.from]] ELSE entries
                /\ at' = at + 1 /\ UNCHANGED pc
  /\ UNCHANGED <<job, disk, changes, found, left, wire>>

StatsDone ==
  /\ pc = "stat" /\ at > Len(entries)
  /\ pc' = "header" /\ at' = 1
  /\ UNCHANGED <<job, disk, changes, found, entries, left, wire>>

-----------------------------------------------------------------------------
(* write_tar_stream.                                                       *)

Sent(e, n) == e @@ [sent |-> n, real |-> n]

\* The header commits to the size; bytes in memory follow at once, a file has to be opened.
Header ==
  /\ pc = "header" /\ at <= Len(entries)
  /\ LET e == entries[at]
     IN  IF FromDisk(e)
           THEN /\ wire' = Append(wire, Sent(e, 0))
                /\ pc' = IF disk[e.from] = Absent THEN "failed" ELSE "body"
                /\ left' = e.size /\ UNCHANGED at
           ELSE wire' = Append(wire, Sent(e, e.size)) /\ at' = at + 1 /\ UNCHANGED <<pc, left>>
  /\ UNCHANGED <<job, disk, changes, found, entries>>

Smaller(a, b) == IF a < b THEN a ELSE b

\* A block; a file that has become shorter gives less, and then nothing more.
Read ==
  /\ pc = "body" /\ left > 0
  /\ LET e    == entries[at]
         want == Smaller(Block, left)
         got  == Smaller(want, IF disk[e.from] > e.size - left THEN disk[e.from] - (e.size - left) ELSE 0)
     IN  /\ wire' = [wire EXCEPT ![at].sent = @ + got]
         /\ left' = left - got
         /\ pc' = IF got < want THEN "failed" ELSE pc
  /\ UNCHANGED <<job, disk, changes, found, entries, at>>

\* Mutant: it is enough that the promised bytes were there.
AsPromised(e) == TRUE

\* in.peek(): nothing follows what the header promised. A file that has become
\* shorter after its last byte was read passes as well.
EndsThere(e) == disk[e.from] <= e.size

Peek ==
  /\ pc = "body" /\ left = 0
  /\ LET e == entries[at]
     IN  IF EndsThere(e) THEN pc' = "header" /\ at' = at + 1
                         ELSE pc' = "failed" /\ UNCHANGED at
  /\ wire' = [wire EXCEPT ![at].real = disk[entries[at].from]]
  /\ UNCHANGED <<job, disk, changes, found, entries, left>>

Close ==
  /\ pc = "header" /\ at > Len(entries)
  /\ pc' = "done"
  /\ UNCHANGED <<job, disk, changes, found, entries, at, left, wire>>

\* External: somebody writes, truncates or removes a file; one that is open stays readable.
Change ==
  /\ pc \notin {"done", "failed"} /\ changes < job.changes
  /\ \E f \in DOMAIN disk, size \in {Absent} \cup 0..MaxSize :
       /\ size = Absent => ~(pc = "body" /\ entries[at].from = f)
       /\ size # disk[f] /\ disk' = [disk EXCEPT ![f] = size]
  /\ changes' = changes + 1
  /\ UNCHANGED <<job, pc, found, entries, at, left, wire>>

Next ==
  \/ List \/ ListFails \/ Listed \/ EnsureStarted \/ Stat \/ StatsDone
  \/ Header \/ Read \/ Peek \/ Close \/ Change

Spec == Init /\ [][Next]_vars

-----------------------------------------------------------------------------
Done == pc = "done"

\* Every "**" of a pattern replaced by some number of components that match all names.
Expansions(parts, n) ==
  LET Expand[k \in 0..Len(parts)] ==
        IF k = 0 THEN {<<>>}
        ELSE {s \o t : s \in Expand[k - 1],
                       t \in IF parts[k] = AnyDepth
                               THEN {[i \in 1..m |-> ToSet(Order)] : m \in 0..n} ELSE {<<parts[k]>>}}
  IN  Expand[Len(parts)]

\* docker build's rule, stated without the walk: what an ignored directory holds is ignored,
\* and of the patterns that say something of a path the last one counts.
Ignored(patterns, path) ==
  LET says(p) == \E s \in Expansions(p.parts, Len(path)) :
                   Len(s) \in 1..Len(path) /\ \A i \in 1..Len(s) : path[i] \in s[i]
      hits == {k \in 1..Len(patterns) : says(patterns[k])}
  IN  \E k \in hits : ~patterns[k].negated /\ \A j \in hits : j <= k

\* What the sources provide under a name: where the bytes come from, the later source last.
Provided(k, name) ==
  LET source == Sources[k]
      rel == SubSeq(name, Len(source.target) + 1, Len(name))
      top == source.target = <<>> /\ rel \in AlwaysShipped
  IN  IF source.type # "dir" THEN IF name = source.target THEN {Origin(source)} ELSE {}
      ELSE IF /\ Len(name) > Len(source.target) /\ SubSeq(name, 1, Len(source.target)) = source.target
              /\ rel \in found[k]
              /\ job.kind = "context" /\ ~top => ~Ignored(job.ignore[source.root], rel)
              /\ job.kind = "context" /\ name = <<"Dockerfile">> =>
                   \A s \in ToSet(Sources) : s.type = "dir" \/ s.target # name
             THEN {HostFile(source, rel)} ELSE {}

Names == {source.target : source \in ToSet(Sources)} \cup
         {s.target \o rel : s \in ToSet(Sources), rel \in UNION {job.trees[q].files : q \in DOMAIN job.trees}}

\* An archive that is finished gives every name, in the extraction where the last entry of a
\* name wins, what the last source that provides it has, and no other name: what
\* .dockerignore excludes is left out, an explicit Dockerfile stays (append_dir_context).
ExtractsTrue ==
  Done => \A name \in Names :
    LET given == {k \in 1..Len(Sources) : Provided(k, name) # {}}
        last  == SelectLastInSeq(wire, LAMBDA e : ~e.dir /\ e.name = name)
    IN  IF given = {} THEN last = 0
        ELSE last # 0 /\ wire[last].from \in Provided(CHOOSE k \in given : \A j \in given : j <= k, name)

\* A finished archive is whole: of every file as many bytes were read as its header
\* says, and none followed them when the last had been read, so that no file which was
\* cut short or grew meanwhile is shipped cut ("changed or became unreadable while
\* being archived", write_tar_stream).
FramesWhole == Done => \A i \in 1..Len(wire) : wire[i].sent = wire[i].size /\ wire[i].real <= wire[i].size

\* Whatever a copied directory holds comes after the directories it is in, none of which
\* comes twice (walk_host_dir, stream_tar).
ParentsFirst ==
  job.kind = "copy" =>
    \A i \in 1..Len(wire) :
      /\ wire[i].dir => \A j \in 1..i - 1 : wire[j].dir => wire[j].name # wire[i].name
      /\ (wire[i].dir \/ wire[i].from \in {HostFile(s, rel) : s \in {t \in ToSet(Sources) : t.type = "dir"},
                                                             rel \in UNION {job.trees[q].files : q \in DOMAIN job.trees}}) =>
           \A n \in 1..Len(wire[i].name) - 1 :
             \E j \in 1..i - 1 : wire[j].dir /\ wire[j].name = SubSeq(wire[i].name, 1, n)
=============================================================================
