------------------------------ MODULE LogStream ------------------------------
(***************************************************************************)
(* Reading the log of a container in chunks of any size: the demultiplexer *)
(* of the framed stream (LogDemuxer), the delivery of a chunk to the       *)
(* consumer, and the counter of a log wait (OccurrenceCounter), which both *)
(* keep what a chunk leaves over and drop what they are done with.         *)
(* A byte of text is a letter; a header is its stream byte, a length in    *)
(* one byte, and padding.                                                  *)
(***************************************************************************)
EXTENDS Integers, Sequences, SequencesExt

CONSTANTS
  Logs,         \* what the daemon sends: sequences of frames
  Needles,      \* texts to wait for
  HeaderSize,   \* 8
  KeepAtMost    \* 65536: consumed bytes kept in a buffer

Streams == {0, 1, 2, 9}           \* stdin, stdout, stderr, a byte Docker never sends
Sources == {"stdout", "stderr"}

\* Assumed of the constants; the instances that are checked state it.
LogAssumption ==
  /\ HeaderSize \in Nat \ {0, 1} /\ KeepAtMost \in Nat /\ <<>> \notin Needles
  /\ \A l \in Logs : \A k \in DOMAIN l : l[k].stream \in Streams

VARIABLES
  log, tty, needle,     \* the frames, whether they are sent raw, the text
  fed,                  \* bytes read off the connection
  pending, start,       \* pending_, start_
  inFrame, stream, len, \* have_header_, stream_, payload_len_
  got,                  \* what the consumer was given, per source
  buffered, scanFrom, count   \* the counters of both sources

demuxer == <<pending, start, inFrame, stream, len>>
counter == <<buffered, scanFrom, count>>
vars == <<log, tty, needle, fed, demuxer, got, counter>>

-----------------------------------------------------------------------------
(* The wire.                                                               *)

Header(f) == <<f.stream>> \o [k \in 1..(HeaderSize - 2) |-> 0] \o <<Len(f.data)>>
Frame(f) == IF tty THEN f.data ELSE Header(f) \o f.data
Wire == FlattenSeq([k \in DOMAIN log |-> Frame(log[k])])

TypeOK ==
  /\ log \in Logs /\ tty \in BOOLEAN /\ needle \in Needles
  /\ fed \in 0..Len(Wire) /\ start \in 0..Len(pending) /\ inFrame \in BOOLEAN
  /\ stream \in Sources \cup {"stdin"} /\ len \in Nat
  /\ DOMAIN got = Sources
  /\ \A s \in Sources : scanFrom[s] \in 0..Len(buffered[s]) /\ count[s] \in Nat

Init ==
  /\ log \in Logs /\ tty \in BOOLEAN /\ needle \in Needles /\ fed = 0
  /\ pending = <<>> /\ start = 0 /\ inFrame = FALSE /\ stream = "stdout" /\ len = 0
  /\ got = [s \in Sources |-> <<>>]
  /\ buffered = [s \in Sources |-> <<>>]
  /\ scanFrom = [s \in Sources |-> 0] /\ count = [s \in Sources |-> 0]

-----------------------------------------------------------------------------
(* LogDemuxer.                                                             *)

StreamFromByte(b) == CASE b = 0 -> "stdin" [] b = 2 -> "stderr" [] OTHER -> "stdout"

\* The loop of feed from byte at of buf: whole frames, then what is left over.
RECURSIVE Parse(_, _, _, _, _, _)
Parse(buf, at, header, str, size, frames) ==
  IF ~header /\ Len(buf) - at >= HeaderSize
  THEN Parse(buf, at + HeaderSize, TRUE, StreamFromByte(buf[at + 1]), buf[at + HeaderSize], frames)
  ELSE IF header /\ Len(buf) - at >= size
  THEN Parse(buf, at + size, FALSE, str, 0,
             Append(frames, [stream |-> str, data |-> SubSeq(buf, at + 1, at + size)]))
  ELSE [at |-> at, header |-> header, stream |-> str, len |-> size, frames |-> frames]

\* Mutant: the consumed prefix goes, the position stays.
KeepPosition(at, buf) == at

\* The lazy compaction of the buffer resets the position.
CompactedStart(at, buf) == IF at > KeepAtMost \/ at * 2 > Len(buf) THEN 0 ELSE at
Compacted(at, buf) ==
  IF at > KeepAtMost \/ at * 2 > Len(buf) THEN SubSeq(buf, at + 1, Len(buf)) ELSE buf

\* demux_all: one feed of the whole body.
DemuxAll(body) == Parse(body, 0, FALSE, "stdout", 0, <<>>).frames

-----------------------------------------------------------------------------
(* count_occurrences and OccurrenceCounter.                                *)

Matches(text, at) == /\ at + Len(needle) <= Len(text)
                     /\ SubSeq(text, at + 1, at + Len(needle)) = needle

\* The scan of feed and of count_occurrences: non-overlapping, from the left.
RECURSIVE Scan(_, _, _)
Scan(text, from, n) ==
  LET hits == {at \in from..Len(text) : Matches(text, at)}
      first == CHOOSE at \in hits : \A other \in hits : at <= other
  IN  IF hits = {} THEN [next |-> from, count |-> n]
      ELSE Scan(text, first + Len(needle), n + 1)

CountOccurrences(text) == Scan(text, 0, 0).count

\* Mutant: a needle split over two chunks is not seen.
TailOfAll(next, size) == size

\* Where a match can still start: after the last one, in the last bytes that are
\* too few for the needle.
ResumeAt(next, size) ==
  LET tail == IF size < Len(needle) THEN 0 ELSE size - (Len(needle) - 1)
  IN  IF next < tail THEN tail ELSE next

\* OccurrenceCounter::feed.
Fed(c, data) ==
  LET buf  == c.buffered \o data
      scan == Scan(buf, c.scanFrom, c.count)
      from == ResumeAt(scan.next, Len(buf))
  IN  IF from > KeepAtMost
      THEN [buffered |-> SubSeq(buf, from + 1, Len(buf)), scanFrom |-> 0, count |-> scan.count]
      ELSE [buffered |-> buf, scanFrom |-> from, count |-> scan.count]

-----------------------------------------------------------------------------
(* A read.                                                                 *)

Counter(s) == [buffered |-> buffered[s], scanFrom |-> scanFrom[s], count |-> count[s]]

\* deliver_chunk: every frame in order, those of stdin skipped.
Consume(frames) ==
  LET Data(s) == FlattenSeq([k \in DOMAIN frames |->
                   IF frames[k].stream = s THEN frames[k].data ELSE <<>>])
      After(s) == FoldLeft(LAMBDA c, f : IF f.stream = s THEN Fed(c, f.data) ELSE c,
                           Counter(s), frames)
  IN  /\ got' = [s \in Sources |-> got[s] \o Data(s)]
      /\ buffered' = [s \in Sources |-> After(s).buffered]
      /\ scanFrom' = [s \in Sources |-> After(s).scanFrom]
      /\ count'    = [s \in Sources |-> After(s).count]

\* A chunk of n bytes.
Feed(n) ==
  LET chunk == SubSeq(Wire, fed + 1, fed + n)
      buf   == pending \o chunk
      p     == Parse(buf, start, inFrame, stream, len, <<>>)
  IN  /\ fed + n <= Len(Wire) /\ fed' = fed + n /\ UNCHANGED <<log, tty, needle>>
      /\ IF tty
         THEN Consume(<<[stream |-> "stdout", data |-> chunk]>>) /\ UNCHANGED demuxer
         ELSE /\ Consume(p.frames)
              /\ pending' = Compacted(p.at, buf) /\ start' = CompactedStart(p.at, buf)
              /\ inFrame' = p.header /\ stream' = p.stream /\ len' = p.len

Next == \E n \in 1..Len(Wire) : Feed(n)

Spec == Init /\ [][Next]_vars

-----------------------------------------------------------------------------
(* Properties. *)

\* The bytes of source s among the first frames of the log that fit in upto bytes;
\* of a raw stream, everything.
Sent(s, upto) ==
  LET size(k) == Len(FlattenSeq([j \in 1..k |-> Frame(log[j])]))
      mine(k) == StreamFromByte(log[k].stream) = s /\ size(k) <= upto
  IN  IF tty THEN IF s = "stdout" THEN SubSeq(Wire, 1, upto) ELSE <<>>
      ELSE FlattenSeq([k \in DOMAIN log |-> IF mine(k) THEN log[k].data ELSE <<>>])

\* Wherever the connection splits the stream, in a header included, and whatever
\* the buffers dropped: the consumer has exactly the whole frames received so
\* far, each under its own source, and a snapshot of the same bytes says the same.
SplitsDontMatter ==
  /\ \A s \in Sources : got[s] = Sent(s, fed)
  /\ ~tty => \A s \in Sources :
       LET frames == DemuxAll(SubSeq(Wire, 1, fed))
       IN  got[s] = FlattenSeq([k \in DOMAIN frames |->
                      IF frames[k].stream = s THEN frames[k].data ELSE <<>>])

\* The incremental counter agrees with counting in the whole text: a text split
\* over frames and chunks is found, and none is found twice.
CountsAgree == \A s \in Sources : count[s] = CountOccurrences(got[s])
=============================================================================
