------------------------------- MODULE Streams -------------------------------
(***************************************************************************)
(* The body of a gRPC-web answer where the platform has no streams         *)
(* (grpc/utils/grpc-web-fetch-wrapper.ts): createGrpcWebFetch gives a      *)
(* response without a body one that holds all its bytes, and               *)
(* MinimalReadableStream, which takes the place of ReadableStream, reads   *)
(* those or what an underlying source enqueues.                            *)
(*                                                                         *)
(* The chunks of a source are numbered in the order it enqueues them.  A   *)
(* polite source's pull ends after it has enqueued a chunk, or closed the  *)
(* stream after the last; its start enqueues before it returns.            *)
(***************************************************************************)
EXTENDS Integers, Sequences, SequencesExt, FiniteSetsExt

CONSTANTS
  Sources,   \* what a stream is made of; of an answer of fetch, what that is
  MaxReads   \* bound: calls of read()

StreamConstants ==
  /\ MaxReads \in Nat
  /\ \A s \in Sources :
       /\ s.kind \in {"fetch", "bytes", "nothing", "hollow", "source"} /\ s.n \in Nat
       /\ s.kind \in {"fetch", "bytes", "nothing"} => s.n = 1
       /\ s.kind = "hollow" => s.n = 0
       /\ s.start \in {"none", "sync", "async"}
       /\ s.kind = "source" /\ s.polite /\ ~s.pull => s.start = "sync"

VARIABLES
  source,    \* what the stream is made of
  pc,       \* "fetching", "stream", "reading", "native" or "failed"
  starting, \* start() has not settled
  chunks,   \* enqueued and not read
  closed,   \* streamClosed
  sent,     \* chunks enqueued so far
  got,      \* the chunks read, in order
  reads,    \* the calls of read(), each with the chunks its own pull has enqueued
  cancelled

vars == <<source, pc, starting, chunks, closed, sent, got, reads, cancelled>>

Calls == 1..MaxReads

Init ==
  /\ source \in Sources
  /\ pc = IF source.kind = "fetch" THEN "fetching" ELSE "stream"
  /\ starting = FALSE /\ chunks = <<>> /\ closed = FALSE /\ sent = 0 /\ got = <<>>
  /\ reads = [r \in Calls |-> [at |-> "unused", own |-> 0]]
  /\ cancelled = FALSE

-----------------------------------------------------------------------------
(* createGrpcWebFetch *)

\* Only a good answer of gRPC-web that has no body is given one.
Lacks == source.ok /\ source.grpcWeb /\ ~source.body

CreateGrpcWebFetch ==
  /\ pc = "fetching"
  /\ \/ pc' = "failed"
     \/ ~Lacks /\ pc' = "native"
     \/ Lacks /\ pc' \in {"stream", "native"}  \* its bytes may not be readable
  /\ UNCHANGED <<source, starting, chunks, closed, sent, got, reads, cancelled>>

-----------------------------------------------------------------------------
(* MinimalReader *)

Open(from, n) == [i \in 1..n |-> from + i]

\* getReader: bytes are one chunk and the end, and so is nothing, whose chunk is empty; an object
\* with neither start nor pull is the end at once; of a source start runs, or begins.
GetReader ==
  /\ pc = "stream" /\ pc' = "reading"
  /\ \/ /\ source.kind \in {"fetch", "bytes", "nothing"}
        /\ chunks' = <<1>> /\ sent' = 1 /\ closed' = TRUE /\ UNCHANGED starting
     \/ /\ source.kind = "hollow"
        /\ closed' = TRUE /\ UNCHANGED <<chunks, sent, starting>>
     \/ /\ source.kind = "source" /\ source.start = "async"
        /\ starting' = TRUE /\ UNCHANGED <<chunks, sent, closed>>
     \/ /\ source.kind = "source" /\ source.start = "sync"
        /\ \E n \in 0..source.n :
             /\ chunks' = Open(0, n) /\ sent' = n
             /\ closed' \in (IF n = source.n THEN BOOLEAN ELSE {FALSE})
             /\ source.polite /\ ~source.pull => n = source.n
        /\ UNCHANGED starting
     \/ /\ source.kind = "source" /\ source.start = "none"
        /\ UNCHANGED <<chunks, sent, closed, starting>>
  /\ UNCHANGED <<source, got, reads, cancelled>>

Pulling == {r \in Calls : reads[r].at = "pulling"}

\* controller.enqueue, of a start or a pull that has not settled.
Enqueue ==
  /\ pc = "reading" /\ sent < source.n
  /\ \/ starting /\ UNCHANGED reads
     \/ \E r \in Pulling : reads' = [reads EXCEPT ![r].own = @ + 1]
  /\ sent' = sent + 1 /\ chunks' = Append(chunks, sent')
  /\ UNCHANGED <<source, pc, starting, closed, got, cancelled>>

\* controller.close and controller.error, and a start that rejects.
Close ==
  /\ pc = "reading" /\ ~closed /\ (starting \/ Pulling # {})
  /\ source.polite => sent = source.n
  /\ closed' = TRUE
  /\ UNCHANGED <<source, pc, starting, chunks, sent, got, reads, cancelled>>

StartEnds ==
  /\ starting /\ starting' = FALSE
  /\ UNCHANGED <<source, pc, chunks, closed, sent, got, reads, cancelled>>

Shift(r) ==
  /\ got' = Append(got, Head(chunks)) /\ chunks' = Tail(chunks)
  /\ reads' = [reads EXCEPT ![r].at = "chunk"]
  /\ UNCHANGED closed

End(r) ==
  /\ closed' = TRUE /\ reads' = [reads EXCEPT ![r].at = "end"]
  /\ UNCHANGED <<got, chunks>>

\* Mutant: a closed stream gives no more chunks.
ReadOpen(r) ==
  /\ pc = "reading" /\ reads[r].at = "unused"
  /\ \A before \in 1..r - 1 : reads[before].at # "unused"
  /\ source.overlap \/ Pulling = {}
  /\ IF closed THEN End(r)
     ELSE IF chunks # <<>> THEN Shift(r)
     ELSE IF source.pull
          THEN reads' = [reads EXCEPT ![r].at = "pulling"] /\ UNCHANGED <<got, chunks, closed>>
          ELSE End(r)
  /\ UNCHANGED <<source, pc, starting, sent, cancelled>>

\* A chunk that is there, the end, or a pull of its own; a stream that has neither a chunk nor
\* a pull ends here, although its start may still enqueue.
Read(r) ==
  /\ pc = "reading" /\ reads[r].at = "unused"
  /\ \A before \in 1..r - 1 : reads[before].at # "unused"
  /\ source.overlap \/ Pulling = {}
  /\ IF chunks # <<>> THEN Shift(r)
     ELSE IF closed \/ ~source.pull THEN End(r)
     ELSE reads' = [reads EXCEPT ![r].at = "pulling"] /\ UNCHANGED <<got, chunks, closed>>
  /\ UNCHANGED <<source, pc, starting, sent, cancelled>>

\* The pull settles: what is there now is read, be it the chunk of another pull; else the
\* stream ends.  A pull that rejects ends it in any case.
PullEnds(r) ==
  /\ reads[r].at = "pulling"
  /\ source.polite => reads[r].own > 0 \/ closed
  /\ IF chunks # <<>> THEN Shift(r) ELSE End(r)
  /\ UNCHANGED <<source, pc, starting, sent, cancelled>>

PullRejects(r) ==
  /\ reads[r].at = "pulling" /\ ~source.polite
  /\ End(r)
  /\ UNCHANGED <<source, pc, starting, sent, cancelled>>

\* What is queued can still be read.
Cancel ==
  /\ pc = "reading" /\ ~cancelled
  /\ cancelled' = TRUE /\ closed' = TRUE
  /\ UNCHANGED <<source, pc, starting, chunks, sent, got, reads>>

Next ==
  \/ CreateGrpcWebFetch \/ GetReader \/ Enqueue \/ Close \/ StartEnds \/ Cancel
  \/ \E r \in Calls : Read(r) \/ PullEnds(r) \/ PullRejects(r)

Spec == Init /\ [][Next]_vars

-----------------------------------------------------------------------------
(* Properties *)

Ended == \E r \in Calls : reads[r].at = "end"

\* Chunks are read in the order they are enqueued, each once; and a reader that waits for each
\* of its reads is told of the end only after the last chunk, of a body that was there as a whole
\* or of a polite source (read, close).
NothingLost ==
  /\ got = Open(0, Len(got))
  /\ got \o chunks = Open(0, sent)
  /\ Ended /\ ~cancelled /\ ~source.overlap /\ source.polite => Len(got) = source.n

=============================================================================
