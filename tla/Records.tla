------------------------------- MODULE Records -------------------------------
(***************************************************************************)
(* A columnar file copied through the engine: a SourceWorker reads it in   *)
(* chunks of chunk_rows rows and emits them, a SinkWorker writes them      *)
(* through one sink that may roll over to numbered parts.  Calls fail, and *)
(* the future of a write is dropped by a timeout or a cancellation while   *)
(* its blocking thread goes on.                                            *)
(***************************************************************************)
EXTENDS Naturals, Sequences, FiniteSets

CONSTANTS
  Layouts,    \* files: the number of rows up to the end of each batch
  ChunkRows,  \* ReadOptions::chunk_rows
  Rotations,  \* WriteOptions::rotate_rows, or None
  Attempts,   \* of the retry policy
  Capacity,   \* chunks emitted and not yet written
  MaxFaults,  \* bound: calls that fail or are dropped
  None

ASSUME RecordsAssumption ==
  /\ \A l \in Layouts :
       /\ l \in Seq(Nat)
       /\ \A i, j \in DOMAIN l : i <= j => l[i] <= l[j]
  /\ Rotations \subseteq Nat \cup {None} /\ None \notin Nat
  /\ {ChunkRows, Attempts, Capacity} \subseteq Nat \ {0} /\ MaxFaults \in Nat

Least(a, b) == IF a <= b THEN a ELSE b

VARIABLES
  layout, rotate, framed,  \* the file; the options; a format with a footer?
  tries,     \* attempts of the Read task
  reading,   \* "idle", "fill", "cut", "done", "failed"
  pulled, exhausted,          \* ReBatch::inner: batches it gave; did it end?
  buffer, buffered, taken,    \* batches kept, and their rows; rows taken from them
  index,     \* chunks yielded
  chunk,     \* the emitted chunks: key, rows, attempts so far
  at,        \* each: "queued", "finish", "open", "write", "done", "failed"
  writer, part, inPart,    \* the sink: is a writer there? part and rows in it
  disk,      \* the file of each part: the chunks in it, is it closed and whole?
  late,      \* blocking jobs whose future was dropped
  lost,      \* acknowledged chunks whose part then lost its writer to a failed or dropped call
  of,        \* the part a chunk was written to
  end,       \* on_stop: "run", "stopped"
  faults

read   == <<pulled, exhausted, buffer, buffered, taken, index>>
source == <<tries, reading, read>>
sink   == <<writer, part, inPart, disk, late, lost, of>>
vars   == <<layout, rotate, framed, source, chunk, at, sink, end, faults>>

Empty == [chunks |-> <<>>, rows |-> 0, closed |-> FALSE, torn |-> FALSE, made |-> 0]

Init ==
  /\ layout \in Layouts /\ rotate \in Rotations /\ framed \in BOOLEAN
  /\ tries = 0 /\ reading = "idle"
  /\ pulled = 0 /\ exhausted = FALSE /\ buffer = <<>> /\ buffered = 0 /\ taken = <<>> /\ index = 0
  /\ chunk = <<>> /\ at = <<>>
  /\ writer = FALSE /\ part = 0 /\ inPart = 0 /\ disk = <<>>
  /\ late = {} /\ lost = {} /\ of = <<>>
  /\ end = "run" /\ faults = 0

Fault == faults < MaxFaults /\ faults' = faults + 1
Chunk == DOMAIN chunk

-----------------------------------------------------------------------------
(* The source.                                                             *)

(* FormatSource::open, by SourceRegistry::open: from the start, always.    *)
OpenSource ==
  /\ reading = "idle" /\ end = "run"
  /\ tries' = tries + 1 /\ reading' = "fill"
  /\ pulled' = 0 /\ exhausted' = FALSE /\ buffer' = <<>> /\ buffered' = 0 /\ taken' = <<>> /\ index' = 0
  /\ UNCHANGED <<layout, rotate, framed, chunk, at, sink, end, faults>>

(* Batch n of the file holds the rows behind from, up to to.               *)
End(n) == IF n = 0 THEN 0 ELSE layout[n]
Batch(n) == [from |-> End(n - 1), to |-> End(n)]
Size(b) == b.to - b.from
RowsOf(b, n) == [i \in 1..n |-> b.from + i]

(* next_chunk: batches are buffered until they hold a chunk; ...           *)
Pull ==
  /\ reading = "fill" /\ ~exhausted /\ buffered < ChunkRows
  /\ IF pulled = Len(layout)
     THEN exhausted' = TRUE /\ UNCHANGED <<pulled, buffer, buffered>>
     ELSE LET b == Batch(pulled + 1)
          IN /\ pulled' = pulled + 1
             /\ buffer' = IF Size(b) > 0 THEN Append(buffer, b) ELSE buffer
             /\ buffered' = buffered + Size(b) /\ UNCHANGED exhausted
  /\ UNCHANGED <<layout, rotate, framed, tries, reading, taken, index, chunk, at, sink, end, faults>>

Filled ==
  /\ reading = "fill" /\ (exhausted \/ buffered >= ChunkRows)
  /\ reading' = IF buffered = 0 THEN "done" ELSE "cut"
  /\ UNCHANGED <<layout, rotate, framed, tries, read, chunk, at, sink, end, faults>>

(* ... whole batches are taken from the front, and of one that has more    *)
(* rows than are needed the others are put back.  Faults: a whole chunk is *)
(* wanted of fewer rows; the batch is put back as it was.                  *)
WantWhole == ChunkRows
Want == Least(ChunkRows, buffered)
PutBackWhole(b, need) == IF Size(b) <= need THEN <<>> ELSE <<b>>
PutBack(b, need) == IF Size(b) <= need THEN <<>> ELSE <<[b EXCEPT !.from = @ + need]>>

Take ==
  /\ reading = "cut" /\ Len(taken) < Want
  /\ LET b == Head(buffer)
         need == Want - Len(taken)
     IN /\ taken' = taken \o RowsOf(b, Least(Size(b), need))
        /\ buffer' = PutBack(b, need) \o Tail(buffer)
  /\ UNCHANGED <<layout, rotate, framed, tries, reading, pulled, exhausted, buffered, index>>
  /\ UNCHANGED <<chunk, at, sink, end, faults>>

(* SourceWorker::process emits it, under the queue's backpressure.         *)
Emit ==
  /\ reading = "cut" /\ Len(taken) = Want
  /\ Cardinality({c \in Chunk : at[c] = "queued"}) < Capacity
  /\ chunk' = Append(chunk, [key |-> index, rows |-> taken, tries |-> 0])
  /\ at' = Append(at, "queued") /\ of' = Append(of, None)
  /\ buffered' = buffered - Want /\ index' = index + 1 /\ taken' = <<>> /\ reading' = "fill"
  /\ UNCHANGED <<layout, rotate, framed, tries, pulled, exhausted, buffer>>
  /\ UNCHANGED <<writer, part, inPart, disk, late, lost, end, faults>>

(* Opening or reading fails, or the Read task times out, and its reader is gone; a    *)
(* retry reads the file again.                                             *)
ReadFails ==
  /\ reading \in {"fill", "cut"} /\ Fault
  /\ reading' = IF tries < Attempts THEN "idle" ELSE "failed"
  /\ UNCHANGED <<layout, rotate, framed, tries, read, chunk, at, sink, end>>

-----------------------------------------------------------------------------
(* The sink; its mutex admits one write at a time.                         *)

Locked == \E c \in Chunk : at[c] \in {"finish", "open", "write"}
Goto(c, s) == at' = [at EXCEPT ![c] = s]

(* rotate_rows.max(1)                                                      *)
MinRows == IF rotate = 0 THEN 1 ELSE rotate
Due == rotate # None /\ writer /\ inPart >= MinRows

(* SinkWorker::process.  The writer moves into the blocking job.           *)
Write(c) ==
  /\ at[c] = "queued" /\ ~Locked /\ end = "run"
  /\ Goto(c, IF Due THEN "finish" ELSE IF writer THEN "write" ELSE "open")
  /\ writer' = FALSE
  /\ UNCHANGED <<layout, rotate, framed, source, chunk, part, inPart, disk, late, lost, of, end, faults>>

(* Fault: the part is left behind without its footer.                      *)
FinishedUnclosed(c) ==
  /\ UNCHANGED disk
  /\ part' = part + 1 /\ inPart' = 0 /\ Goto(c, "open")
Finished(c) ==
  /\ disk' = [disk EXCEPT ![part + 1].closed = TRUE]
  /\ part' = part + 1 /\ inPart' = 0 /\ Goto(c, "open")

Rotate(c) ==
  /\ at[c] = "finish" /\ Finished(c)
  /\ UNCHANGED <<layout, rotate, framed, source, chunk, writer, late, lost, of, end, faults>>

Grown(f, c) == [f EXCEPT !.chunks = Append(@, c), !.rows = @ + Len(chunk[c].rows)]

(* open_writer creates the file, or truncates the one that is there.       *)
Create == disk' = IF part < Len(disk)
                  THEN [disk EXCEPT ![part + 1] = [Empty EXCEPT !.made = disk[part + 1].made + 1]]
                  ELSE Append(disk, Empty)

Open(c) ==
  /\ at[c] = "open" /\ Create /\ Goto(c, "write")
  /\ UNCHANGED <<layout, rotate, framed, source, chunk, writer, part, inPart, late, lost, of, end, faults>>

Written(c) ==
  /\ at[c] = "write" /\ Goto(c, "done")
  /\ disk' = [disk EXCEPT ![part + 1] = Grown(@, c)]
  /\ writer' = TRUE /\ inPart' = inPart + Len(chunk[c].rows)
  /\ of' = [of EXCEPT ![c] = part]
  /\ UNCHANGED <<layout, rotate, framed, source, chunk, part, late, lost, end, faults>>

(* The policy retries the task or gives it up.                             *)
Again(c) ==
  /\ chunk' = [chunk EXCEPT ![c].tries = @ + 1]
  /\ Goto(c, IF chunk[c].tries + 1 < Attempts THEN "queued" ELSE "failed")

(* A call returns an error: its writer is gone, and the part with it.      *)
Loses == lost' = lost \cup {c \in Chunk : of[c] = part}

WriteFails(c) ==
  /\ at[c] \in {"finish", "open", "write"} /\ Fault /\ Again(c) /\ Loses
  /\ IF at[c] = "open" THEN Create ELSE UNCHANGED disk
  /\ UNCHANGED <<layout, rotate, framed, source, writer, part, inPart, late, of, end>>

(* The future is dropped, which unlocks the sink; the job lives on.        *)
WriteDropped(c) ==
  /\ at[c] \in {"finish", "write"} /\ Fault /\ Again(c) /\ Loses
  /\ late' = late \cup {[job |-> at[c], chunk |-> c, part |-> part, made |-> disk[part + 1].made]}
  /\ UNCHANGED <<layout, rotate, framed, source, writer, part, inPart, disk, of, end>>

(* Its handle still points to the file, which may have been made again.    *)
Lands(j) ==
  /\ j \in late /\ late' = late \ {j}
  /\ disk' = [disk EXCEPT ![j.part + 1] =
       IF @.made # j.made THEN [@ EXCEPT !.torn = TRUE]
       ELSE IF j.job = "finish" THEN [@ EXCEPT !.closed = TRUE]
       ELSE Grown(@, j.chunk)]
  /\ UNCHANGED <<layout, rotate, framed, source, chunk, at, writer, part, inPart, lost, of, end, faults>>

(* Shutdown: what is queued is given up, after the write in progress.      *)
Cancel ==
  /\ end = "run" /\ Fault /\ ~Locked
  /\ at' = [c \in Chunk |-> IF at[c] = "queued" THEN "failed" ELSE at[c]]
  /\ reading' = IF reading = "done" THEN reading ELSE "failed"
  /\ UNCHANGED <<layout, rotate, framed, tries, read, chunk, sink, end>>

(* The run is over: SinkWorker::on_stop finishes the sink.                 *)
OnStop(ok) ==
  /\ end = "run" /\ reading \in {"done", "failed"}
  /\ \A c \in Chunk : at[c] \in {"done", "failed"}
  /\ end' = "stopped" /\ writer' = FALSE
  /\ IF ~writer THEN ok /\ UNCHANGED <<disk, lost, faults>>
     ELSE IF ok THEN disk' = [disk EXCEPT ![part + 1].closed = TRUE] /\ UNCHANGED <<lost, faults>>
     ELSE Fault /\ Loses /\ UNCHANGED disk
  /\ UNCHANGED <<layout, rotate, framed, source, chunk, at, part, inPart, late, of>>

Next ==
  \/ OpenSource \/ Pull \/ Filled \/ Take \/ Emit \/ ReadFails \/ Cancel
  \/ \E c \in Chunk : \/ Write(c) \/ Rotate(c) \/ Open(c) \/ Written(c)
                      \/ WriteFails(c) \/ WriteDropped(c)
  \/ \E j \in late : Lands(j)
  \/ \E ok \in BOOLEAN : OnStop(ok)

Spec == Init /\ [][Next]_vars

-----------------------------------------------------------------------------
(* However the batches of the file are cut and however often it is read    *)
(* again, the chunk called path#i holds the same rows: the i-th run of     *)
(* chunk_rows rows of the file; and a read that ends has yielded each      *)
(* (ReBatch::next_chunk, FormatSource::next; keys are compared across      *)
(* attempts by whoever deduplicates on them).                              *)
Total == End(Len(layout))
Ith(i) == [r \in 1..Least(ChunkRows, Total - i * ChunkRows) |-> i * ChunkRows + r]
ChunksExact ==
  /\ \A c \in Chunk : chunk[c].rows # <<>> /\ chunk[c].rows = Ith(chunk[c].key)
  /\ reading = "done" =>
       {chunk[c].key : c \in Chunk} = {i \in 0..Total : i * ChunkRows < Total}

(* While rows are wanted there is a batch to take them from: buffered_rows *)
(* never promises what the buffer does not hold, so that buffer.remove(0)  *)
(* does not panic (ReBatch::next_chunk).                                   *)
RemoveFinds == reading = "cut" /\ Len(taken) < Want => buffer # <<>>

(* A chunk whose write was acknowledged is readable after the run, once,   *)
(* in the part it went to, unless a later call lost the writer of that     *)
(* very part or a dropped one still wrote into it; and every part but the  *)
(* last holds at least rotate_rows rows, and no chunk more than that takes *)
(* (RotatingRecordSink, FormatSink, SinkWorker).                           *)
Readable(f) == IF f.torn \/ (framed /\ ~f.closed) THEN <<>> ELSE f.chunks
Once(c, s) == \E i \in DOMAIN s : \A j \in DOMAIN s : s[j] = c <=> j = i
PartsKeep ==
  /\ end = "stopped" =>
       \A c \in Chunk : at[c] = "done" =>
         LET f == disk[of[c] + 1] IN Once(c, Readable(f)) \/ c \in lost \/ f.torn
  /\ \A p \in 0..(part - 1) :
       LET f == disk[p + 1]
       IN /\ f.rows - Len(chunk[f.chunks[Len(f.chunks)]].rows) < MinRows
          /\ f.rows >= MinRows \/ \E c \in lost : of[c] = p
=============================================================================
