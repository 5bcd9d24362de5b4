---------------------------- MODULE RecordsProofs ----------------------------
(* Proofs about Records, for every file, chunk size, rotation and number   *)
(* of faults.                                                              *)
EXTENDS Records, SequenceTheorems, TLAPS

Modes  == {"idle", "fill", "cut", "done", "failed"}
Places == {"queued", "finish", "open", "write", "done", "failed"}
Locks  == {"finish", "open", "write"}
Runs   == [from : Nat, to : Nat]
Chunks == [key : Nat, rows : Seq(Nat), tries : Nat]
Files  == [chunks : Seq(Nat), rows : Nat, closed : BOOLEAN, torn : BOOLEAN, made : Nat]
Jobs   == [job : {"finish", "write"}, chunk : Nat, part : Nat, made : Nat]

FileType == layout \in Layouts /\ rotate \in Rotations /\ framed \in BOOLEAN

ReaderType ==
  /\ tries \in Nat /\ reading \in Modes
  /\ pulled \in 0..Len(layout) /\ exhausted \in BOOLEAN
  /\ buffer \in Seq(Runs) /\ buffered \in Nat /\ taken \in Seq(Nat) /\ index \in Nat

ChunkType ==
  /\ chunk \in Seq(Chunks) /\ at \in [Chunk -> Places] /\ of \in [Chunk -> Nat \cup {None}]
  /\ at \in Seq(Places) /\ of \in Seq(Nat \cup {None})

SinkType ==
  /\ writer \in BOOLEAN /\ part \in Nat /\ inPart \in Nat /\ disk \in Seq(Files)
  /\ late \subseteq Jobs /\ lost \subseteq Chunk
  /\ end \in {"run", "stopped"} /\ faults \in Nat

TypeOK == FileType /\ ReaderType /\ ChunkType /\ SinkType

(* b holds the rows behind lo, up to hi, in order and without a gap.       *)
Line(b, lo, hi) ==
  /\ \A i \in DOMAIN b : lo <= b[i].from /\ b[i].from < b[i].to /\ b[i].to <= hi
  /\ \A i, j \in DOMAIN b : i < j => b[i].to <= b[j].from
  /\ \A i \in 1..(Len(b) - 1) : b[i + 1].from = b[i].to
  /\ b # <<>> => b[1].from = lo /\ b[Len(b)].to = hi

(* The reader stands behind row Here; the buffer continues from there to   *)
(* the last row pulled.                                                    *)
Here == index * ChunkRows + Len(taken)
BufferInv == /\ Line(buffer, Here, End(pulled))
             /\ buffer = <<>> => buffered = Len(taken)
CountInv ==
  /\ buffered > 0 => End(pulled) = index * ChunkRows + buffered
  /\ buffered = 0 => \/ End(pulled) = index * ChunkRows
                     \/ exhausted /\ End(pulled) <= index * ChunkRows
  /\ exhausted => pulled = Len(layout)
  /\ Len(taken) <= Want
  /\ reading = "fill" => taken = <<>>
  /\ reading = "cut" => buffered > 0 /\ (exhausted \/ buffered >= ChunkRows)
  /\ \A i \in DOMAIN taken : taken[i] = index * ChunkRows + i
Yielded(n) == \A k \in 0..(n - 1) : \E c \in Chunk : chunk[c].key = k
ReaderInv == reading \in {"fill", "cut"} => BufferInv /\ CountInv /\ Yielded(index)

ChunkInv ==
  /\ \A c \in Chunk : /\ chunk[c].rows # <<>> /\ chunk[c].rows = Ith(chunk[c].key)
                      /\ chunk[c].key * ChunkRows < Total
  /\ reading = "done" =>
       \A k \in 0..Total : k * ChunkRows < Total => \E c \in Chunk : chunk[c].key = k

(* Somebody has the writer of the current part.                            *)
Held == writer \/ \E c \in Chunk : at[c] \in {"finish", "write"}
(* No job left behind has the file of part p open.                         *)
Fresh(p) == \A j \in late : j.part = p => j.made # disk[p + 1].made
Abandoned(p) == \E c \in lost : of[c] = p
LastRows(f) == Len(chunk[f.chunks[Len(f.chunks)]].rows)

LockInv ==
  /\ \A c, d \in Chunk : at[c] \in Locks /\ at[d] \in Locks => c = d
  /\ \A c \in Chunk : at[c] \in Locks => ~writer /\ end = "run"
  /\ end = "stopped" => ~writer
  /\ rotate = None => part = 0
  /\ \A c \in Chunk : at[c] = "finish" => rotate # None /\ inPart >= MinRows
LateInv ==
  /\ part <= Len(disk) /\ (Held => part < Len(disk))
  /\ \A j \in late : /\ j.part <= part /\ j.part < Len(disk) /\ j.chunk \in Chunk
                     /\ j.made <= disk[j.part + 1].made
  /\ \A p \in 0..(part - 1) : Fresh(p)
  /\ Held => Fresh(part)
CurrentInv ==
  Held =>
    LET f == disk[part + 1]
    IN /\ f.rows <= inPart /\ (f.rows = inPart \/ Abandoned(part))
       /\ \A i \in DOMAIN f.chunks : f.chunks[i] \in Chunk /\ at[f.chunks[i]] = "done" /\ of[f.chunks[i]] = part
       /\ ~(\E c \in Chunk : at[c] = "write") =>
             f.chunks # <<>> /\ (rotate # None => f.rows - LastRows(f) < MinRows)
       /\ (\E c \in Chunk : at[c] = "write") /\ rotate # None => f.rows < MinRows
CountedInv == inPart = 0 \/ \E c \in Chunk : of[c] = part
DoneInv ==
  \A c \in Chunk :
    /\ at[c] # "done" => of[c] = None /\ c \notin lost
    /\ at[c] = "done" => /\ of[c] \in 0..part /\ of[c] < Len(disk)
                         /\ c \notin lost =>
                              LET f == disk[of[c] + 1]
                              IN /\ Once(c, f.chunks) /\ Fresh(of[c])
                                 /\ of[c] < part \/ end = "stopped" => f.closed
                                 /\ of[c] = part /\ end = "run" => Held
PartInv ==
  \A p \in 0..(part - 1) :
    LET f == disk[p + 1]
    IN /\ f.chunks # <<>> /\ \A i \in DOMAIN f.chunks : f.chunks[i] \in Chunk
       /\ f.rows - LastRows(f) < MinRows
       /\ f.rows >= MinRows \/ Abandoned(p)

SinkInv == LockInv /\ LateInv /\ CurrentInv /\ CountedInv /\ DoneInv /\ PartInv

Inv == TypeOK /\ ReaderInv /\ ChunkInv /\ SinkInv

-----------------------------------------------------------------------------
(* Operators.                                                              *)

LEMMA Constants ==
  /\ ChunkRows \in Nat /\ ChunkRows >= 1 /\ None \notin Nat
  /\ \A r \in Rotations : r # None => r \in Nat
BY RecordsAssumption

(* Keys and rows: multiplication by chunk_rows keeps the order.            *)
LEMMA Products ==
  ASSUME NEW i \in Nat, NEW j \in Nat
  PROVE  /\ i * ChunkRows \in Nat /\ i <= i * ChunkRows
         /\ (i + 1) * ChunkRows = i * ChunkRows + ChunkRows
         /\ i * ChunkRows < j * ChunkRows => i < j
<1>1. ChunkRows \in Nat /\ ChunkRows >= 1
  BY Constants
<1>2. i * ChunkRows \in Nat /\ (i + 1) * ChunkRows = i * ChunkRows + ChunkRows
  BY <1>1
<1>3. i <= i * ChunkRows
  BY <1>1
<1>4. ASSUME j <= i PROVE j * ChunkRows <= i * ChunkRows
  <2>1. PICK d \in Nat : i = j + d
    BY <1>4
  <2>2. i * ChunkRows = j * ChunkRows + d * ChunkRows
    BY <1>1, <2>1
  <2>3. d * ChunkRows \in Nat /\ j * ChunkRows \in Nat
    BY <1>1, <2>1
  <2> QED BY <2>2, <2>3
<1>5. j * ChunkRows \in Nat
  BY <1>1
<1> QED BY <1>2, <1>3, <1>4, <1>5

LEMMA EndType ==
  ASSUME FileType, NEW n \in 0..Len(layout), NEW m \in 0..n
  PROVE  End(m) \in Nat /\ End(n) \in Nat /\ End(m) <= End(n) /\ Len(layout) \in Nat
<1>1. layout \in Seq(Nat) /\ \A i, j \in DOMAIN layout : i <= j => layout[i] <= layout[j]
  BY RecordsAssumption DEF FileType
<1>2. Len(layout) \in Nat /\ DOMAIN layout = 1..Len(layout)
  BY <1>1
<1>3. ASSUME NEW k \in 0..n PROVE End(k) \in Nat
  BY <1>1, <1>2 DEF End
<1>4. CASE m = 0
  BY <1>2, <1>3, <1>4 DEF End
<1>5. CASE m # 0
  <2>1. m \in DOMAIN layout /\ n \in DOMAIN layout /\ m <= n
    BY <1>2, <1>5
  <2>2. End(m) = layout[m] /\ End(n) = layout[n]
    BY <2>1, <1>2 DEF End
  <2>3. End(m) \in Nat /\ End(n) \in Nat
    BY <1>3, n \in 0..n, m \in 0..n
  <2> QED BY <1>1, <1>2, <2>1, <2>2, <2>3
<1> QED BY <1>4, <1>5

LEMMA LineAppend ==
  ASSUME NEW b \in Seq(Runs), NEW lo \in Nat, NEW hi \in Nat, Line(b, lo, hi),
         b = <<>> => lo = hi, NEW r \in Runs, r.from = hi, hi < r.to
  PROVE  Append(b, r) \in Seq(Runs) /\ Line(Append(b, r), lo, r.to)
<1> DEFINE c == Append(b, r)
<1>1. Len(b) \in Nat /\ DOMAIN b = 1..Len(b) /\ \A i \in 1..Len(b) : b[i] \in Runs
  BY ElementOfSeq
<1>2. /\ c \in Seq(Runs) /\ Len(c) = Len(b) + 1 /\ DOMAIN c = 1..(Len(b) + 1)
      /\ c[Len(b) + 1] = r /\ \A i \in 1..Len(b) : c[i] = b[i]
  BY <1>1
<1>3. hi \in Nat /\ r.from \in Nat /\ r.to \in Nat /\ \A i \in 1..Len(b) : b[i].from \in Nat /\ b[i].to \in Nat
  BY <1>1 DEF Runs
<1>4. lo <= hi /\ (Len(b) # 0 => b[1].from = lo /\ b[Len(b)].to = hi)
  <2>1. CASE b = <<>>
    BY <2>1
  <2>2. CASE b # <<>>
    <3>1. Len(b) # 0
      BY <2>2, EmptySeq
    <3> QED BY <2>2, <3>1, <1>1, <1>3 DEF Line
  <2> QED BY <2>1, <2>2
<1> HIDE DEF c
<1>5. \A i \in DOMAIN c : lo <= c[i].from /\ c[i].from < c[i].to /\ c[i].to <= r.to
  BY <1>1, <1>2, <1>3, <1>4 DEF Line
<1>6. \A i, j \in DOMAIN c : i < j => c[i].to <= c[j].from
  BY <1>1, <1>2, <1>3, <1>4 DEF Line
<1>7. \A i \in 1..(Len(c) - 1) : c[i + 1].from = c[i].to
  <2> TAKE i \in 1..(Len(c) - 1)
  <2>1. CASE i = Len(b)
    BY <2>1, <1>1, <1>2, <1>4
  <2>2. CASE i # Len(b)
    <3> Len(c) - 1 = Len(b) /\ Len(b) \in Nat
      BY <1>1, <1>2
    <3>1. i \in 1..(Len(b) - 1) /\ i \in 1..Len(b) /\ i + 1 \in 1..Len(b)
      BY <2>2
    <3> QED BY <3>1, <1>2 DEF Line
  <2> QED BY <2>1, <2>2
<1>8. c[1].from = lo /\ c[Len(c)].to = r.to
  BY <1>1, <1>2, <1>4
<1> QED BY <1>2, <1>5, <1>6, <1>7, <1>8 DEF Line, c

LEMMA LineTail ==
  ASSUME NEW b \in Seq(Runs), NEW lo \in Nat, NEW hi \in Nat, Line(b, lo, hi), b # <<>>
  PROVE  /\ Head(b) = b[1] /\ b[1] \in Runs /\ b[1].from = lo /\ lo < b[1].to /\ b[1].to <= hi
         /\ Tail(b) \in Seq(Runs) /\ Line(Tail(b), b[1].to, hi)
         /\ Tail(b) = <<>> => b[1].to = hi
<1> DEFINE t == Tail(b)
<1>1. Len(b) \in Nat \ {0} /\ DOMAIN b = 1..Len(b) /\ \A i \in 1..Len(b) : b[i] \in Runs
  BY ElementOfSeq, EmptySeq
<1>2. /\ t \in Seq(Runs) /\ Len(t) = Len(b) - 1 /\ DOMAIN t = 1..(Len(b) - 1)
      /\ \A i \in 1..(Len(b) - 1) : t[i] = b[i + 1]
  BY <1>1, HeadTailProperties, LenProperties
<1>3. Head(b) = b[1]
  BY <1>1
<1> HIDE DEF t
<1>4. \A i \in 1..Len(b) : b[i].from \in Nat /\ b[i].to \in Nat
  BY <1>1 DEF Runs
<1>5. b[1] \in Runs /\ b[1].from = lo /\ lo < b[1].to /\ b[1].to <= hi
  BY <1>1, <1>4 DEF Line
<1>6. Len(t) = 0 => b[1].to = hi
  <2>0. Len(b) \in Nat /\ Len(t) = Len(b) - 1
    BY <1>1, <1>2
  <2>1. Len(t) = 0 => Len(b) = 1
    BY <2>0
  <2>2. b[Len(b)].to = hi
    BY DEF Line
  <2> QED BY <2>1, <2>2
<1>7. Len(t) # 0 => t[1].from = b[1].to /\ t[Len(t)].to = hi
  <2>1. SUFFICES ASSUME Len(t) # 0 PROVE t[1].from = b[1].to /\ t[Len(t)].to = hi
    OBVIOUS
  <2>2. 1 \in 1..(Len(b) - 1) /\ Len(b) - 1 \in 1..(Len(b) - 1)
    BY <2>1, <1>1, <1>2
  <2>3. t[1] = b[2] /\ t[Len(t)] = b[Len(b)]
    BY <2>2, <1>1, <1>2
  <2>4. b[2].from = b[1].to /\ b[Len(b)].to = hi
    BY <2>2 DEF Line
  <2> QED BY <2>3, <2>4
<1>8. \A i \in DOMAIN t : b[1].to <= t[i].from /\ t[i].from < t[i].to /\ t[i].to <= hi
  <2> TAKE i \in DOMAIN t
  <2>1. t[i] = b[i + 1] /\ i + 1 \in DOMAIN b /\ 1 \in DOMAIN b /\ 1 < i + 1
    BY <1>1, <1>2
  <2> QED BY <2>1 DEF Line
<1>9. \A i, j \in DOMAIN t : i < j => t[i].to <= t[j].from
  <2> TAKE i, j \in DOMAIN t
  <2>1. t[i] = b[i + 1] /\ t[j] = b[j + 1] /\ {i + 1, j + 1} \subseteq DOMAIN b /\ (i < j => i + 1 < j + 1)
    BY <1>1, <1>2
  <2> QED BY <2>1 DEF Line
<1>10. \A i \in 1..(Len(t) - 1) : t[i + 1].from = t[i].to
  <2> TAKE i \in 1..(Len(t) - 1)
  <2>1. t[i] = b[i + 1] /\ t[i + 1] = b[(i + 1) + 1] /\ i + 1 \in 1..(Len(b) - 1)
    BY <1>1, <1>2
  <2> QED BY <2>1 DEF Line
<1>11. t # <<>> => Len(t) # 0
  BY <1>2, EmptySeq
<1>12. t = <<>> => Len(t) = 0
  BY EmptySeq
<1> QED BY <1>2, <1>3, <1>5, <1>6, <1>7, <1>8, <1>9, <1>10, <1>11, <1>12 DEF Line, t

LEMMA LineCut ==
  ASSUME NEW b \in Seq(Runs), NEW lo \in Nat, NEW hi \in Nat, Line(b, lo, hi), b # <<>>,
         NEW m \in Nat, lo <= m, m < b[1].to
  PROVE  /\ <<[b[1] EXCEPT !.from = m]>> \o Tail(b) \in Seq(Runs)
         /\ <<[b[1] EXCEPT !.from = m]>> \o Tail(b) # <<>>
         /\ Line(<<[b[1] EXCEPT !.from = m]>> \o Tail(b), m, hi)
<1> DEFINE h == [b[1] EXCEPT !.from = m]
           c == <<h>> \o Tail(b)
<1>1. Len(b) \in Nat \ {0} /\ DOMAIN b = 1..Len(b) /\ \A i \in 1..Len(b) : b[i] \in Runs
  BY ElementOfSeq, EmptySeq
<1>2. /\ Tail(b) \in Seq(Runs) /\ Len(Tail(b)) = Len(b) - 1
      /\ \A i \in 1..(Len(b) - 1) : Tail(b)[i] = b[i + 1]
  BY <1>1, HeadTailProperties
<1> b[1] \in Runs
  BY <1>1
<1>3. h \in Runs /\ h.from = m /\ h.to = b[1].to
  BY <1>1 DEF Runs
<1> HIDE DEF h
<1>4. <<h>> \in Seq(Runs) /\ Len(<<h>>) = 1 /\ <<h>>[1] = h
  BY <1>3
<1>5. c \in Seq(Runs) /\ Len(c) = 1 + Len(Tail(b)) /\ DOMAIN c = 1..Len(c)
  BY <1>2, <1>4, ConcatProperties, LenProperties
<1>6. \A i \in 1..(1 + Len(Tail(b))) : c[i] = IF i <= 1 THEN <<h>>[i] ELSE Tail(b)[i - 1]
  BY <1>2, <1>4, ConcatProperties
<1> HIDE DEF c
<1>7. Len(c) = Len(b) /\ DOMAIN c = 1..Len(b) /\ c[1] = h
  BY <1>1, <1>2, <1>4, <1>5, <1>6
<1>8. \A i \in 2..Len(b) : c[i] = b[i]
  <2> TAKE i \in 2..Len(b)
  <2>1. c[i] = Tail(b)[i - 1] /\ i - 1 \in 1..(Len(b) - 1) /\ (i - 1) + 1 = i
    BY <1>1, <1>2, <1>6
  <2> QED BY <2>1, <1>2
<1>9. c # <<>>
  BY <1>1, <1>5, <1>7, EmptySeq
<1>10. \A i \in 1..Len(b) : b[i].from \in Nat /\ b[i].to \in Nat
  BY <1>1 DEF Runs
<1>11. b[1].to <= hi /\ \A i \in 2..Len(b) : b[1].to <= b[i].from /\ b[i].from < b[i].to /\ b[i].to <= hi
  <2>1. 1 \in DOMAIN b /\ \A i \in 2..Len(b) : i \in DOMAIN b /\ 1 < i
    BY <1>1
  <2> QED BY <2>1 DEF Line
<1>12. \A i \in DOMAIN c : m <= c[i].from /\ c[i].from < c[i].to /\ c[i].to <= hi
  <2> TAKE i \in DOMAIN c
  <2>1. CASE i = 1
    BY <2>1, <1>3, <1>7, <1>11
  <2>2. CASE i # 1
    <3>1. i \in 2..Len(b) /\ i \in 1..Len(b) /\ 1 \in 1..Len(b)
      BY <2>2, <1>1, <1>7
    <3> QED BY <3>1, <1>8, <1>10, <1>11
  <2> QED BY <2>1, <2>2
<1>13. \A i, j \in DOMAIN c : i < j => c[i].to <= c[j].from
  <2> TAKE i, j \in DOMAIN c
  <2> SUFFICES ASSUME i < j PROVE c[i].to <= c[j].from
    OBVIOUS
  <2>1. j \in 2..Len(b) /\ j \in DOMAIN b /\ i \in DOMAIN b
    BY <1>1, <1>7
  <2>2. c[i].to = b[i].to
    BY <1>1, <1>3, <1>7, <1>8, <2>1
  <2> QED BY <2>1, <2>2, <1>8 DEF Line
<1>14. \A i \in 1..(Len(c) - 1) : c[i + 1].from = c[i].to
  <2> TAKE i \in 1..(Len(c) - 1)
  <2>1. i + 1 \in 2..Len(b) /\ i \in 1..(Len(b) - 1) /\ i \in 1..Len(b)
    BY <1>1, <1>7
  <2>2. c[i].to = b[i].to
    BY <1>1, <1>3, <1>7, <1>8, <2>1
  <2> QED BY <2>1, <2>2, <1>8 DEF Line
<1>15. c[Len(c)].to = hi
  <2>1. c[Len(b)].to = b[Len(b)].to
    BY <1>1, <1>3, <1>7, <1>8
  <2> QED BY <2>1, <1>7 DEF Line
<1> QED BY <1>3, <1>5, <1>7, <1>9, <1>12, <1>13, <1>14, <1>15 DEF Line, c, h

-----------------------------------------------------------------------------
(* The reader.                                                             *)

ReaderStep == FileType' /\ ReaderType' /\ ReaderInv' /\ ChunkInv'

LEMMA WantType ==
  ASSUME ReaderType
  PROVE  Want \in Nat /\ Want <= ChunkRows /\ Want <= buffered /\ (Want = ChunkRows \/ Want = buffered)
         /\ (buffered > 0 => Want > 0)
BY Constants DEF ReaderType, Want, Least

LEMMA SameChunks ==
  ASSUME ChunkInv, UNCHANGED <<layout, reading, chunk>>
  PROVE  ChunkInv'
BY DEF ChunkInv, Chunk, Ith, Total, End, Least

LEMMA OpenReads ==
  ASSUME TypeOK, ReaderInv, ChunkInv, OpenSource
  PROVE  ReaderStep
<1>1. FileType' /\ ReaderType'
  <2>1. 0 \in 0..Len(layout)
    BY EndType, LenProperties, RecordsAssumption DEF TypeOK, FileType
  <2>2. /\ UNCHANGED <<layout, rotate, framed>> /\ tries' = tries + 1 /\ reading' = "fill"
        /\ pulled' = 0 /\ exhausted' = FALSE /\ buffer' = <<>> /\ buffered' = 0 /\ taken' = <<>> /\ index' = 0
    BY DEF OpenSource
  <2>3. FileType'
    BY <2>2 DEF TypeOK, FileType
  <2>4. <<>> \in Seq(Runs) /\ <<>> \in Seq(Nat)
    BY EmptySeq
  <2>5. tries' \in Nat /\ pulled' \in 0..Len(layout')
    BY <2>1, <2>2 DEF TypeOK, ReaderType
  <2>6. ReaderType'
    BY <2>2, <2>4, <2>5 DEF ReaderType, Modes
  <2> QED BY <2>3, <2>6
<1>2. ReaderInv'
  <2>1. End(0)' = 0 /\ pulled' = 0 /\ index' = 0 /\ buffered' = 0 /\ taken' = <<>> /\ buffer' = <<>>
        /\ exhausted' = FALSE /\ reading' = "fill"
    BY DEF OpenSource, End
  <2>2. BufferInv'
    BY <2>1 DEF BufferInv, Line
  <2>3. CountInv'
    <3>1. 0 * ChunkRows = 0 /\ Least(ChunkRows, 0) = 0
      BY Constants DEF Least
    <3> QED BY <2>1, <3>1 DEF CountInv, Want, End
  <2>4. Yielded(index)'
    BY <2>1 DEF Yielded
  <2> QED BY <2>2, <2>3, <2>4 DEF ReaderInv
<1>3. ChunkInv'
  BY DEF ChunkInv, OpenSource, Chunk, Ith, Total, End, Least
<1> QED BY <1>1, <1>2, <1>3 DEF ReaderStep

LEMMA PullReads ==
  ASSUME TypeOK, ReaderInv, ChunkInv, Pull
  PROVE  ReaderStep
<1> DEFINE base == index * ChunkRows
<1>1. /\ FileType /\ ReaderType /\ reading = "fill" /\ taken = <<>> /\ ~exhausted /\ buffered < ChunkRows
      /\ UNCHANGED <<layout, rotate, framed, tries, reading, taken, index, chunk>>
      /\ BufferInv /\ CountInv /\ Yielded(index)
  BY DEF TypeOK, Pull, source, ReaderInv, CountInv
<1>2. base \in Nat /\ index \in Nat /\ buffered \in Nat /\ buffer \in Seq(Runs) /\ Here = base /\ Len(taken) = 0
  <2>1. index \in Nat /\ buffered \in Nat /\ buffer \in Seq(Runs)
    BY <1>1 DEF ReaderType
  <2>2. base \in Nat
    BY <2>1, Constants
  <2> QED BY <1>1, <2>1, <2>2 DEF Here
<1> HIDE DEF base
<1>3. Len(layout) \in Nat /\ pulled \in 0..Len(layout)
  BY <1>1, EndType DEF ReaderType
<1>4. Yielded(index)' /\ Here' = Here /\ ChunkInv'
  BY <1>1, SameChunks DEF Yielded, Here, Chunk
<1>5. CASE pulled = Len(layout)
  <2>1. exhausted' = TRUE /\ UNCHANGED <<pulled, buffer, buffered>>
    BY <1>5 DEF Pull
  <2>2. FileType' /\ ReaderType'
    BY <1>1, <2>1 DEF FileType, ReaderType
  <2>3. BufferInv'
    BY <1>1, <1>4, <2>1 DEF BufferInv, Line, End
  <2>4. CountInv'
    BY <1>1, <1>5, <2>1 DEF CountInv, Want, End
  <2> QED BY <1>4, <2>2, <2>3, <2>4 DEF ReaderStep, ReaderInv
<1>6. CASE pulled # Len(layout)
  <2> DEFINE b == Batch(pulled + 1)
  <2>1. pulled + 1 \in 1..Len(layout) /\ (pulled + 1) - 1 = pulled
    BY <1>3, <1>6
  <2>2. /\ pulled' = pulled + 1 /\ buffered' = buffered + Size(b) /\ exhausted' = exhausted
        /\ buffer' = IF Size(b) > 0 THEN Append(buffer, b) ELSE buffer
    BY <1>6 DEF Pull
  <2>3. End(pulled) \in Nat /\ End(pulled + 1) \in Nat /\ End(pulled) <= End(pulled + 1)
    BY <1>1, <1>3, <2>1, EndType
  <2>4. b = [from |-> End(pulled), to |-> End(pulled + 1)] /\ b \in Runs
    BY <2>1, <2>3 DEF Batch, Runs
  <2>5. Size(b) = End(pulled + 1) - End(pulled) /\ Size(b) \in Nat
    BY <2>3, <2>4 DEF Size
  <2> HIDE DEF b
  <2>6. End(pulled)' = End(pulled + 1)
    BY <1>1, <2>2 DEF End
  <2>7. buffered > 0 => End(pulled) = base + buffered
    BY <1>1 DEF CountInv, base
  <2>8. buffered = 0 => End(pulled) = base
    BY <1>1 DEF CountInv, base
  <2>9. Line(buffer, base, End(pulled)) /\ (buffer = <<>> => buffered = 0)
    BY <1>1, <1>2 DEF BufferInv
  <2>10. buffer' \in Seq(Runs) /\ Line(buffer', base, End(pulled + 1)) /\ (buffer' = <<>> => buffered' = 0)
    <3>1. CASE Size(b) = 0
      <4>1. End(pulled + 1) = End(pulled) /\ buffer' = buffer /\ buffered' = buffered
        BY <1>2, <2>2, <2>3, <2>5, <3>1
      <4> QED BY <4>1, <2>9, <1>2
    <3>2. CASE Size(b) > 0
      <4>1. buffer' = Append(buffer, b) /\ b.from = End(pulled) /\ b.to = End(pulled + 1) /\ b.from < b.to
        BY <2>2, <2>3, <2>4, <2>5, <3>2
      <4>2. buffer = <<>> => base = End(pulled)
        BY <2>8, <2>9
      <4>3. buffer' \in Seq(Runs) /\ Line(buffer', base, End(pulled + 1))
        BY <4>1, <4>2, <1>2, <2>3, <2>4, <2>9, LineAppend
      <4>4. Len(buffer') = Len(buffer) + 1 /\ Len(buffer) \in Nat
        BY <4>1, <1>2
      <4>5. buffer' # <<>>
        BY <4>3, <4>4, EmptySeq
      <4> QED BY <4>3, <4>5
    <3> QED BY <2>5, <3>1, <3>2
  <2>11. BufferInv'
    BY <1>1, <1>2, <1>4, <2>6, <2>10 DEF BufferInv
  <2>12. FileType' /\ ReaderType'
    BY <1>1, <1>2, <1>3, <2>1, <2>2, <2>5, <2>10 DEF FileType, ReaderType
  <2>13. CountInv'
    <3>1. buffered' > 0 => End(pulled)' = base + buffered'
      BY <1>2, <2>2, <2>3, <2>5, <2>6, <2>7, <2>8
    <3>2. buffered' = 0 => End(pulled)' = base
      BY <1>2, <2>2, <2>3, <2>5, <2>6, <2>7, <2>8
    <3>3. base = index' * ChunkRows
      BY <1>1 DEF base
    <3>4. Len(taken') <= Want' /\ taken' = <<>> /\ reading' = "fill"
      <4>1. buffered' \in Nat /\ ChunkRows \in Nat
        BY <1>2, <2>2, <2>5, Constants
      <4> QED BY <4>1, <1>1, <1>2 DEF Want, Least
    <3>5. exhausted' => FALSE
      BY <1>1, <2>2
    <3> QED BY <3>1, <3>2, <3>3, <3>4, <3>5 DEF CountInv
  <2> QED BY <1>4, <2>11, <2>12, <2>13 DEF ReaderStep, ReaderInv
<1> QED BY <1>5, <1>6

LEMMA FilledReads ==
  ASSUME TypeOK, ReaderInv, ChunkInv, Filled
  PROVE  ReaderStep
<1>1. /\ FileType /\ ReaderType /\ reading = "fill" /\ (exhausted \/ buffered >= ChunkRows)
      /\ UNCHANGED <<layout, rotate, framed, tries, pulled, exhausted, buffer, buffered, taken, index, chunk>>
      /\ reading' = IF buffered = 0 THEN "done" ELSE "cut"
      /\ BufferInv /\ CountInv /\ Yielded(index)
  BY DEF TypeOK, Filled, read, ReaderInv
<1>2. FileType' /\ ReaderType'
  BY <1>1 DEF FileType, ReaderType, Modes
<1>3. BufferInv' /\ Yielded(index)'
  BY <1>1 DEF BufferInv, Line, Here, End, Yielded, Chunk
<1>4. buffered \in Nat /\ index \in Nat
  BY <1>1 DEF ReaderType
<1>5. reading' = "cut" => CountInv'
  BY <1>1, <1>4 DEF CountInv, Want, End
<1>6. ASSUME buffered = 0
      PROVE  \A k \in 0..Total : k * ChunkRows < Total => \E c \in Chunk : chunk[c].key = k
  <2>1. exhausted /\ pulled = Len(layout)
    BY <1>1, <1>6, Constants DEF CountInv
  <2>2. Total <= index * ChunkRows /\ Total \in Nat
    <3>1. Total = End(pulled)
      BY <2>1 DEF Total
    <3>2. Len(layout) \in Nat /\ Total \in Nat
      BY <1>1, EndType, <3>1 DEF ReaderType
    <3>3. index * ChunkRows \in Nat
      BY <1>4, Constants
    <3> QED BY <1>1, <1>6, <3>1, <3>2, <3>3 DEF CountInv
  <2> TAKE k \in 0..Total
  <2> HAVE k * ChunkRows < Total
  <2>3. k * ChunkRows < index * ChunkRows /\ k \in Nat
    BY <2>2, <1>4, Products
  <2>4. k \in 0..(index - 1)
    BY <2>3, <1>4, Products
  <2> QED BY <2>4, <1>1 DEF Yielded
<1>7. ChunkInv'
  <2>1. \A c \in Chunk : (/\ chunk[c].rows # <<>> /\ chunk[c].rows = Ith(chunk[c].key)
                          /\ chunk[c].key * ChunkRows < Total)'
    BY <1>1 DEF ChunkInv, Chunk, Ith, Total, End, Least
  <2>2. Total' = Total /\ Chunk' = Chunk /\ chunk' = chunk
    BY <1>1 DEF Total, End, Chunk
  <2>3. reading' = "done" => buffered = 0
    BY <1>1
  <2> QED BY <2>1, <2>2, <2>3, <1>6 DEF ChunkInv
<1> QED BY <1>1, <1>2, <1>3, <1>5, <1>7 DEF ReaderStep, ReaderInv

LEMMA TakeReads ==
  ASSUME TypeOK, ReaderInv, ChunkInv, Take
  PROVE  ReaderStep
<1> DEFINE base == index * ChunkRows
           b == Head(buffer)
           need == Want - Len(taken)
           n == Least(Size(b), need)
<1>1. /\ FileType /\ ReaderType /\ reading = "cut" /\ Len(taken) < Want
      /\ UNCHANGED <<layout, rotate, framed, tries, reading, pulled, exhausted, buffered, index, chunk>>
      /\ BufferInv /\ CountInv /\ Yielded(index)
  BY DEF TypeOK, Take, ReaderInv
<1>2. taken' = taken \o RowsOf(b, n) /\ buffer' = PutBack(b, need) \o Tail(buffer)
  BY DEF Take
<1>3. /\ base \in Nat /\ index \in Nat /\ buffered \in Nat /\ buffer \in Seq(Runs)
      /\ taken \in Seq(Nat) /\ Len(taken) \in Nat /\ Want \in Nat /\ Want <= buffered
      /\ need \in Nat /\ need > 0 /\ Want' = Want
  <2>1. index \in Nat /\ buffered \in Nat /\ buffer \in Seq(Runs) /\ taken \in Seq(Nat)
    BY <1>1 DEF ReaderType
  <2>2. base \in Nat
    BY <2>1, Constants
  <2>3. Len(taken) \in Nat
    BY <2>1
  <2>4. Want \in Nat /\ Want <= buffered
    BY <1>1, WantType
  <2>5. Want' = Want
    BY <1>1 DEF Want, Least
  <2> QED BY <1>1, <2>1, <2>2, <2>3, <2>4, <2>5
<1>4. End(pulled) \in Nat /\ End(pulled)' = End(pulled) /\ End(pulled) = base + buffered
  <2>1. pulled \in 0..Len(layout)
    BY <1>1 DEF ReaderType
  <2>2. Len(layout) \in Nat
    BY <1>1, RecordsAssumption, LenProperties DEF FileType
  <2>3. End(pulled) \in Nat
    BY <1>1, <2>1, <2>2, EndType
  <2> QED BY <1>1, <1>3, <2>3 DEF CountInv, End, base
<1>5. Here = base + Len(taken) /\ Here \in Nat
  BY <1>3 DEF Here
<1>6. Line(buffer, Here, End(pulled)) /\ buffer # <<>>
  BY <1>1, <1>3 DEF BufferInv
<1>7. /\ b = buffer[1] /\ b \in Runs /\ b.from = Here /\ Here < b.to /\ b.to <= End(pulled)
      /\ Tail(buffer) \in Seq(Runs) /\ Line(Tail(buffer), b.to, End(pulled))
      /\ Tail(buffer) = <<>> => b.to = End(pulled)
  <2>1. b = buffer[1]
    BY <1>3, <1>4, <1>5, <1>6, LineTail
  <2> QED BY <1>3, <1>4, <1>5, <1>6, <2>1, LineTail
<1> HIDE DEF b, need, base
<1>8. b.to \in Nat /\ Size(b) \in Nat /\ Size(b) > 0 /\ b.to = Here + Size(b)
  <2>1. b.to \in Nat /\ b.from \in Nat
    BY <1>7 DEF Runs
  <2>2. Size(b) = b.to - Here
    BY <1>7 DEF Size
  <2> QED BY <2>1, <2>2, <1>5, <1>7
<1>9. n \in Nat /\ n > 0 /\ n <= need /\ n <= Size(b)
  BY <1>3, <1>8 DEF Least
<1> HIDE DEF n
<1>10. /\ taken' \in Seq(Nat) /\ Len(taken') = Len(taken) + n
       /\ \A i \in DOMAIN taken' : taken'[i] = base + i
  <2> DEFINE r == RowsOf(b, n)
  <2>1. r \in Seq(Nat) /\ Len(r) = n /\ \A i \in 1..n : r[i] = Here + i
    <3>1. b.from = Here
      BY <1>7
    <3>2. r = [i \in 1..n |-> Here + i]
      BY <3>1 DEF RowsOf
    <3>3. \A i \in 1..n : Here + i \in Nat
      BY <1>5, <1>9
    <3> HIDE DEF r
    <3>4. r \in [1..n -> Nat]
      BY <3>2, <3>3
    <3> QED BY <3>2, <3>4, <1>9
  <2> HIDE DEF r
  <2>2. taken' = taken \o r
    BY <1>2 DEF r
  <2>3. /\ taken' \in Seq(Nat) /\ Len(taken') = Len(taken) + n
        /\ \A i \in 1..(Len(taken) + n) : taken'[i] = IF i <= Len(taken) THEN taken[i] ELSE r[i - Len(taken)]
    BY <2>1, <2>2, <1>3, ConcatProperties
  <2>4. DOMAIN taken' = 1..(Len(taken) + n)
    BY <2>3, LenProperties
  <2>5. ASSUME NEW i \in 1..(Len(taken) + n) PROVE taken'[i] = base + i
    <3>1. CASE i <= Len(taken)
      <4>1. i \in DOMAIN taken
        BY <3>1, <1>3, LenProperties
      <4>2. taken[i] = base + i
        BY <4>1, <1>1 DEF CountInv, base
      <4> QED BY <3>1, <2>3, <4>2
    <3>2. CASE ~(i <= Len(taken))
      <4>1. i - Len(taken) \in 1..n
        BY <3>2, <1>3, <1>9
      <4>2. taken'[i] = Here + (i - Len(taken))
        BY <3>2, <2>1, <2>3, <4>1
      <4> QED BY <4>1, <4>2, <1>3, <1>5, <1>9
    <3> QED BY <3>1, <3>2
  <2> QED BY <2>3, <2>4, <2>5
<1>11. Here' = Here + n
  <2>1. Here' = base + Len(taken')
    BY <1>1 DEF Here, base
  <2> QED BY <2>1, <1>3, <1>5, <1>9, <1>10
<1>12. buffer' \in Seq(Runs) /\ Line(buffer', Here', End(pulled)) /\ (buffer' = <<>> => buffered = Len(taken'))
  <2>1. CASE Size(b) <= need
    <3>1. n = Size(b)
      BY <2>1, <1>3, <1>8 DEF n, Least
    <3>2. buffer' = Tail(buffer)
      BY <1>2, <1>7, <2>1, ConcatEmptySeq DEF PutBack
    <3>3. Here' = b.to
      BY <3>1, <1>8, <1>11
    <3>4. Tail(buffer) = <<>> => buffered = Len(taken')
      <4>1. Len(taken') = Len(taken) + Size(b) /\ b.to = base + Len(taken) + Size(b)
        BY <3>1, <1>3, <1>5, <1>8, <1>10
      <4>2. Tail(buffer) = <<>> => b.to = base + buffered
        BY <1>4, <1>7
      <4> QED BY <4>1, <4>2, <1>3, <1>8
    <3> QED BY <3>2, <3>3, <3>4, <1>7
  <2>2. CASE ~(Size(b) <= need)
    <3>1. n = need
      BY <2>2, <1>3, <1>8 DEF n, Least
    <3>2. buffer' = <<[b EXCEPT !.from = b.from + need]>> \o Tail(buffer)
      BY <1>2, <2>2 DEF PutBack
    <3> DEFINE m == Here + need
    <3>3. m \in Nat /\ Here <= m /\ m < b.to /\ Here' = m /\ b.from + need = m
      <4>1. m \in Nat /\ Here <= m /\ b.from + need = m
        BY <1>3, <1>5, <1>7
      <4>2. m < b.to
        BY <2>2, <1>3, <1>5, <1>8
      <4>3. Here' = m
        BY <3>1, <1>11
      <4> QED BY <4>1, <4>2, <4>3
    <3> HIDE DEF m
    <3>4. buffer' = <<[buffer[1] EXCEPT !.from = m]>> \o Tail(buffer)
      BY <3>2, <3>3, <1>7
    <3>5. m < buffer[1].to
      BY <3>3, <1>7
    <3> QED BY <3>3, <3>4, <3>5, <1>3, <1>4, <1>5, <1>6, LineCut
  <2> QED BY <2>1, <2>2, <1>3, <1>8
<1>13. BufferInv'
  BY <1>1, <1>4, <1>12 DEF BufferInv
<1>14. CountInv'
  <2>1. Len(taken') <= Want'
    BY <1>3, <1>9, <1>10 DEF need
  <2>2. \A i \in DOMAIN taken' : taken'[i] = index' * ChunkRows + i
    BY <1>1, <1>10 DEF base
  <2>3. End(pulled)' = index' * ChunkRows + buffered' /\ buffered' > 0 /\ reading' = "cut"
    BY <1>1, <1>4 DEF base, CountInv
  <2>4. (exhausted' => pulled' = Len(layout')) /\ (exhausted' \/ buffered' >= ChunkRows)
    BY <1>1 DEF CountInv
  <2>5. buffered' # 0
    BY <1>1, <1>3 DEF CountInv
  <2> QED BY <2>1, <2>2, <2>3, <2>4, <2>5 DEF CountInv
<1>15. FileType' /\ ReaderType'
  BY <1>1, <1>10, <1>12 DEF FileType, ReaderType
<1>16. ChunkInv' /\ Yielded(index)'
  BY <1>1, SameChunks DEF Yielded, Chunk
<1> QED BY <1>13, <1>14, <1>15, <1>16 DEF ReaderStep, ReaderInv

LEMMA EmitReads ==
  ASSUME TypeOK, ReaderInv, ChunkInv, Emit
  PROVE  ReaderStep
<1> DEFINE base == index * ChunkRows
           new == [key |-> index, rows |-> taken, tries |-> 0]
<1>1. /\ FileType /\ ReaderType /\ ChunkType /\ reading = "cut" /\ Len(taken) = Want
      /\ UNCHANGED <<layout, rotate, framed, tries, pulled, exhausted, buffer>>
      /\ chunk' = Append(chunk, new)
      /\ buffered' = buffered - Want /\ index' = index + 1 /\ taken' = <<>> /\ reading' = "fill"
      /\ BufferInv /\ CountInv /\ Yielded(index)
  BY DEF TypeOK, Emit, ReaderInv
<1>2. /\ base \in Nat /\ index \in Nat /\ buffered \in Nat /\ buffer \in Seq(Runs)
      /\ taken \in Seq(Nat) /\ Want \in Nat /\ Want > 0 /\ Want <= buffered /\ Want <= ChunkRows
      /\ (Want = ChunkRows \/ Want = buffered) /\ (index + 1) * ChunkRows = base + ChunkRows
      /\ ChunkRows \in Nat /\ buffered > 0
  <2>1. index \in Nat /\ buffered \in Nat /\ buffer \in Seq(Runs) /\ taken \in Seq(Nat)
    BY <1>1 DEF ReaderType
  <2>2. base \in Nat /\ (index + 1) * ChunkRows = base + ChunkRows
    BY <2>1, Products
  <2>3. buffered > 0
    BY <1>1 DEF CountInv
  <2> QED BY <1>1, <2>1, <2>2, <2>3, WantType, Constants
<1>3. /\ pulled \in 0..Len(layout) /\ End(pulled) \in Nat /\ End(pulled)' = End(pulled)
      /\ End(pulled) = base + buffered /\ Total \in Nat /\ End(pulled) <= Total /\ Total' = Total
      /\ (exhausted => End(pulled) = Total)
  <2>1. pulled \in 0..Len(layout)
    BY <1>1 DEF ReaderType
  <2>2. Len(layout) \in Nat /\ Len(layout) \in 0..Len(layout)
    BY <1>1, RecordsAssumption, LenProperties DEF FileType
  <2>3. End(pulled) \in Nat /\ Total \in Nat /\ End(pulled) <= Total
    BY <1>1, <2>1, <2>2, EndType DEF Total
  <2>4. End(pulled)' = End(pulled) /\ Total' = Total
    BY <1>1 DEF End, Total
  <2> QED BY <1>1, <1>2, <2>1, <2>3, <2>4 DEF CountInv, base, Total
<1>4. Here = base + Want /\ Line(buffer, Here, End(pulled)) /\ (buffer = <<>> => buffered = Want)
  BY <1>1 DEF BufferInv, Here, base
<1>5. Want < ChunkRows => buffer = <<>> /\ exhausted /\ Want = buffered
  <2>1. SUFFICES ASSUME Want < ChunkRows PROVE buffer = <<>> /\ exhausted /\ Want = buffered
    OBVIOUS
  <2>2. Want = buffered /\ exhausted
    BY <2>1, <1>1, <1>2 DEF CountInv
  <2>3. ASSUME buffer # <<>> PROVE FALSE
    <3> Here \in Nat
      BY <1>2, <1>4
    <3>1. Here < buffer[1].to /\ buffer[1].to <= End(pulled) /\ buffer[1] \in Runs
      BY <2>3, <1>2, <1>3, <1>4, LineTail
    <3>2. buffer[1].to \in Nat
      BY <3>1 DEF Runs
    <3> QED BY <3>1, <3>2, <2>2, <1>2, <1>3, <1>4
  <2> QED BY <2>2, <2>3
<1>6. taken = Ith(index) /\ taken # <<>> /\ base < Total
  <2>1. Want = Least(ChunkRows, Total - base)
    <3>1. CASE Want = ChunkRows
      BY <3>1, <1>2, <1>3 DEF Least
    <3>2. CASE Want < ChunkRows
      BY <3>2, <1>2, <1>3, <1>5 DEF Least
    <3> QED BY <3>1, <3>2, <1>2
  <2>2. taken = [i \in 1..Want |-> taken[i]]
    BY <1>1, <1>2, LenProperties
  <2>3. \A i \in 1..Want : taken[i] = base + i
    BY <1>1, <1>2, LenProperties DEF CountInv, base
  <2>4. Ith(index) = [r \in 1..Want |-> base + r]
    BY <2>1 DEF Ith, base
  <2>5. taken # <<>>
    BY <1>1, <1>2, EmptySeq
  <2>6. base < Total
    BY <1>2, <1>3
  <2> HIDE DEF base
  <2> QED BY <2>2, <2>3, <2>4, <2>5, <2>6
<1> DEFINE n == Len(chunk)
<1>7. /\ n \in Nat /\ Chunk = 1..n /\ Chunk' = 1..(n + 1)
      /\ chunk'[n + 1] = new /\ \A c \in 1..n : chunk'[c] = chunk[c]
  <2>1. chunk \in Seq(Chunks)
    BY <1>1 DEF ChunkType
  <2>2. new \in Chunks
    BY <1>2 DEF Chunks
  <2> HIDE DEF new
  <2> QED BY <2>1, <2>2, <1>1 DEF Chunk
<1>8. new.key = index /\ new.rows = taken
  OBVIOUS
<1> HIDE DEF new, n
<1>9. ChunkInv'
  <2>1. ASSUME NEW c \in Chunk'
        PROVE  /\ chunk'[c].rows # <<>> /\ chunk'[c].rows = Ith(chunk'[c].key)
               /\ chunk'[c].key * ChunkRows < Total
    <3>1. CASE c = n + 1
      BY <3>1, <1>6, <1>7, <1>8 DEF base
    <3>2. CASE c # n + 1
      <4>1. c \in Chunk /\ chunk'[c] = chunk[c]
        BY <3>2, <1>7
      <4>2. chunk[c].rows # <<>> /\ chunk[c].rows = Ith(chunk[c].key) /\ chunk[c].key * ChunkRows < Total
        BY <4>1 DEF ChunkInv
      <4> QED BY <4>1, <4>2
    <3> QED BY <3>1, <3>2
  <2>2. \A c \in Chunk' : Ith(chunk[c].key)' = Ith(chunk'[c].key)
    BY <1>3 DEF Ith, Least
  <2> QED BY <1>1, <1>3, <2>1, <2>2 DEF ChunkInv
<1>10. Yielded(index)'
  <2> SUFFICES ASSUME NEW k \in 0..(index' - 1) PROVE \E c \in Chunk' : chunk'[c].key = k
    BY DEF Yielded
  <2>1. CASE k = index
    <3>1. n + 1 \in Chunk'
      BY <1>7
    <3> QED BY <2>1, <3>1, <1>7, <1>8
  <2>2. CASE k # index
    <3>1. k \in 0..(index - 1)
      BY <2>2, <1>1, <1>2
    <3>2. PICK c \in Chunk : chunk[c].key = k
      BY <3>1, <1>1 DEF Yielded
    <3>3. c \in Chunk' /\ chunk'[c] = chunk[c]
      BY <1>7
    <3> QED BY <3>2, <3>3
  <2> QED BY <2>1, <2>2
<1>11. Len(taken') = 0 /\ Here' = base + ChunkRows /\ index' * ChunkRows = base + ChunkRows
  <2>1. Len(taken') = 0
    BY <1>1, EmptySeq
  <2> HIDE DEF base
  <2>2. index' * ChunkRows = base + ChunkRows
    BY <1>1, <1>2
  <2> QED BY <2>1, <2>2, <1>2 DEF Here
<1> HIDE DEF base
<1>12. BufferInv'
  <2>1. CASE Want = ChunkRows
    BY <2>1, <1>1, <1>2, <1>3, <1>4, <1>11 DEF BufferInv
  <2>2. CASE Want < ChunkRows
    <3>1. buffer' = <<>> /\ buffered' = 0
      BY <2>2, <1>1, <1>2, <1>5
    <3> QED BY <3>1, <1>11 DEF BufferInv, Line
  <2> QED BY <2>1, <2>2, <1>2
<1>13. CountInv'
  <2>1. buffered' \in Nat /\ Want' = Least(ChunkRows, buffered')
    BY <1>1, <1>2 DEF Want, Least
  <2>2. Len(taken') <= Want' /\ taken' = <<>> /\ reading' = "fill"
    BY <1>1, <1>2, <1>11, <2>1 DEF Least
  <2>3. buffered' > 0 => End(pulled)' = index' * ChunkRows + buffered'
    BY <1>1, <1>2, <1>3, <1>5, <1>11
  <2>4. buffered' = 0 => \/ End(pulled)' = index' * ChunkRows
                         \/ exhausted' /\ End(pulled)' <= index' * ChunkRows
    BY <1>1, <1>2, <1>3, <1>5, <1>11
  <2>5. exhausted' => pulled' = Len(layout')
    BY <1>1 DEF CountInv
  <2> QED BY <2>2, <2>3, <2>4, <2>5 DEF CountInv
<1>14. FileType' /\ ReaderType'
  <2>1. buffered' \in Nat /\ index' \in Nat /\ taken' \in Seq(Nat)
    BY <1>1, <1>2, EmptySeq
  <2> QED BY <1>1, <2>1 DEF FileType, ReaderType, Modes
<1> QED BY <1>9, <1>10, <1>12, <1>13, <1>14 DEF ReaderStep, ReaderInv

(* The other steps, among them every step of the sink, leave the reader    *)
(* alone or end it, and keep the keys and rows of the chunks.              *)
LEMMA OthersRead ==
  ASSUME TypeOK, ReaderInv, ChunkInv,
         UNCHANGED <<layout, rotate, framed, tries, read>>,
         reading' = reading \/ reading' \in {"idle", "failed"},
         Chunk' = Chunk, \A c \in Chunk : chunk'[c].key = chunk[c].key /\ chunk'[c].rows = chunk[c].rows
  PROVE  ReaderStep
<1>1. FileType' /\ ReaderType'
  BY DEF TypeOK, FileType, ReaderType, Modes, read
<1>2. Total' = Total /\ \A c \in Chunk : Ith(chunk[c].key)' = Ith(chunk[c].key)
  BY DEF Ith, Total, End, Least
<1>3. ChunkInv'
  BY <1>2 DEF ChunkInv
<1>4. BufferInv => BufferInv'
  BY DEF BufferInv, Line, Here, End, read
<1>5. CountInv /\ reading' = reading => CountInv'
  BY DEF CountInv, Want, End, read
<1>6. Yielded(index) => Yielded(index)'
  BY DEF Yielded, read
<1> QED BY <1>1, <1>3, <1>4, <1>5, <1>6 DEF ReaderStep, ReaderInv

-----------------------------------------------------------------------------
(* The sink.                                                               *)

SinkStep == ChunkType' /\ SinkType' /\ SinkInv'

LEMMA SinkFacts ==
  ASSUME TypeOK
  PROVE  /\ Chunk = 1..Len(chunk) /\ Len(chunk) \in Nat /\ part \in Nat /\ inPart \in Nat /\ Len(disk) \in Nat
         /\ DOMAIN disk = 1..Len(disk)
         /\ \A i \in 1..Len(disk) : disk[i] \in Files
         /\ \A c \in Chunk : chunk[c] \in Chunks /\ at[c] \in Places /\ (of[c] # None => of[c] \in Nat)
         /\ rotate # None => rotate \in Nat /\ MinRows \in Nat /\ MinRows >= 1
<1>1. chunk \in Seq(Chunks) /\ disk \in Seq(Files) /\ rotate \in Rotations
  BY DEF TypeOK, ChunkType, SinkType, FileType
<1>2. Chunk = 1..Len(chunk) /\ Len(chunk) \in Nat /\ \A c \in Chunk : chunk[c] \in Chunks
  BY <1>1, ElementOfSeq, LenProperties DEF Chunk
<1>3. Len(disk) \in Nat /\ DOMAIN disk = 1..Len(disk) /\ \A i \in 1..Len(disk) : disk[i] \in Files
  BY <1>1, ElementOfSeq, LenProperties
<1>4. \A c \in Chunk : at[c] \in Places /\ (of[c] # None => of[c] \in Nat)
  BY DEF TypeOK, ChunkType
<1>5. rotate # None => rotate \in Nat /\ MinRows \in Nat /\ MinRows >= 1
  BY <1>1, Constants DEF MinRows
<1> QED BY <1>2, <1>3, <1>4, <1>5 DEF TypeOK, SinkType

LEMMA FileFacts ==
  ASSUME NEW f \in Files
  PROVE  /\ f.chunks \in Seq(Nat) /\ f.rows \in Nat /\ f.made \in Nat
         /\ f.closed \in BOOLEAN /\ f.torn \in BOOLEAN /\ Len(f.chunks) \in Nat
         /\ DOMAIN f.chunks = 1..Len(f.chunks) /\ (f.chunks # <<>> => Len(f.chunks) > 0)
<1>1. f.chunks \in Seq(Nat) /\ f.rows \in Nat /\ f.made \in Nat /\ f.closed \in BOOLEAN /\ f.torn \in BOOLEAN
  BY DEF Files
<1>2. Len(f.chunks) \in Nat /\ DOMAIN f.chunks = 1..Len(f.chunks) /\ (f.chunks # <<>> => Len(f.chunks) \in Nat \ {0})
  BY <1>1, LenProperties, EmptySeq
<1> QED BY <1>1, <1>2

(* Parts that are complete stay as they are, as far as PartInv looks.      *)
LEMMA PartKept ==
  ASSUME TypeOK, LateInv, PartInv, UNCHANGED <<part, rotate>>,
         \A p \in 0..(part - 1) : disk'[p + 1].chunks = disk[p + 1].chunks /\ disk'[p + 1].rows = disk[p + 1].rows,
         Chunk \subseteq Chunk', \A c \in Chunk : chunk'[c].rows = chunk[c].rows,
         lost \subseteq lost', \A c \in lost : of'[c] = of[c]
  PROVE  PartInv'
<1> SUFFICES ASSUME NEW p \in 0..(part - 1)
             PROVE  LET f == disk'[p + 1]
                    IN /\ f.chunks # <<>> /\ \A i \in DOMAIN f.chunks : f.chunks[i] \in Chunk'
                       /\ f.rows - Len(chunk'[f.chunks[Len(f.chunks)]].rows) < MinRows
                       /\ f.rows >= MinRows \/ \E c \in lost' : of'[c] = p
  BY DEF PartInv, LastRows, Abandoned, MinRows
<1> DEFINE f == disk[p + 1]
<1>1. p + 1 \in 1..Len(disk) /\ f \in Files
  BY SinkFacts DEF LateInv
<1>2. /\ f.chunks # <<>> /\ \A i \in DOMAIN f.chunks : f.chunks[i] \in Chunk
      /\ f.rows - LastRows(f) < MinRows /\ (f.rows >= MinRows \/ Abandoned(p))
  BY DEF PartInv
<1>3. disk'[p + 1].chunks = f.chunks /\ disk'[p + 1].rows = f.rows
  OBVIOUS
<1> HIDE DEF f
<1>4. Len(f.chunks) \in DOMAIN f.chunks
  BY <1>1, <1>2, FileFacts
<1>5. chunk'[f.chunks[Len(f.chunks)]].rows = chunk[f.chunks[Len(f.chunks)]].rows
  BY <1>2, <1>4
<1>6. Abandoned(p) => \E c \in lost' : of'[c] = p
  BY DEF Abandoned
<1> QED BY <1>2, <1>3, <1>5, <1>6 DEF LastRows

LEMMA WriteKeeps ==
  ASSUME TypeOK, SinkInv, NEW c \in Chunk, Write(c)
  PROVE  SinkStep
<1> DEFINE to == IF Due THEN "finish" ELSE IF writer THEN "write" ELSE "open"
<1>1. /\ at[c] = "queued" /\ ~Locked /\ end = "run" /\ at' = [at EXCEPT ![c] = to] /\ writer' = FALSE
      /\ UNCHANGED <<rotate, chunk, part, inPart, disk, late, lost, of, end, faults>>
  BY DEF Write, Goto
<1>2. to \in {"finish", "write", "open"} /\ (to = "open" <=> ~writer) /\ (to = "finish" <=> Due)
  BY DEF Due
<1> HIDE DEF to
<1>3. at' \in Seq(Places) /\ at'[c] = to /\ \A d \in Chunk : d # c => at'[d] = at[d]
  <2>1. at \in Seq(Places) /\ at \in [Chunk -> Places] /\ to \in Places
    BY <1>2 DEF TypeOK, ChunkType, Places
  <2>2. c \in 1..Len(at)
    BY <2>1, LenProperties
  <2> QED BY <1>1, <2>1, <2>2, ExceptSeq
<1>4. ChunkType' /\ SinkType'
  <2>1. at' \in [Chunk -> Places]
    BY <1>1, <1>2 DEF TypeOK, ChunkType, Places
  <2> QED BY <1>1, <1>3, <2>1 DEF TypeOK, ChunkType, SinkType, Chunk
<1>5. Chunk' = Chunk /\ (Held' <=> Held) /\ (\A d \in Chunk : at[d] \notin Locks)
      /\ (\A d \in Chunk : at'[d] \in Locks => d = c)
      /\ ((\E d \in Chunk : at'[d] = "write") => writer /\ ~Due) /\ (\A d \in Chunk : at'[d] = "finish" => Due)
      /\ (\A d \in Chunk : (at'[d] = "done") <=> (at[d] = "done"))
  BY <1>1, <1>2, <1>3 DEF Held, Locked, Chunk, Locks
<1>6. LockInv'
  <2>1. \A d \in Chunk : at'[d] = "finish" => rotate # None /\ inPart >= MinRows
    BY <1>5 DEF Due
  <2> QED BY <1>1, <1>5, <2>1 DEF SinkInv, LockInv, MinRows
<1>7. LateInv'
  BY <1>1, <1>5 DEF SinkInv, LateInv, Fresh
<1>8. CurrentInv'
  <2> SUFFICES ASSUME Held
               PROVE  LET f == disk[part + 1]
                      IN /\ f.rows <= inPart /\ (f.rows = inPart \/ Abandoned(part))
                         /\ \A i \in DOMAIN f.chunks : /\ f.chunks[i] \in Chunk /\ at'[f.chunks[i]] = "done"
                                                       /\ of[f.chunks[i]] = part
                         /\ ~(\E d \in Chunk : at'[d] = "write") =>
                               f.chunks # <<>> /\ (rotate # None => f.rows - LastRows(f) < MinRows)
                         /\ (\E d \in Chunk : at'[d] = "write") /\ rotate # None => f.rows < MinRows
    BY <1>1, <1>5 DEF CurrentInv, Abandoned, LastRows, MinRows
  <2> DEFINE f == disk[part + 1]
  <2>1. /\ f.rows <= inPart /\ (f.rows = inPart \/ Abandoned(part))
        /\ \A i \in DOMAIN f.chunks : f.chunks[i] \in Chunk /\ at[f.chunks[i]] = "done" /\ of[f.chunks[i]] = part
        /\ f.chunks # <<>> /\ (rotate # None => f.rows - LastRows(f) < MinRows)
    BY <1>5 DEF SinkInv, CurrentInv, Locks
  <2>2. (\E d \in Chunk : at'[d] = "write") /\ rotate # None => inPart < MinRows
    BY <1>5, SinkFacts DEF Due
  <2>3. f \in Files
    BY SinkFacts DEF SinkInv, LateInv
  <2> HIDE DEF f
  <2>4. (\E d \in Chunk : at'[d] = "write") /\ rotate # None => f.rows < MinRows
    <3>1. f.rows \in Nat /\ inPart \in Nat /\ (rotate # None => MinRows \in Nat)
      BY <2>3, FileFacts, SinkFacts
    <3> QED BY <3>1, <2>1, <2>2
  <2> QED BY <1>5, <2>1, <2>4 DEF f
<1>9. CountedInv'
  BY <1>1, <1>5 DEF SinkInv, CountedInv
<1>10. DoneInv'
  BY <1>1, <1>5 DEF SinkInv, DoneInv, Fresh, Once
<1>11. PartInv'
  BY <1>1, <1>5, PartKept DEF SinkInv
<1> QED BY <1>4, <1>6, <1>7, <1>8, <1>9, <1>10, <1>11 DEF SinkStep, SinkInv

LEMMA RotateKeeps ==
  ASSUME TypeOK, SinkInv, NEW c \in Chunk, Rotate(c)
  PROVE  SinkStep
<1> DEFINE g == [disk[part + 1] EXCEPT !.closed = TRUE]
<1>1. /\ at[c] = "finish" /\ at' = [at EXCEPT ![c] = "open"] /\ part' = part + 1 /\ inPart' = 0
      /\ disk' = [disk EXCEPT ![part + 1] = g]
      /\ UNCHANGED <<rotate, chunk, writer, late, lost, of, end, faults>>
  BY DEF Rotate, Finished, Goto
<1>2. /\ Held /\ ~writer /\ end = "run" /\ rotate # None /\ inPart >= MinRows
      /\ \A d \in Chunk : at[d] \in Locks => d = c
  BY <1>1 DEF SinkInv, LockInv, Held, Locks
<1>3. part + 1 \in 1..Len(disk) /\ disk[part + 1] \in Files /\ part \in Nat
  BY <1>2, SinkFacts DEF SinkInv, LateInv
<1>4. /\ g \in Files /\ g.closed = TRUE /\ g.chunks = disk[part + 1].chunks /\ g.rows = disk[part + 1].rows
      /\ g.made = disk[part + 1].made
  BY <1>3 DEF Files
<1> HIDE DEF g
<1>5. /\ disk' \in Seq(Files) /\ Len(disk') = Len(disk) /\ disk'[part + 1] = g
      /\ \A i \in 1..Len(disk) : i # part + 1 => disk'[i] = disk[i]
  <2>1. disk \in Seq(Files)
    BY DEF TypeOK, SinkType
  <2> QED BY <1>1, <1>3, <1>4, <2>1, ExceptSeq
<1>6. at' \in Seq(Places) /\ at' \in [Chunk -> Places] /\ at'[c] = "open" /\ \A d \in Chunk : d # c => at'[d] = at[d]
  <2>1. at \in Seq(Places) /\ at \in [Chunk -> Places] /\ "open" \in Places
    BY DEF TypeOK, ChunkType, Places
  <2>2. c \in 1..Len(at)
    BY <2>1, LenProperties
  <2> QED BY <1>1, <2>1, <2>2, ExceptSeq
<1>7. ChunkType' /\ SinkType'
  <2>1. inPart' \in Nat /\ part' \in Nat
    BY <1>1, <1>3
  <2> QED BY <1>1, <1>5, <1>6, <2>1 DEF TypeOK, ChunkType, SinkType, Chunk
<1>8. Chunk' = Chunk /\ ~Held' /\ (\A d \in Chunk : (at'[d] = "done") <=> (at[d] = "done"))
  <2>1. Chunk' = Chunk
    BY <1>1 DEF Chunk
  <2>2. \A d \in Chunk : at'[d] \notin {"finish", "write"}
    BY <1>2, <1>6 DEF Locks
  <2>3. \A d \in Chunk : (at'[d] = "done") <=> (at[d] = "done")
    BY <1>1, <1>6
  <2> QED BY <1>1, <1>2, <2>1, <2>2, <2>3 DEF Held
<1>9. \A p \in Nat : p + 1 \in 1..Len(disk) =>
         /\ disk'[p + 1].made = disk[p + 1].made /\ disk'[p + 1].chunks = disk[p + 1].chunks
         /\ disk'[p + 1].rows = disk[p + 1].rows /\ (disk[p + 1].closed => disk'[p + 1].closed)
  BY <1>4, <1>5
<1>10. LockInv'
  <2>1. \A d \in Chunk : at'[d] \in Locks => d = c
    BY <1>2, <1>6
  <2>2. \A d \in Chunk : at'[d] # "finish"
    BY <1>8 DEF Held
  <2> QED BY <1>1, <1>2, <1>8, <2>1, <2>2 DEF SinkInv, LockInv
<1>11. LateInv'
  <2>1. part' <= Len(disk')
    BY <1>1, <1>3, <1>5, SinkFacts
  <2>2. ASSUME NEW j \in late'
        PROVE  j.part <= part' /\ j.part < Len(disk') /\ j.chunk \in Chunk' /\ j.made <= disk'[j.part + 1].made
    <3>1. j \in late /\ j.part <= part /\ j.part < Len(disk) /\ j.chunk \in Chunk /\ j.made <= disk[j.part + 1].made
      BY <1>1 DEF SinkInv, LateInv
    <3>2. j.part \in Nat
      BY <3>1 DEF TypeOK, SinkType, Jobs
    <3>3. j.part + 1 \in 1..Len(disk)
      BY <3>1, <3>2, SinkFacts
    <3> QED BY <3>1, <3>2, <3>3, <1>1, <1>3, <1>5, <1>8, <1>9
  <2>3. ASSUME NEW p \in 0..(part' - 1) PROVE Fresh(p)'
    <3>1. p \in Nat /\ p + 1 \in 1..Len(disk) /\ Fresh(p)
      BY <1>1, <1>2, <1>3, SinkFacts DEF SinkInv, LateInv
    <3>2. disk'[p + 1].made = disk[p + 1].made
      BY <3>1, <1>9
    <3> QED BY <3>1, <3>2, <1>1 DEF Fresh
  <2> QED BY <1>8, <2>1, <2>2, <2>3 DEF LateInv
<1>12. CurrentInv' /\ CountedInv'
  BY <1>1, <1>8 DEF CurrentInv, CountedInv
<1>13. DoneInv'
  <2> SUFFICES ASSUME NEW d \in Chunk
               PROVE  /\ at'[d] # "done" => of[d] = None /\ d \notin lost
                      /\ at'[d] = "done" => /\ of[d] \in 0..part' /\ of[d] < Len(disk')
                                            /\ d \notin lost =>
                                                 LET f == disk'[of[d] + 1]
                                                 IN /\ Once(d, f.chunks) /\ Fresh(of[d])'
                                                    /\ of[d] < part' \/ end = "stopped" => f.closed
                                                    /\ of[d] = part' /\ end = "run" => Held'
    BY <1>1, <1>8 DEF DoneInv, Fresh
  <2>1. /\ at[d] # "done" => of[d] = None /\ d \notin lost
        /\ at[d] = "done" => /\ of[d] \in 0..part /\ of[d] < Len(disk)
                             /\ d \notin lost =>
                                 /\ Once(d, disk[of[d] + 1].chunks) /\ Fresh(of[d])
                                 /\ of[d] < part \/ end = "stopped" => disk[of[d] + 1].closed
    BY DEF SinkInv, DoneInv
  <2>2. CASE at[d] # "done"
    BY <1>8, <2>1, <2>2
  <2>3. CASE at[d] = "done"
    <3>1. of[d] \in Nat /\ of[d] + 1 \in 1..Len(disk) /\ of[d] < part' /\ of[d] \in 0..part'
      BY <1>1, <1>3, <2>1, <2>3, SinkFacts
    <3>2. disk'[of[d] + 1].made = disk[of[d] + 1].made /\ disk'[of[d] + 1].chunks = disk[of[d] + 1].chunks
      BY <3>1, <1>9
    <3>3. d \notin lost => Fresh(of[d])' /\ Once(d, disk'[of[d] + 1].chunks)
      BY <1>1, <2>1, <2>3, <3>2 DEF Fresh
    <3>4. d \notin lost => disk'[of[d] + 1].closed
      <4>1. CASE of[d] = part
        BY <4>1, <1>4, <1>5
      <4>2. CASE of[d] # part
        BY <4>2, <1>3, <1>9, <2>1, <2>3, <3>1
      <4> QED BY <4>1, <4>2
    <3>5. of[d] # part'
      BY <1>1, <1>3, <3>1
    <3>6. of[d] < Len(disk')
      BY <1>5, <2>1, <2>3
    <3> QED BY <1>8, <2>3, <3>1, <3>3, <3>4, <3>5, <3>6
  <2> QED BY <2>2, <2>3
<1>14. PartInv'
  <2> SUFFICES ASSUME NEW p \in 0..(part' - 1)
               PROVE  LET f == disk'[p + 1]
                      IN /\ f.chunks # <<>> /\ \A i \in DOMAIN f.chunks : f.chunks[i] \in Chunk
                         /\ f.rows - LastRows(f) < MinRows /\ (f.rows >= MinRows \/ Abandoned(p))
    BY <1>1, <1>8 DEF PartInv, LastRows, Abandoned, MinRows
  <2>1. p \in Nat /\ p + 1 \in 1..Len(disk)
    BY <1>1, <1>3, SinkFacts
  <2>2. disk'[p + 1].chunks = disk[p + 1].chunks /\ disk'[p + 1].rows = disk[p + 1].rows
    BY <2>1, <1>9
  <2>3. CASE p = part
    <3> DEFINE f == disk[part + 1]
    <3>1. /\ (f.rows = inPart \/ Abandoned(part))
          /\ \A i \in DOMAIN f.chunks : f.chunks[i] \in Chunk
          /\ f.chunks # <<>> /\ f.rows - LastRows(f) < MinRows
      <4>1. ~\E d \in Chunk : at[d] = "write"
        BY <1>1, <1>2 DEF Locks
      <4> QED BY <4>1, <1>2 DEF SinkInv, CurrentInv
    <3> QED BY <3>1, <2>2, <2>3, <1>2 DEF LastRows
  <2>4. CASE p # part
    <3>1. p \in 0..(part - 1)
      BY <2>4, <1>1, <1>3
    <3> QED BY <3>1, <2>2 DEF SinkInv, PartInv, LastRows
  <2> QED BY <2>3, <2>4
<1> QED BY <1>7, <1>10, <1>11, <1>12, <1>13, <1>14 DEF SinkStep, SinkInv

(* What a new file and a file with one more chunk are.                     *)
LEMMA CreateFacts ==
  ASSUME TypeOK, LateInv, Create
  PROVE  /\ disk' \in Seq(Files) /\ Len(disk) <= Len(disk') /\ part < Len(disk')
         /\ disk'[part + 1].rows = 0 /\ disk'[part + 1].chunks = <<>>
         /\ \A i \in 1..Len(disk) : i # part + 1 => disk'[i] = disk[i]
         /\ part < Len(disk) => disk'[part + 1].made = disk[part + 1].made + 1
<1>1. part \in Nat /\ Len(disk) \in Nat /\ disk \in Seq(Files) /\ part <= Len(disk)
  BY SinkFacts DEF LateInv, TypeOK, SinkType
<1>2. <<>> \in Seq(Nat)
  BY EmptySeq
<1>3. CASE part < Len(disk)
  <2> DEFINE g == [Empty EXCEPT !.made = disk[part + 1].made + 1]
  <2>1. part + 1 \in 1..Len(disk)
    BY <1>1, <1>3
  <2>2. disk[part + 1].made + 1 \in Nat
    BY <2>1, SinkFacts, FileFacts
  <2>3. g \in Files /\ g.rows = 0 /\ g.chunks = <<>> /\ g.made = disk[part + 1].made + 1
    BY <1>2, <2>2 DEF Files, Empty
  <2> HIDE DEF g
  <2>4. disk' = [disk EXCEPT ![part + 1] = g]
    BY <1>3 DEF Create, g
  <2> QED BY <1>1, <1>3, <2>1, <2>3, <2>4, ExceptSeq
<1>4. CASE ~(part < Len(disk))
  <2>1. part = Len(disk) /\ disk' = Append(disk, Empty)
    BY <1>1, <1>4 DEF Create
  <2>2. Empty \in Files /\ Empty.rows = 0 /\ Empty.chunks = <<>>
    BY <1>2 DEF Files, Empty
  <2> QED BY <1>1, <1>4, <2>1, <2>2
<1> QED BY <1>3, <1>4

LEMMA GrownFacts ==
  ASSUME NEW f \in Files, NEW c \in Nat, Len(chunk[c].rows) \in Nat
  PROVE  LET g == Grown(f, c)
         IN /\ g \in Files /\ g.rows = f.rows + Len(chunk[c].rows) /\ g.made = f.made /\ g.closed = f.closed
            /\ Len(g.chunks) = Len(f.chunks) + 1 /\ DOMAIN g.chunks = 1..(Len(f.chunks) + 1)
            /\ g.chunks[Len(f.chunks) + 1] = c /\ \A i \in DOMAIN f.chunks : g.chunks[i] = f.chunks[i]
            /\ g.chunks # <<>>
<1> DEFINE g == Grown(f, c)
           s == Append(f.chunks, c)
           m == f.rows + Len(chunk[c].rows)
<1>1. f.chunks \in Seq(Nat) /\ f.rows \in Nat /\ DOMAIN f.chunks = 1..Len(f.chunks) /\ Len(f.chunks) \in Nat
  BY FileFacts
<1>2. /\ s \in Seq(Nat) /\ Len(s) = Len(f.chunks) + 1 /\ DOMAIN s = 1..(Len(f.chunks) + 1)
      /\ s[Len(f.chunks) + 1] = c /\ \A i \in DOMAIN f.chunks : s[i] = f.chunks[i]
  BY <1>1
<1>3. s # <<>>
  <2> HIDE DEF s
  <2>1. Len(s) # 0
    BY <1>1, <1>2
  <2> QED BY <2>1, EmptySeq
<1>4. m \in Nat
  BY <1>1
<1>5. g = [f EXCEPT !.chunks = s, !.rows = m]
  BY DEF Grown
<1> HIDE DEF g, s
<1> SUFFICES g \in Files /\ g.rows = m /\ g.made = f.made /\ g.closed = f.closed /\ g.chunks = s
  BY <1>2, <1>3 DEF g
<1> HIDE DEF m
<1> QED BY <1>2, <1>4, <1>5 DEF Files

LEMMA OpenKeeps ==
  ASSUME TypeOK, SinkInv, NEW c \in Chunk, Open(c)
  PROVE  SinkStep
<1>1. /\ at[c] = "open" /\ Create /\ at' = [at EXCEPT ![c] = "write"]
      /\ UNCHANGED <<rotate, chunk, writer, part, inPart, late, lost, of, end, faults>>
  BY DEF Open, Goto
<1>2. ~writer /\ end = "run" /\ ~Held /\ \A d \in Chunk : at[d] \in Locks => d = c
  <2>1. ~writer /\ end = "run" /\ \A d \in Chunk : at[d] \in Locks => d = c
    BY <1>1 DEF SinkInv, LockInv, Locks
  <2> QED BY <2>1, <1>1 DEF Held, Locks
<1>3. at' \in Seq(Places) /\ at' \in [Chunk -> Places] /\ at'[c] = "write" /\ \A d \in Chunk : d # c => at'[d] = at[d]
  <2>1. at \in Seq(Places) /\ at \in [Chunk -> Places] /\ "write" \in Places
    BY DEF TypeOK, ChunkType, Places
  <2>2. c \in 1..Len(at)
    BY <2>1, LenProperties
  <2> QED BY <1>1, <2>1, <2>2, ExceptSeq
<1>4. Chunk' = Chunk /\ Held' /\ (\A d \in Chunk : (at'[d] = "done") <=> (at[d] = "done"))
  BY <1>1, <1>3 DEF Chunk, Held
<1>5. /\ disk' \in Seq(Files) /\ Len(disk) <= Len(disk') /\ part < Len(disk')
      /\ disk'[part + 1].rows = 0 /\ disk'[part + 1].chunks = <<>>
      /\ \A i \in 1..Len(disk) : i # part + 1 => disk'[i] = disk[i]
      /\ part < Len(disk) => disk'[part + 1].made = disk[part + 1].made + 1
  BY <1>1, CreateFacts DEF SinkInv
<1>6. ChunkType' /\ SinkType'
  BY <1>1, <1>3, <1>5 DEF TypeOK, ChunkType, SinkType, Chunk
<1>7. LockInv'
  BY <1>1, <1>2, <1>3, <1>4 DEF SinkInv, LockInv, MinRows
<1>8. LateInv' /\ \A j \in late : j.part = part => j.made # disk'[part + 1].made
  <2>1. ASSUME NEW j \in late
        PROVE  /\ j.part <= part /\ j.part < Len(disk') /\ j.chunk \in Chunk /\ j.made <= disk'[j.part + 1].made
               /\ j.part = part => j.made # disk'[part + 1].made
    <3>1. j.part <= part /\ j.part < Len(disk) /\ j.chunk \in Chunk /\ j.made <= disk[j.part + 1].made
      BY DEF SinkInv, LateInv
    <3>2. j.part \in Nat /\ j.made \in Nat
      BY DEF TypeOK, SinkType, Jobs
    <3>3. j.part + 1 \in 1..Len(disk) /\ disk[j.part + 1].made \in Nat
      BY <3>1, <3>2, SinkFacts, FileFacts
    <3>4. CASE j.part = part
      BY <3>4, <3>1, <3>2, <3>3, <1>5
    <3>5. CASE j.part # part
      <4>1. j.part + 1 # part + 1
        BY <3>2, <3>5, SinkFacts
      <4>2. disk'[j.part + 1] = disk[j.part + 1]
        BY <4>1, <3>3, <1>5
      <4>3. Len(disk') \in Nat /\ Len(disk) \in Nat
        BY <1>5, LenProperties, SinkFacts
      <4>4. j.part < Len(disk')
        BY <4>3, <3>1, <3>2, <1>5
      <4> QED BY <4>2, <4>4, <3>1, <3>5
    <3> QED BY <3>4, <3>5
  <2>2. ASSUME NEW p \in 0..(part - 1) PROVE Fresh(p)'
    <3>1. p + 1 \in 1..Len(disk) /\ p + 1 # part + 1 /\ Fresh(p)
      BY SinkFacts DEF SinkInv, LateInv
    <3> QED BY <3>1, <1>1, <1>5 DEF Fresh
  <2>3. part <= Len(disk')
    BY <1>5, <1>6, SinkFacts, LenProperties DEF SinkType
  <2> QED BY <1>1, <1>4, <1>5, <2>1, <2>2, <2>3 DEF LateInv, Fresh
<1>9. CurrentInv'
  <2>1. inPart = 0 \/ Abandoned(part)
    <3>1. ASSUME NEW d \in Chunk, of[d] = part PROVE d \in lost
      <4>1. of[d] # None
        BY <3>1, Constants, SinkFacts
      <4> QED BY <3>1, <4>1, <1>2 DEF SinkInv, DoneInv
    <3> QED BY <3>1 DEF SinkInv, CountedInv, Abandoned
  <2>2. inPart \in Nat /\ (rotate # None => 0 < MinRows)
    BY SinkFacts
  <2>3. DOMAIN <<>> = {} /\ 0 <= inPart
    BY <2>2
  <2> QED BY <1>1, <1>3, <1>4, <1>5, <2>1, <2>2, <2>3 DEF CurrentInv, Abandoned, MinRows
<1>10. CountedInv'
  BY <1>1, <1>4 DEF SinkInv, CountedInv
<1>11. DoneInv'
  <2> SUFFICES ASSUME NEW d \in Chunk
               PROVE  /\ at'[d] # "done" => of[d] = None /\ d \notin lost
                      /\ at'[d] = "done" => /\ of[d] \in 0..part /\ of[d] < Len(disk')
                                            /\ d \notin lost =>
                                                 LET f == disk'[of[d] + 1]
                                                 IN /\ Once(d, f.chunks) /\ Fresh(of[d])'
                                                    /\ of[d] < part \/ end = "stopped" => f.closed
    BY <1>1, <1>4 DEF DoneInv, Fresh
  <2>1. /\ at[d] # "done" => of[d] = None /\ d \notin lost
        /\ at[d] = "done" => /\ of[d] \in 0..part /\ of[d] < Len(disk)
                             /\ d \notin lost =>
                                 /\ Once(d, disk[of[d] + 1].chunks) /\ Fresh(of[d])
                                 /\ of[d] < part \/ end = "stopped" => disk[of[d] + 1].closed
                                 /\ of[d] # part
    BY <1>2 DEF SinkInv, DoneInv
  <2>2. CASE at[d] # "done"
    BY <1>4, <2>1, <2>2
  <2>3. CASE at[d] = "done"
    <3>1. of[d] \in Nat /\ of[d] + 1 \in 1..Len(disk) /\ of[d] < Len(disk')
      <4>1. of[d] \in Nat /\ of[d] < Len(disk)
        BY <2>1, <2>3, SinkFacts
      <4>2. Len(disk') \in Nat
        BY <1>5, LenProperties
      <4> QED BY <4>1, <4>2, <1>5, SinkFacts
    <3>2. d \notin lost => disk'[of[d] + 1] = disk[of[d] + 1]
      BY <3>1, <2>1, <2>3, <1>5, SinkFacts
    <3>3. d \notin lost => Fresh(of[d])'
      BY <1>1, <2>1, <2>3, <3>2 DEF Fresh
    <3> QED BY <1>4, <2>1, <2>3, <3>1, <3>2, <3>3
  <2> QED BY <2>2, <2>3
<1>12. PartInv'
  <2>1. \A p \in 0..(part - 1) : disk'[p + 1] = disk[p + 1]
    BY <1>5, SinkFacts DEF SinkInv, LateInv
  <2> QED BY <1>1, <1>4, <2>1, PartKept DEF SinkInv
<1> QED BY <1>6, <1>7, <1>8, <1>9, <1>10, <1>11, <1>12 DEF SinkStep, SinkInv

LEMMA WrittenKeeps ==
  ASSUME TypeOK, SinkInv, NEW c \in Chunk, Written(c)
  PROVE  SinkStep
<1> DEFINE f == disk[part + 1]
           n == Len(chunk[c].rows)
           g == Grown(f, c)
<1>1. /\ at[c] = "write" /\ at' = [at EXCEPT ![c] = "done"] /\ disk' = [disk EXCEPT ![part + 1] = g]
      /\ writer' = TRUE /\ inPart' = inPart + n /\ of' = [of EXCEPT ![c] = part]
      /\ UNCHANGED <<rotate, chunk, part, late, lost, end, faults>>
  BY DEF Written, Goto
<1>2. /\ Held /\ ~writer /\ end = "run" /\ \A d \in Chunk : at[d] \in Locks => d = c
  BY <1>1 DEF SinkInv, LockInv, Held, Locks
<1>3. part + 1 \in 1..Len(disk) /\ f \in Files /\ part \in Nat /\ c \in Nat /\ n \in Nat /\ inPart \in Nat
  <2>1. part + 1 \in 1..Len(disk) /\ f \in Files /\ part \in Nat /\ c \in Nat /\ chunk[c] \in Chunks /\ inPart \in Nat
    BY <1>2, SinkFacts DEF SinkInv, LateInv
  <2>2. chunk[c].rows \in Seq(Nat)
    BY <2>1 DEF Chunks
  <2> QED BY <2>1, <2>2, LenProperties
<1>4. /\ f.rows <= inPart /\ (f.rows = inPart \/ Abandoned(part))
      /\ \A i \in DOMAIN f.chunks : f.chunks[i] \in Chunk /\ at[f.chunks[i]] = "done" /\ of[f.chunks[i]] = part
      /\ rotate # None => f.rows < MinRows
  BY <1>1, <1>2 DEF SinkInv, CurrentInv
<1>5. Fresh(part)
  BY <1>2 DEF SinkInv, LateInv
<1> HIDE DEF f, n
<1>6. /\ g \in Files /\ g.rows = f.rows + n /\ g.made = f.made /\ g.closed = f.closed
      /\ Len(g.chunks) = Len(f.chunks) + 1 /\ DOMAIN g.chunks = 1..(Len(f.chunks) + 1)
      /\ g.chunks[Len(f.chunks) + 1] = c /\ \A i \in DOMAIN f.chunks : g.chunks[i] = f.chunks[i]
      /\ g.chunks # <<>>
  BY <1>3, GrownFacts DEF n
<1> HIDE DEF g
<1>7. /\ disk' \in Seq(Files) /\ Len(disk') = Len(disk) /\ disk'[part + 1] = g
      /\ \A i \in 1..Len(disk) : i # part + 1 => disk'[i] = disk[i]
  <2>1. disk \in Seq(Files)
    BY DEF TypeOK, SinkType
  <2> QED BY <1>1, <1>3, <1>6, <2>1, ExceptSeq
<1>8. /\ at' \in Seq(Places) /\ at' \in [Chunk -> Places] /\ at'[c] = "done"
      /\ \A d \in Chunk : d # c => at'[d] = at[d]
  <2>1. at \in Seq(Places) /\ at \in [Chunk -> Places] /\ "done" \in Places
    BY DEF TypeOK, ChunkType, Places
  <2>2. c \in 1..Len(at)
    BY <2>1, LenProperties
  <2> QED BY <1>1, <2>1, <2>2, ExceptSeq
<1>9. /\ of' \in Seq(Nat \cup {None}) /\ of' \in [Chunk -> Nat \cup {None}] /\ of'[c] = part
      /\ \A d \in Chunk : d # c => of'[d] = of[d]
  <2>1. of \in Seq(Nat \cup {None}) /\ of \in [Chunk -> Nat \cup {None}] /\ part \in Nat \cup {None}
    BY <1>3 DEF TypeOK, ChunkType
  <2>2. c \in 1..Len(of)
    BY <2>1, LenProperties
  <2> QED BY <1>1, <2>1, <2>2, ExceptSeq
<1>10. Chunk' = Chunk /\ Held' /\ (\A d \in Chunk : at'[d] \notin Locks) /\ c \notin lost /\ of[c] = None
  <2>1. \A d \in Chunk : at'[d] \notin Locks
    BY <1>2, <1>8 DEF Locks
  <2> QED BY <1>1, <2>1 DEF SinkInv, DoneInv, Chunk, Held
<1>11. ChunkType' /\ SinkType'
  <2>1. inPart' \in Nat
    BY <1>1, <1>3
  <2> QED BY <1>1, <1>7, <1>8, <1>9, <1>10, <2>1 DEF TypeOK, ChunkType, SinkType
<1>12. LockInv'
  BY <1>1, <1>2, <1>10 DEF SinkInv, LockInv, Locks
<1>13. LateInv'
  <2>1. \A i \in 1..Len(disk) : disk'[i].made = disk[i].made
    BY <1>6, <1>7 DEF f
  <2>2. ASSUME NEW j \in late
        PROVE  j.part <= part /\ j.part < Len(disk') /\ j.chunk \in Chunk /\ j.made <= disk'[j.part + 1].made
    <3>1. j.part <= part /\ j.part < Len(disk) /\ j.chunk \in Chunk /\ j.made <= disk[j.part + 1].made
      BY DEF SinkInv, LateInv
    <3>2. j.part + 1 \in 1..Len(disk)
      BY <3>1, SinkFacts DEF TypeOK, SinkType, Jobs
    <3> QED BY <3>1, <3>2, <2>1, <1>7
  <2>3. ASSUME NEW p \in 0..part PROVE Fresh(p)'
    <3>1. p + 1 \in 1..Len(disk) /\ Fresh(p)
      <4>1. CASE p = part
        BY <4>1, <1>3, <1>5
      <4>2. CASE p # part
        BY <4>2, <1>3, SinkFacts DEF SinkInv, LateInv
      <4> QED BY <4>1, <4>2
    <3> QED BY <3>1, <2>1, <1>1 DEF Fresh
  <2>4. part < Len(disk') /\ part <= Len(disk')
    BY <1>3, <1>7, SinkFacts
  <2>5. \A p \in 0..(part - 1) : p \in 0..part
    BY <1>3
  <2> QED BY <1>1, <1>3, <1>10, <2>2, <2>3, <2>4, <2>5 DEF LateInv
<1>14. CurrentInv'
  <2>1. g.rows <= inPart' /\ (g.rows = inPart' \/ Abandoned(part)')
    <3>1. f.rows \in Nat
      BY <1>3, FileFacts
    <3>2. Abandoned(part) => Abandoned(part)'
      BY <1>1, <1>9, <1>10 DEF Abandoned, TypeOK, SinkType
    <3> QED BY <3>1, <3>2, <1>1, <1>3, <1>4, <1>6
  <2>2. \A i \in DOMAIN g.chunks : g.chunks[i] \in Chunk /\ at'[g.chunks[i]] = "done" /\ of'[g.chunks[i]] = part
    <3> TAKE i \in DOMAIN g.chunks
    <3>1. CASE i = Len(f.chunks) + 1
      BY <3>1, <1>6, <1>8, <1>9
    <3>2. CASE i # Len(f.chunks) + 1
      <4>1. i \in DOMAIN f.chunks
        BY <3>2, <1>3, <1>6, FileFacts
      <4>2. g.chunks[i] # c /\ g.chunks[i] \in Chunk /\ at[g.chunks[i]] = "done" /\ of[g.chunks[i]] = part
        BY <4>1, <1>1, <1>4, <1>6
      <4> QED BY <4>2, <1>8, <1>9
    <3> QED BY <3>1, <3>2
  <2>3. rotate # None => g.rows - LastRows(g) < MinRows
    <3>1. LastRows(g) = n
      BY <1>6 DEF LastRows, n
    <3>2. f.rows \in Nat
      BY <1>3, FileFacts
    <3>3. rotate # None => MinRows \in Nat
      BY SinkFacts
    <3> QED BY <3>1, <3>2, <3>3, <1>3, <1>4, <1>6
  <2>4. ~\E d \in Chunk : at'[d] = "write"
    BY <1>10 DEF Locks
  <2>5. MinRows' = MinRows
    BY <1>1 DEF MinRows
  <2>6. disk'[part' + 1] = g /\ LastRows(disk[part + 1])' = LastRows(g) /\ Chunk' = Chunk /\ rotate' = rotate
    BY <1>1, <1>7, <1>10 DEF LastRows
  <2> QED BY <1>1, <1>6, <2>1, <2>2, <2>3, <2>4, <2>5, <2>6 DEF CurrentInv, LastRows, Abandoned
<1>15. CountedInv'
  BY <1>1, <1>9, <1>10 DEF CountedInv
<1>16. DoneInv'
  <2> SUFFICES ASSUME NEW d \in Chunk
               PROVE  /\ at'[d] # "done" => of'[d] = None /\ d \notin lost
                      /\ at'[d] = "done" => /\ of'[d] \in 0..part /\ of'[d] < Len(disk')
                                            /\ d \notin lost =>
                                                 LET h == disk'[of'[d] + 1]
                                                 IN /\ Once(d, h.chunks)
                                                    /\ \A j \in late : j.part = of'[d] => j.made # h.made
                                                    /\ of'[d] < part \/ end = "stopped" => h.closed
    BY <1>1, <1>10 DEF DoneInv, Fresh
  <2>1. /\ at[d] # "done" => of[d] = None /\ d \notin lost
        /\ at[d] = "done" => /\ of[d] \in 0..part /\ of[d] < Len(disk)
                             /\ d \notin lost =>
                                 /\ Once(d, disk[of[d] + 1].chunks) /\ Fresh(of[d])
                                 /\ of[d] < part \/ end = "stopped" => disk[of[d] + 1].closed
    BY DEF SinkInv, DoneInv
  <2>2. CASE d = c
    <3>1. Once(c, g.chunks)
      <4>1. \A i \in DOMAIN g.chunks : g.chunks[i] = c <=> i = Len(f.chunks) + 1
        <5> TAKE i \in DOMAIN g.chunks
        <5>1. i # Len(f.chunks) + 1 => i \in DOMAIN f.chunks
          BY <1>3, <1>6, FileFacts
        <5> QED BY <5>1, <1>1, <1>4, <1>6
      <4>2. Len(f.chunks) + 1 \in DOMAIN g.chunks
        BY <1>3, <1>6, FileFacts
      <4> QED BY <4>1, <4>2 DEF Once
    <3>2. \A j \in late : j.part = part => j.made # g.made
      BY <1>5, <1>6 DEF Fresh, f
    <3>3. part \in 0..part /\ part < Len(disk') /\ ~(part < part)
      BY <1>3, <1>7, SinkFacts
    <3> QED BY <2>2, <3>1, <3>2, <3>3, <1>2, <1>7, <1>8, <1>9
  <2>3. CASE d # c /\ at[d] # "done"
    BY <2>1, <2>3, <1>8, <1>9
  <2>4. CASE d # c /\ at[d] = "done"
    <3>1. of'[d] = of[d] /\ of[d] \in Nat /\ of[d] \in 0..part /\ of[d] + 1 \in 1..Len(disk) /\ of[d] < Len(disk')
      BY <2>1, <2>4, <1>3, <1>7, <1>9, SinkFacts
    <3>2. CASE of[d] # part
      <4>1. disk'[of[d] + 1] = disk[of[d] + 1]
        BY <3>1, <3>2, <1>3, <1>7
      <4>2. d \notin lost => \A j \in late : j.part = of[d] => j.made # disk[of[d] + 1].made
        BY <2>1, <2>4 DEF Fresh
      <4> QED BY <2>1, <2>4, <3>1, <4>1, <4>2, <1>8
    <3>3. CASE of[d] = part
      <4>1. disk'[of[d] + 1] = g
        BY <3>3, <1>7
      <4>2. d \notin lost => Once(d, g.chunks)
        <5>1. SUFFICES ASSUME d \notin lost PROVE Once(d, g.chunks)
          OBVIOUS
        <5>2. PICK i \in DOMAIN f.chunks : \A k \in DOMAIN f.chunks : f.chunks[k] = d <=> k = i
          BY <5>1, <2>1, <2>4, <3>3 DEF Once, f
        <5> DOMAIN f.chunks = 1..Len(f.chunks) /\ Len(f.chunks) \in Nat
          BY <1>3, FileFacts
        <5>3. i \in DOMAIN g.chunks /\ i # Len(f.chunks) + 1
          BY <1>6
        <5>4. \A k \in DOMAIN g.chunks : k = Len(f.chunks) + 1 \/ k \in DOMAIN f.chunks
          BY <1>3, <1>6, FileFacts
        <5>5. \A k \in DOMAIN g.chunks : g.chunks[k] = d <=> k = i
          BY <5>2, <5>3, <5>4, <2>4, <1>6
        <5> QED BY <5>3, <5>5 DEF Once
      <4>3. \A j \in late : j.part = part => j.made # g.made
        BY <1>5, <1>6 DEF Fresh, f
      <4>4. ~(of[d] < part) /\ end # "stopped"
        BY <3>3, <1>2, <1>3
      <4> QED BY <2>4, <3>1, <3>3, <4>1, <4>2, <4>3, <4>4, <1>8
    <3> QED BY <3>2, <3>3
  <2> QED BY <2>2, <2>3, <2>4
<1>17. PartInv'
  <2>1. \A p \in 0..(part - 1) : disk'[p + 1] = disk[p + 1]
    BY <1>3, <1>7, SinkFacts
  <2>2. \A d \in lost : of'[d] = of[d]
    BY <1>9, <1>10 DEF TypeOK, SinkType
  <2> QED BY <1>1, <1>10, <2>1, <2>2, PartKept DEF SinkInv
<1> QED BY <1>11, <1>12, <1>13, <1>14, <1>15, <1>16, <1>17 DEF SinkStep, SinkInv

LEMMA AgainFacts ==
  ASSUME TypeOK, NEW c \in Chunk, Again(c)
  PROVE  /\ Chunk' = Chunk /\ \A d \in Chunk : chunk'[d].key = chunk[d].key /\ chunk'[d].rows = chunk[d].rows
         /\ chunk' \in Seq(Chunks) /\ at' \in Seq(Places) /\ at' \in [Chunk -> Places]
         /\ at'[c] \in {"queued", "failed"} /\ \A d \in Chunk : d # c => at'[d] = at[d]
<1> DEFINE e == [chunk[c] EXCEPT !.tries = @ + 1]
           to == IF chunk[c].tries + 1 < Attempts THEN "queued" ELSE "failed"
<1>1. chunk' = [chunk EXCEPT ![c] = e] /\ at' = [at EXCEPT ![c] = to]
  BY DEF Again, Goto
<1>2. chunk \in Seq(Chunks) /\ c \in 1..Len(chunk) /\ chunk[c] \in Chunks
  BY SinkFacts DEF TypeOK, ChunkType
<1>3. e \in Chunks /\ e.key = chunk[c].key /\ e.rows = chunk[c].rows
  <2>1. chunk[c].tries + 1 \in Nat
    BY <1>2 DEF Chunks
  <2>2. e = [chunk[c] EXCEPT !.tries = chunk[c].tries + 1]
    OBVIOUS
  <2> HIDE DEF e
  <2> QED BY <1>2, <2>1, <2>2 DEF Chunks
<1>4. at \in Seq(Places) /\ at \in [Chunk -> Places] /\ to \in Places /\ to \in {"queued", "failed"}
  BY DEF TypeOK, ChunkType, Places
<1>5. c \in 1..Len(at)
  BY <1>4, LenProperties
<1> HIDE DEF e, to
<1>6. /\ chunk' \in Seq(Chunks) /\ Len(chunk') = Len(chunk)
      /\ \A d \in 1..Len(chunk) : chunk'[d] = IF d = c THEN e ELSE chunk[d]
  BY <1>1, <1>2, <1>3, ExceptSeq
<1>7. Chunk = 1..Len(chunk) /\ Chunk' = Chunk
  BY <1>2, <1>6, LenProperties DEF Chunk
<1>8. at' \in Seq(Places) /\ at' \in [Chunk -> Places] /\ at'[c] = to /\ \A d \in Chunk : d # c => at'[d] = at[d]
  BY <1>1, <1>4, <1>5, ExceptSeq
<1> QED BY <1>3, <1>4, <1>6, <1>7, <1>8

(* A step in which the writer of the current part is lost.                 *)
LEMMA LosingKeeps ==
  ASSUME TypeOK, SinkInv, NEW c \in Chunk, at[c] \in Locks, Again(c), Loses,
         UNCHANGED <<rotate, writer, part, inPart, of, end>>, SinkType', LateInv',
         \A p \in 0..(part - 1) : disk'[p + 1] = disk[p + 1], Len(disk) <= Len(disk')
  PROVE  SinkStep
<1>1. /\ Chunk' = Chunk /\ \A d \in Chunk : chunk'[d].rows = chunk[d].rows
      /\ chunk' \in Seq(Chunks) /\ at' \in Seq(Places) /\ at' \in [Chunk -> Places]
      /\ at'[c] \in {"queued", "failed"} /\ \A d \in Chunk : d # c => at'[d] = at[d]
  BY AgainFacts
<1>2. ~writer /\ end = "run" /\ \A d \in Chunk : at[d] \in Locks => d = c
  BY DEF SinkInv, LockInv
<1>3. (\A d \in Chunk : at'[d] \notin Locks) /\ ~Held' /\ (\A d \in Chunk : (at'[d] = "done") <=> (at[d] = "done"))
  <2>1. \A d \in Chunk : at'[d] \notin Locks
    BY <1>1, <1>2 DEF Locks
  <2> QED BY <2>1, <1>1, <1>2 DEF Held, Locks
<1>4. lost' = lost \cup {d \in Chunk : of[d] = part}
  BY DEF Loses
<1>5. ChunkType'
  BY <1>1 DEF TypeOK, ChunkType
<1>6. LockInv' /\ CurrentInv' /\ CountedInv'
  BY <1>1, <1>2, <1>3 DEF SinkInv, LockInv, CurrentInv, CountedInv, Locks
<1>7. DoneInv'
  <2> SUFFICES ASSUME NEW d \in Chunk
               PROVE  /\ at'[d] # "done" => of[d] = None /\ d \notin lost'
                      /\ at'[d] = "done" => /\ of[d] \in 0..part /\ of[d] < Len(disk')
                                            /\ d \notin lost' =>
                                                 LET f == disk'[of[d] + 1]
                                                 IN /\ Once(d, f.chunks) /\ Fresh(of[d])'
                                                    /\ of[d] < part /\ f.closed
    BY <1>1, <1>3, SinkFacts DEF DoneInv, Fresh
  <2>1. /\ at[d] # "done" => of[d] = None /\ d \notin lost
        /\ at[d] = "done" => /\ of[d] \in 0..part /\ of[d] < Len(disk)
                             /\ d \notin lost =>
                                 /\ Once(d, disk[of[d] + 1].chunks)
                                 /\ of[d] < part \/ end = "stopped" => disk[of[d] + 1].closed
    BY DEF SinkInv, DoneInv
  <2>2. CASE at[d] # "done"
    <3>1. of[d] # part
      BY <2>1, <2>2, Constants, SinkFacts
    <3> QED BY <3>1, <2>1, <2>2, <1>3, <1>4
  <2>3. CASE at[d] = "done"
    <3>1. of[d] \in Nat /\ of[d] < Len(disk') /\ Len(disk') \in Nat
      BY <2>1, <2>3, SinkFacts, LenProperties DEF SinkType
    <3>2. d \notin lost' => d \notin lost /\ of[d] \in 0..(part - 1) /\ of[d] < part
      BY <1>4, <2>1, <2>3, <3>1, SinkFacts
    <3>3. d \notin lost' => Fresh(of[d])'
      BY <3>2 DEF LateInv
    <3> QED BY <1>3, <2>1, <2>3, <3>1, <3>2, <3>3
  <2> QED BY <2>2, <2>3
<1>8. PartInv'
  BY <1>1, <1>4, PartKept DEF SinkInv
<1> QED BY <1>5, <1>6, <1>7, <1>8 DEF SinkStep, SinkInv

LEMMA FailsKeeps ==
  ASSUME TypeOK, SinkInv, NEW c \in Chunk, WriteFails(c)
  PROVE  SinkStep
<1>1. /\ at[c] \in Locks /\ Again(c) /\ Loses /\ (IF at[c] = "open" THEN Create ELSE UNCHANGED disk)
      /\ UNCHANGED <<rotate, writer, part, inPart, late, of, end>> /\ faults' = faults + 1
  BY DEF WriteFails, Fault, Locks
<1>2. /\ disk' \in Seq(Files) /\ Len(disk) <= Len(disk')
      /\ \A i \in 1..Len(disk) : i # part + 1 => disk'[i] = disk[i]
      /\ part < Len(disk) => disk'[part + 1].made >= disk[part + 1].made
  <2>1. CASE at[c] = "open"
    <3>1. part < Len(disk) => disk[part + 1].made \in Nat
      BY SinkFacts, FileFacts
    <3> QED BY <2>1, <3>1, <1>1, CreateFacts DEF SinkInv
  <2>2. CASE at[c] # "open"
    <3>1. disk' = disk
      BY <2>2, <1>1
    <3>2. part < Len(disk) => disk[part + 1].made \in Nat
      BY SinkFacts, FileFacts
    <3> QED BY <3>1, <3>2, SinkFacts DEF TypeOK, SinkType
  <2> QED BY <2>1, <2>2
<1>3. Chunk' = Chunk /\ \A d \in Chunk : d # c => at'[d] = at[d]
  BY <1>1, AgainFacts
<1>4. SinkType'
  <2>1. lost' \subseteq Chunk'
    BY <1>1, <1>3 DEF Loses, TypeOK, SinkType
  <2> QED BY <2>1, <1>1, <1>2 DEF TypeOK, SinkType
<1>5. ~Held'
  <2>1. at'[c] \in {"queued", "failed"}
    BY <1>1, AgainFacts
  <2> QED BY <2>1, <1>1, <1>3 DEF Held, SinkInv, LockInv, Locks
<1>6. \A p \in 0..(part - 1) : disk'[p + 1] = disk[p + 1]
  BY <1>2, SinkFacts DEF SinkInv, LateInv
<1>7. LateInv'
  <2>1. ASSUME NEW j \in late
        PROVE  j.part <= part /\ j.part < Len(disk') /\ j.chunk \in Chunk /\ j.made <= disk'[j.part + 1].made
    <3>1. j.part <= part /\ j.part < Len(disk) /\ j.chunk \in Chunk /\ j.made <= disk[j.part + 1].made
      BY DEF SinkInv, LateInv
    <3>2. j.part \in Nat /\ j.made \in Nat
      BY DEF TypeOK, SinkType, Jobs
    <3>3. j.part + 1 \in 1..Len(disk) /\ disk[j.part + 1].made \in Nat
      BY <3>1, <3>2, SinkFacts, FileFacts
    <3>4. Len(disk') \in Nat /\ j.part < Len(disk')
      BY <3>1, <3>2, <1>2, LenProperties, SinkFacts
    <3>5. j.part + 1 \in 1..Len(disk') /\ disk'[j.part + 1].made \in Nat
      BY <3>2, <3>4, <1>2, ElementOfSeq, FileFacts
    <3>6. CASE j.part = part
      BY <3>6, <3>1, <3>2, <3>3, <3>4, <3>5, <1>2
    <3>7. CASE j.part # part
      <4>1. j.part + 1 # part + 1
        BY <3>2, <3>7, SinkFacts
      <4>2. disk'[j.part + 1] = disk[j.part + 1]
        BY <4>1, <3>3, <1>2
      <4> QED BY <4>2, <3>1, <3>4
    <3> QED BY <3>6, <3>7
  <2>2. \A p \in 0..(part - 1) : Fresh(p)'
    BY <1>1, <1>6 DEF SinkInv, LateInv, Fresh
  <2>3. part <= Len(disk')
    BY <1>2, SinkFacts, LenProperties DEF SinkInv, LateInv
  <2> QED BY <1>1, <1>3, <1>5, <2>1, <2>2, <2>3 DEF LateInv
<1> QED BY <1>1, <1>2, <1>4, <1>6, <1>7, LosingKeeps

LEMMA DroppedKeeps ==
  ASSUME TypeOK, SinkInv, NEW c \in Chunk, WriteDropped(c)
  PROVE  SinkStep
<1> DEFINE job == [job |-> at[c], chunk |-> c, part |-> part, made |-> disk[part + 1].made]
<1>1. /\ at[c] \in {"finish", "write"} /\ at[c] \in Locks /\ Again(c) /\ Loses /\ late' = late \cup {job}
      /\ UNCHANGED <<rotate, writer, part, inPart, disk, of, end>> /\ faults' = faults + 1
  BY DEF WriteDropped, Fault, Locks
<1>2. part \in Nat /\ part < Len(disk) /\ part + 1 \in 1..Len(disk) /\ disk[part + 1].made \in Nat /\ c \in Nat
  BY <1>1, SinkFacts, FileFacts DEF SinkInv, LateInv, Held
<1>3. job \in Jobs /\ job.part = part /\ job.chunk = c /\ job.made = disk[part + 1].made
  BY <1>1, <1>2 DEF Jobs
<1> HIDE DEF job
<1>4. Chunk' = Chunk /\ \A d \in Chunk : d # c => at'[d] = at[d]
  BY <1>1, AgainFacts
<1>5. SinkType'
  <2>1. lost' \subseteq Chunk'
    BY <1>1, <1>4 DEF Loses, TypeOK, SinkType
  <2> QED BY <2>1, <1>1, <1>3 DEF TypeOK, SinkType
<1>6. ~Held'
  <2>1. at'[c] \in {"queued", "failed"}
    BY <1>1, AgainFacts
  <2> QED BY <2>1, <1>1, <1>4 DEF Held, SinkInv, LockInv, Locks
<1>7. LateInv'
  <2>1. ASSUME NEW j \in late'
        PROVE  j.part <= part /\ j.part < Len(disk) /\ j.chunk \in Chunk /\ j.made <= disk[j.part + 1].made
    <3>1. CASE j \in late
      BY <3>1 DEF SinkInv, LateInv
    <3>2. CASE j = job
      BY <3>2, <1>2, <1>3
    <3> QED BY <3>1, <3>2, <1>1
  <2>2. ASSUME NEW p \in 0..(part - 1) PROVE Fresh(p)'
    <3>1. job.part # p /\ Fresh(p)
      BY <1>2, <1>3 DEF SinkInv, LateInv
    <3> QED BY <3>1, <1>1 DEF Fresh
  <2>3. part <= Len(disk)
    BY DEF SinkInv, LateInv
  <2> QED BY <1>1, <1>4, <1>6, <2>1, <2>2, <2>3 DEF LateInv
<1> QED BY <1>1, <1>5, <1>7, SinkFacts, LosingKeeps

LEMMA LandsKeeps ==
  ASSUME TypeOK, SinkInv, NEW j \in late, Lands(j)
  PROVE  SinkStep
<1> DEFINE k == j.part + 1
           f == disk[k]
           g == IF f.made # j.made THEN [f EXCEPT !.torn = TRUE]
                ELSE IF j.job = "finish" THEN [f EXCEPT !.closed = TRUE]
                ELSE Grown(f, j.chunk)
<1>1. /\ late' = late \ {j} /\ disk' = [disk EXCEPT ![k] = g]
      /\ UNCHANGED <<rotate, chunk, at, writer, part, inPart, lost, of, end, faults>>
  BY DEF Lands
<1>2. /\ j.part \in Nat /\ j.part <= part /\ j.chunk \in Chunk /\ k \in 1..Len(disk) /\ f \in Files
      /\ j.chunk \in Nat /\ Len(chunk[j.chunk].rows) \in Nat
  <2>1. j.part \in Nat /\ j.part <= part /\ j.part < Len(disk) /\ j.chunk \in Chunk
    BY DEF SinkInv, LateInv, TypeOK, SinkType, Jobs
  <2>2. k \in 1..Len(disk) /\ f \in Files /\ j.chunk \in Nat /\ chunk[j.chunk] \in Chunks
    BY <2>1, SinkFacts
  <2>3. chunk[j.chunk].rows \in Seq(Nat)
    BY <2>2 DEF Chunks
  <2> QED BY <2>1, <2>2, <2>3, LenProperties
<1>3. g \in Files /\ g.made = f.made /\ (f.made # j.made => g.chunks = f.chunks /\ g.rows = f.rows /\ g.closed = f.closed)
  <2>1. CASE f.made # j.made
    BY <2>1, <1>2 DEF Files
  <2>2. CASE f.made = j.made /\ j.job = "finish"
    BY <2>2, <1>2 DEF Files
  <2>3. CASE f.made = j.made /\ j.job # "finish"
    <3>1. g = Grown(f, j.chunk)
      BY <2>3
    <3> HIDE DEF g, f
    <3> QED BY <2>3, <3>1, <1>2, GrownFacts
  <2> QED BY <2>1, <2>2, <2>3
<1> HIDE DEF g
<1>4. /\ disk' \in Seq(Files) /\ Len(disk') = Len(disk) /\ disk'[k] = g
      /\ \A i \in 1..Len(disk) : i # k => disk'[i] = disk[i]
  <2>1. disk \in Seq(Files)
    BY DEF TypeOK, SinkType
  <2> QED BY <1>1, <1>2, <1>3, <2>1, ExceptSeq
<1>5. \A i \in 1..Len(disk) : disk'[i].made = disk[i].made
  BY <1>3, <1>4
<1>6. ASSUME NEW p \in Nat, p + 1 \in 1..Len(disk), Fresh(p)
      PROVE  /\ disk'[p + 1].chunks = disk[p + 1].chunks /\ disk'[p + 1].rows = disk[p + 1].rows
             /\ disk'[p + 1].closed = disk[p + 1].closed /\ Fresh(p)'
  <2>1. Fresh(p)'
    BY <1>1, <1>5, <1>6 DEF Fresh
  <2>2. CASE j.part = p
    BY <2>1, <2>2, <1>3, <1>4, <1>6 DEF Fresh
  <2>3. CASE j.part # p
    BY <2>1, <2>3, <1>2, <1>4, <1>6
  <2> QED BY <2>2, <2>3
<1>7. ChunkType' /\ SinkType' /\ Chunk' = Chunk /\ (Held' <=> Held)
  BY <1>1, <1>4 DEF TypeOK, ChunkType, SinkType, Chunk, Held
<1>8. LockInv' /\ CountedInv'
  BY <1>1, <1>7 DEF SinkInv, LockInv, CountedInv, MinRows
<1>9. LateInv'
  <2>1. ASSUME NEW i \in late'
        PROVE  i.part <= part /\ i.part < Len(disk') /\ i.chunk \in Chunk /\ i.made <= disk'[i.part + 1].made
    <3>1. i \in late /\ i.part <= part /\ i.part < Len(disk) /\ i.chunk \in Chunk /\ i.made <= disk[i.part + 1].made
      BY <1>1 DEF SinkInv, LateInv
    <3>2. i.part + 1 \in 1..Len(disk)
      <4>1. i.part \in Nat
        BY <3>1 DEF TypeOK, SinkType, Jobs
      <4> QED BY <4>1, <3>1, SinkFacts
    <3> QED BY <3>1, <3>2, <1>4, <1>5
  <2>2. ASSUME NEW p \in 0..(part - 1) PROVE Fresh(p)'
    <3>1. p \in Nat /\ p + 1 \in 1..Len(disk) /\ Fresh(p)
      BY SinkFacts DEF SinkInv, LateInv
    <3> QED BY <3>1, <1>6
  <2>3. Held => Fresh(part)' /\ part < Len(disk')
    <3>1. Held => part \in Nat /\ part + 1 \in 1..Len(disk) /\ Fresh(part) /\ part < Len(disk)
      BY SinkFacts DEF SinkInv, LateInv
    <3>2. PICK q \in Nat : q = part
      BY SinkFacts
    <3>3. Held => Fresh(q)'
      BY <3>1, <3>2, <1>6
    <3> QED BY <3>1, <3>2, <3>3, <1>1, <1>4 DEF Fresh
  <2>4. part <= Len(disk')
    BY <1>4 DEF SinkInv, LateInv
  <2> QED BY <1>1, <1>7, <2>1, <2>2, <2>3, <2>4 DEF LateInv, Fresh
<1>10. CurrentInv'
  <2>1. Held => /\ disk'[part + 1].chunks = disk[part + 1].chunks /\ disk'[part + 1].rows = disk[part + 1].rows
    <3>1. Held => part \in Nat /\ part + 1 \in 1..Len(disk) /\ Fresh(part)
      BY SinkFacts DEF SinkInv, LateInv
    <3> QED BY <3>1, <1>6
  <2>2. LastRows(disk[part + 1])' = Len(chunk[disk'[part + 1].chunks[Len(disk'[part + 1].chunks)]].rows)
    BY <1>1 DEF LastRows
  <2> QED BY <1>1, <1>7, <2>1, <2>2 DEF SinkInv, CurrentInv, Abandoned, LastRows, MinRows
<1>11. DoneInv'
  <2> SUFFICES ASSUME NEW d \in Chunk
               PROVE  /\ at[d] # "done" => of[d] = None /\ d \notin lost
                      /\ at[d] = "done" => /\ of[d] \in 0..part /\ of[d] < Len(disk')
                                           /\ d \notin lost =>
                                                LET h == disk'[of[d] + 1]
                                                IN /\ Once(d, h.chunks) /\ Fresh(of[d])'
                                                   /\ of[d] < part \/ end = "stopped" => h.closed
                                                   /\ of[d] = part /\ end = "run" => Held
    BY <1>1, <1>7 DEF DoneInv, Fresh
  <2>1. /\ at[d] # "done" => of[d] = None /\ d \notin lost
        /\ at[d] = "done" => /\ of[d] \in 0..part /\ of[d] < Len(disk)
                             /\ d \notin lost =>
                                 /\ Once(d, disk[of[d] + 1].chunks) /\ Fresh(of[d])
                                 /\ of[d] < part \/ end = "stopped" => disk[of[d] + 1].closed
                                 /\ of[d] = part /\ end = "run" => Held
    BY DEF SinkInv, DoneInv
  <2>2. CASE at[d] # "done"
    BY <2>1, <2>2
  <2>3. CASE at[d] = "done"
    <3>1. of[d] \in Nat /\ of[d] + 1 \in 1..Len(disk) /\ of[d] < Len(disk')
      BY <2>1, <2>3, <1>4, SinkFacts
    <3>2. d \notin lost => /\ disk'[of[d] + 1].chunks = disk[of[d] + 1].chunks
                           /\ disk'[of[d] + 1].closed = disk[of[d] + 1].closed /\ Fresh(of[d])'
      <4>1. PICK q \in Nat : q = of[d]
        BY <3>1
      <4>2. d \notin lost => /\ disk'[q + 1].chunks = disk[q + 1].chunks
                             /\ disk'[q + 1].closed = disk[q + 1].closed /\ Fresh(q)'
        BY <2>1, <2>3, <3>1, <4>1, <1>6
      <4> QED BY <4>1, <4>2, <1>1 DEF Fresh
    <3> QED BY <2>1, <2>3, <3>1, <3>2
  <2> QED BY <2>2, <2>3
<1>12. PartInv'
  <2>1. ASSUME NEW p \in 0..(part - 1)
        PROVE  disk'[p + 1].chunks = disk[p + 1].chunks /\ disk'[p + 1].rows = disk[p + 1].rows
    <3>1. p \in Nat /\ p + 1 \in 1..Len(disk) /\ Fresh(p)
      BY SinkFacts DEF SinkInv, LateInv
    <3> QED BY <3>1, <1>6
  <2> QED BY <1>1, <1>7, <2>1, PartKept DEF SinkInv
<1> QED BY <1>7, <1>8, <1>9, <1>10, <1>11, <1>12 DEF SinkStep, SinkInv

LEMMA CancelKeeps ==
  ASSUME TypeOK, SinkInv, Cancel
  PROVE  SinkStep
<1>1. /\ ~Locked /\ at' = [c \in Chunk |-> IF at[c] = "queued" THEN "failed" ELSE at[c]] /\ faults' = faults + 1
      /\ UNCHANGED <<rotate, chunk, writer, part, inPart, disk, late, lost, of, end>>
  BY DEF Cancel, Fault, sink
<1>2. Chunk' = Chunk /\ Chunk = 1..Len(chunk) /\ Len(chunk) \in Nat
  BY <1>1, SinkFacts DEF Chunk
<1>3. at' \in [Chunk -> Places] /\ at' \in Seq(Places)
  <2>1. at' \in [Chunk -> Places]
    BY <1>1 DEF TypeOK, ChunkType, Places
  <2> QED BY <1>2, <2>1
<1>4. \A c \in Chunk : /\ at[c] \notin Locks /\ at'[c] \notin Locks
                       /\ (at'[c] = "done" <=> at[c] = "done")
  BY <1>1 DEF Locked, Locks
<1>5. ChunkType' /\ SinkType'
  BY <1>1, <1>2, <1>3 DEF TypeOK, ChunkType, SinkType
<1>6. Held' <=> Held
  BY <1>1, <1>2, <1>4 DEF Held, Locks
<1>7. LockInv' /\ CountedInv'
  BY <1>1, <1>2, <1>4 DEF SinkInv, LockInv, CountedInv, Locks
<1>8. LateInv' /\ DoneInv'
  BY <1>1, <1>2, <1>4, <1>6 DEF SinkInv, LateInv, DoneInv, Fresh, Once
<1>9. CurrentInv'
  <2>1. ~\E c \in Chunk : at'[c] = "write"
    BY <1>4 DEF Locks
  <2>2. ~\E c \in Chunk : at[c] = "write"
    BY <1>4 DEF Locks
  <2> QED BY <1>1, <1>2, <1>4, <1>6, <2>1, <2>2 DEF SinkInv, CurrentInv, Abandoned, LastRows, MinRows
<1>10. PartInv'
  BY <1>1, <1>2, PartKept DEF SinkInv
<1> QED BY <1>5, <1>7, <1>8, <1>9, <1>10 DEF SinkStep, SinkInv

LEMMA StopKeeps ==
  ASSUME TypeOK, SinkInv, NEW ok \in BOOLEAN, OnStop(ok)
  PROVE  SinkStep
<1>1. /\ end = "run" /\ (\A c \in Chunk : at[c] \in {"done", "failed"}) /\ end' = "stopped" /\ writer' = FALSE
      /\ UNCHANGED <<rotate, chunk, at, part, inPart, late, of>>
  BY DEF OnStop
<1>2. Chunk' = Chunk /\ (\A c \in Chunk : at[c] \notin Locks) /\ ~Held' /\ (Held <=> writer)
  BY <1>1 DEF Chunk, Held, Locks
<1>3. /\ disk' \in Seq(Files) /\ Len(disk') = Len(disk) /\ lost \subseteq lost' /\ lost' \subseteq Chunk
      /\ faults' \in Nat /\ (\A c \in lost' : c \in lost \/ of[c] = part)
      /\ (writer => (part + 1 \in 1..Len(disk) /\ disk'[part + 1].closed) \/ (\A c \in Chunk : of[c] = part => c \in lost'))
      /\ \A i \in 1..Len(disk) : /\ disk'[i].chunks = disk[i].chunks /\ disk'[i].rows = disk[i].rows
                                 /\ disk'[i].made = disk[i].made /\ (disk[i].closed => disk'[i].closed)
  <2>1. disk \in Seq(Files) /\ lost \subseteq Chunk /\ faults \in Nat
    BY DEF TypeOK, SinkType
  <2>2. CASE ~writer
    BY <2>1, <2>2 DEF OnStop
  <2>3. CASE writer /\ ok
    <3> DEFINE g == [disk[part + 1] EXCEPT !.closed = TRUE]
    <3>1. disk' = [disk EXCEPT ![part + 1] = g] /\ UNCHANGED <<lost, faults>>
      BY <2>3 DEF OnStop
    <3>2. part + 1 \in 1..Len(disk) /\ disk[part + 1] \in Files
      BY <2>3, SinkFacts DEF SinkInv, LateInv, Held
    <3>3. /\ g \in Files /\ g.closed = TRUE /\ g.chunks = disk[part + 1].chunks /\ g.rows = disk[part + 1].rows
          /\ g.made = disk[part + 1].made
      BY <3>2 DEF Files
    <3> HIDE DEF g
    <3>4. /\ disk' \in Seq(Files) /\ Len(disk') = Len(disk)
          /\ \A i \in 1..Len(disk) : disk'[i] = IF i = part + 1 THEN g ELSE disk[i]
      BY <2>1, <3>1, <3>2, <3>3, ExceptSeq
    <3> QED BY <2>1, <3>1, <3>2, <3>3, <3>4
  <2>4. CASE writer /\ ~ok
    <3>1. Fault /\ Loses /\ disk' = disk
      BY <2>4 DEF OnStop
    <3> QED BY <2>1, <3>1 DEF Fault, Loses
  <2> QED BY <2>2, <2>3, <2>4
<1>4. ChunkType' /\ SinkType'
  BY <1>1, <1>2, <1>3 DEF TypeOK, ChunkType, SinkType
<1>5. LockInv' /\ CountedInv' /\ CurrentInv'
  BY <1>1, <1>2 DEF SinkInv, LockInv, CountedInv, CurrentInv, Locks
<1>6. \A p \in Nat : p + 1 \in 1..Len(disk) /\ Fresh(p) => Fresh(p)'
  BY <1>1, <1>3 DEF Fresh
<1>7. LateInv'
  <2>1. ASSUME NEW j \in late
        PROVE  j.part <= part /\ j.part < Len(disk') /\ j.chunk \in Chunk /\ j.made <= disk'[j.part + 1].made
    <3>1. j.part <= part /\ j.part < Len(disk) /\ j.chunk \in Chunk /\ j.made <= disk[j.part + 1].made
      BY DEF SinkInv, LateInv
    <3>2. j.part \in Nat
      BY DEF TypeOK, SinkType, Jobs
    <3>3. j.part + 1 \in 1..Len(disk)
      BY <3>1, <3>2, SinkFacts
    <3> QED BY <3>1, <3>3, <1>3
  <2>2. ASSUME NEW p \in 0..(part - 1) PROVE Fresh(p)'
    <3>1. p \in Nat /\ p + 1 \in 1..Len(disk) /\ Fresh(p)
      BY SinkFacts DEF SinkInv, LateInv
    <3> QED BY <3>1, <1>6
  <2>3. part <= Len(disk')
    BY <1>3 DEF SinkInv, LateInv
  <2> QED BY <1>1, <1>2, <2>1, <2>2, <2>3 DEF LateInv
<1>8. DoneInv'
  <2> SUFFICES ASSUME NEW d \in Chunk
               PROVE  /\ at[d] # "done" => of[d] = None /\ d \notin lost'
                      /\ at[d] = "done" => /\ of[d] \in 0..part /\ of[d] < Len(disk')
                                           /\ d \notin lost' =>
                                                LET h == disk'[of[d] + 1]
                                                IN Once(d, h.chunks) /\ Fresh(of[d])' /\ h.closed
    BY <1>1, <1>2 DEF DoneInv, Fresh
  <2>1. /\ at[d] # "done" => of[d] = None /\ d \notin lost
        /\ at[d] = "done" => /\ of[d] \in 0..part /\ of[d] < Len(disk)
                             /\ d \notin lost =>
                                 /\ Once(d, disk[of[d] + 1].chunks) /\ Fresh(of[d])
                                 /\ of[d] < part => disk[of[d] + 1].closed
                                 /\ of[d] = part => Held
    BY <1>1 DEF SinkInv, DoneInv
  <2>2. CASE at[d] # "done"
    <3>1. of[d] # part
      BY <2>1, <2>2, Constants, SinkFacts
    <3> QED BY <2>1, <2>2, <3>1, <1>3
  <2>3. CASE at[d] = "done"
    <3>1. PICK q \in Nat : q = of[d]
      BY <2>1, <2>3, SinkFacts
    <3>2. q \in 0..part /\ q + 1 \in 1..Len(disk) /\ q < Len(disk')
      BY <2>1, <2>3, <3>1, <1>3, SinkFacts
    <3>3. d \notin lost' => d \notin lost
      BY <1>3
    <3>4. d \notin lost' => Fresh(q)' /\ Once(d, disk'[q + 1].chunks)
      BY <2>1, <2>3, <3>1, <3>2, <3>3, <1>3, <1>6
    <3>5. d \notin lost' => disk'[q + 1].closed
      <4>1. CASE q = part
        BY <4>1, <2>1, <2>3, <3>1, <3>3, <1>2, <1>3
      <4>2. CASE q # part
        BY <4>2, <2>1, <2>3, <3>1, <3>2, <3>3, <1>3, SinkFacts
      <4> QED BY <4>1, <4>2
    <3>6. d \notin lost' => Fresh(of[d])'
      BY <3>1, <3>4, <1>1 DEF Fresh
    <3> QED BY <2>3, <3>1, <3>2, <3>4, <3>5, <3>6
  <2> QED BY <2>2, <2>3
<1>9. PartInv'
  <2>1. \A p \in 0..(part - 1) : p + 1 \in 1..Len(disk)
    BY SinkFacts DEF SinkInv, LateInv
  <2> QED BY <1>1, <1>2, <1>3, <2>1, PartKept DEF SinkInv
<1> QED BY <1>4, <1>5, <1>7, <1>8, <1>9 DEF SinkStep, SinkInv

LEMMA EmitKeeps ==
  ASSUME TypeOK, SinkInv, Emit
  PROVE  SinkStep
<1> DEFINE n == Len(chunk)
           new == [key |-> index, rows |-> taken, tries |-> 0]
<1>1. /\ chunk' = Append(chunk, new) /\ at' = Append(at, "queued") /\ of' = Append(of, None)
      /\ UNCHANGED <<rotate, writer, part, inPart, disk, late, lost, end, faults>>
  BY DEF Emit
<1>2. /\ chunk \in Seq(Chunks) /\ new \in Chunks /\ at \in Seq(Places) /\ "queued" \in Places
      /\ of \in Seq(Nat \cup {None})
  BY DEF TypeOK, ChunkType, ReaderType, Chunks, Places
<1> HIDE DEF new
<1>3. n \in Nat /\ Chunk = 1..n /\ Len(at) = n /\ Len(of) = n
  <2>1. DOMAIN at = Chunk /\ DOMAIN of = Chunk
    BY DEF TypeOK, ChunkType
  <2>2. n \in Nat /\ DOMAIN chunk = 1..n /\ DOMAIN at = 1..Len(at) /\ DOMAIN of = 1..Len(of)
        /\ Len(at) \in Nat /\ Len(of) \in Nat
    BY <1>2, LenProperties
  <2> QED BY <2>1, <2>2 DEF Chunk
<1>4. /\ chunk' \in Seq(Chunks) /\ at' \in Seq(Places) /\ of' \in Seq(Nat \cup {None})
      /\ Chunk' = 1..(n + 1) /\ DOMAIN at' = 1..(n + 1) /\ DOMAIN of' = 1..(n + 1)
      /\ at'[n + 1] = "queued" /\ of'[n + 1] = None
      /\ \A c \in 1..n : chunk'[c] = chunk[c] /\ at'[c] = at[c] /\ of'[c] = of[c]
  BY <1>1, <1>2, <1>3 DEF Chunk
<1> HIDE DEF n
<1>5. /\ Chunk \subseteq Chunk' /\ n + 1 \notin Chunk /\ (\A c \in Chunk' : c \in Chunk \/ c = n + 1)
      /\ \A c \in Chunk : chunk'[c] = chunk[c] /\ at'[c] = at[c] /\ of'[c] = of[c]
  BY <1>3, <1>4
<1>6. ChunkType' /\ SinkType'
  <2>1. at' \in [Chunk' -> Places] /\ of' \in [Chunk' -> Nat \cup {None}]
    BY <1>4, LenProperties
  <2>2. lost' \subseteq Chunk'
    BY <1>1, <1>5 DEF TypeOK, SinkType
  <2> QED BY <1>1, <1>4, <2>1, <2>2 DEF TypeOK, ChunkType, SinkType
<1>7. /\ \A c \in Chunk' : at'[c] \in Locks \/ at'[c] = "done" => c \in Chunk
      /\ (Held' <=> Held)
      /\ (\E c \in Chunk' : at'[c] = "write") <=> (\E c \in Chunk : at[c] = "write")
  BY <1>1, <1>4, <1>5 DEF Held, Locks
<1>8. LockInv'
  <2>1. \A c \in Chunk' : at'[c] \in Locks => c \in Chunk /\ at[c] \in Locks
    BY <1>5, <1>7
  <2>2. \A c \in Chunk' : at'[c] = "finish" => c \in Chunk /\ at[c] = "finish"
    BY <1>5, <1>7 DEF Locks
  <2> QED BY <1>1, <2>1, <2>2 DEF SinkInv, LockInv, MinRows
<1>9. CountedInv'
  BY <1>1, <1>5 DEF SinkInv, CountedInv
<1>10. LateInv'
  BY <1>1, <1>5, <1>7 DEF SinkInv, LateInv, Fresh
<1>11. \A c \in lost : c \in Chunk /\ of'[c] = of[c]
  BY <1>5 DEF TypeOK, SinkType
<1>12. CurrentInv'
  <2> SUFFICES ASSUME Held
               PROVE  LET f == disk[part + 1]
                      IN /\ f.rows <= inPart /\ (f.rows = inPart \/ Abandoned(part)')
                         /\ \A i \in DOMAIN f.chunks : /\ f.chunks[i] \in Chunk' /\ at'[f.chunks[i]] = "done"
                                                       /\ of'[f.chunks[i]] = part
                         /\ ~(\E c \in Chunk : at[c] = "write") =>
                               f.chunks # <<>> /\ (rotate # None => f.rows - LastRows(f)' < MinRows)
                         /\ (\E c \in Chunk : at[c] = "write") /\ rotate # None => f.rows < MinRows
    BY <1>1, <1>7 DEF CurrentInv, Abandoned, LastRows, MinRows
  <2> DEFINE f == disk[part + 1]
  <2>1. /\ f.rows <= inPart /\ (f.rows = inPart \/ Abandoned(part))
        /\ \A i \in DOMAIN f.chunks : f.chunks[i] \in Chunk /\ at[f.chunks[i]] = "done" /\ of[f.chunks[i]] = part
        /\ ~(\E c \in Chunk : at[c] = "write") => f.chunks # <<>> /\ (rotate # None => f.rows - LastRows(f) < MinRows)
        /\ (\E c \in Chunk : at[c] = "write") /\ rotate # None => f.rows < MinRows
    BY DEF SinkInv, CurrentInv
  <2>2. Abandoned(part) => Abandoned(part)'
    BY <1>1, <1>11 DEF Abandoned
  <2>3. f \in Files
    BY SinkFacts DEF SinkInv, LateInv
  <2>4. f.chunks # <<>> => LastRows(f)' = LastRows(f)
    <3>1. f.chunks # <<>> => Len(f.chunks) \in DOMAIN f.chunks
      BY <2>3, FileFacts
    <3> QED BY <3>1, <2>1, <1>1, <1>5 DEF LastRows
  <2> QED BY <2>1, <2>2, <2>4, <1>5
<1>13. DoneInv'
  <2> SUFFICES ASSUME NEW d \in Chunk'
               PROVE  /\ at'[d] # "done" => of'[d] = None /\ d \notin lost
                      /\ at'[d] = "done" => /\ of'[d] \in 0..part /\ of'[d] < Len(disk)
                                            /\ d \notin lost =>
                                                 LET f == disk[of'[d] + 1]
                                                 IN /\ Once(d, f.chunks) /\ Fresh(of'[d])
                                                    /\ of'[d] < part \/ end = "stopped" => f.closed
                                                    /\ of'[d] = part /\ end = "run" => Held
    BY <1>1, <1>7 DEF DoneInv, Fresh
  <2>1. CASE d \in Chunk
    BY <2>1, <1>5 DEF SinkInv, DoneInv
  <2>2. CASE d = n + 1
    BY <2>2, <1>4, <1>5, <1>11
  <2> QED BY <2>1, <2>2, <1>5
<1>14. PartInv'
  BY <1>1, <1>5, <1>11, PartKept DEF SinkInv
<1> QED BY <1>6, <1>8, <1>9, <1>10, <1>12, <1>13, <1>14 DEF SinkStep, SinkInv

(* Reading does not touch the sink.                                        *)
LEMMA ReadingKeeps ==
  ASSUME TypeOK, SinkInv, UNCHANGED <<rotate, chunk, at, sink, end>>, faults' \in Nat
  PROVE  SinkStep
<1>1. ChunkType' /\ SinkType' /\ Chunk' = Chunk
  BY DEF TypeOK, ChunkType, SinkType, Chunk, sink
<1>2. LockInv' /\ LateInv' /\ CountedInv'
  BY <1>1 DEF SinkInv, LockInv, LateInv, CountedInv, Held, Fresh, MinRows, sink
<1>3. CurrentInv'
  BY <1>1 DEF SinkInv, CurrentInv, Held, Abandoned, LastRows, MinRows, sink
<1>4. DoneInv'
  BY <1>1 DEF SinkInv, DoneInv, Held, Fresh, Once, sink
<1>5. PartInv'
  BY <1>1, PartKept DEF SinkInv, sink
<1> QED BY <1>1, <1>2, <1>3, <1>4, <1>5 DEF SinkStep, SinkInv

-----------------------------------------------------------------------------
(* Theorems.                                                               *)

LEMMA InitInv == Init => Inv
<1> SUFFICES ASSUME Init PROVE Inv
  OBVIOUS
<1>1. /\ reading = "idle" /\ pulled = 0 /\ exhausted = FALSE /\ buffer = <<>> /\ buffered = 0 /\ taken = <<>>
      /\ index = 0 /\ tries = 0 /\ chunk = <<>> /\ at = <<>> /\ of = <<>> /\ writer = FALSE /\ part = 0
      /\ inPart = 0 /\ disk = <<>> /\ late = {} /\ lost = {} /\ end = "run" /\ faults = 0
  BY DEF Init
<1>2. FileType
  BY DEF Init, FileType
<1>3. ReaderType
  <2>1. 0 \in 0..Len(layout)
    BY <1>2, RecordsAssumption, LenProperties DEF FileType
  <2> QED BY <1>1, <2>1, EmptySeq DEF ReaderType, Modes
<1>4. Chunk = {} /\ DOMAIN at = {} /\ DOMAIN of = {}
  BY <1>1, LenProperties, EmptySeq DEF Chunk
<1>5. ChunkType
  <2>1. at \in Seq(Places) /\ of \in Seq(Nat \cup {None}) /\ chunk \in Seq(Chunks)
    BY <1>1, EmptySeq
  <2>2. at \in [Chunk -> Places] /\ of \in [Chunk -> Nat \cup {None}]
    BY <2>1, <1>4, LenProperties
  <2> QED BY <2>1, <2>2 DEF ChunkType
<1>6. SinkType
  BY <1>1, EmptySeq DEF SinkType
<1>7. ReaderInv /\ ChunkInv
  BY <1>1, <1>4 DEF ReaderInv, ChunkInv
<1>8. ~Held
  BY <1>1, <1>4 DEF Held
<1>9. LockInv /\ CurrentInv /\ CountedInv /\ DoneInv
  BY <1>1, <1>4, <1>8 DEF LockInv, CurrentInv, CountedInv, DoneInv
<1>10. LateInv /\ PartInv
  <2>1. Len(disk) = 0 /\ 0..(part - 1) = {}
    BY <1>1, EmptySeq
  <2> QED BY <1>1, <1>8, <2>1 DEF LateInv, PartInv
<1> QED BY <1>2, <1>3, <1>5, <1>6, <1>7, <1>9, <1>10 DEF Inv, TypeOK, SinkInv

LEMMA NextInv == Inv /\ [Next]_vars => Inv'
<1> SUFFICES ASSUME Inv, [Next]_vars PROVE ReaderStep /\ SinkStep
  BY DEF Inv, ReaderStep, SinkStep, TypeOK
<1>1. TypeOK /\ ReaderInv /\ ChunkInv /\ SinkInv
  BY DEF Inv
<1>2. faults \in Nat
  BY <1>1 DEF TypeOK, SinkType
<1>3. CASE OpenSource
  BY <1>1, <1>2, <1>3, OpenReads, ReadingKeeps DEF OpenSource
<1>4. CASE Pull
  BY <1>1, <1>2, <1>4, PullReads, ReadingKeeps DEF Pull
<1>5. CASE Filled
  BY <1>1, <1>2, <1>5, FilledReads, ReadingKeeps DEF Filled
<1>6. CASE Take
  BY <1>1, <1>2, <1>6, TakeReads, ReadingKeeps DEF Take
<1>7. CASE Emit
  BY <1>1, <1>7, EmitReads, EmitKeeps
<1>8. CASE ReadFails
  <2>1. /\ UNCHANGED <<layout, rotate, framed, tries, read, chunk, at, sink, end>> /\ faults' = faults + 1
        /\ reading' \in {"idle", "failed"}
    BY <1>8 DEF ReadFails, Fault
  <2>2. Chunk' = Chunk
    BY <2>1 DEF Chunk
  <2> QED BY <1>1, <1>2, <2>1, <2>2, OthersRead, ReadingKeeps
<1>9. CASE Cancel
  <2>1. UNCHANGED <<layout, rotate, framed, tries, read, chunk>> /\ (reading' = reading \/ reading' \in {"idle", "failed"})
    BY <1>9 DEF Cancel
  <2>2. Chunk' = Chunk
    BY <2>1 DEF Chunk
  <2> QED BY <1>1, <1>9, <2>1, <2>2, OthersRead, CancelKeeps
<1>10. ASSUME NEW c \in Chunk, Write(c) \/ Rotate(c) \/ Open(c) \/ Written(c)
       PROVE  ReaderStep /\ SinkStep
  <2>1. UNCHANGED <<layout, rotate, framed, tries, read, reading, chunk>>
    BY <1>10 DEF Write, Rotate, Open, Written, source
  <2>2. Chunk' = Chunk
    BY <2>1 DEF Chunk
  <2>3. ReaderStep
    BY <1>1, <2>1, <2>2, OthersRead
  <2>4. SinkStep
    BY <1>1, <1>10, WriteKeeps, RotateKeeps, OpenKeeps, WrittenKeeps
  <2> QED BY <2>3, <2>4
<1>11. ASSUME NEW c \in Chunk, WriteFails(c) \/ WriteDropped(c)
       PROVE  ReaderStep /\ SinkStep
  <2>1. UNCHANGED <<layout, rotate, framed, tries, read, reading>> /\ Again(c)
    BY <1>11 DEF WriteFails, WriteDropped, source
  <2>2. ReaderStep
    BY <1>1, <2>1, AgainFacts, OthersRead
  <2>3. SinkStep
    BY <1>1, <1>11, FailsKeeps, DroppedKeeps
  <2> QED BY <2>2, <2>3
<1>12. ASSUME NEW j \in late, Lands(j)
       PROVE  ReaderStep /\ SinkStep
  <2>1. UNCHANGED <<layout, rotate, framed, tries, read, reading, chunk>>
    BY <1>12 DEF Lands, source
  <2>2. Chunk' = Chunk
    BY <2>1 DEF Chunk
  <2> QED BY <1>1, <1>12, <2>1, <2>2, OthersRead, LandsKeeps
<1>13. ASSUME NEW ok \in BOOLEAN, OnStop(ok)
       PROVE  ReaderStep /\ SinkStep
  <2>1. UNCHANGED <<layout, rotate, framed, tries, read, reading, chunk>>
    BY <1>13 DEF OnStop, source
  <2>2. Chunk' = Chunk
    BY <2>1 DEF Chunk
  <2> QED BY <1>1, <1>13, <2>1, <2>2, OthersRead, StopKeeps
<1>14. CASE UNCHANGED vars
  <2>1. UNCHANGED <<layout, rotate, framed, tries, read, reading, chunk, at, sink, end, faults>>
    BY <1>14 DEF vars, source
  <2>2. Chunk' = Chunk
    BY <2>1 DEF Chunk
  <2> QED BY <1>1, <1>2, <2>1, <2>2, OthersRead, ReadingKeeps
<1> QED BY <1>3, <1>4, <1>5, <1>6, <1>7, <1>8, <1>9, <1>10, <1>11, <1>12, <1>13, <1>14 DEF Next

LEMMA InvHolds == Spec => []Inv
BY InitInv, NextInv, PTL DEF Spec

(* Every variable keeps its type: in particular buffered_rows, from which  *)
(* the rows yielded are subtracted, never falls below zero                 *)
(* (ReBatch::next_chunk).                                                  *)
THEOREM Types == Spec => []TypeOK
<1>1. Inv => TypeOK
  BY DEF Inv
<1> QED BY <1>1, InvHolds, PTL

(* Whatever the batches, the chunk size and the failures, chunk path#i     *)
(* holds the i-th run of chunk_rows rows, and a read that ends has yielded *)
(* all of them (ReBatch::next_chunk, FormatSource::next).                  *)
THEOREM ExactChunks == Spec => []ChunksExact
<1>1. ASSUME Inv PROVE ChunksExact
  <2>1. TypeOK /\ ChunkInv
    BY <1>1 DEF Inv
  <2>2. ASSUME reading = "done"
        PROVE  {chunk[c].key : c \in Chunk} = {i \in 0..Total : i * ChunkRows < Total}
    <3>1. Total \in Nat
      <4>1. FileType
        BY <2>1 DEF TypeOK
      <4>2. Len(layout) \in Nat
        BY <4>1, RecordsAssumption, LenProperties DEF FileType
      <4> QED BY <4>1, <4>2, EndType DEF Total
    <3>2. ASSUME NEW c \in Chunk PROVE chunk[c].key \in {i \in 0..Total : i * ChunkRows < Total}
      <4>1. chunk[c].key \in Nat
        BY <2>1, SinkFacts DEF Chunks
      <4>2. chunk[c].key * ChunkRows < Total /\ chunk[c].key * ChunkRows \in Nat /\ chunk[c].key <= chunk[c].key * ChunkRows
        BY <2>1, <4>1, Products DEF ChunkInv
      <4>3. chunk[c].key <= Total
        BY <3>1, <4>1, <4>2
      <4> QED BY <3>1, <4>1, <4>2, <4>3
    <3>3. ASSUME NEW i \in {k \in 0..Total : k * ChunkRows < Total} PROVE i \in {chunk[c].key : c \in Chunk}
      BY <2>1, <2>2 DEF ChunkInv
    <3> QED BY <3>2, <3>3
  <2> QED BY <2>1, <2>2 DEF ChunksExact, ChunkInv
<1> QED BY <1>1, InvHolds, PTL

(* For every file buffer.remove(0) finds a batch (ReBatch::next_chunk).    *)
THEOREM RemovesFind == Spec => []RemoveFinds
<1>1. ASSUME Inv PROVE RemoveFinds
  <2>1. SUFFICES ASSUME reading = "cut", Len(taken) < Want, buffer = <<>> PROVE FALSE
    BY DEF RemoveFinds
  <2>2. ReaderType /\ BufferInv
    BY <1>1, <2>1 DEF Inv, TypeOK, ReaderInv
  <2>3. buffered = Len(taken) /\ Want <= buffered /\ Want \in Nat /\ buffered \in Nat
    BY <2>1, <2>2, WantType DEF BufferInv, ReaderType
  <2> QED BY <2>1, <2>3
<1> QED BY <1>1, InvHolds, PTL

(* An acknowledged chunk is in its part, once, when the run is over,       *)
(* unless the writer of that part was lost after it or a job left behind   *)
(* wrote into the file; and a part is left for the next one when it holds  *)
(* rotate_rows rows, not before and not later (RotatingRecordSink::write). *)
THEOREM KeptParts == Spec => []PartsKeep
<1>1. ASSUME Inv PROVE PartsKeep
  <2>1. TypeOK /\ SinkInv
    BY <1>1 DEF Inv
  <2>2. ASSUME end = "stopped", NEW c \in Chunk, at[c] = "done", c \notin lost, ~disk[of[c] + 1].torn
        PROVE  Once(c, Readable(disk[of[c] + 1]))
    <3>1. Once(c, disk[of[c] + 1].chunks) /\ disk[of[c] + 1].closed
      BY <2>1, <2>2 DEF SinkInv, DoneInv
    <3> QED BY <3>1, <2>2 DEF Readable
  <2>3. ASSUME NEW p \in 0..(part - 1)
        PROVE  LET f == disk[p + 1]
               IN /\ f.rows - Len(chunk[f.chunks[Len(f.chunks)]].rows) < MinRows
                  /\ f.rows >= MinRows \/ \E c \in lost : of[c] = p
    BY <2>1 DEF SinkInv, PartInv, LastRows, Abandoned
  <2> QED BY <2>2, <2>3 DEF PartsKeep
<1> QED BY <1>1, InvHolds, PTL

=============================================================================
