-------------------------- MODULE DiscReaderProofs --------------------------
(***************************************************************************)
(* Proofs about the disc image reader: what its buffers hold, what the     *)
(* sector it keeps is, and when a read fails.                              *)
(***************************************************************************)
EXTENDS DiscReader, SequenceTheorems, TLAPS

Buffers == [offset : Nat, size : Nat, data : Seq(Int)]

Typed ==
  /\ m_buffer \in [0..1 -> Buffers] /\ m_nextBuffer \in 0..1 /\ i \in 0..3
  /\ isotype \in 1..Len(Types) /\ m_amtRead \in Int /\ m_amtRead >= -1
  /\ phase \in {"closed", "detect", "open"}
  /\ pc \in {"idle", "cached", "decompress", "failed"}
  /\ caller \in {"detect", "sync", "begin"}

(* A call has n cells, those from first to off, and still wants the rest of *)
(* the sector.                                                              *)
Has(n) ==
  /\ first \in Nat /\ off = first + n /\ remaining \in Nat
  /\ n + remaining = m_blocksize
  /\ out = Cells(first, n)
Progress == \E n \in Nat : Has(n)
CallIntact == pc # "idle" => Progress

\* m_readbuffer holds the sector it is taken for.
Sector == m_readbuffer = Cells(Position(isotype, m_read_lsn), m_blocksize)

(* Who is reading decides what is known of the sector that is kept.  A read *)
(* of InputIsoFile's own is of the sector m_read_lsn.  A ReadSync that does  *)
(* not overtake a failure found the sector whole and leaves it alone.  As    *)
(* long as the format is not known no sector is kept.                        *)
Kept ==
  /\ phase # "open" => m_read_lsn = -1 /\ m_read_inprogress = 0
  /\ pc # "idle" => (caller = "detect" <=> phase = "detect")
  /\ pc # "idle" /\ caller = "begin" =>
       m_read_inprogress = 1 /\ first = Position(isotype, m_read_lsn)
  /\ pc # "idle" /\ caller = "sync" /\ m_read_lsn >= 0 /\ overtaken = 0 => Sector
  /\ phase = "detect" => pc # "idle"

IInv == Typed /\ BuffersIntact /\ CallIntact /\ Kept /\ SectorIntact /\ FailsForCause
-----------------------------------------------------------------------------
\* The image

LEMMA CellsFacts ==
  ASSUME NEW a \in Int, NEW n \in Nat
  PROVE  /\ Cells(a, n) \in Seq(Int) /\ Len(Cells(a, n)) = n
         /\ \A k \in 1..n : Cells(a, n)[k] = a + k - 1
BY DEF Cells

LEMMA CellsNone ==
  ASSUME NEW a \in Int
  PROVE  Cells(a, 0) = <<>>
<1>1. Cells(a, 0) \in Seq(Int) /\ Len(Cells(a, 0)) = 0
  BY CellsFacts
<1> QED BY <1>1, EmptySeq

\* Cells that follow each other.
LEMMA CellsConcat ==
  ASSUME NEW a \in Int, NEW n \in Nat, NEW m \in Nat
  PROVE  Cells(a, n) \o Cells(a + n, m) = Cells(a, n + m)
<1> DEFINE s == Cells(a, n)
           t == Cells(a + n, m)
           u == Cells(a, n + m)
<1>1. /\ s \in Seq(Int) /\ Len(s) = n /\ \A k \in 1..n : s[k] = a + k - 1
      /\ t \in Seq(Int) /\ Len(t) = m /\ \A k \in 1..m : t[k] = a + n + k - 1
      /\ u \in Seq(Int) /\ Len(u) = n + m /\ \A k \in 1..(n + m) : u[k] = a + k - 1
  BY CellsFacts
<1> HIDE DEF s, t, u
<1>2. s \o t \in Seq(Int) /\ Len(s \o t) = n + m
  BY <1>1, ConcatProperties, Zenon
<1>3. \A k \in 1..(n + m) : (s \o t)[k] = u[k]
  <2> TAKE k \in 1..(n + m)
  <2>1. CASE k <= n
    BY <1>1, <2>1
  <2>2. CASE k > n
    <3>1. k - n \in 1..m
      BY <2>2
    <3>2. (s \o t)[k] = t[k - n]
      BY <1>1, <2>2, SMTT(30)
    <3> QED BY <1>1, <3>1, <3>2
  <2>3. k <= n \/ k > n
    OBVIOUS
  <2> QED BY <2>1, <2>2, <2>3, ZenonT(30)
<1>4. s \o t = u
  BY <1>1, <1>2, <1>3, SeqEqual, ZenonT(30)
<1> QED BY <1>4 DEF s, t, u

\* Cells out of the middle.
LEMMA CellsSub ==
  ASSUME NEW a \in Int, NEW n \in Nat, NEW d \in Nat, NEW m \in Nat, d + m <= n
  PROVE  SubSeq(Cells(a, n), d + 1, d + m) = Cells(a + d, m)
<1> DEFINE s == Cells(a, n)
           u == Cells(a + d, m)
<1>1. /\ s \in Seq(Int) /\ Len(s) = n /\ \A k \in 1..n : s[k] = a + k - 1
      /\ u \in Seq(Int) /\ Len(u) = m /\ \A k \in 1..m : u[k] = a + d + k - 1
  BY CellsFacts
<1> HIDE DEF s, u
<1>2. /\ SubSeq(s, d + 1, d + m) \in Seq(Int) /\ Len(SubSeq(s, d + 1, d + m)) = m
      /\ \A k \in 1..m : SubSeq(s, d + 1, d + m)[k] = s[d + k]
  BY <1>1
<1>3. \A k \in 1..m : SubSeq(s, d + 1, d + m)[k] = u[k]
  BY <1>1, <1>2
<1>4. SubSeq(s, d + 1, d + m) = u
  BY <1>1, <1>2, <1>3, SeqEqual
<1> QED BY <1>4 DEF s, u

\* The chunk of a cell of the image has that cell; past the end there is none.
LEMMA ChunkFacts ==
  ASSUME NEW o \in Nat
  PROVE  LET chunk == ChunkForOffset(o)
         IN /\ chunk.offset \in Nat /\ chunk.length \in Nat /\ chunk.offset <= o
            /\ o < FileSize => o < chunk.offset + chunk.length
            /\ o >= FileSize => chunk.length = 0
<1>1. CASE o >= FileSize
  BY <1>1, DiscReaderAssumption DEF ChunkForOffset
<1>2. CASE o < FileSize
  <2> DEFINE start == (o \div span) * span
  <2>1. start \in Nat /\ start <= o /\ o < start + span
    BY DiscReaderAssumption
  <2>2. ChunkForOffset(o) = [offset |-> start, length |-> Least(FileSize - start, span)]
    BY <1>2, DiscReaderAssumption DEF ChunkForOffset
  <2> HIDE DEF start
  <2> QED BY <1>2, <2>1, <2>2, DiscReaderAssumption DEF Least
<1> QED BY <1>1, <1>2, DiscReaderAssumption

LEMMA PositionNat ==
  ASSUME NEW t \in 1..Len(Types), NEW lsn \in Nat
  PROVE  Position(t, lsn) \in Nat /\ Types[t].size \in Nat \ {0}
<1>1. Types[t] \in [size : Nat \ {0}, offset : Nat]
  BY DiscReaderAssumption, ElementOfSeq, ZenonT(30)
<1> QED BY <1>1 DEF Position
-----------------------------------------------------------------------------
\* Inside a call

\* Cells that follow those the call has are taken.
LEMMA Taken ==
  ASSUME Progress, NEW m \in Nat, m <= remaining, out' = out \o Cells(off, m),
         remaining' = remaining - m, off' = off + m, UNCHANGED <<first, isotype>>
  PROVE  Progress'
<1>1. PICK n \in Nat : Has(n)
  BY DEF Progress
<1>2. /\ first \in Nat /\ off = first + n /\ remaining \in Nat
      /\ n + remaining = m_blocksize /\ out = Cells(first, n)
  BY <1>1 DEF Has
<1>3. Cells(first, n) \o Cells(first + n, m) = Cells(first, n + m)
  <2>1. first \in Int
    BY <1>2
  <2> QED BY <2>1, CellsConcat, Zenon
<1>4. out' = Cells(first', n + m)
  BY <1>2, <1>3
<1>5. remaining' \in Nat /\ off' = first' + (n + m) /\ (n + m) + remaining' = n + remaining
  BY <1>2
<1>6. Has(n + m)'
  BY <1>2, <1>4, <1>5, ZenonT(30) DEF Has, m_blocksize
<1> QED BY <1>6 DEF Progress

\* What Copy takes from a buffer that has the cell at off.
LEMMA Copied ==
  ASSUME Progress, NEW buf, buf.offset \in Nat, buf.size \in Nat,
         buf.data = Cells(buf.offset, buf.size),
         buf.offset <= off, off < buf.offset + buf.size,
         Copy(buf), UNCHANGED <<first, isotype>>
  PROVE  Progress'
<1> DEFINE len == Least(buf.offset + buf.size - off, remaining)
           d == off - buf.offset
<1>1. off \in Nat /\ remaining \in Nat
  BY DEF Progress, Has
<1>2. /\ len \in Nat /\ len <= remaining /\ d \in Nat /\ d + len <= buf.size
      /\ buf.offset + d = off
  BY <1>1 DEF Least
<1>3. /\ out' = out \o SubSeq(buf.data, d + 1, d + len)
      /\ remaining' = remaining - len /\ off' = off + len
  BY DEF Copy
<1> HIDE DEF len, d
<1>4. SubSeq(Cells(buf.offset, buf.size), d + 1, d + len) = Cells(buf.offset + d, len)
  <2>1. buf.offset \in Int /\ buf.size \in Nat
    OBVIOUS
  <2> QED BY <1>2, <2>1, CellsSub, Zenon
<1>5. SubSeq(buf.data, d + 1, d + len) = Cells(off, len)
  BY <1>2, <1>4
<1> QED BY <1>2, <1>3, <1>5, Taken, ZenonT(30)

\* The steps of a read leave the sector that is kept, and who reads, as they are.
LEMMA ReadingStep ==
  ASSUME IInv, pc # "idle", pc' # "idle",
         UNCHANGED <<isotype, iso, m_readbuffer, phase, caller, first, overtaken>>
  PROVE  Kept' /\ SectorIntact'
BY DEF IInv, Kept, Sector, SectorIntact, iso, Position, m_blocksize

\* TryCachedRead
LEMMA CachedStep == ASSUME IInv, TryCachedRead PROVE IInv'
<1>1. PICK buf : buf = m_buffer[i % 2]
  OBVIOUS
<1>2. /\ buf.offset \in Nat /\ buf.size \in Nat /\ buf.data = Cells(buf.offset, buf.size)
  BY <1>1 DEF IInv, Typed, Buffers, BuffersIntact
<1>3. /\ pc = "cached" /\ pc' \in {"cached", "decompress"}
      /\ IF InBuffer(buf) THEN Copy(buf) ELSE UNCHANGED <<out, remaining, off>>
      /\ m_amtRead' = Len(out') /\ i' = (i + 1) % 4
      /\ UNCHANGED <<reader, isotype, iso, m_readbuffer, phase, caller, first, overtaken>>
  BY <1>1 DEF TryCachedRead
<1>4. Progress'
  <2>1. Progress
    BY <1>3 DEF IInv, CallIntact
  <2>2. CASE InBuffer(buf)
    <3>1. off \in Nat /\ buf.offset <= off /\ off < buf.offset + buf.size
      BY <1>2, <2>1, <2>2 DEF Progress, Has, InBuffer
    <3> QED BY <1>2, <1>3, <2>1, <2>2, <3>1, Copied
  <2>3. CASE ~InBuffer(buf)
    BY <1>3, <2>1, <2>3 DEF Progress, Has, m_blocksize
  <2> QED BY <2>2, <2>3
<1>5. m_amtRead' \in Nat
  <2>1. PICK n \in Nat : Has(n)'
    BY <1>4 DEF Progress
  <2>2. first' \in Nat /\ out' = Cells(first', n)
    BY <2>1 DEF Has
  <2>3. Len(Cells(first', n)) = n
    BY <2>2, CellsFacts
  <2> QED BY <1>3, <2>2, <2>3
<1>6. Typed'
  BY <1>3, <1>5 DEF IInv, Typed, reader
<1>7. BuffersIntact'
  BY <1>3 DEF IInv, BuffersIntact, reader
<1>8. FailsForCause' /\ CallIntact'
  BY <1>3, <1>4 DEF FailsForCause, CallIntact
<1> QED BY <1>3, <1>6, <1>7, <1>8, ReadingStep DEF IInv

\* A read that wants more from past the end of the image is of no whole sector.
LEMMA PastEnd ==
  ASSUME IInv, pc # "idle", remaining > 0, off >= FileSize
  PROVE  first + m_blocksize > FileSize
<1>1. PICK n \in Nat : Has(n)
  BY DEF IInv, CallIntact, Progress
<1>2. /\ first \in Nat /\ off = first + n /\ remaining \in Nat /\ n + remaining = m_blocksize
  BY <1>1 DEF Has
<1>3. first + (n + remaining) > FileSize
  BY <1>2, DiscReaderAssumption
<1> QED BY <1>2, <1>3

\* Decompress copies from a buffer that has the cell at off, or fails.
LEMMA CopyOrFailStep ==
  ASSUME IInv, pc = "decompress", NEW buf, buf.offset \in Nat, buf.size \in Nat,
         buf.data = Cells(buf.offset, buf.size), buf.offset <= off,
         CopyOrFail(buf), UNCHANGED <<first, isotype>>
  PROVE  /\ Progress' /\ pc' \in {"decompress", "failed"}
         /\ pc' = "failed" => buf.offset + buf.size <= off
<1>1. Progress /\ off \in Nat
  BY DEF IInv, CallIntact, Progress, Has
<1>2. CASE buf.size <= off - buf.offset
  <2>1. pc' = "failed" /\ UNCHANGED <<out, remaining, off>>
    BY <1>2 DEF CopyOrFail, Fail
  <2>2. Progress'
    BY <1>1, <2>1 DEF Progress, Has, m_blocksize
  <2> QED BY <1>1, <1>2, <2>1, <2>2
<1>3. CASE ~(buf.size <= off - buf.offset)
  <2>1. Copy(buf) /\ pc' = pc
    BY <1>3 DEF CopyOrFail
  <2>2. off < buf.offset + buf.size
    BY <1>1, <1>3
  <2>3. Progress'
    BY <1>1, <2>1, <2>2, Copied
  <2> QED BY <2>1, <2>3
<1> QED BY <1>2, <1>3

\* A chunk found in a buffer
LEMMA HitStep == ASSUME IInv, BlockHit PROVE IInv'
<1>1. PICK chunk : chunk = ChunkForOffset(off)
  OBVIOUS
<1>2. /\ pc = "decompress" /\ remaining > 0 /\ off \in Nat
      /\ UNCHANGED <<m_buffer, m_amtRead, isotype, iso, m_readbuffer, phase, caller, i, first,
                     faulty, overtaken>>
  BY DEF BlockHit, IInv, CallIntact, Progress, Has
<1>3. PICK b \in 0..1 : Holds(b, chunk) /\ m_nextBuffer' = 1 - b /\ CopyOrFail(m_buffer[b])
  BY <1>1 DEF BlockHit
<1>4. PICK buf : buf = m_buffer[b]
  OBVIOUS
<1>5. buf.offset \in Nat /\ buf.size \in Nat /\ buf.data = Cells(buf.offset, buf.size)
  BY <1>4 DEF IInv, Typed, Buffers, BuffersIntact
<1>6. /\ chunk.offset \in Nat /\ chunk.length \in Nat /\ chunk.offset <= off
      /\ off < FileSize => off < chunk.offset + chunk.length
  BY <1>1, <1>2, ChunkFacts
<1>7. /\ buf.offset <= chunk.offset /\ buf.offset + buf.size >= chunk.offset + chunk.length
  BY <1>3, <1>4 DEF Holds
<1>8. /\ Progress' /\ pc' \in {"decompress", "failed"}
      /\ pc' = "failed" => buf.offset + buf.size <= off
  <2>1. buf.offset <= off
    BY <1>2, <1>5, <1>6, <1>7
  <2> QED BY <1>2, <1>3, <1>4, <1>5, <2>1, CopyOrFailStep
<1>9. FailsForCause'
  <2> SUFFICES ASSUME pc' = "failed" PROVE (faulty = 1 \/ first + m_blocksize > FileSize)'
    BY DEF FailsForCause
  <2>1. off >= FileSize
    BY <1>2, <1>5, <1>6, <1>7, <1>8, DiscReaderAssumption
  <2>2. first + m_blocksize > FileSize
    BY <1>2, <2>1, PastEnd
  <2> QED BY <1>2, <2>2 DEF m_blocksize
<1>10. Typed'
  BY <1>2, <1>3, <1>8 DEF IInv, Typed
<1>11. BuffersIntact' /\ CallIntact'
  BY <1>2, <1>8 DEF IInv, BuffersIntact, CallIntact
<1> QED BY <1>2, <1>8, <1>9, <1>10, <1>11, ReadingStep DEF IInv

\* The buffer after a read holds what it says.
LEMMA LoadedFacts ==
  ASSUME NEW old \in Buffers, NEW chunk, chunk.offset \in Nat, NEW amt \in Nat
  PROVE  /\ Loaded(old, chunk, amt) \in Buffers
         /\ Loaded(old, chunk, amt).data
              = Cells(Loaded(old, chunk, amt).offset, Loaded(old, chunk, amt).size)
         /\ amt # 0 => /\ Loaded(old, chunk, amt).offset = chunk.offset
                       /\ Loaded(old, chunk, amt).size = amt
<1>1. CASE amt = 0
  <2> DEFINE new == [offset |-> old.offset, size |-> 0, data |-> <<>>]
  <2>1. Loaded(old, chunk, amt) = new
    BY <1>1, ZenonT(30) DEF Loaded, Buffers
  <2>2. new \in Buffers
    BY DEF Buffers
  <2>3. Cells(old.offset, 0) = <<>>
    <3>1. old.offset \in Int
      BY DEF Buffers
    <3> QED BY <3>1, CellsNone
  <2> QED BY <1>1, <2>1, <2>2, <2>3
<1>2. CASE amt # 0
  <2>1. Loaded(old, chunk, amt)
          = [offset |-> chunk.offset, size |-> amt, data |-> Cells(chunk.offset, amt)]
    BY <1>2 DEF Loaded
  <2>2. Cells(chunk.offset, amt) \in Seq(Int)
    BY CellsFacts
  <2> QED BY <1>2, <2>1, <2>2 DEF Buffers
<1> QED BY <1>1, <1>2

\* A chunk that must be read
LEMMA MissStep == ASSUME IInv, BlockMiss PROVE IInv'
<1>1. PICK chunk : chunk = ChunkForOffset(off)
  OBVIOUS
<1>2. /\ pc = "decompress" /\ remaining > 0 /\ off \in Nat
      /\ UNCHANGED <<m_amtRead, isotype, iso, m_readbuffer, phase, caller, i, first, overtaken>>
  BY DEF BlockMiss, IInv, CallIntact, Progress, Has
<1>3. /\ chunk.offset \in Nat /\ chunk.length \in Nat /\ chunk.offset <= off
      /\ off < FileSize => off < chunk.offset + chunk.length
      /\ off >= FileSize => chunk.length = 0
  BY <1>1, <1>2, ChunkFacts
<1>4. PICK amt \in 0..chunk.length :
         LET buf == Loaded(m_buffer[m_nextBuffer], chunk, amt)
         IN /\ m_buffer' = [m_buffer EXCEPT ![m_nextBuffer] = buf]
            /\ m_nextBuffer' = IF amt = 0 THEN m_nextBuffer ELSE 1 - m_nextBuffer
            /\ IF amt = 0 THEN Fail ELSE CopyOrFail(buf)
            /\ faulty' = IF amt < chunk.length THEN 1 ELSE faulty
  BY <1>1, ZenonT(30) DEF BlockMiss, ReadChunk
<1>5. PICK buf : buf = Loaded(m_buffer[m_nextBuffer], chunk, amt)
  OBVIOUS
<1>6. /\ amt \in Nat /\ m_nextBuffer \in 0..1 /\ m_buffer[m_nextBuffer] \in Buffers
  BY <1>3, <1>4 DEF IInv, Typed
<1>7. /\ buf \in Buffers /\ buf.data = Cells(buf.offset, buf.size)
      /\ amt # 0 => buf.offset = chunk.offset /\ buf.size = amt
  <2>1. chunk.offset \in Nat
    BY <1>3
  <2>2. PICK old \in Buffers : old = m_buffer[m_nextBuffer]
    BY <1>6
  <2>3. buf = Loaded(old, chunk, amt)
    BY <1>5, <2>2
  <2>4. amt \in Nat
    BY <1>6
  <2>5. /\ Loaded(old, chunk, amt) \in Buffers
        /\ Loaded(old, chunk, amt).data
             = Cells(Loaded(old, chunk, amt).offset, Loaded(old, chunk, amt).size)
        /\ amt # 0 => /\ Loaded(old, chunk, amt).offset = chunk.offset
                      /\ Loaded(old, chunk, amt).size = amt
    BY <2>1, <2>4, LoadedFacts, Zenon
  <2> QED BY <2>3, <2>5, Zenon
<1>8. /\ m_buffer' = [m_buffer EXCEPT ![m_nextBuffer] = buf]
      /\ m_nextBuffer' \in 0..1
      /\ amt = 0 => Fail
      /\ amt # 0 => CopyOrFail(buf)
      /\ faulty' = IF amt < chunk.length THEN 1 ELSE faulty
  BY <1>4, <1>5, <1>6
<1>9. /\ Progress' /\ pc' \in {"decompress", "failed"}
      /\ pc' = "failed" => amt = 0 \/ chunk.offset + amt <= off
  <2>1. CASE amt = 0
    BY <1>2, <1>8, <2>1 DEF Fail, IInv, CallIntact, Progress, Has, m_blocksize
  <2>2. CASE amt # 0
    BY <1>2, <1>3, <1>7, <1>8, <2>2, CopyOrFailStep DEF Buffers
  <2> QED BY <2>1, <2>2
<1>10. FailsForCause'
  <2> SUFFICES ASSUME pc' = "failed" PROVE (faulty = 1 \/ first + m_blocksize > FileSize)'
    BY DEF FailsForCause
  <2>1. CASE off >= FileSize
    <3>1. first + m_blocksize > FileSize
      BY <1>2, <2>1, PastEnd
    <3> QED BY <1>2, <3>1 DEF m_blocksize
  <2>2. CASE off < FileSize
    <3>1. amt < chunk.length
      BY <1>2, <1>3, <1>6, <1>9, <2>2
    <3> QED BY <1>8, <3>1
  <2> QED BY <1>2, <2>1, <2>2, DiscReaderAssumption
<1>11. m_buffer' \in [0..1 -> Buffers]
  BY <1>6, <1>7, <1>8 DEF IInv, Typed
<1>12. Typed'
  BY <1>2, <1>8, <1>9, <1>11 DEF IInv, Typed
<1>13. BuffersIntact'
  BY <1>6, <1>7, <1>8 DEF IInv, Typed, BuffersIntact
<1>14. CallIntact'
  BY <1>9 DEF CallIntact
<1> QED BY <1>2, <1>9, <1>10, <1>12, <1>13, <1>14, ReadingStep DEF IInv

\* A chunk that goes directly where it is wanted
LEMMA DirectStep == ASSUME IInv, ReadDirect PROVE IInv'
<1>1. PICK chunk : chunk = ChunkForOffset(off)
  OBVIOUS
<1>2. /\ pc = "decompress" /\ remaining > 0 /\ off \in Nat /\ Progress
      /\ chunk.length <= remaining
      /\ UNCHANGED <<reader, m_amtRead, isotype, iso, m_readbuffer, phase, caller, i, first, overtaken>>
  BY <1>1 DEF ReadDirect, IInv, CallIntact, Progress, Has
<1>3. chunk.length \in Nat
  BY <1>1, <1>2, ChunkFacts
<1>4. PICK amt \in 0..chunk.length :
         IF amt < chunk.length THEN Fail /\ faulty' = 1
         ELSE /\ out' = out \o Cells(off, amt)
              /\ remaining' = remaining - amt /\ off' = off + amt /\ UNCHANGED <<pc, faulty>>
  BY <1>1 DEF ReadDirect, ReadChunk
<1>5. Progress' /\ pc' \in {"decompress", "failed"} /\ FailsForCause'
  <2>1. CASE amt < chunk.length
    <3>1. pc' = "failed" /\ UNCHANGED <<out, remaining, off>> /\ faulty' = 1
      BY <1>4, <2>1 DEF Fail
    <3> QED BY <1>2, <3>1 DEF Progress, Has, m_blocksize, FailsForCause
  <2>2. CASE ~(amt < chunk.length)
    <3>1. /\ out' = out \o Cells(off, amt) /\ remaining' = remaining - amt /\ off' = off + amt
          /\ pc' = pc
      BY <1>4, <2>2
    <3>2. amt \in Nat /\ amt <= remaining
      BY <1>2, <1>3, <1>4 DEF Progress, Has
    <3>3. Progress'
      BY <1>2, <3>1, <3>2, Taken
    <3> QED BY <1>2, <3>1, <3>3 DEF FailsForCause
  <2> QED BY <2>1, <2>2
<1>6. Typed'
  BY <1>2, <1>5 DEF IInv, Typed, reader
<1>7. BuffersIntact' /\ CallIntact'
  BY <1>2, <1>5 DEF IInv, BuffersIntact, CallIntact, reader
<1> QED BY <1>2, <1>5, <1>6, <1>7, ReadingStep DEF IInv
-----------------------------------------------------------------------------
\* Calls begin and end

\* A call starts with nothing, at the first cell of its sector.
LEMMA Started ==
  ASSUME NEW who \in {"detect", "sync", "begin"}, NEW t \in 1..Len(Types), NEW lsn \in Nat,
         isotype' = t, Start(who, t, lsn)
  PROVE  /\ Progress' /\ pc' = "cached" /\ caller' = who /\ m_amtRead' = 0 /\ i' = 0
         /\ first' = Position(t, lsn)
<1>1. /\ caller' = who /\ pc' = "cached" /\ i' = 0 /\ m_amtRead' = 0
      /\ first' = Position(t, lsn) /\ off' = Position(t, lsn)
      /\ remaining' = Types[t].size /\ out' = <<>>
  BY DEF Start
<1>2. Position(t, lsn) \in Nat /\ Types[t].size \in Nat
  BY PositionNat
<1>3. Cells(first', 0) = <<>>
  BY <1>1, <1>2, CellsNone
<1>4. Has(0)'
  BY <1>1, <1>2, <1>3 DEF Has, m_blocksize
<1> QED BY <1>1, <1>4 DEF Progress

LEMMA OpenStep == ASSUME IInv, Open PROVE IInv'
<1>1. /\ phase = "closed" /\ phase' = "detect"
      /\ m_buffer' = [b \in 0..1 |-> NoBuffer] /\ m_nextBuffer' = 0
      /\ isotype' = 1 /\ Start("detect", 1, VolumeSector)
      /\ UNCHANGED <<iso, m_readbuffer, overtaken>>
  BY DEF Open, TryIsoType
<1>2. 1 \in 1..Len(Types) /\ VolumeSector \in Nat
  BY DiscReaderAssumption DEF IInv, Typed
<1>3. /\ Progress' /\ pc' = "cached" /\ caller' = "detect" /\ m_amtRead' = 0 /\ i' = 0
  BY <1>1, <1>2, Started
<1>4. NoBuffer \in Buffers /\ NoBuffer.data = Cells(NoBuffer.offset, NoBuffer.size)
  BY CellsNone DEF NoBuffer, Buffers
<1>5. Typed'
  BY <1>1, <1>2, <1>3, <1>4 DEF Typed
<1>6. BuffersIntact' /\ CallIntact' /\ FailsForCause' /\ SectorIntact'
  BY <1>1, <1>3, <1>4 DEF BuffersIntact, CallIntact, FailsForCause, SectorIntact
<1>7. Kept'
  BY <1>1, <1>3 DEF IInv, Kept, iso
<1> QED BY <1>5, <1>6, <1>7 DEF IInv

LEMMA CloseStep == ASSUME IInv, Close PROVE IInv'
<1>1. /\ pc = "idle" /\ pc' = "idle" /\ phase' = "closed" /\ m_read_inprogress' = 0 /\ m_read_lsn' = -1
      /\ UNCHANGED <<m_buffer, m_nextBuffer, m_amtRead, isotype, caller, i>>
  BY DEF Close, call, reader
<1>2. Typed' /\ BuffersIntact'
  BY <1>1 DEF IInv, Typed, BuffersIntact
<1>3. CallIntact' /\ FailsForCause' /\ SectorIntact' /\ Kept'
  BY <1>1 DEF CallIntact, FailsForCause, SectorIntact, Kept
<1> QED BY <1>2, <1>3 DEF IInv

LEMMA SyncStep == ASSUME IInv, ReadSync PROVE IInv'
<1>1. PICK lsn \in Nat :
         /\ pc = "idle" /\ phase = "open"
         /\ Start("sync", isotype, lsn)
         /\ overtaken' = IF m_read_inprogress = 1 /\ m_amtRead = -1 THEN 1 ELSE overtaken
         /\ UNCHANGED <<reader, isotype, iso, m_readbuffer, phase>>
  BY DEF ReadSync
<1>2. isotype \in 1..Len(Types)
  BY DEF IInv, Typed
<1>3. /\ Progress' /\ pc' = "cached" /\ caller' = "sync" /\ m_amtRead' = 0 /\ i' = 0
  BY <1>1, <1>2, Started
<1>4. Typed' /\ BuffersIntact'
  BY <1>1, <1>3 DEF IInv, Typed, BuffersIntact, reader
<1>5. CallIntact' /\ FailsForCause' /\ SectorIntact'
  BY <1>3 DEF CallIntact, FailsForCause, SectorIntact
<1>6. ASSUME m_read_lsn >= 0, overtaken' = 0 PROVE Sector
  <2>1. overtaken = 0 /\ (m_read_inprogress = 1 => m_amtRead >= 0)
    BY <1>1, <1>6 DEF IInv, Typed
  <2> QED BY <1>1, <1>6, <2>1 DEF IInv, SectorIntact, Sector
<1>7. Kept'
  BY <1>1, <1>3, <1>6 DEF Kept, iso, Sector, Position, m_blocksize
<1> QED BY <1>4, <1>5, <1>7 DEF IInv

LEMMA BeginStep == ASSUME IInv, BeginRead2 PROVE IInv'
<1>1. PICK lsn \in Nat :
         /\ pc = "idle" /\ phase = "open" /\ m_read_lsn' = lsn /\ m_read_inprogress' = 1
         /\ Start("begin", isotype, lsn)
         /\ UNCHANGED <<reader, isotype, m_readbuffer, phase>>
  BY DEF BeginRead2
<1>2. isotype \in 1..Len(Types)
  BY DEF IInv, Typed
<1>3. /\ Progress' /\ pc' = "cached" /\ caller' = "begin" /\ m_amtRead' = 0 /\ i' = 0
      /\ first' = Position(isotype, lsn)
  BY <1>1, <1>2, Started
<1>4. Typed' /\ BuffersIntact'
  BY <1>1, <1>3 DEF IInv, Typed, BuffersIntact, reader
<1>5. CallIntact' /\ FailsForCause' /\ SectorIntact'
  BY <1>3 DEF CallIntact, FailsForCause, SectorIntact
<1>6. Kept'
  BY <1>1, <1>3 DEF Kept, Position
<1> QED BY <1>4, <1>5, <1>6 DEF IInv

LEMMA BeginCachedStep == ASSUME IInv, BeginRead2Cached PROVE IInv'
<1>1. /\ pc = "idle" /\ phase = "open"
      /\ UNCHANGED <<m_buffer, m_nextBuffer, m_amtRead, isotype, m_read_inprogress, m_read_lsn,
                     m_readbuffer, phase, pc, caller, i, overtaken>>
  BY DEF BeginRead2Cached, reader, call
<1>2. Typed' /\ BuffersIntact'
  BY <1>1 DEF IInv, Typed, BuffersIntact
<1>3. CallIntact' /\ FailsForCause' /\ Kept'
  BY <1>1 DEF CallIntact, FailsForCause, Kept
<1>4. SectorIntact'
  BY <1>1 DEF IInv, SectorIntact, Position, m_blocksize
<1> QED BY <1>2, <1>3, <1>4 DEF IInv

\* FinishRead3 gives up the sector when its read has failed.
LEMMA FinishStep == ASSUME IInv, FinishRead3 PROVE IInv'
<1>1. /\ pc = "idle"
      /\ UNCHANGED <<m_buffer, m_nextBuffer, m_amtRead, isotype, m_readbuffer, phase, pc, caller,
                     i, overtaken>>
  BY DEF FinishRead3, reader, call
<1>2. \/ m_read_inprogress' = 0 /\ m_read_lsn' = IF m_amtRead < 0 THEN -1 ELSE m_read_lsn
      \/ UNCHANGED <<m_read_inprogress, m_read_lsn>>
  BY DEF FinishRead3, FinishedLsn
<1>3. Typed' /\ BuffersIntact'
  BY <1>1 DEF IInv, Typed, BuffersIntact
<1>4. CallIntact' /\ FailsForCause'
  BY <1>1 DEF CallIntact, FailsForCause
<1>5. Kept'
  BY <1>1, <1>2 DEF IInv, Kept
<1>6. SectorIntact'
  <2>1. m_amtRead \in Int
    BY DEF IInv, Typed
  <2> QED BY <1>1, <1>2, <2>1 DEF IInv, SectorIntact, Position, m_blocksize
<1> QED BY <1>3, <1>4, <1>5, <1>6 DEF IInv

\* A read that has all it wants has the sector.
LEMMA WholeSector ==
  ASSUME IInv, pc = "decompress", remaining = 0
  PROVE  /\ out = Cells(first, m_blocksize) /\ Len(out) \in Nat
<1>1. PICK n \in Nat : Has(n)
  BY DEF IInv, CallIntact, Progress
<1>2. first \in Nat /\ n = m_blocksize /\ out = Cells(first, n)
  BY <1>1 DEF Has
<1>3. Len(Cells(first, n)) = n
  BY <1>2, CellsFacts
<1> QED BY <1>2, <1>3

LEMMA ReturnStep == ASSUME IInv, Return PROVE IInv'
<1>1. /\ Ended /\ pc # "idle" /\ pc' = "idle"
      /\ UNCHANGED <<m_buffer, m_nextBuffer, m_read_inprogress, m_read_lsn, caller, i, overtaken>>
  BY DEF Return, Ended, reader, iso
<1>2. CallIntact' /\ FailsForCause'
  BY <1>1 DEF CallIntact, FailsForCause
<1>3. BuffersIntact'
  BY <1>1 DEF IInv, BuffersIntact
<1>4. pc # "failed" => out = Cells(first, m_blocksize) /\ Len(out) \in Nat
  BY <1>1, WholeSector DEF Ended
<1>5. CASE BeginReturn(pc = "failed")
  <2>1. /\ caller = "begin" /\ UNCHANGED <<isotype, phase>>
        /\ pc = "failed" => m_amtRead' = -1
        /\ pc # "failed" => m_amtRead' = Len(out) /\ m_readbuffer' = out
    BY <1>5 DEF BeginReturn
  <2>2. phase # "detect" /\ m_read_inprogress = 1 /\ first = Position(isotype, m_read_lsn) /\ phase = "open"
    BY <1>1, <2>1 DEF IInv, Kept, Typed
  <2>3. Typed'
    BY <1>1, <1>4, <2>1 DEF IInv, Typed
  <2>4. Kept'
    BY <1>1, <2>1, <2>2 DEF Kept
  <2>5. SectorIntact'
    <3>1. CASE pc = "failed"
      BY <1>1, <2>1, <2>2, <3>1 DEF SectorIntact
    <3>2. CASE pc # "failed"
      <4>1. m_readbuffer' = Cells(Position(isotype, m_read_lsn), m_blocksize)
        BY <1>4, <2>1, <2>2, <3>2
      <4> QED BY <1>1, <2>1, <4>1 DEF SectorIntact, Position, m_blocksize
    <3> QED BY <3>1, <3>2
  <2> QED BY <1>2, <1>3, <2>3, <2>4, <2>5 DEF IInv
<1>6. CASE SyncReturn(pc = "failed")
  <2>1. /\ caller = "sync" /\ UNCHANGED <<isotype, phase, m_readbuffer>>
        /\ pc = "failed" => m_amtRead' = m_amtRead
        /\ pc # "failed" => m_amtRead' = Len(out)
    BY <1>6 DEF SyncReturn
  <2>2. phase # "detect"
    BY <1>1, <2>1 DEF IInv, Kept
  <2>3. Typed'
    BY <1>1, <1>4, <2>1 DEF IInv, Typed
  <2>4. Kept'
    BY <1>1, <2>1, <2>2 DEF IInv, Kept
  <2>5. SectorIntact'
    BY <1>1, <2>1 DEF IInv, Kept, Sector, SectorIntact, Position, m_blocksize
  <2> QED BY <1>2, <1>3, <2>3, <2>4, <2>5 DEF IInv
<1>7. CASE DetectReturn
  <2>1. /\ caller = "detect" /\ pc = "decompress" /\ m_amtRead' = Len(out) /\ phase' = "open"
        /\ UNCHANGED isotype
    BY <1>7 DEF DetectReturn
  <2>2. m_read_lsn' = -1
    BY <1>1, <2>1 DEF IInv, Kept
  <2>3. Typed'
    BY <1>1, <1>4, <2>1 DEF IInv, Typed
  <2>4. Kept' /\ SectorIntact'
    BY <1>1, <2>1, <2>2 DEF Kept, SectorIntact
  <2> QED BY <1>2, <1>3, <2>3, <2>4 DEF IInv
<1> QED BY <1>5, <1>6, <1>7 DEF Return

LEMMA DetectStep == ASSUME IInv, DetectNext PROVE IInv'
<1>1. /\ pc # "idle" /\ caller = "detect"
      /\ UNCHANGED <<m_buffer, m_nextBuffer, m_read_inprogress, m_read_lsn, m_readbuffer, overtaken>>
  BY DEF DetectNext, Ended, reader, iso
<1>2. phase = "detect" /\ m_read_lsn = -1 /\ m_read_inprogress = 0 /\ isotype \in 1..Len(Types)
  BY <1>1 DEF IInv, Kept, Typed
<1>3. BuffersIntact'
  BY <1>1 DEF IInv, BuffersIntact
<1>4. CASE isotype + 1 < Len(Types)
  <2>1. isotype' = isotype + 1 /\ Start("detect", isotype + 1, VolumeSector) /\ phase' = phase
    BY <1>4 DEF DetectNext, TryIsoType
  <2>2. isotype + 1 \in 1..Len(Types) /\ VolumeSector \in Nat
    BY <1>2, <1>4, DiscReaderAssumption
  <2>3. /\ Progress' /\ pc' = "cached" /\ caller' = "detect" /\ m_amtRead' = 0 /\ i' = 0
    BY <2>1, <2>2, Started
  <2>4. Typed'
    BY <1>1, <2>1, <2>2, <2>3 DEF IInv, Typed
  <2>5. CallIntact' /\ FailsForCause' /\ SectorIntact' /\ Kept'
    BY <1>1, <1>2, <2>1, <2>3 DEF CallIntact, FailsForCause, SectorIntact, Kept
  <2> QED BY <1>3, <2>4, <2>5 DEF IInv
<1>5. CASE ~(isotype + 1 < Len(Types))
  <2>1. isotype' = Len(Types) /\ phase' = "open" /\ pc' = "idle" /\ UNCHANGED <<m_amtRead, caller, i>>
    BY <1>5 DEF DetectNext
  <2>2. Len(Types) \in 1..Len(Types)
    BY <1>2
  <2>3. Typed'
    BY <1>1, <2>1, <2>2 DEF IInv, Typed
  <2>4. CallIntact' /\ FailsForCause' /\ SectorIntact' /\ Kept'
    BY <1>1, <1>2, <2>1 DEF CallIntact, FailsForCause, SectorIntact, Kept
  <2> QED BY <1>3, <2>3, <2>4 DEF IInv
<1> QED BY <1>4, <1>5
-----------------------------------------------------------------------------
\* The theorems

LEMMA Initially == Init => IInv
<1> SUFFICES ASSUME Init PROVE IInv
  OBVIOUS
<1>1. NoBuffer \in Buffers /\ NoBuffer.data = Cells(NoBuffer.offset, NoBuffer.size)
  BY CellsNone DEF NoBuffer, Buffers
<1>2. 1 \in 1..Len(Types)
  <2>1. Types \in Seq([size : Nat \ {0}, offset : Nat]) /\ Types # <<>>
    BY DiscReaderAssumption
  <2>2. Len(Types) \in Nat \ {0}
    BY <2>1, EmptySeq
  <2> QED BY <2>2
<1>3. Typed
  BY <1>1, <1>2 DEF Init, Typed
<1>4. BuffersIntact
  BY <1>1 DEF Init, BuffersIntact
<1>5. CallIntact /\ Kept /\ SectorIntact /\ FailsForCause
  BY DEF Init, CallIntact, Kept, SectorIntact, FailsForCause
<1> QED BY <1>3, <1>4, <1>5 DEF IInv

LEMMA Stutter == ASSUME IInv, UNCHANGED vars PROVE IInv'
<1>1. UNCHANGED <<m_buffer, m_nextBuffer, m_amtRead, isotype, m_read_inprogress, m_read_lsn,
                  m_readbuffer, phase, pc, caller, i, first, off, remaining, out, faulty, overtaken>>
  BY DEF vars, reader, iso, call
<1>2. Typed' /\ BuffersIntact'
  BY <1>1 DEF IInv, Typed, BuffersIntact
<1>3. CallIntact'
  BY <1>1 DEF IInv, CallIntact, Progress, Has, m_blocksize
<1>4. Kept' /\ SectorIntact' /\ FailsForCause'
  BY <1>1 DEF IInv, Kept, Sector, SectorIntact, FailsForCause, Position, m_blocksize
<1> QED BY <1>2, <1>3, <1>4 DEF IInv

LEMMA Inductive == IInv /\ [Next]_vars => IInv'
BY Stutter, CachedStep, HitStep, MissStep, DirectStep, ReturnStep, DetectStep, OpenStep,
   CloseStep, SyncStep, BeginCachedStep, BeginStep, FinishStep DEF Next, Steps

LEMMA Always == Spec => []IInv
BY Initially, Inductive, PTL DEF Spec

\* Whatever fails or comes short, a buffer of ThreadedFileReader that says it holds
\* a part of the image holds that part: for every image, chunk size and list of formats.
THEOREM BuffersCorrect == Spec => []BuffersIntact
BY Always, PTL DEF IInv

\* The sector InputIsoFile gives out again without reading is the one of that number,
\* outside the window in which FinishRead3 has still to report a failure.
THEOREM SectorCorrect == Spec => []SectorIntact
BY Always, PTL DEF IInv

\* Decompress fails only when ReadChunk did, or for a sector that the image does not have whole.
THEOREM FailuresHaveCause == Spec => []FailsForCause
BY Always, PTL DEF IInv
=============================================================================
