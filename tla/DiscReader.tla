----------------------------- MODULE DiscReader -----------------------------
(***************************************************************************)
(* Sectors of a compressed disc image: InputIsoFile keeps the last sector  *)
(* it read, ThreadedFileReader the last two chunks it decompressed.  The   *)
(* image is a row of cells, and the content of a cell is its position.     *)
(* All calls are made by the EE thread; a call is a chain of steps because *)
(* each chunk it needs may fail to be read, or come short.                 *)
(***************************************************************************)
EXTENDS Integers, Sequences

CONSTANTS FileSize, span,   \* cells of the image and of a chunk
          Types,            \* sequence of [size, offset]: the formats Detect tries, the last one unseen
          VolumeSector      \* the sector Detect looks at

ASSUME DiscReaderAssumption ==
  /\ FileSize \in Nat \ {0} /\ span \in Nat \ {0} /\ VolumeSector \in Nat
  /\ Types \in Seq([size : Nat \ {0}, offset : Nat]) /\ Types # <<>>

VARIABLES m_buffer, m_nextBuffer, m_amtRead,                 \* ThreadedFileReader
          isotype, m_blocks,                                 \* InputIsoFile: index into Types, sectors
          m_read_inprogress, m_current_lsn, m_read_lsn,
          m_readbuffer,                                      \* <<>> when only partly written
          phase,                                             \* "closed", "detect" or "open"
          pc, caller, i, first, off, remaining, out,         \* the call: its first cell, where it is, what it has
          Reading,                                           \* 1: the drive has asked for a sector (cdvd.Reading)
          faulty,                                            \* 1: a chunk failed or came short in this call (history)
          overtaken                                          \* 1: a failed read lost its result to another (history)

reader == <<m_buffer, m_nextBuffer>>
iso == <<m_read_inprogress, m_current_lsn, m_read_lsn>>
call == <<pc, caller, i, first, off, remaining, out, faulty>>
vars == <<reader, m_amtRead, isotype, m_blocks, iso, m_readbuffer, phase, call, Reading, overtaken>>

NoBuffer == [offset |-> 0, size |-> 0, data |-> <<>>]

Init == /\ m_buffer = [b \in 0..1 |-> NoBuffer] /\ m_nextBuffer = 0 /\ m_amtRead = 0
        /\ isotype = 1 /\ m_blocks = 0
        /\ m_read_inprogress = 0 /\ m_current_lsn = -1 /\ m_read_lsn = -1
        /\ m_readbuffer = <<>> /\ phase = "closed"
        /\ pc = "idle" /\ caller = "detect" /\ i = 0 /\ first = 0 /\ off = 0 /\ remaining = 0 /\ out = <<>>
        /\ faulty = 0 /\ Reading = 0 /\ overtaken = 0

-----------------------------------------------------------------------------
\* The image

Cells(from, n) == [k \in 1..n |-> from + k - 1]
Least(a, b) == IF a < b THEN a ELSE b

m_blocksize == Types[isotype].size
Position(t, lsn) == lsn * Types[t].size + Types[t].offset

\* The last sector counts when it is cut short.
GetBlockCount == (FileSize + m_blocksize - 1) \div m_blocksize

ChunkForOffset(o) ==
  IF o >= FileSize THEN [offset |-> 0, length |-> 0]
  ELSE LET start == (o \div span) * span IN [offset |-> start, length |-> Least(FileSize - start, span)]

\* What ReadChunk may return for a chunk: nothing, a part, or all of it.
ReadChunk(chunk) == 0..chunk.length

-----------------------------------------------------------------------------
\* ThreadedFileReader

\* Mutant: a buffer that holds the start of the chunk is taken for the chunk.
HoldsStart(b, chunk) == /\ m_buffer[b].size > 0
                        /\ m_buffer[b].offset <= chunk.offset

Holds(b, chunk) == /\ m_buffer[b].size > 0
                   /\ m_buffer[b].offset <= chunk.offset
                   /\ m_buffer[b].offset + m_buffer[b].size >= chunk.offset + chunk.length

\* ReadSync, BeginRead: where the read starts.
Start(who, t, lsn) == /\ caller' = who /\ pc' = "cached" /\ i' = 0
                      /\ first' = Position(t, lsn) /\ off' = Position(t, lsn)
                      /\ remaining' = Types[t].size /\ out' = <<>>
                      /\ m_amtRead' = 0 /\ faulty' = 0

\* Take what buf has, from off on.
Copy(buf) == LET len == Least(buf.offset + buf.size - off, remaining)
             IN /\ out' = out \o SubSeq(buf.data, off - buf.offset + 1, off - buf.offset + len)
                /\ remaining' = remaining - len /\ off' = off + len

InBuffer(buf) == buf.size > 0 /\ buf.offset <= off /\ buf.offset + buf.size > off

\* TryCachedRead: go through the buffers twice.  Its answer only spares Decompress
\* a call with nothing left to read.
TryCachedRead == LET buf == m_buffer[i % 2]
                 IN /\ pc = "cached"
                    /\ IF InBuffer(buf) THEN Copy(buf) ELSE UNCHANGED <<out, remaining, off>>
                    /\ m_amtRead' = Len(out')
                    /\ i' = (i + 1) % 4 /\ pc' = IF i = 3 THEN "decompress" ELSE "cached"
                    /\ UNCHANGED <<reader, isotype, m_blocks, iso, m_readbuffer, phase, caller, first, faulty, Reading, overtaken>>

Fail == pc' = "failed" /\ UNCHANGED <<out, remaining, off>>

\* Mutant: a buffer that ends at off gives no cells, and no error.
CopyOrFailEmpty(buf) == IF buf.size < off - buf.offset THEN Fail ELSE Copy(buf) /\ pc' = pc

CopyOrFail(buf) == IF buf.size <= off - buf.offset THEN Fail ELSE Copy(buf) /\ pc' = pc

\* Decompress, GetBlockPtr: the chunk is in a buffer, ...
BlockHit == LET chunk == ChunkForOffset(off)
            IN /\ pc = "decompress" /\ remaining > 0
               /\ chunk.offset # off \/ chunk.length > remaining
               /\ \E b \in 0..1 : /\ Holds(b, chunk) /\ (b = 1 => ~Holds(0, chunk))
                                  /\ m_nextBuffer' = 1 - b
                                  /\ CopyOrFail(m_buffer[b])
               /\ UNCHANGED <<m_buffer, m_amtRead, isotype, m_blocks, iso, m_readbuffer, phase, caller, i, first, faulty, Reading, overtaken>>

\* Mutant: a failed read leaves the size of what was there before.
LoadedStale(old, chunk, amt) == IF amt = 0 THEN [old EXCEPT !.data = [k \in 1..old.size |-> -1]]
                                ELSE [offset |-> chunk.offset, size |-> amt, data |-> Cells(chunk.offset, amt)]

\* The buffer after ReadChunk.
Loaded(old, chunk, amt) == IF amt = 0 THEN [old EXCEPT !.size = 0, !.data = <<>>]
                           ELSE [offset |-> chunk.offset, size |-> amt, data |-> Cells(chunk.offset, amt)]

\* ... or is read into the next one, ...
BlockMiss == LET chunk == ChunkForOffset(off)
             IN /\ pc = "decompress" /\ remaining > 0
                /\ chunk.offset # off \/ chunk.length > remaining
                /\ \A b \in 0..1 : ~Holds(b, chunk)
                /\ \E amt \in ReadChunk(chunk) :
                     LET buf == Loaded(m_buffer[m_nextBuffer], chunk, amt)
                     IN /\ m_buffer' = [m_buffer EXCEPT ![m_nextBuffer] = buf]
                        /\ m_nextBuffer' = IF amt = 0 THEN m_nextBuffer ELSE 1 - m_nextBuffer
                        /\ IF amt = 0 THEN Fail ELSE CopyOrFail(buf)
                        /\ faulty' = IF amt < chunk.length THEN 1 ELSE faulty
                /\ UNCHANGED <<m_amtRead, isotype, m_blocks, iso, m_readbuffer, phase, caller, i, first, Reading, overtaken>>

\* ... or fits into what is left to read, and goes there directly.
ReadDirect == LET chunk == ChunkForOffset(off)
              IN /\ pc = "decompress" /\ remaining > 0
                 /\ chunk.offset = off /\ chunk.length <= remaining
                 /\ \E amt \in ReadChunk(chunk) :
                      IF amt < chunk.length THEN Fail /\ faulty' = 1
                      ELSE /\ out' = out \o Cells(off, amt)
                           /\ remaining' = remaining - amt /\ off' = off + amt /\ UNCHANGED <<pc, faulty>>
                 /\ UNCHANGED <<reader, m_amtRead, isotype, m_blocks, iso, m_readbuffer, phase, caller, i, first, Reading, overtaken>>

-----------------------------------------------------------------------------
\* InputIsoFile

\* tryIsoType: set the format and read the volume descriptor.
TryIsoType(t) == /\ isotype' = t
                 /\ Start("detect", t, VolumeSector)

\* Open, Detect: the reader is new.
Open == /\ pc = "idle" /\ phase = "closed"
        /\ phase' = "detect" /\ m_blocks' = VolumeSector + 1
        /\ m_buffer' = [b \in 0..1 |-> NoBuffer] /\ m_nextBuffer' = 0
        /\ TryIsoType(1)
        /\ UNCHANGED <<iso, m_readbuffer, Reading, overtaken>>

Close == /\ pc = "idle" /\ phase = "open"
         /\ phase' = "closed" /\ m_blocks' = 0
         /\ m_read_inprogress' = 0 /\ m_current_lsn' = -1 /\ m_read_lsn' = -1 /\ overtaken' = 0
         /\ UNCHANGED <<reader, m_amtRead, isotype, m_readbuffer, call, Reading>>

\* ReadSync, for the file system and the search for a second layer.
ReadSync == \E lsn \in 0..(m_blocks - 1) :
              /\ pc = "idle" /\ phase = "open"
              /\ Start("sync", isotype, lsn)
              /\ overtaken' = IF m_read_inprogress = 1 /\ m_amtRead = -1 THEN 1 ELSE overtaken
              /\ UNCHANGED <<reader, isotype, m_blocks, iso, m_readbuffer, phase, Reading>>

\* BeginRead2: nothing to do for a sector past the end, or the one that is there.
BeginRead2Cached == \E lsn \in 0..m_blocks :
                      /\ pc = "idle" /\ phase = "open"
                      /\ lsn >= m_blocks \/ lsn = m_read_lsn
                      /\ m_current_lsn' = lsn /\ Reading' = 1
                      /\ UNCHANGED <<reader, m_amtRead, isotype, m_blocks, m_read_inprogress, m_read_lsn, m_readbuffer, phase, call, overtaken>>

BeginRead2 == \E lsn \in 0..(m_blocks - 1) :
                /\ pc = "idle" /\ phase = "open" /\ lsn # m_read_lsn
                /\ m_current_lsn' = lsn /\ m_read_lsn' = lsn /\ m_read_inprogress' = 1 /\ Reading' = 1
                /\ Start("begin", isotype, lsn) /\ overtaken' = 0
                /\ UNCHANGED <<reader, isotype, m_blocks, m_readbuffer, phase>>

\* Mutant: the failed sector stays known as the one that is there.
FinishedLsnKept(failed) == m_read_lsn

\* The sector known to be there after FinishRead3.
FinishedLsn(failed) == IF failed THEN -1 ELSE m_read_lsn

\* FinishRead3, once for each sector the drive has asked for.
FinishRead3 == LET inside == m_current_lsn \in 0..(m_blocks - 1)
               IN /\ pc = "idle" /\ Reading = 1
                  /\ Reading' = 0
                  /\ IF inside /\ m_read_inprogress = 1
                     THEN m_read_inprogress' = 0 /\ m_read_lsn' = FinishedLsn(m_amtRead < 0)
                     ELSE UNCHANGED <<m_read_inprogress, m_read_lsn>>
                  /\ UNCHANGED <<reader, m_amtRead, isotype, m_blocks, m_current_lsn, m_readbuffer, phase, call, overtaken>>

Ended == pc = "failed" \/ (pc = "decompress" /\ remaining = 0)

\* The end of a read of InputIsoFile's own ...
BeginReturn(failed) == /\ caller = "begin"
                       /\ m_amtRead' = IF failed THEN -1 ELSE Len(out)
                       /\ m_readbuffer' = IF failed THEN <<>> ELSE out
                       /\ UNCHANGED <<isotype, m_blocks, phase>>

\* ... of ReadSync, which leaves m_amtRead what it is when it fails ...
SyncReturn(failed) == /\ caller = "sync"
                      /\ m_amtRead' = IF failed THEN m_amtRead ELSE Len(out)
                      /\ UNCHANGED <<isotype, m_blocks, phase, m_readbuffer>>

\* ... and of tryIsoType, when the format is the right one.
DetectReturn == /\ caller = "detect" /\ pc = "decompress"
                /\ m_amtRead' = Len(out)
                /\ phase' = "open" /\ m_blocks' = GetBlockCount
                /\ UNCHANGED <<isotype, m_readbuffer>>

Return == /\ Ended
          /\ BeginReturn(pc = "failed") \/ SyncReturn(pc = "failed") \/ DetectReturn
          /\ pc' = "idle"
          /\ UNCHANGED <<reader, iso, caller, i, first, off, remaining, out, faulty, Reading, overtaken>>

\* When it is not: the next one, which is only assumed when there is no other.
DetectNext == /\ Ended /\ caller = "detect"
              /\ IF isotype + 1 < Len(Types)
                 THEN TryIsoType(isotype + 1) /\ UNCHANGED <<m_blocks, phase>>
                 ELSE /\ isotype' = Len(Types) /\ phase' = "open" /\ pc' = "idle"
                      /\ m_blocks' = (FileSize + Types[Len(Types)].size - 1) \div Types[Len(Types)].size
                      /\ UNCHANGED <<m_amtRead, caller, i, first, off, remaining, out, faulty>>
              /\ UNCHANGED <<reader, iso, m_readbuffer, Reading, overtaken>>

Steps == TryCachedRead \/ BlockHit \/ BlockMiss \/ ReadDirect \/ Return \/ DetectNext
Next == Steps \/ Open \/ Close \/ ReadSync \/ BeginRead2Cached \/ BeginRead2 \/ FinishRead3
Spec == Init /\ [][Next]_vars

\* A call runs to its end.
FairSpec == Spec /\ WF_vars(Steps)

-----------------------------------------------------------------------------
\* Properties

TypeOK == /\ m_buffer \in [0..1 -> [offset : 0..FileSize, size : 0..span, data : Seq(Int)]]
          /\ m_nextBuffer \in 0..1 /\ m_amtRead \in -1..FileSize
          /\ isotype \in 1..Len(Types) /\ m_blocks \in Nat
          /\ m_read_inprogress \in {0, 1} /\ m_current_lsn \in Int /\ m_read_lsn \in -1..(m_blocks - 1)
          /\ m_readbuffer \in Seq(Nat) /\ phase \in {"closed", "detect", "open"}
          /\ pc \in {"idle", "cached", "decompress", "failed"} /\ caller \in {"detect", "sync", "begin"}
          /\ i \in 0..3 /\ first \in Nat /\ off \in Nat /\ remaining \in 0..m_blocksize /\ out \in Seq(Nat)
          /\ faulty \in {0, 1} /\ Reading \in {0, 1} /\ overtaken \in {0, 1}

\* A buffer that says it holds cells holds those cells of the image, whichever reads
\* failed or came short, and whichever format they were made for.
BuffersIntact == \A b \in 0..1 : m_buffer[b].data = Cells(m_buffer[b].offset, m_buffer[b].size)

\* The sector InputIsoFile takes for read, and gives out again without reading, is
\* the sector of that number, unless its read failed and the failure is still to be
\* reported; or was to be, when a ReadSync came between and wrote over the result.
SectorIntact == pc = "idle" /\ m_read_lsn >= 0 /\ overtaken = 0 /\ (m_read_inprogress = 1 => m_amtRead >= 0) =>
                  m_readbuffer = Cells(Position(isotype, m_read_lsn), m_blocksize)

\* A read fails only when a chunk could not be read whole, or the sector is not whole
\* in the image: what earlier failures left in the buffers does not make it fail.
FailsForCause == pc = "failed" => faulty = 1 \/ first + m_blocksize > FileSize

\* No read goes round for ever, short chunks included.
CallReturns == pc # "idle" ~> pc = "idle"
=============================================================================
