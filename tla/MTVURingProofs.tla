--------------------------- MODULE MTVURingProofs ---------------------------
(***************************************************************************)
(* The command ring of VU_Thread, for every size of the ring, every set of *)
(* packet sizes and every safety net: until the writer laps the reader,    *)
(* packets are executed whole, once and in order, and WaitVU drains the    *)
(* ring.  The cells between reader and writer are a segment of whole       *)
(* packets with consecutive serials, or two of them joined by the NULL     *)
(* packet (RingOK); the reader shortens it by a packet at its start, the   *)
(* writer extends it at its end.  Who is to be told of a packet is         *)
(* Notified; where the semaphore and the two threads stand, SemaOK, which  *)
(* also holds past a lap, so that a reset starts over from a known state.  *)
(***************************************************************************)
EXTENDS MTVURing, TLAPS

CellType == [serial : Int, part : Int, size : Int]

\* Cells a..b-1 of buffer f hold packets p+1..q, whole and one after the other.
Segment(f, a, b, p, q) ==
   /\ a <= b /\ p <= q /\ (a = b <=> p = q)
   /\ a < b => f[a].part = 0 /\ f[a].serial = p + 1
   /\ \A c \in a..(b - 1) : f[c].part = 0 =>
         /\ f[c].serial <= q /\ f[c].size >= 1 /\ c + f[c].size <= b
         /\ \A k \in 0..(f[c].size - 1) : f[c + k] = Cell(f[c].serial, k, f[c].size)
         /\ IF c + f[c].size = b THEN f[c].serial = q
            ELSE f[c + f[c].size].part = 0 /\ f[c + f[c].size].serial = f[c].serial + 1

\* The writer is on the reader's round; a reader that has just followed a NULL
\* packet may not have released the end of the ring yet.
SameRound == /\ Segment(buffer, m_read_pos, m_ato_write_pos, done, sent)
             /\ \/ m_ato_read_pos <= m_read_pos
                \/ wpc = "store" /\ m_read_pos = 0 /\ m_ato_write_pos < m_ato_read_pos

\* The writer is a round ahead: the reader will find the NULL packet in cell l
\* after packet q.
NextRound(l, q) == /\ m_ato_write_pos < m_ato_read_pos /\ m_ato_read_pos <= m_read_pos
                   /\ Segment(buffer, m_read_pos, l, done, q)
                   /\ buffer[l] = MTVU_NULL_PACKET
                   /\ Segment(buffer, 0, m_ato_write_pos, q, sent)

\* The packet being written follows what is published and ends before the reader.
WriterOK ==
   /\ epc \in {"reserve", "reserveNull", "wrap", "publish"} => size \in Sizes /\ sent < MaxSent
   /\ epc = "reserve" => m_write_pos + size <= buffer_size - 1
   /\ epc = "wrap" => buffer[m_write_pos] = MTVU_NULL_PACKET
   /\ IF epc = "publish"
      THEN /\ m_write_pos = m_ato_write_pos + size
           /\ m_ato_read_pos <= m_ato_write_pos \/ m_write_pos < m_ato_read_pos
           /\ \A k \in 0..(size - 1) : buffer[m_ato_write_pos + k] = Cell(sent + 1, k, size)
      ELSE m_write_pos = m_ato_write_pos

ReaderOK == /\ wpc # "store" => m_ato_read_pos = m_read_pos
            /\ wpc = "execute" => packet = buffer[m_read_pos] /\ m_read_pos # m_ato_write_pos

RingOK == /\ {m_write_pos, m_ato_write_pos, m_read_pos, m_ato_read_pos} \subseteq Positions
          /\ sent \in 0..MaxSent /\ done \in Nat
          /\ SameRound \/ \E l \in Positions, q \in Nat : NextRound(l, q)
          /\ WriterOK /\ ReaderOK

\* A packet that is not executed is known to the worker, or will be.
Notified == done # sent => \/ s_kickPending \/ epc = "notify" \/ semaEvent \in {"woken", "runN"}
                           \/ wpc \in {"check", "loop", "execute", "store", "dead"}

SemaOK ==
   /\ buffer \in [Positions -> CellType]
   /\ semaEvent \in {"idle", "woken", "run0", "runN", "dead"}
   /\ epc \in EePcs /\ wpc \in WorkerPcs /\ lapped \in {0, 1}
   /\ sent \in Nat /\ size \in Nat /\ m_write_pos \in Nat
   /\ m_shutdown_flag \in BOOLEAN /\ waiting \in BOOLEAN /\ s_kickPending \in BOOLEAN
   /\ wpc = "parked" <=> semaEvent \in {"idle", "woken"}
   /\ wpc = "dead" <=> semaEvent = "dead"
   /\ m_shutdown_flag => epc \in {"close", "join"}
   /\ wpc = "dead" => m_shutdown_flag
   /\ epc \in {"waitVU", "waitEmpty", "waited"} => ~s_kickPending
   /\ epc = "waitEmpty" /\ ~waiting => semaEvent = "idle"
   /\ epc = "waited" => semaEvent = "idle"

IInv == SemaOK /\ (lapped = 0 => RingOK /\ Notified)

-----------------------------------------------------------------------------
\* Segments

LEMMA SegmentEmpty == ASSUME NEW f, NEW a \in Int, NEW p \in Int
                      PROVE  Segment(f, a, a, p, p)
  BY DEF Segment

LEMMA SegmentSame == ASSUME NEW f, NEW g, NEW a \in Int, NEW b \in Int, NEW p \in Int, NEW q \in Int,
                            Segment(f, a, b, p, q), \A c \in a..(b - 1) : g[c] = f[c],
                            \A c \in a..(b - 1) : f[c].size \in Int
                     PROVE  Segment(g, a, b, p, q)
<1>1. a < b => g[a].part = 0 /\ g[a].serial = p + 1
  BY DEF Segment
<1>2. ASSUME NEW c \in a..(b - 1), g[c].part = 0
      PROVE  /\ g[c].serial <= q /\ g[c].size >= 1 /\ c + g[c].size <= b
             /\ \A k \in 0..(g[c].size - 1) : g[c + k] = Cell(g[c].serial, k, g[c].size)
             /\ IF c + g[c].size = b THEN g[c].serial = q
                ELSE g[c + g[c].size].part = 0 /\ g[c + g[c].size].serial = g[c].serial + 1
  <2>1. g[c] = f[c] /\ f[c].size \in Int
    OBVIOUS
  <2>2. /\ f[c].serial <= q /\ f[c].size >= 1 /\ c + f[c].size <= b
        /\ \A k \in 0..(f[c].size - 1) : f[c + k] = Cell(f[c].serial, k, f[c].size)
        /\ IF c + f[c].size = b THEN f[c].serial = q
           ELSE f[c + f[c].size].part = 0 /\ f[c + f[c].size].serial = f[c].serial + 1
    BY <1>2, <2>1 DEF Segment
  <2>3. ASSUME NEW k \in 0..(f[c].size - 1) PROVE g[c + k] = f[c + k]
    <3>1. c + k \in a..(b - 1)
      BY <2>1, <2>2
    <3> QED BY <3>1
  <2>4. c + f[c].size # b => g[c + f[c].size] = f[c + f[c].size]
    <3>1. c + f[c].size # b => c + f[c].size \in a..(b - 1)
      BY <2>1, <2>2
    <3> QED BY <3>1
  <2> QED BY <2>1, <2>2, <2>3, <2>4
<1> QED BY <1>1, <1>2 DEF Segment

\* The reader takes the first packet.
LEMMA SegmentFirst == ASSUME NEW f, NEW a \in Int, NEW b \in Int, NEW p \in Int, NEW q \in Int,
                             Segment(f, a, b, p, q), a < b, f[a].size \in Int
                      PROVE  /\ f[a].part = 0 /\ f[a].serial = p + 1 /\ f[a].size >= 1 /\ a + f[a].size <= b
                             /\ \A k \in 0..(f[a].size - 1) : f[a + k] = Cell(p + 1, k, f[a].size)
                             /\ Segment(f, a + f[a].size, b, p + 1, q)
<1> DEFINE s == f[a].size
<1>1. a \in a..(b - 1) /\ f[a].part = 0 /\ f[a].serial = p + 1
  BY DEF Segment
<1>2. /\ f[a].serial <= q /\ s >= 1 /\ a + s <= b
      /\ \A k \in 0..(s - 1) : f[a + k] = Cell(f[a].serial, k, s)
      /\ IF a + s = b THEN f[a].serial = q ELSE f[a + s].part = 0 /\ f[a + s].serial = f[a].serial + 1
  BY <1>1 DEF Segment
<1>3. a + s < b => f[a + s].part = 0 /\ f[a + s].serial = p + 2 /\ p + 2 <= q
  <2>1. a + s < b => a + s \in a..(b - 1)
    BY <1>2
  <2>2. a + s < b => f[a + s].serial <= q
    BY <1>2, <2>1 DEF Segment
  <2> QED BY <1>1, <1>2, <2>2
<1>4. a + s <= b /\ p + 1 <= q /\ (a + s = b <=> p + 1 = q)
  BY <1>1, <1>2, <1>3
<1>5. \A c \in (a + s)..(b - 1) : c \in a..(b - 1)
  BY <1>2
<1>6. Segment(f, a + s, b, p + 1, q)
  <2>1. \A c \in (a + s)..(b - 1) : f[c].part = 0 =>
           /\ f[c].serial <= q /\ f[c].size >= 1 /\ c + f[c].size <= b
           /\ \A k \in 0..(f[c].size - 1) : f[c + k] = Cell(f[c].serial, k, f[c].size)
           /\ IF c + f[c].size = b THEN f[c].serial = q
              ELSE f[c + f[c].size].part = 0 /\ f[c + f[c].size].serial = f[c].serial + 1
    BY <1>5 DEF Segment
  <2>2. a + s < b => f[a + s].part = 0 /\ f[a + s].serial = (p + 1) + 1
    BY <1>3
  <2> HIDE DEF s
  <2> QED BY <1>4, <2>1, <2>2 DEF Segment
<1> QED BY <1>1, <1>2, <1>6

\* The writer adds a packet of s cells.
LEMMA SegmentExtend == ASSUME NEW f, NEW a \in Int, NEW b \in Int, NEW p \in Int, NEW q \in Int, NEW s \in Int,
                              Segment(f, a, b, p, q), s >= 1, \A k \in 0..(s - 1) : f[b + k] = Cell(q + 1, k, s),
                              \A c \in a..(b - 1) : f[c].size \in Int /\ f[c].serial \in Int
                       PROVE  Segment(f, a, b + s, p, q + 1)
<1>1. f[b] = Cell(q + 1, 0, s) /\ f[b].part = 0 /\ f[b].serial = q + 1 /\ f[b].size = s
  <2>1. 0 \in 0..(s - 1) /\ b + 0 = b
    OBVIOUS
  <2>2. f[b] = Cell(q + 1, 0, s)
    BY <2>1
  <2> QED BY <2>2 DEF Cell
<1>2. a <= b /\ p <= q /\ (a = b <=> p = q)
  BY DEF Segment
<1>3. f[a].part = 0 /\ f[a].serial = p + 1
  BY <1>1, <1>2 DEF Segment
<1>4. ASSUME NEW c \in a..(b + s - 1), f[c].part = 0
      PROVE  /\ f[c].serial <= q + 1 /\ f[c].size >= 1 /\ c + f[c].size <= b + s
             /\ \A k \in 0..(f[c].size - 1) : f[c + k] = Cell(f[c].serial, k, f[c].size)
             /\ IF c + f[c].size = b + s THEN f[c].serial = q + 1
                ELSE f[c + f[c].size].part = 0 /\ f[c + f[c].size].serial = f[c].serial + 1
  <2>1. CASE c < b
    <3>1. c \in a..(b - 1) /\ f[c].size \in Int /\ f[c].serial \in Int
      BY <2>1
    <3>2. /\ f[c].serial <= q /\ f[c].size >= 1 /\ c + f[c].size <= b
          /\ \A k \in 0..(f[c].size - 1) : f[c + k] = Cell(f[c].serial, k, f[c].size)
          /\ IF c + f[c].size = b THEN f[c].serial = q
             ELSE f[c + f[c].size].part = 0 /\ f[c + f[c].size].serial = f[c].serial + 1
      BY <1>4, <3>1 DEF Segment
    <3> QED BY <1>1, <3>1, <3>2
  <2>2. CASE c >= b
    <3> DEFINE j == c - b
    <3>1. j \in 0..(s - 1) /\ b + j = c
      BY <2>2
    <3>2. f[c] = Cell(q + 1, j, s)
      BY <3>1
    <3>3. j = 0
      BY <1>4, <3>2 DEF Cell
    <3>4. c = b
      BY <3>1, <3>3
    <3> QED BY <1>1, <3>4
  <2> QED BY <2>1, <2>2
<1>5. a <= b + s /\ p <= q + 1 /\ (a = b + s <=> p = q + 1)
  BY <1>2
<1> DEFINE t == b + s
           r == q + 1
<1>6. /\ a <= t /\ p <= r /\ (a = t <=> p = r)
      /\ \A c \in a..(t - 1) : f[c].part = 0 =>
            /\ f[c].serial <= r /\ f[c].size >= 1 /\ c + f[c].size <= t
            /\ \A k \in 0..(f[c].size - 1) : f[c + k] = Cell(f[c].serial, k, f[c].size)
            /\ IF c + f[c].size = t THEN f[c].serial = r
               ELSE f[c + f[c].size].part = 0 /\ f[c + f[c].size].serial = f[c].serial + 1
  BY <1>4, <1>5
<1> HIDE DEF t, r
<1>7. Segment(f, a, t, p, r)
  BY <1>3, <1>6 DEF Segment
<1> QED BY <1>7 DEF t, r

-----------------------------------------------------------------------------
\* Where the semaphore and the two threads stand

LEMMA CellTyped == ASSUME NEW p \in Int, NEW n \in Int, NEW z \in Int
                   PROVE  Cell(p, n, z) \in CellType
  BY SMTT(30) DEF Cell, CellType

LEMMA SemaStep == SemaOK /\ [Next]_vars => SemaOK'
<1> SUFFICES ASSUME SemaOK, [Next]_vars PROVE SemaOK'
  OBVIOUS
<1> USE DEF ring, sema, ee, count, worker, vars, SemaOK, EePcs, WorkerPcs
<1>1. ASSUME NEW z \in Sizes, NEW k \in Kinds, Command(z, k) PROVE SemaOK'
  BY <1>1, MTVURingAssumption DEF Command
<1>2. CASE WaitOnSize
  BY <1>2, Zenon DEF WaitOnSize, KickStart, NotifyOfWork
<1>3. CASE WriteNull
  <2>1. buffer' \in [Positions -> CellType]
    <3>1. MTVU_NULL_PACKET \in CellType
      BY CellTyped DEF MTVU_NULL_PACKET
    <3> QED BY <1>3, <3>1, ZenonT(30) DEF WriteNull
  <2> QED BY <1>3, <2>1 DEF WriteNull
<1>4. CASE Wrap
  BY <1>4 DEF Wrap
<1>5. CASE Write
  <2>1. buffer' \in [Positions -> CellType]
    <3>1. \A c \in Positions : Cell(sent + 1, c - m_write_pos, size) \in CellType
      BY CellTyped, MTVURingAssumption DEF Positions
    <3> QED BY <1>5, <3>1 DEF Write
  <2> QED BY <1>5, <2>1 DEF Write
<1>6. CASE Publish
  BY <1>6 DEF Publish
<1>7. CASE Kick
  BY <1>7, Zenon DEF Kick, KickStart, NotifyOfWork
<1>8. CASE KickPending
  BY <1>8, Zenon DEF KickPending, KickStart, NotifyOfWork
<1>9. CASE WaitVU
  BY <1>9, ZenonT(30) DEF WaitVU, KickStart, NotifyOfWork
<1>10. CASE WaitForEmpty
  BY <1>10, Zenon DEF WaitForEmpty
<1>11. CASE WaitForEmptyDone
  BY <1>11 DEF WaitForEmptyDone
<1>12. CASE Continue
  BY <1>12 DEF Continue
<1>13. CASE ResetRing
  <2>1. buffer' \in [Positions -> CellType]
    <3>1. Unwritten \in CellType
      BY CellTyped DEF Unwritten
    <3> QED BY <1>13, <3>1 DEF ResetRing, Reset, Positions
  <2> QED BY <1>13, <2>1, ZenonT(30) DEF ResetRing, Reset
<1>14. CASE CloseFlag
  BY <1>14 DEF CloseFlag
<1>15. CASE CloseKick
  BY <1>15, ZenonT(30) DEF CloseKick, KickStart, NotifyOfWork
<1>16. CASE Open
  <2>1. buffer' \in [Positions -> CellType]
    <3>1. Unwritten \in CellType
      BY CellTyped DEF Unwritten
    <3> QED BY <1>16, <3>1 DEF Open, Reset, Positions
  <2> QED BY <1>16, <2>1, ZenonT(30) DEF Open, Reset
<1>17. CASE WaitForWork
  BY <1>17, Zenon DEF WaitForWork
<1>18. CASE Wake
  BY <1>18 DEF Wake
<1>19. CASE CheckShutdown
  BY <1>19 DEF CheckShutdown
<1>20. CASE LoopEnd
  BY <1>20 DEF LoopEnd
<1>21. CASE ReadTag
  BY <1>21 DEF ReadTag
<1>22. CASE Execute
  BY <1>22 DEF Execute
<1>23. CASE StoreReadPos
  BY <1>23 DEF StoreReadPos
<1>24. CASE UNCHANGED vars
  BY <1>24
<1> QED BY <1>1, <1>2, <1>3, <1>4, <1>5, <1>6, <1>7, <1>8, <1>9, <1>10, <1>11, <1>12, <1>13, <1>14, <1>15, <1>16, <1>17, <1>18, <1>19, <1>20, <1>21, <1>22, <1>23, <1>24 DEF Next, EE, Worker

-----------------------------------------------------------------------------
\* What the ring holds

\* Every cell of a segment in the ring is typed.
LEMMA CellsTyped == ASSUME buffer \in [Positions -> CellType]
                    PROVE  \A c \in Positions : /\ buffer[c].serial \in Int
                                                /\ buffer[c].part \in Int
                                                /\ buffer[c].size \in Int
  BY DEF CellType

\* The writer fills cells from the write position on: the reader's are not among them.
LEMMA WriteKeeps == ASSUME SemaOK, RingOK, NEW n \in Nat, n >= 1, m_write_pos = m_ato_write_pos, RoomFor(n),
                           buffer' \in [Positions -> CellType],
                           \A c \in Positions : c \notin m_write_pos..(m_write_pos + n - 1) => buffer'[c] = buffer[c],
                           UNCHANGED <<m_ato_write_pos, m_read_pos, m_ato_read_pos, done, sent, wpc, packet>>
                    PROVE  /\ (SameRound \/ \E l \in Positions, q \in Nat : NextRound(l, q))'
                           /\ ReaderOK'
                           /\ m_ato_read_pos <= m_ato_write_pos \/ m_write_pos + n < m_ato_read_pos
<1>0. /\ {m_write_pos, m_ato_write_pos, m_read_pos, m_ato_read_pos} \subseteq Nat
      /\ {m_write_pos, m_ato_write_pos, m_read_pos, m_ato_read_pos} \subseteq 0..(buffer_size - 1)
      /\ done \in Int /\ sent \in Int /\ Net \in Nat /\ buffer_size \in Nat
  BY MTVURingAssumption DEF RingOK, Positions
<1>1. m_ato_read_pos <= m_ato_write_pos \/ m_write_pos + n < m_ato_read_pos
  BY <1>0 DEF RoomFor
<1>2. \A c \in Positions : buffer[c].size \in Int
  BY CellsTyped DEF SemaOK
<1>3. CASE SameRound
  <2>1. Segment(buffer, m_read_pos, m_ato_write_pos, done, sent) /\ m_read_pos <= m_ato_write_pos
    BY <1>3 DEF SameRound, Segment
  <2>2. \A c \in m_read_pos..(m_ato_write_pos - 1) : c \in Positions /\ buffer'[c] = buffer[c] /\ buffer[c].size \in Int
    BY <1>0, <1>2 DEF Positions
  <2>3. Segment(buffer', m_read_pos, m_ato_write_pos, done, sent)
    BY <1>0, <2>1, <2>2, SegmentSame
  <2>4. SameRound'
    BY <1>3, <2>3 DEF SameRound
  <2>5. ReaderOK'
    <3>1. wpc = "execute" => m_read_pos \in m_read_pos..(m_ato_write_pos - 1)
      BY <1>0, <2>1 DEF RingOK, ReaderOK
    <3> QED BY <2>2, <3>1 DEF RingOK, ReaderOK
  <2> QED BY <1>1, <2>4, <2>5
<1>4. ASSUME NEW l \in Positions, NEW q \in Nat, NextRound(l, q)
      PROVE  NextRound(l, q)' /\ ReaderOK'
  <2>1. /\ Segment(buffer, m_read_pos, l, done, q) /\ Segment(buffer, 0, m_ato_write_pos, q, sent)
        /\ m_read_pos <= l /\ l \in 0..(buffer_size - 1)
        /\ m_write_pos + n < m_ato_read_pos /\ m_ato_read_pos <= m_read_pos
    BY <1>0, <1>1, <1>4 DEF NextRound, Segment, Positions
  <2>2. /\ \A c \in m_read_pos..(l - 1) : c \in Positions /\ buffer'[c] = buffer[c] /\ buffer[c].size \in Int
        /\ \A c \in 0..(m_ato_write_pos - 1) : c \in Positions /\ buffer'[c] = buffer[c] /\ buffer[c].size \in Int
        /\ buffer'[l] = buffer[l] /\ buffer'[m_read_pos] = buffer[m_read_pos]
    BY <1>0, <1>2, <2>1 DEF Positions
  <2>3. Segment(buffer', m_read_pos, l, done, q)
    BY <1>0, <2>1, <2>2, SegmentSame, SMTT(30) DEF Positions
  <2>4. Segment(buffer', 0, m_ato_write_pos, q, sent)
    BY <1>0, <2>1, <2>2, SegmentSame
  <2> QED BY <1>4, <2>2, <2>3, <2>4 DEF NextRound, RingOK, ReaderOK
<1> QED BY <1>1, <1>3, <1>4 DEF RingOK

LEMMA WriteStep == ASSUME SemaOK, RingOK, Write, SemaOK' PROVE RingOK'
<1> USE DEF ring, sema, ee, count, worker
<1>1. /\ m_write_pos \in Nat /\ m_ato_write_pos = m_write_pos /\ size \in Nat /\ size >= 1 /\ buffer_size \in Nat
      /\ m_write_pos + size <= buffer_size - 1 /\ sent \in Nat
  BY MTVURingAssumption DEF Write, RingOK, WriterOK, Positions, SemaOK
<1>2. /\ \A c \in Positions : c \notin m_write_pos..(m_write_pos + size - 1) => buffer'[c] = buffer[c]
      /\ \A c \in Positions : c \in m_write_pos..(m_write_pos + size - 1)
                                 => buffer'[c] = Cell(sent + 1, c - m_write_pos, size)
  BY DEF Write, SemaOK
<1>3. /\ (SameRound \/ \E l \in Positions, q \in Nat : NextRound(l, q))'
      /\ ReaderOK'
      /\ m_ato_read_pos <= m_ato_write_pos \/ m_write_pos + size < m_ato_read_pos
  BY <1>1, <1>2, WriteKeeps DEF Write, SemaOK
<1>4. \A k \in 0..(size - 1) : buffer'[m_ato_write_pos + k] = Cell(sent + 1, k, size)
  <2> TAKE k \in 0..(size - 1)
  <2>1. m_ato_write_pos + k \in Positions /\ m_ato_write_pos + k \in m_write_pos..(m_write_pos + size - 1)
        /\ (m_ato_write_pos + k) - m_write_pos = k
    BY <1>1 DEF Positions
  <2> QED BY <1>2, <2>1
<1>5. WriterOK'
  BY <1>1, <1>3, <1>4 DEF Write, RingOK, WriterOK
<1>6. m_write_pos' \in Positions
  BY <1>1 DEF Write, Positions
<1> QED BY <1>3, <1>5, <1>6 DEF RingOK, Write

LEMMA WriteNullStep == ASSUME SemaOK, RingOK, WriteNull, SemaOK' PROVE RingOK'
<1> USE DEF ring, sema, ee, count, worker
<1>1. m_write_pos \in Nat /\ m_write_pos \in Positions /\ m_ato_write_pos = m_write_pos
  BY DEF WriteNull, RingOK, WriterOK, SemaOK
<1>2. /\ \A c \in Positions : c \notin m_write_pos..(m_write_pos + 1 - 1) => buffer'[c] = buffer[c]
      /\ buffer'[m_write_pos] = MTVU_NULL_PACKET
  BY <1>1, MTVURingAssumption DEF WriteNull, SemaOK, Positions
<1>3. /\ (SameRound \/ \E l \in Positions, q \in Nat : NextRound(l, q))'
      /\ ReaderOK'
  BY <1>1, <1>2, WriteKeeps DEF WriteNull, SemaOK
<1>4. WriterOK'
  BY <1>1, <1>2, SMTT(30) DEF WriteNull, RingOK, WriterOK
<1> QED BY <1>3, <1>4 DEF RingOK, WriteNull

\* Going back to the start begins the next round, unless it laps the reader.
LEMMA WrapStep == ASSUME SemaOK, RingOK, lapped = 0, Wrap, lapped' = 0 PROVE RingOK'
<1> USE DEF ring, sema, ee, count, worker
<1>1. /\ m_write_pos = m_ato_write_pos /\ m_ato_read_pos \in 1..m_write_pos /\ buffer[m_write_pos] = MTVU_NULL_PACKET
      /\ m_write_pos \in Positions /\ m_ato_read_pos \in Positions /\ m_read_pos \in Positions /\ sent \in Nat
      /\ size \in Sizes /\ sent < MaxSent
  BY DEF Wrap, RingOK, WriterOK
<1>2. SameRound
  BY <1>1, MTVURingAssumption DEF RingOK, NextRound, Positions
<1>3. /\ Segment(buffer, m_read_pos, m_write_pos, done, sent) /\ m_ato_read_pos <= m_read_pos
      /\ m_read_pos <= m_write_pos
  BY <1>1, <1>2, MTVURingAssumption DEF SameRound, Segment, Positions
<1>4. Segment(buffer, 0, 0, sent, sent)
  BY <1>1, SegmentEmpty
<1>5. PICK w \in Positions, z \in Nat : w = m_write_pos /\ z = sent
  BY <1>1
<1>6. NextRound(w, z)'
  <2>1. m_ato_write_pos' < m_ato_read_pos' /\ m_ato_read_pos' <= m_read_pos'
    BY <1>1, <1>3, MTVURingAssumption DEF Wrap, Positions
  <2>2. m_ato_write_pos' = 0 /\ m_read_pos' = m_read_pos /\ buffer' = buffer /\ done' = done /\ sent' = sent
    BY DEF Wrap
  <2>3. /\ Segment(buffer', m_read_pos', w, done', z) /\ Segment(buffer', 0, m_ato_write_pos', z, sent')
        /\ buffer'[w] = MTVU_NULL_PACKET
    BY <1>1, <1>3, <1>4, <1>5, <2>2
  <2> QED BY <2>1, <2>3 DEF NextRound
<1>7. WriterOK'
  BY <1>1, MTVURingAssumption DEF Wrap, WriterOK
<1>8. ReaderOK'
  BY <1>1, MTVURingAssumption DEF Wrap, RingOK, ReaderOK, Positions
<1>9. {m_write_pos', m_ato_write_pos', m_read_pos', m_ato_read_pos'} \subseteq Positions
  BY <1>1, MTVURingAssumption DEF Wrap, Positions
<1> QED BY <1>6, <1>7, <1>8, <1>9 DEF RingOK, Wrap

LEMMA PublishStep == ASSUME SemaOK, RingOK, Publish PROVE RingOK'
<1> USE DEF ring, sema, ee, count, worker
<1>0. /\ m_write_pos \in Positions /\ m_ato_write_pos \in Positions /\ m_read_pos \in Positions
      /\ m_ato_read_pos \in Positions /\ Positions \subseteq Nat /\ done \in Int /\ sent \in Int
      /\ m_write_pos = m_ato_write_pos + size /\ size \in Int /\ size >= 1
      /\ m_ato_read_pos <= m_ato_write_pos \/ m_write_pos < m_ato_read_pos
      /\ \A k \in 0..(size - 1) : buffer[m_ato_write_pos + k] = Cell(sent + 1, k, size)
  <2>1. /\ size \in Sizes /\ m_write_pos = m_ato_write_pos + size
        /\ m_ato_read_pos <= m_ato_write_pos \/ m_write_pos < m_ato_read_pos
        /\ \A k \in 0..(size - 1) : buffer[m_ato_write_pos + k] = Cell(sent + 1, k, size)
    BY DEF Publish, RingOK, WriterOK
  <2>2. size \in Int /\ size >= 1 /\ Positions \subseteq Nat /\ sent \in Int /\ done \in Int
    BY <2>1, MTVURingAssumption DEF RingOK, Positions
  <2> QED BY <2>1, <2>2 DEF RingOK
<1>1. /\ m_ato_write_pos' = m_write_pos /\ sent' = sent + 1
      /\ UNCHANGED <<buffer, m_write_pos, m_read_pos, m_ato_read_pos, done, wpc, packet>>
  BY DEF Publish
<1>2. ASSUME NEW a \in Positions, NEW p \in Int, Segment(buffer, a, m_ato_write_pos, p, sent)
      PROVE  Segment(buffer', a, m_ato_write_pos', p, sent')
  <2>1. \A c \in a..(m_ato_write_pos - 1) : buffer[c].size \in Int /\ buffer[c].serial \in Int
    BY <1>0, MTVURingAssumption, CellsTyped DEF SemaOK, Positions
  <2>2. a \in Int /\ m_ato_write_pos \in Int
    BY <1>0
  <2>3. Segment(buffer, a, m_ato_write_pos + size, p, sent + 1)
    BY <1>0, <1>2, <2>1, <2>2, SegmentExtend
  <2> QED BY <1>0, <1>1, <2>3
<1>3. ASSUME SameRound PROVE SameRound' /\ ReaderOK'
  <2>1. m_read_pos <= m_ato_write_pos
    BY <1>3 DEF SameRound, Segment
  <2>2. SameRound'
    BY <1>0, <1>1, <1>2, <1>3 DEF SameRound
  <2>3. ReaderOK'
    BY <1>0, <1>1, <2>1 DEF RingOK, ReaderOK
  <2> QED BY <2>2, <2>3
<1>4. ASSUME NEW l \in Positions, NEW q \in Nat, NextRound(l, q)
      PROVE  NextRound(l, q)' /\ ReaderOK'
  <2>1. 0 \in Positions /\ q \in Int
    BY <1>0, MTVURingAssumption DEF Positions
  <2>2. NextRound(l, q)'
    BY <1>0, <1>1, <1>2, <1>4, <2>1 DEF NextRound
  <2>3. ReaderOK'
    BY <1>0, <1>1, <1>4 DEF NextRound, RingOK, ReaderOK
  <2> QED BY <2>2, <2>3
<1>5. WriterOK' /\ sent' \in 0..MaxSent
  BY <1>1, MTVURingAssumption DEF Publish, RingOK, WriterOK
<1> QED BY <1>0, <1>1, <1>3, <1>4, <1>5 DEF RingOK

LEMMA ExecuteStep == ASSUME SemaOK, RingOK, Execute
                     PROVE  RingOK' /\ done' \in {done, done + 1}
<1> USE DEF ring, sema, ee, count, worker
<1>0. /\ m_ato_write_pos \in Positions /\ m_read_pos \in Positions
      /\ m_ato_read_pos \in Positions /\ Positions \subseteq Nat /\ done \in Nat /\ sent \in Int
      /\ m_ato_read_pos = m_read_pos /\ packet = buffer[m_read_pos] /\ m_read_pos # m_ato_write_pos
      /\ packet.size \in Int
  BY MTVURingAssumption, CellsTyped DEF Execute, RingOK, ReaderOK, Positions, SemaOK
<1>1. /\ m_read_pos' = IF packet.serial = 0 THEN 0 ELSE m_read_pos + packet.size
      /\ done' = IF packet.serial = 0 THEN done ELSE packet.serial
      /\ wpc' = "store"
      /\ UNCHANGED <<buffer, m_write_pos, m_ato_write_pos, m_ato_read_pos, sent, epc, size>>
  BY DEF Execute
<1>2. ASSUME NEW b \in Positions, NEW q \in Int, Segment(buffer, m_read_pos, b, done, q), m_read_pos # b
      PROVE  /\ done' = done + 1 /\ m_read_pos' \in Positions /\ m_read_pos' > m_read_pos /\ packet.serial # 0
             /\ Segment(buffer', m_read_pos', b, done', q)
  <2>1. m_read_pos < b
    BY <1>0, <1>2 DEF Segment
  <2>2. m_read_pos \in Int /\ b \in Int /\ done \in Int
    BY <1>0
  <2>3. /\ packet.serial = done + 1 /\ packet.size >= 1 /\ m_read_pos + packet.size <= b
        /\ Segment(buffer, m_read_pos + packet.size, b, done + 1, q)
    BY <1>0, <1>2, <2>1, <2>2, SegmentFirst
  <2>4. packet.serial # 0 /\ m_read_pos' = m_read_pos + packet.size /\ done' = done + 1
    BY <1>0, <1>1, <2>3
  <2>5. m_read_pos' \in Positions
    BY <1>0, <2>3, <2>4, MTVURingAssumption DEF Positions
  <2> QED BY <1>0, <1>1, <2>3, <2>4, <2>5
<1>3. WriterOK'
  BY <1>1 DEF Execute, RingOK, WriterOK
<1>4. ReaderOK'
  BY <1>1 DEF ReaderOK
<1>5. CASE SameRound
  <2>1. /\ done' = done + 1 /\ m_read_pos' \in Positions /\ m_read_pos' > m_read_pos
        /\ Segment(buffer', m_read_pos', m_ato_write_pos, done', sent)
    BY <1>0, <1>2, <1>5 DEF SameRound
  <2>2. SameRound'
    BY <1>0, <1>1, <2>1 DEF SameRound
  <2> QED BY <1>0, <1>1, <1>3, <1>4, <2>1, <2>2 DEF RingOK
<1>6. ASSUME NEW l \in Positions, NEW q \in Nat, NextRound(l, q), m_read_pos # l
      PROVE  RingOK' /\ done' = done + 1
  <2>1. /\ done' = done + 1 /\ m_read_pos' \in Positions /\ m_read_pos' > m_read_pos
        /\ Segment(buffer', m_read_pos', l, done', q)
    BY <1>0, <1>2, <1>6 DEF NextRound
  <2>2. NextRound(l, q)'
    BY <1>0, <1>1, <1>6, <2>1 DEF NextRound
  <2> QED BY <1>0, <1>1, <1>3, <1>4, <2>1, <2>2 DEF RingOK
<1>7. ASSUME NEW l \in Positions, NEW q \in Nat, NextRound(l, q), m_read_pos = l
      PROVE  RingOK' /\ done' = done
  <2>1. packet = MTVU_NULL_PACKET /\ q = done
    BY <1>0, <1>7 DEF NextRound, Segment
  <2>2. m_read_pos' = 0 /\ done' = done
    BY <1>1, <2>1 DEF MTVU_NULL_PACKET, Cell
  <2>3. SameRound'
    BY <1>1, <1>7, <2>1, <2>2 DEF SameRound, NextRound
  <2>4. m_read_pos' \in Positions
    BY <2>2, <1>0, MTVURingAssumption DEF Positions
  <2> QED BY <1>0, <1>1, <1>3, <1>4, <2>2, <2>3, <2>4 DEF RingOK
<1> QED BY <1>5, <1>2, <1>6, <1>7, <1>0 DEF RingOK, SameRound

LEMMA StoreStep == ASSUME SemaOK, RingOK, StoreReadPos PROVE RingOK'
<1> USE DEF ring, sema, ee, count, worker
<1>0. m_write_pos \in Nat /\ m_ato_write_pos \in Nat /\ m_read_pos \in Nat /\ m_ato_read_pos \in Nat
  BY MTVURingAssumption DEF RingOK, Positions
<1>1. /\ m_ato_read_pos' = m_read_pos /\ wpc' = "loop"
      /\ UNCHANGED <<buffer, m_write_pos, m_ato_write_pos, m_read_pos, sent, done, epc, size>>
  BY DEF StoreReadPos
<1>2. ReaderOK'
  BY <1>1 DEF ReaderOK
<1>3. CASE SameRound
  <2>1. m_read_pos <= m_ato_write_pos
    BY <1>3 DEF SameRound, Segment
  <2>2. SameRound'
    BY <1>0, <1>1, <1>3 DEF SameRound
  <2>3. WriterOK'
    BY <1>1, <2>1 DEF RingOK, WriterOK
  <2> QED BY <1>1, <1>2, <2>2, <2>3 DEF RingOK
<1>4. ASSUME NEW l \in Positions, NEW q \in Nat, NextRound(l, q)
      PROVE  RingOK'
  <2>1. NextRound(l, q)'
    BY <1>0, <1>1, <1>4 DEF NextRound
  <2>2. WriterOK'
    <3>1. epc = "publish" => m_write_pos < m_read_pos
      BY <1>0, <1>4 DEF RingOK, WriterOK, NextRound
    <3> QED BY <1>1, <3>1 DEF RingOK, WriterOK
  <2> QED BY <1>1, <1>2, <2>1, <2>2 DEF RingOK
<1> QED BY <1>3, <1>4 DEF RingOK

\* The worker finds the ring empty only when it is.
LEMMA EmptyRing == ASSUME RingOK, wpc = "loop", m_ato_read_pos = m_ato_write_pos
                   PROVE  done = sent
<1>1. m_read_pos = m_ato_write_pos
  BY DEF RingOK, ReaderOK
<1>2. SameRound
  BY MTVURingAssumption DEF RingOK, NextRound, Positions
<1> QED BY <1>1, <1>2 DEF SameRound, Segment

-----------------------------------------------------------------------------
\* The inductive invariant

\* Steps that leave the ring alone.
LEMMA QuietStep == ASSUME RingOK, UNCHANGED <<ring, sent, done>>, wpc' = "store" <=> wpc = "store", WriterOK', ReaderOK'
                   PROVE  RingOK'
<1> USE DEF ring
<1>1. SameRound => SameRound'
  BY DEF SameRound
<1>2. \A l, q : NextRound(l, q) => NextRound(l, q)'
  BY DEF NextRound
<1> QED BY <1>1, <1>2 DEF RingOK

\* The ring after Reset, with a worker that is not in its loop.
LEMMA ResetStep == ASSUME Reset, epc' = "idle", wpc' \in {"parked", "wait"}
                   PROVE  RingOK' /\ Notified'
<1>1. 0 \in Positions
  BY MTVURingAssumption DEF Positions
<1>2. SameRound'
  BY SegmentEmpty DEF Reset, SameRound
<1> QED BY <1>1, <1>2, MTVURingAssumption DEF Reset, RingOK, WriterOK, ReaderOK, Notified

LEMMA InitIInv == Init => IInv
<1> SUFFICES ASSUME Init PROVE IInv
  OBVIOUS
<1>1. 0 \in Positions /\ Unwritten \in CellType
  BY MTVURingAssumption, CellTyped DEF Positions, Unwritten
<1>2. SemaOK
  BY <1>1, Zenon DEF Init, SemaOK, EePcs, WorkerPcs, Positions
<1>3. SameRound
  BY SegmentEmpty DEF Init, SameRound
<1> QED BY <1>1, <1>2, <1>3, MTVURingAssumption DEF Init, IInv, RingOK, WriterOK, ReaderOK, Notified

LEMMA StepIInv == IInv /\ [Next]_vars => IInv'
<1> SUFFICES ASSUME IInv, [Next]_vars, SemaOK', lapped' = 0 PROVE RingOK' /\ Notified'
  BY SemaStep DEF IInv
<1> USE DEF ring, sema, ee, count, worker, vars
<1>0. SemaOK /\ (lapped = 0 => RingOK /\ Notified)
  BY DEF IInv
<1>1. ASSUME NEW z \in Sizes, NEW k \in Kinds, Command(z, k) PROVE RingOK' /\ Notified'
  <2>1. RingOK /\ Notified
    BY <1>0, <1>1 DEF Command
  <2>2. WriterOK'
    BY <1>1, <2>1, MTVURingAssumption DEF Command, RingOK, WriterOK, Positions
  <2>3. ReaderOK'
    BY <1>1, <2>1 DEF Command, RingOK, ReaderOK
  <2> QED BY <1>1, <2>1, <2>2, <2>3, QuietStep DEF Command, Notified
<1>2. CASE WaitOnSize
  <2>1. RingOK /\ Notified
    BY <1>0, <1>2 DEF WaitOnSize
  <2>2. WriterOK' /\ ReaderOK'
    BY <1>2, <2>1 DEF WaitOnSize, RingOK, WriterOK, ReaderOK
  <2>3. RingOK'
    BY <1>2, <2>1, <2>2, QuietStep DEF WaitOnSize
  <2>4. Notified'
    BY <1>0, <1>2, <2>1 DEF WaitOnSize, Notified, SemaOK, KickStart, NotifyOfWork
  <2> QED BY <2>3, <2>4
<1>3. CASE WriteNull
  <2>1. lapped = 0 /\ RingOK /\ Notified
    BY <1>0, <1>3 DEF WriteNull
  <2>2. RingOK'
    BY <1>0, <1>3, <2>1, WriteNullStep
  <2>3. Notified'
    BY <1>3, <2>1 DEF WriteNull, Notified
  <2> QED BY <2>2, <2>3
<1>4. CASE Wrap
  <2>1. lapped = 0 /\ RingOK /\ Notified
    BY <1>0, <1>4 DEF Wrap, SemaOK
  <2>2. RingOK'
    BY <1>0, <1>4, <2>1, WrapStep
  <2>3. Notified'
    BY <1>4, <2>1 DEF Wrap, Notified
  <2> QED BY <2>2, <2>3
<1>5. CASE Write
  <2>1. lapped = 0 /\ RingOK /\ Notified
    BY <1>0, <1>5 DEF Write
  <2>2. RingOK'
    BY <1>0, <1>5, <2>1, WriteStep
  <2>3. Notified'
    BY <1>5, <2>1 DEF Write, Notified
  <2> QED BY <2>2, <2>3
<1>6. CASE Publish
  <2>1. lapped = 0 /\ RingOK /\ Notified
    BY <1>0, <1>6 DEF Publish
  <2>2. RingOK'
    BY <1>0, <1>6, <2>1, PublishStep
  <2>3. Notified'
    BY <1>6, <2>1, Zenon DEF Publish, Notified
  <2> QED BY <2>2, <2>3
<1>7. CASE Kick
  <2>1. RingOK /\ Notified
    BY <1>0, <1>7 DEF Kick
  <2>2. WriterOK' /\ ReaderOK'
    BY <1>7, <2>1 DEF Kick, RingOK, WriterOK, ReaderOK
  <2>3. RingOK'
    BY <1>7, <2>1, <2>2, QuietStep DEF Kick
  <2>4. Notified'
    BY <1>0, <1>7, <2>1 DEF Kick, Notified, SemaOK, KickStart, NotifyOfWork
  <2> QED BY <2>3, <2>4
<1>8. CASE KickPending
  <2>1. RingOK /\ Notified
    BY <1>0, <1>8 DEF KickPending
  <2>2. WriterOK' /\ ReaderOK'
    BY <1>8, <2>1 DEF KickPending, RingOK, WriterOK, ReaderOK
  <2>3. RingOK'
    BY <1>8, <2>1, <2>2, QuietStep DEF KickPending
  <2>4. Notified'
    BY <1>0, <1>8, <2>1 DEF KickPending, Notified, SemaOK, KickStart, NotifyOfWork
  <2> QED BY <2>3, <2>4
<1>9. CASE WaitVU
  <2>1. RingOK /\ Notified
    BY <1>0, <1>9 DEF WaitVU
  <2>2. WriterOK' /\ ReaderOK'
    BY <1>9, <2>1 DEF WaitVU, RingOK, WriterOK, ReaderOK
  <2>3. RingOK'
    BY <1>9, <2>1, <2>2, QuietStep DEF WaitVU
  <2>4. Notified'
    BY <1>0, <1>9, <2>1 DEF WaitVU, Notified, SemaOK, KickStart, NotifyOfWork
  <2> QED BY <2>3, <2>4
<1>10. CASE WaitForEmpty
  <2>1. RingOK /\ Notified
    BY <1>0, <1>10 DEF WaitForEmpty
  <2>2. WriterOK' /\ ReaderOK'
    BY <1>10, <2>1 DEF WaitForEmpty, RingOK, WriterOK, ReaderOK
  <2>3. RingOK'
    BY <1>10, <2>1, <2>2, QuietStep DEF WaitForEmpty
  <2>4. Notified'
    BY <1>0, <1>10, <2>1 DEF WaitForEmpty, Notified, SemaOK
  <2> QED BY <2>3, <2>4
<1>11. CASE WaitForEmptyDone
  <2>1. RingOK /\ Notified
    BY <1>0, <1>11, SMTT(30) DEF WaitForEmptyDone
  <2>2. WriterOK' /\ ReaderOK'
    BY <1>11, <2>1 DEF WaitForEmptyDone, RingOK, WriterOK, ReaderOK
  <2>3. RingOK'
    BY <1>11, <2>1, <2>2, QuietStep DEF WaitForEmptyDone
  <2>4. Notified'
    BY <1>0, <1>11, <2>1 DEF WaitForEmptyDone, Notified, SemaOK
  <2> QED BY <2>3, <2>4
<1>12. CASE Continue
  <2>1. RingOK /\ Notified
    BY <1>0, <1>12 DEF Continue
  <2>2. WriterOK' /\ ReaderOK'
    BY <1>12, <2>1 DEF Continue, RingOK, WriterOK, ReaderOK
  <2>3. RingOK'
    BY <1>12, <2>1, <2>2, QuietStep DEF Continue
  <2>4. Notified'
    BY <1>0, <1>12, <2>1 DEF Continue, Notified, SemaOK
  <2> QED BY <2>3, <2>4
<1>13. CASE ResetRing
  BY <1>0, <1>13, ResetStep DEF ResetRing, SemaOK
<1>14. CASE CloseFlag
  <2>1. RingOK /\ Notified
    BY <1>0, <1>14 DEF CloseFlag
  <2>2. WriterOK' /\ ReaderOK'
    BY <1>14, <2>1 DEF CloseFlag, RingOK, WriterOK, ReaderOK
  <2>3. RingOK'
    BY <1>14, <2>1, <2>2, QuietStep DEF CloseFlag
  <2>4. Notified'
    BY <1>0, <1>14, <2>1 DEF CloseFlag, Notified, SemaOK
  <2> QED BY <2>3, <2>4
<1>15. CASE CloseKick
  <2>1. RingOK /\ Notified
    BY <1>0, <1>15 DEF CloseKick
  <2>2. WriterOK' /\ ReaderOK'
    BY <1>15, <2>1 DEF CloseKick, RingOK, WriterOK, ReaderOK
  <2>3. RingOK'
    BY <1>15, <2>1, <2>2, QuietStep DEF CloseKick
  <2>4. Notified'
    BY <1>0, <1>15, <2>1 DEF CloseKick, Notified, SemaOK, KickStart, NotifyOfWork
  <2> QED BY <2>3, <2>4
<1>16. CASE Open
  BY <1>16, ResetStep DEF Open
<1>17. CASE WaitForWork
  <2>1. RingOK /\ Notified
    BY <1>0, <1>17 DEF WaitForWork
  <2>2. WriterOK' /\ ReaderOK'
    BY <1>17, <2>1 DEF WaitForWork, RingOK, WriterOK, ReaderOK
  <2>3. RingOK'
    BY <1>17, <2>1, <2>2, QuietStep DEF WaitForWork
  <2>4. Notified'
    BY <1>0, <1>17, <2>1 DEF WaitForWork, Notified, SemaOK
  <2> QED BY <2>3, <2>4
<1>18. CASE Wake
  <2>1. RingOK /\ Notified
    BY <1>0, <1>18, SMTT(30) DEF Wake
  <2>2. WriterOK' /\ ReaderOK'
    BY <1>18, <2>1 DEF Wake, RingOK, WriterOK, ReaderOK
  <2>3. RingOK'
    BY <1>18, <2>1, <2>2, QuietStep DEF Wake
  <2>4. Notified'
    BY <1>0, <1>18, <2>1 DEF Wake, Notified, SemaOK
  <2> QED BY <2>3, <2>4
<1>19. CASE CheckShutdown
  <2>1. RingOK /\ Notified
    BY <1>0, <1>19 DEF CheckShutdown
  <2>2. WriterOK' /\ ReaderOK'
    BY <1>19, <2>1 DEF CheckShutdown, RingOK, WriterOK, ReaderOK
  <2>3. RingOK'
    BY <1>19, <2>1, <2>2, QuietStep DEF CheckShutdown
  <2>4. Notified'
    BY <1>0, <1>19, <2>1 DEF CheckShutdown, Notified, SemaOK
  <2> QED BY <2>3, <2>4
<1>20. CASE LoopEnd
  <2>1. RingOK /\ Notified
    BY <1>0, <1>20, SMTT(30) DEF LoopEnd
  <2>2. WriterOK' /\ ReaderOK'
    BY <1>20, <2>1 DEF LoopEnd, RingOK, WriterOK, ReaderOK
  <2>3. RingOK'
    BY <1>20, <2>1, <2>2, QuietStep DEF LoopEnd
  <2>4. Notified'
    BY <1>0, <1>20, <2>1, EmptyRing DEF LoopEnd, Notified, SemaOK
  <2> QED BY <2>3, <2>4
<1>21. CASE ReadTag
  <2>1. RingOK /\ Notified
    BY <1>0, <1>21 DEF ReadTag
  <2>2. WriterOK' /\ ReaderOK'
    BY <1>21, <2>1 DEF ReadTag, RingOK, WriterOK, ReaderOK
  <2>3. RingOK'
    BY <1>21, <2>1, <2>2, QuietStep DEF ReadTag
  <2>4. Notified'
    BY <1>0, <1>21, <2>1 DEF ReadTag, Notified, SemaOK
  <2> QED BY <2>3, <2>4
<1>22. CASE Execute
  <2>1. lapped = 0 /\ RingOK /\ Notified
    BY <1>0, <1>22 DEF Execute
  <2>2. RingOK'
    BY <1>0, <1>22, <2>1, ExecuteStep
  <2>3. Notified'
    BY <1>22, <2>1 DEF Execute, Notified
  <2> QED BY <2>2, <2>3
<1>23. CASE StoreReadPos
  <2>1. lapped = 0 /\ RingOK /\ Notified
    BY <1>0, <1>23 DEF StoreReadPos
  <2>2. RingOK'
    BY <1>0, <1>23, <2>1, StoreStep
  <2>3. Notified'
    BY <1>23, <2>1 DEF StoreReadPos, Notified
  <2> QED BY <2>2, <2>3
<1>24. CASE UNCHANGED vars
  <2>1. RingOK /\ Notified
    BY <1>0, <1>24
  <2>2. WriterOK' /\ ReaderOK'
    BY <1>24, <2>1 DEF RingOK, WriterOK, ReaderOK
  <2> QED BY <1>24, <2>1, <2>2, QuietStep DEF Notified
<1> QED BY <1>1, <1>2, <1>3, <1>4, <1>5, <1>6, <1>7, <1>8, <1>9, <1>10, <1>11, <1>12, <1>13, <1>14, <1>15, <1>16, <1>17, <1>18, <1>19, <1>20, <1>21, <1>22, <1>23, <1>24 DEF Next, EE, Worker

LEMMA Invariance == Spec => []IInv
  BY InitIInv, StepIInv, PTL DEF Spec

-----------------------------------------------------------------------------
\* Results

\* Until the writer laps the reader, the positions stay inside the ring and the
\* threads at places the code has.
THEOREM TypeCorrect == Spec => [](lapped = 0 => TypeOK)
<1>1. IInv => (lapped = 0 => TypeOK)
  BY DEF IInv, SemaOK, RingOK, TypeOK
<1> QED BY <1>1, Invariance, PTL

\* Until then, nothing is written into the packet the worker executes: what
\* WaitOnSize leaves free never reaches it, for any Net, 0 included.
THEOREM PacketsIntact == Spec => []PacketIntact
<1>1. IInv => PacketIntact
  <2> SUFFICES ASSUME SemaOK, RingOK, wpc = "execute", packet.serial > 0
               PROVE  /\ packet.part = 0
                      /\ \A n \in 0..(packet.size - 1) : buffer[m_read_pos + n] = Cell(packet.serial, n, packet.size)
    BY DEF IInv, PacketIntact
  <2>1. /\ packet = buffer[m_read_pos] /\ m_read_pos # m_ato_write_pos /\ packet.size \in Int
        /\ m_read_pos \in Int /\ m_ato_write_pos \in Int /\ done \in Int /\ sent \in Int
    BY CellsTyped, MTVURingAssumption DEF RingOK, ReaderOK, SemaOK, Positions
  <2>2. ASSUME NEW b \in Int, NEW q \in Int, Segment(buffer, m_read_pos, b, done, q), m_read_pos # b
        PROVE  /\ packet.part = 0
               /\ \A n \in 0..(packet.size - 1) : buffer[m_read_pos + n] = Cell(packet.serial, n, packet.size)
    <3>1. m_read_pos < b
      BY <2>1, <2>2 DEF Segment
    <3>2. /\ packet.part = 0 /\ packet.serial = done + 1
          /\ \A n \in 0..(packet.size - 1) : buffer[m_read_pos + n] = Cell(done + 1, n, packet.size)
      BY <2>1, <2>2, <3>1, SegmentFirst
    <3> QED BY <3>2
  <2>3. CASE SameRound
    BY <2>1, <2>2, <2>3 DEF SameRound
  <2>4. ASSUME NEW l \in Positions, NEW q \in Nat, NextRound(l, q)
        PROVE  Segment(buffer, m_read_pos, l, done, q) /\ m_read_pos # l /\ l \in Int /\ q \in Int
    <3>1. buffer[l].serial = 0
      BY <2>4 DEF NextRound, MTVU_NULL_PACKET, Cell
    <3> QED BY <2>1, <2>4, <3>1, MTVURingAssumption DEF NextRound, Positions
  <2> QED BY <2>2, <2>3, <2>4 DEF RingOK
<1> QED BY <1>1, Invariance, PTL

\* Until then, WaitVU is a barrier: it returns with every published packet
\* executed, those whose notify VifUnpack deferred included.
THEOREM WaitVUIsBarrier == Spec => []WaitVUDrains
<1>1. IInv => WaitVUDrains
  BY DEF IInv, SemaOK, Notified, WaitVUDrains
<1> QED BY <1>1, Invariance, PTL

\* Until then, packets are executed in the order of publication, each once, and
\* the worker leaves its loop with none pending.
THEOREM ExecutedInOrder == Spec => InOrder
<1> DEFINE A == lapped = 0 => /\ done' # done => done' \in {0, done + 1}
                              /\ wpc = "loop" /\ wpc' = "wait" => done = sent
<1>1. IInv /\ [Next]_vars => [A]_vars
  <2> SUFFICES ASSUME IInv, Next, lapped = 0
               PROVE  /\ done' # done => done' \in {0, done + 1}
                      /\ wpc = "loop" /\ wpc' = "wait" => done = sent
    BY DEF vars
  <2> USE DEF ring, sema, ee, count, worker
  <2>0. SemaOK /\ RingOK
    BY DEF IInv
  <2>1. \A z \in Sizes, k \in Kinds : Command(z, k) => done' = done /\ wpc' = wpc
    BY DEF Command
  <2>2. WaitOnSize => done' = done /\ wpc' = wpc
    BY DEF WaitOnSize, KickStart
  <2>3. WriteNull => done' = done /\ wpc' = wpc
    BY DEF WriteNull
  <2>4. Wrap => done' = done /\ wpc' = wpc
    BY DEF Wrap
  <2>5. Write => done' = done /\ wpc' = wpc
    BY DEF Write
  <2>6. Publish => done' = done /\ wpc' = wpc
    BY DEF Publish
  <2>7. Kick => done' = done /\ wpc' = wpc
    BY DEF Kick, KickStart
  <2>8. KickPending => done' = done /\ wpc' = wpc
    BY DEF KickPending, KickStart
  <2>9. WaitVU => done' = done /\ wpc' = wpc
    BY DEF WaitVU, KickStart
  <2>10. WaitForEmpty => done' = done /\ wpc' = wpc
    BY DEF WaitForEmpty
  <2>11. WaitForEmptyDone => done' = done /\ wpc' = wpc
    BY DEF WaitForEmptyDone
  <2>12. Continue => done' = done /\ wpc' = wpc
    BY DEF Continue
  <2>13. ResetRing => done' = 0 /\ wpc' = wpc
    BY DEF ResetRing, Reset
  <2>14. CloseFlag => done' = done /\ wpc' = wpc
    BY DEF CloseFlag
  <2>15. CloseKick => done' = done /\ wpc' = wpc
    BY DEF CloseKick, KickStart
  <2>16. Open => done' = 0 /\ wpc = "dead"
    BY DEF Open, Reset
  <2>17. WaitForWork => done' = done /\ wpc' # "wait"
    BY DEF WaitForWork
  <2>18. Wake => done' = done /\ wpc' # "wait"
    BY DEF Wake
  <2>19. CheckShutdown => done' = done /\ wpc' # "wait"
    BY DEF CheckShutdown
  <2>20. ReadTag => done' = done /\ wpc' # "wait"
    BY DEF ReadTag
  <2>21. StoreReadPos => done' = done /\ wpc' # "wait"
    BY DEF StoreReadPos
  <2>22. LoopEnd => done' = done /\ done = sent
    BY <2>0, EmptyRing DEF LoopEnd
  <2>23. Execute => done' \in {done, done + 1} /\ wpc = "execute"
    BY <2>0, ExecuteStep DEF Execute
  <2> QED BY <2>1, <2>2, <2>3, <2>4, <2>5, <2>6, <2>7, <2>8, <2>9, <2>10, <2>11, <2>12, <2>13, <2>14, <2>15, <2>16, <2>17, <2>18, <2>19, <2>20, <2>21, <2>22, <2>23 DEF Next, EE, Worker
<1> QED BY <1>1, Invariance, PTL DEF Spec, InOrder

-----------------------------------------------------------------------------
\* The semaphore

\* WAITING_EMPTY is set for a sleeping EE only.
Asleep == waiting => epc = "waitEmpty"

LEMMA AsleepStep == Asleep /\ [Next]_vars => Asleep'
<1> SUFFICES ASSUME Asleep, [Next]_vars PROVE Asleep'
  OBVIOUS
<1> USE DEF Asleep, ring, sema, ee, count, worker, vars
<1>1. CASE EE
  <2>1. \/ waiting' = waiting /\ epc # "waitEmpty"
        \/ WaitForEmpty \/ WaitForEmptyDone
    BY <1>1, Zenon DEF EE, Command, WaitOnSize, WriteNull, Wrap, Write, Publish, Kick, KickPending, WaitVU, Continue,
       ResetRing, CloseFlag, CloseKick, Open, KickStart
  <2> QED BY <2>1 DEF WaitForEmpty, WaitForEmptyDone
<1>2. CASE Worker
  BY <1>2 DEF Worker, WaitForWork, Wake, CheckShutdown, LoopEnd, ReadTag, Execute, StoreReadPos
<1> QED BY <1>1, <1>2 DEF Next

\* semaEvent as the contract of WorkSema has it: a parked worker that is notified
\* counts as one that is notified at work.
Sema == INSTANCE WorkSemaContract
          WITH sem <- IF semaEvent = "woken" THEN "runN" ELSE semaEvent,
               caller <- CASE epc = "waitEmpty" -> "asleep" [] epc = "waited" -> "returned" [] OTHER -> "out"

\* A step of the ring is one of the semaphore's contract, or leaves it alone.
LEMMA SemaContractStep == SemaOK /\ Asleep /\ [Next]_vars => [Sema!Next]_(Sema!vars)
<1> SUFFICES ASSUME SemaOK, Asleep, [Next]_vars PROVE [Sema!Next]_(Sema!vars)
  OBVIOUS
<1> USE DEF Sema!vars, ring, sema, ee, count, worker, vars
<1> DEFINE caller == CASE epc = "waitEmpty" -> "asleep" [] epc = "waited" -> "returned" [] OTHER -> "out"
<1>1. ASSUME NotifyOfWork, waiting' = waiting, caller' = caller PROVE [Sema!Next]_(Sema!vars)
  BY <1>1 DEF NotifyOfWork, SemaOK, Sema!Next, Sema!NotifyOfWork
<1>2. ASSUME UNCHANGED <<semaEvent, waiting>>, caller' = caller PROVE [Sema!Next]_(Sema!vars)
  BY <1>2
<1>3. CASE EE
  <2>1. CASE WaitOnSize \/ Kick \/ KickPending \/ CloseKick
    BY <1>1, <2>1 DEF WaitOnSize, Kick, KickPending, CloseKick, KickStart
  <2>2. CASE WaitVU
    BY <1>1, <1>2, <2>2 DEF WaitVU, KickStart
  <2>3. CASE WaitForEmpty
    BY <2>3 DEF WaitForEmpty, SemaOK, Asleep, Sema!Next, Sema!WaitForEmpty, Sema!Back
  <2>4. CASE WaitForEmptyDone
    BY <2>4 DEF WaitForEmptyDone, Sema!Next, Sema!Return, Sema!Back
  <2>5. CASE Continue \/ ResetRing
    BY <2>5 DEF Continue, ResetRing, Sema!Next, Sema!Continue
  <2>6. CASE Open
    BY <2>6 DEF Open, SemaOK, Sema!Next, Sema!Reset
  <2>7. CASE \/ \E s \in Sizes, k \in Kinds : Command(s, k)
             \/ WriteNull \/ Wrap \/ Write \/ Publish \/ CloseFlag
    BY <1>2, <2>7 DEF Command, WriteNull, Wrap, Write, Publish, CloseFlag
  <2> QED BY <1>3, <2>1, <2>2, <2>3, <2>4, <2>5, <2>6, <2>7 DEF EE
<1>4. CASE Worker
  <2>1. CASE WaitForWork
    BY <2>1 DEF WaitForWork, SemaOK, Sema!Next, Sema!TakeWork, Sema!GoIdle
  <2>2. CASE Wake
    BY <2>2 DEF Wake, Sema!Next, Sema!TakeWork
  <2>3. CASE CheckShutdown
    BY <2>3 DEF CheckShutdown, SemaOK, Sema!Next, Sema!Kill
  <2>4. CASE LoopEnd \/ ReadTag \/ Execute \/ StoreReadPos
    BY <1>2, <2>4 DEF LoopEnd, ReadTag, Execute, StoreReadPos
  <2> QED BY <1>4, <2>1, <2>2, <2>3, <2>4 DEF Worker
<1> QED BY <1>2, <1>3, <1>4 DEF Next

\* The ring asks of its semaphore, and expects from it, what WorkSema provides:
\* every behaviour of the ring, laps included, is one of WorkSemaContract.
THEOREM KeepsToContract == Spec => Sema!Spec
<1>1. Init => Sema!Init /\ Asleep
  BY DEF Init, Sema!Init, Asleep
<1>2. IInv => SemaOK
  BY DEF IInv
<1> QED BY <1>1, <1>2, AsleepStep, SemaContractStep, Invariance, PTL DEF Spec, Sema!Spec

\* While the EE sleeps in WaitVU and has not been let go, the VU thread is awake or
\* has been notified.
THEOREM WaitVUNotStranded == Spec => []Sema!NobodyStranded
<1> DEFINE Inv == (IF semaEvent = "woken" THEN "runN" ELSE semaEvent) \in Sema!SemStates /\ Sema!NobodyStranded
<1>1. Sema!Init => Inv
  BY Zenon DEF Sema!Init, Sema!NobodyStranded, Sema!SemStates
<1>2. Inv /\ [Sema!Next]_(Sema!vars) => Inv'
  <2> SUFFICES ASSUME Inv, [Sema!Next]_(Sema!vars) PROVE Inv'
    OBVIOUS
  <2> USE DEF Sema!NobodyStranded, Sema!SemStates
  <2>1. CASE Sema!NotifyOfWork \/ Sema!TakeWork \/ Sema!TimeOut \/ Sema!Reset
    BY <2>1 DEF Sema!NotifyOfWork, Sema!TakeWork, Sema!TimeOut, Sema!Reset
  <2>2. CASE Sema!GoIdle \/ Sema!CheckForWork \/ Sema!Kill
    BY <2>2, Zenon DEF Sema!GoIdle, Sema!CheckForWork, Sema!Kill
  <2>3. CASE Sema!WaitForEmpty
    BY <2>3, Zenon DEF Sema!WaitForEmpty
  <2>4. CASE Sema!Return \/ Sema!Continue \/ UNCHANGED Sema!vars
    BY <2>4 DEF Sema!Return, Sema!Continue, Sema!vars
  <2> QED BY <2>1, <2>2, <2>3, <2>4, Zenon DEF Sema!Next
<1> QED BY <1>1, <1>2, KeepsToContract, PTL DEF Sema!Spec
=============================================================================
