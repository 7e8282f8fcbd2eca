-------------------------------- MODULE Sif0Proofs -------------------------------
(***************************************************************************)
(* Proofs about SIF0: its ring and its padding (Inv0), and what the EE     *)
(* receives (Flow0), for every size of the ring and all lengths of packets. *)
(***************************************************************************)
EXTENDS Sif0, TLAPS

(* Where the two sides are inside a call.  The EE's turn is the last one of *)
(* an iteration of SIF0Dma.  When the IOP's turn has done nothing, it had   *)
(* no room, or was not busy, and a finished packet is padded.               *)
Stuck0 ==
    pc = "ee" /\ ~busyCheck =>
        /\ counter = 0 => writeJunk = 0
        /\ ~ibusy \/ Free <= 0

\* The quadwords left of a packet are counted, whatever the tag said.
Ring0 == FifoInv /\ qwc \in Nat
Inv0 == Ring0 /\ Stuck0 /\ Rendezvous

(* What travels.  Every word has a place in the stream of all words sent    *)
(* since the last reset.  v is right at place i if it is the word that the  *)
(* packet there has at that place.                                          *)
Word == Nat \X Int
Packet == [words : Nat, end : BOOLEAN, start : Nat]
Right(ps, i, v) ==
    \A p \in DOMAIN ps : \A k \in -4..4 * Quads(ps[p].words) - 1 :
        i = ps[p].start + 5 + k => v = IF k < ps[p].words THEN <<p, k>> ELSE <<p, k - 4>>

\* The words written to the ring so far, and the cell of the j-th word back
\* from position w.
Filled == Len(out) + size
Back(w, j) == IF j <= w THEN w - j ELSE w - j + FIFO_SIF_W

Types0 ==
    /\ data \in [0..FIFO_SIF_W - 1 -> Word]
    /\ out \in Seq(Word) /\ tags \in Seq(Word) /\ packets \in Seq(Packet)

\* Each packet starts where the one before it ends, so no two overlap.
Layout0 ==
    /\ \A p \in DOMAIN packets : packets[p].start = EndOf(p - 1)
    /\ \A p, q \in DOMAIN packets : p < q => EndOf(p) <= packets[q].start

\* The words still to be sent and the padding complete the last packet.
Sent0 ==
    /\ Filled + counter + writeJunk = EndOf(Len(packets))
    /\ packets # <<>> =>
         LET n == packets[Len(packets)].words IN
         counter <= n /\ (writeJunk = 4 * Quads(n) - n \/ (counter = 0 /\ writeJunk = 0))

\* Every cell that has been written holds the last word written to it, read or
\* not: writeJunk copies words that the EE may have taken already.
Held0 == \A j \in 1..FIFO_SIF_W : j <= Filled => Right(packets, Filled + 1 - j, data[Back(writePos, j)])
Taken0 == \A i \in DOMAIN out : Right(packets, i, out[i])

\* In chain mode the EE's side is where its tags say.
Tagged0 ==
    ~normal => /\ Len(tags) <= Len(packets)
               /\ Len(out) + 4 * qwc = EndOf(Len(tags))
               /\ \A i \in DOMAIN tags : tags[i] = <<i, -4>>

Flow0 == Types0 /\ Layout0 /\ Sent0 /\ Held0 /\ Taken0 /\ Tagged0
---------------------------------------------------------------------------
(* The ring *)

\* A position less than two rings ahead is brought back into the ring.
LEMMA AtValue ==
    ASSUME NEW i \in 0..(2 * FIFO_SIF_W - 1)
    PROVE  At(i) = IF i < FIFO_SIF_W THEN i ELSE i - FIFO_SIF_W
BY FifoAssumption DEF At

\* Writing n words that fit keeps the position of the next write at the end of
\* the words held, and moves it by n or by n less the size of the ring.
LEMMA RingWrite ==
    ASSUME NEW r \in 0..(FIFO_SIF_W - 1), NEW s \in 0..FIFO_SIF_W, NEW n \in Nat,
           s + n <= FIFO_SIF_W
    PROVE  /\ At(At(r + s) + n) = At(r + (s + n))
           /\ At(r + s) \in 0..(FIFO_SIF_W - 1)
           /\ At(At(r + s) + n) \in {At(r + s) + n, At(r + s) + n - FIFO_SIF_W}
<1>1. /\ r + s \in 0..(2 * FIFO_SIF_W - 1)
      /\ r + (s + n) \in 0..(2 * FIFO_SIF_W - 1)
  BY FifoAssumption
<1>2. /\ At(r + s) = IF r + s < FIFO_SIF_W THEN r + s ELSE r + s - FIFO_SIF_W
      /\ At(r + (s + n)) = IF r + (s + n) < FIFO_SIF_W THEN r + (s + n)
                           ELSE r + (s + n) - FIFO_SIF_W
  BY <1>1, AtValue, FifoAssumption
<1>3. At(r + s) + n \in 0..(2 * FIFO_SIF_W - 1)
  BY <1>2, FifoAssumption
<1>4. At(At(r + s) + n) = IF At(r + s) + n < FIFO_SIF_W THEN At(r + s) + n
                          ELSE At(r + s) + n - FIFO_SIF_W
  BY <1>3, <1>1, FifoAssumption, AtValue
<1> QED BY <1>2, <1>4, FifoAssumption

\* Reading n words leaves the position of the next write where it is.
LEMMA RingRead ==
    ASSUME NEW r \in 0..(FIFO_SIF_W - 1), NEW s \in 0..FIFO_SIF_W, NEW n \in 0..s
    PROVE  /\ At(r + n) \in 0..(FIFO_SIF_W - 1)
           /\ At(r + n) \in {r + n, r + n - FIFO_SIF_W}
           /\ At(At(r + n) + (s - n)) = At(r + s)
<1>1. r + s \in 0..(2 * FIFO_SIF_W - 1) /\ r + n \in 0..(2 * FIFO_SIF_W - 1)
  BY FifoAssumption
<1>2. /\ At(r + s) = IF r + s < FIFO_SIF_W THEN r + s ELSE r + s - FIFO_SIF_W
      /\ At(r + n) = IF r + n < FIFO_SIF_W THEN r + n ELSE r + n - FIFO_SIF_W
  BY <1>1, AtValue, FifoAssumption
<1>3. At(r + n) + (s - n) \in 0..(2 * FIFO_SIF_W - 1)
  BY <1>2, FifoAssumption
<1>4. At(At(r + n) + (s - n)) = IF At(r + n) + (s - n) < FIFO_SIF_W THEN At(r + n) + (s - n)
                                ELSE At(r + n) + (s - n) - FIFO_SIF_W
  BY <1>3, <1>1, FifoAssumption, AtValue
<1> QED BY <1>2, <1>4, FifoAssumption

\* What a write leaves of the ring's part of FifoInv.
LEMMA Written ==
    ASSUME FifoInv, NEW ws, NEW n \in Nat, Len(ws) = n, n <= Free, FifoWrite(ws)
    PROVE  /\ size' = size + n /\ size' \in 0..FIFO_SIF_W
           /\ readPos' \in 0..FIFO_SIF_W - 1 /\ readPos' % 4 = 0
           /\ writePos' = At(readPos' + size')
           /\ writePos \in 0..FIFO_SIF_W - 1
           /\ writePos' \in {writePos + n, writePos + n - FIFO_SIF_W}
<1>1. /\ size \in 0..FIFO_SIF_W /\ size + n <= FIFO_SIF_W /\ readPos \in 0..(FIFO_SIF_W - 1)
      /\ readPos % 4 = 0 /\ writePos = At(readPos + size)
  BY FifoAssumption DEF FifoInv, Free
<1>2. /\ writePos' = At(writePos + n) /\ size' = size + n /\ readPos' = readPos
  BY DEF FifoWrite
<1>3. /\ At(writePos + n) = At(readPos + (size + n))
      /\ writePos \in 0..(FIFO_SIF_W - 1)
      /\ At(writePos + n) \in {writePos + n, writePos + n - FIFO_SIF_W}
  BY <1>1, RingWrite, ZenonT(30)
<1> QED BY <1>1, <1>2, <1>3, FifoAssumption

\* What a read of whole quadwords leaves of FifoInv.
LEMMA WasRead ==
    ASSUME FifoInv, NEW n \in 0..size, n % 4 = 0, FifoRead(n)
    PROVE  /\ size' \in 0..FIFO_SIF_W
           /\ readPos' \in 0..FIFO_SIF_W - 1 /\ readPos' % 4 = 0
           /\ writePos' = At(readPos' + size')
           /\ writePos' = writePos
<1>1. /\ size \in 0..FIFO_SIF_W /\ readPos \in 0..(FIFO_SIF_W - 1)
      /\ readPos % 4 = 0 /\ writePos = At(readPos + size)
  BY FifoAssumption DEF FifoInv
<1>2. /\ readPos' = At(readPos + n) /\ size' = size - n /\ writePos' = writePos
  BY DEF FifoRead
<1>3. /\ At(readPos + n) \in 0..(FIFO_SIF_W - 1)
      /\ At(readPos + n) \in {readPos + n, readPos + n - FIFO_SIF_W}
      /\ At(At(readPos + n) + (size - n)) = At(readPos + size)
  BY <1>1, RingRead, Zenon
<1>4. At(readPos + n) % 4 = 0
  BY <1>1, <1>3, FifoAssumption
<1> QED BY <1>1, <1>2, <1>3, <1>4, FifoAssumption

\* The room left and the padding of a finished packet are equal modulo 4: the
\* padding always fits, and without padding to do the room is whole quadwords.
LEMMA RoomForJunk ==
    ASSUME FifoInv, counter = 0
    PROVE  writeJunk <= Free /\ (writeJunk = 0 /\ Free > 0 => Free >= 4)
<1>1. /\ size \in 0..FIFO_SIF_W /\ readPos \in 0..(FIFO_SIF_W - 1) /\ readPos % 4 = 0
      /\ writePos = At(readPos + size) /\ writeJunk \in 0..3
      /\ (writePos + counter + writeJunk) % 4 = 0
  BY FifoAssumption DEF FifoInv
<1>2. readPos + size \in 0..(2 * FIFO_SIF_W - 1)
  BY <1>1, FifoAssumption
<1>3. writePos \in {readPos + size, readPos + size - FIFO_SIF_W}
  BY <1>1, <1>2, AtValue, FifoAssumption
<1>4. (writePos + writeJunk) % 4 = 0
  BY <1>1, <1>2, <1>3, FifoAssumption
<1>5. (size + writeJunk) % 4 = 0
  <2>1. ASSUME NEW r \in Nat, NEW s \in Nat, NEW j \in Nat, NEW f \in Nat,
               r % 4 = 0, f % 4 = 0, (r + s + j) % 4 = 0 \/ (r + s - f + j) % 4 = 0
        PROVE  (s + j) % 4 = 0
    BY <2>1
  <2>2. \/ (readPos + size + writeJunk) % 4 = 0
        \/ (readPos + size - FIFO_SIF_W + writeJunk) % 4 = 0
    BY <1>3, <1>4
  <2>3. readPos \in Nat /\ size \in Nat /\ writeJunk \in Nat
    BY <1>1, FifoAssumption
  <2> QED BY <1>1, <2>1, <2>2, <2>3, FifoAssumption
<1> QED BY <1>1, <1>5, FifoAssumption DEF Free
---------------------------------------------------------------------------
(* The steps of SIF0 *)

\* The padding of a finished packet is always done, and fits.
LEMMA PadStep == ASSUME Inv0, WriteJunk PROVE Inv0'
<1> USE DEF Inv0, Ring0
<1>1. pc' = "iop" /\ counter' = counter /\ counter \in Nat /\ qwc' = qwc /\ writeJunk \in 0..3
  BY DEF WriteJunk, iopVars, eeVars, FifoInv
<1>2. Stuck0' /\ Rendezvous'
  BY <1>1 DEF Stuck0, Rendezvous
<1>3. CASE counter = 0 /\ writeJunk > 0
  <2>1. writeJunk <= Free
    BY <1>3, RoomForJunk
  <2>2. FifoWriteJunk(writeJunk) /\ writeJunk' = 0
    BY <1>3, <2>1, FifoAssumption DEF WriteJunk, Free, FifoInv
  <2>3. PICK ws : FifoWrite(ws) /\ Len(ws) = writeJunk
    BY <2>2, <1>1 DEF FifoWriteJunk
  <2>4. /\ size' \in 0..FIFO_SIF_W
        /\ readPos' \in 0..FIFO_SIF_W - 1 /\ readPos' % 4 = 0
        /\ writePos' = At(readPos' + size')
        /\ writePos \in 0..FIFO_SIF_W - 1
        /\ writePos' \in {writePos + writeJunk, writePos + writeJunk - FIFO_SIF_W}
    BY <2>1, <2>3, <1>1, Written
  <2>5. (writePos + counter + writeJunk) % 4 = 0
    BY DEF FifoInv
  <2>6. (writePos' + counter' + writeJunk') % 4 = 0
    BY <1>1, <1>3, <2>2, <2>4, <2>5, FifoAssumption
  <2>7. writeJunk' \in 0..3 /\ counter' \in Nat
    BY <1>1, <2>2
  <2>8. FifoInv'
    BY <2>2, <2>4, <2>6, <2>7, Zenon DEF FifoInv
  <2> QED BY <1>1, <1>2, <2>8
<1>4. CASE ~(counter = 0 /\ writeJunk > 0)
  <2>1. UNCHANGED <<fifoVars, writeJunk>>
    BY <1>4 DEF WriteJunk
  <2>2. counter = 0 => writeJunk = 0
    BY <1>1, <1>4
  <2>3. FifoInv'
    BY <1>1, <2>1, <2>2 DEF FifoInv, fifoVars
  <2> QED BY <1>1, <1>2, <2>3
<1> QED BY <1>3, <1>4

\* ProcessIOPTag only runs when the last packet is padded, so there is room for
\* the four words of the tag, and the new padding completes the new packet.
LEMMA TagStep ==
    ASSUME Ring0, pc = "iop", pc' = "ee", counter = 0, Free > 0, ProcessIOPTag
    PROVE  FifoInv'
<1>1. PICK n \in Words : \E p :
         /\ FifoWrite([k \in 1..4 |-> <<p, k - 5>>])
         /\ counter' = n
         /\ writeJunk' = IF n % 4 # 0 THEN (4 - n) % 4 ELSE 0
  BY Zenon DEF ProcessIOPTag
<1>2. PICK ws : FifoWrite(ws) /\ Len(ws) = 4
  BY <1>1
<1>3. writeJunk = 0 /\ Free >= 4
  BY RoomForJunk DEF Ring0, FifoInv
<1>4. /\ size' \in 0..FIFO_SIF_W
      /\ readPos' \in 0..FIFO_SIF_W - 1 /\ readPos' % 4 = 0
      /\ writePos' = At(readPos' + size')
      /\ writePos \in 0..FIFO_SIF_W - 1
      /\ writePos' \in {writePos + 4, writePos + 4 - FIFO_SIF_W}
  BY <1>2, <1>3, Written, ZenonT(30) DEF Ring0
<1>5. (writePos + counter + writeJunk) % 4 = 0
  BY DEF Ring0, FifoInv
<1>6. n \in Nat
  BY WordsAssumption
<1>7. writePos' % 4 = 0
  BY <1>3, <1>4, <1>5, FifoAssumption
<1>8. writeJunk' \in 0..3 /\ (n + writeJunk') % 4 = 0
  BY <1>1, <1>6
<1>9. (writePos' + counter' + writeJunk') % 4 = 0
  BY <1>1, <1>4, <1>6, <1>7, <1>8, FifoAssumption
<1> QED BY <1>1, <1>4, <1>6, <1>8, <1>9, ZenonT(30) DEF FifoInv

\* The words of a packet go to the ring as far as there is room.
LEMMA DataStep ==
    ASSUME Ring0, pc' = "ee", counter > 0, Free > 0, WriteIOPtoFifo
    PROVE  FifoInv'
<1> DEFINE n == Min2(counter, Free)
<1>1. n \in Nat /\ n <= Free /\ n <= counter /\ counter \in Nat
  BY FifoAssumption DEF Ring0, FifoInv, Free, Min2
<1>2. PICK ws : FifoWrite(ws) /\ Len(ws) = n
  BY <1>1 DEF WriteIOPtoFifo
<1>3. counter' = counter - n /\ writeJunk' = writeJunk
  BY DEF WriteIOPtoFifo
<1> HIDE DEF n
<1>4. /\ size' \in 0..FIFO_SIF_W
      /\ readPos' \in 0..FIFO_SIF_W - 1 /\ readPos' % 4 = 0
      /\ writePos' = At(readPos' + size')
      /\ writePos \in 0..FIFO_SIF_W - 1
      /\ writePos' \in {writePos + n, writePos + n - FIFO_SIF_W}
  BY <1>1, <1>2, Written DEF Ring0
<1>5. (writePos + counter + writeJunk) % 4 = 0 /\ writeJunk \in 0..3
  BY DEF Ring0, FifoInv
<1>6. (writePos' + counter' + writeJunk') % 4 = 0
  BY <1>1, <1>3, <1>4, <1>5, FifoAssumption
<1>7. writeJunk' \in 0..3 /\ counter' \in Nat
  BY <1>1, <1>3, <1>5
<1> QED BY <1>4, <1>6, <1>7, Zenon DEF FifoInv

\* The IOP's turn.
LEMMA IopStep == ASSUME Inv0, IopTurn PROVE Inv0'
<1> USE DEF Inv0, Ring0
<1>1. pc = "iop" /\ pc' = "ee" /\ qwc' = qwc /\ qwc \in Nat
  BY DEF IopTurn, eeVars
<1>2. counter \in Nat /\ Free \in Int
  BY FifoAssumption DEF FifoInv, Free
<1>3. Rendezvous'
  BY <1>1 DEF Rendezvous
<1>4. CASE ibusy /\ (Free > 0 \/ (iend /\ counter = 0))
  <2>1. busyCheck' = TRUE /\ HandleIOPTransfer
    BY <1>4, Zenon DEF IopTurn
  <2>2. Stuck0'
    BY <2>1 DEF Stuck0
  <2>3. CASE EndIOP
    <3>1. UNCHANGED <<data, readPos, writePos, size, counter, writeJunk>>
      BY <2>3 DEF EndIOP, fifoVars
    <3> QED BY <1>1, <1>3, <2>2, <3>1 DEF FifoInv
  <2>4. CASE counter <= 0 /\ ~iend /\ ProcessIOPTag
    <3>1. counter = 0 /\ Free > 0
      BY <1>2, <1>4, <2>4
    <3> QED BY <1>1, <1>3, <2>2, <2>4, <3>1, TagStep
  <2>5. CASE counter > 0 /\ Free > 0 /\ WriteIOPtoFifo
    BY <1>1, <1>3, <2>2, <2>5, DataStep
  <2> QED BY <2>1, <2>3, <2>4, <2>5 DEF HandleIOPTransfer
<1>5. CASE ~(ibusy /\ (Free > 0 \/ (iend /\ counter = 0)))
  <2>1. UNCHANGED <<data, readPos, writePos, size, ibusy, counter, writeJunk>>
    BY <1>5 DEF IopTurn, fifoVars
  <2>2. counter = 0 => writeJunk = 0
    BY <1>1 DEF FifoInv
  <2>3. ~ibusy \/ Free <= 0
    BY <1>2, <1>5
  <2>4. Stuck0'
    BY <2>1, <2>2, <2>3 DEF Stuck0, Free
  <2>5. FifoInv'
    BY <1>1, <2>1 DEF FifoInv
  <2> QED BY <1>1, <1>3, <2>4, <2>5
<1> QED BY <1>4, <1>5

\* The EE takes whole quadwords, and no more than the ring holds.
LEMMA ReadStep ==
    ASSUME Ring0, pc' = "junk", NEW skip \in {0, 4}, NEW q \in Nat, size >= skip,
           WriteFifoToEE(skip, q), UNCHANGED <<counter, writeJunk>>
    PROVE  Ring0'
<1> DEFINE n == Min2(q, (size - skip) \div 4)
<1>0. size \in 0..FIFO_SIF_W /\ FIFO_SIF_W \in Nat
  BY FifoAssumption DEF Ring0, FifoInv
<1>1. n \in Nat /\ n <= q /\ skip + 4 * n <= size
  BY <1>0 DEF Min2
<1>2. FifoRead(skip + 4 * n) /\ qwc' = q - n
  BY DEF WriteFifoToEE
<1> HIDE DEF n
<1>3. skip + 4 * n \in 0..size /\ (skip + 4 * n) % 4 = 0
  BY <1>0, <1>1
<1>4. /\ size' \in 0..FIFO_SIF_W
      /\ readPos' \in 0..FIFO_SIF_W - 1 /\ readPos' % 4 = 0
      /\ writePos' = At(readPos' + size')
      /\ writePos' = writePos
  BY <1>2, <1>3, WasRead DEF Ring0
<1>5. qwc' \in Nat
  BY <1>1, <1>2
<1>6. counter \in Nat /\ writeJunk \in 0..3 /\ (writePos + counter + writeJunk) % 4 = 0
  BY DEF Ring0, FifoInv
<1>7. counter' \in Nat /\ writeJunk' \in 0..3 /\ (writePos' + counter' + writeJunk') % 4 = 0
  BY <1>4, <1>6
<1> QED BY <1>4, <1>5, <1>7, Zenon DEF FifoInv, Ring0

\* The EE takes a tag, and as much of the packet as there is.
LEMMA EeTagStep ==
    ASSUME Ring0, pc' = "junk", size >= 4, ProcessEETag, UNCHANGED <<counter, writeJunk>>
    PROVE  Ring0'
<1>1. PICK q \in Nat : IF q > 0 /\ size - 4 >= 4 THEN WriteFifoToEE(4, q)
                       ELSE FifoRead(4) /\ qwc' = q
  BY DEF ProcessEETag
<1>2. CASE WriteFifoToEE(4, q)
  BY <1>2, ReadStep
<1>3. CASE FifoRead(4) /\ qwc' = q
  <2>1. size \in 0..FIFO_SIF_W /\ FIFO_SIF_W \in Nat
    BY FifoAssumption DEF Ring0, FifoInv
  <2>2. 4 \in 0..size /\ 4 % 4 = 0
    BY <2>1
  <2>3. /\ size' \in 0..FIFO_SIF_W
        /\ readPos' \in 0..FIFO_SIF_W - 1 /\ readPos' % 4 = 0
        /\ writePos' = At(readPos' + size')
        /\ writePos' = writePos
    BY <1>3, <2>2, WasRead DEF Ring0
  <2>4. counter \in Nat /\ writeJunk \in 0..3 /\ (writePos + counter + writeJunk) % 4 = 0
    BY DEF Ring0, FifoInv
  <2>5. counter' \in Nat /\ writeJunk' \in 0..3 /\ (writePos' + counter' + writeJunk') % 4 = 0
    BY <2>3, <2>4
  <2> QED BY <1>3, <2>3, <2>5, Zenon DEF FifoInv, Ring0
<1> QED BY <1>1, <1>2, <1>3

\* The EE's turn.  If the call ends here with both sides busy, the IOP's side
\* found the ring full, and a full ring holds a quadword for the EE.
LEMMA EeStep == ASSUME Inv0, EeTurn PROVE Inv0'
<1> USE DEF Inv0
<1>1. /\ pc = "ee" /\ UNCHANGED <<busyCheck, ibusy, counter, writeJunk>>
  BY DEF EeTurn, iopVars
<1>2. CASE ebusy /\ (size >= 4 \/ (eend /\ qwc = 0))
  <2>1. pc' = "junk" /\ HandleEETransfer
    BY <1>2, Zenon DEF EeTurn
  <2>2. Stuck0' /\ Rendezvous'
    BY <2>1 DEF Stuck0, Rendezvous
  <2>3. CASE UNCHANGED <<fifoVars, qwc>>
    BY <1>1, <2>1, <2>2, <2>3 DEF Ring0, FifoInv, fifoVars
  <2>4. CASE size >= 4 /\ ProcessEETag
    BY <1>1, <2>1, <2>2, <2>4, EeTagStep
  <2>5. CASE size >= 4 /\ WriteFifoToEE(0, qwc)
    <3>1. size >= 0 /\ qwc \in Nat
      BY DEF Ring0, FifoInv
    <3> QED BY <1>1, <2>1, <2>2, <2>5, <3>1, ReadStep
  <2> QED BY <2>1, <2>3, <2>4, <2>5 DEF HandleEETransfer, EndEE
<1>3. CASE ~(ebusy /\ (size >= 4 \/ (eend /\ qwc = 0)))
  <2>1. /\ UNCHANGED <<data, readPos, writePos, size, ebusy, qwc>>
        /\ pc' = IF busyCheck THEN "junk" ELSE "idle"
    BY <1>3 DEF EeTurn, fifoVars
  <2>2. CASE busyCheck
    BY <1>1, <2>1, <2>2 DEF Ring0, FifoInv, Stuck0, Rendezvous
  <2>3. CASE ~busyCheck
    <3>1. (counter = 0 => writeJunk = 0) /\ (~ibusy \/ Free <= 0)
      BY <1>1, <2>3 DEF Stuck0
    <3>2. Free <= 0 => size >= 4
      BY FifoAssumption DEF Ring0, FifoInv, Free
    <3>3. ~(ibusy /\ ebusy)
      BY <1>3, <3>1, <3>2
    <3>4. Ring0'
      BY <1>1, <2>1, <3>1 DEF Ring0, FifoInv
    <3> QED BY <1>1, <2>1, <2>3, <3>3, <3>4 DEF Stuck0, Rendezvous
  <2> QED BY <2>2, <2>3
<1> QED BY <1>2, <1>3

\* The guest only acts between two calls.
LEMMA GuestStep == ASSUME Inv0, Guest PROVE Inv0'
<1> USE DEF Inv0
<1>1. CASE SifReset
  <2>1. At(0 + 0) = 0
    BY AtValue, FifoAssumption
  <2> QED BY <1>1, <2>1, FifoAssumption DEF SifReset, Ring0, FifoInv, Stuck0, Rendezvous
<1>2. ASSUME Guest, ~SifReset
      PROVE  /\ UNCHANGED <<fifoVars, counter, writeJunk>>
             /\ pc = "idle" /\ pc' \in {"junk", "idle"}
             /\ qwc' \in Nat
             /\ pc' = "idle" => UNCHANGED <<ibusy, ebusy>>
  <2>1. CASE PsxDma9
    BY <2>1 DEF PsxDma9, eeVars, Ring0
  <2>2. CASE DmaSIF0
    BY <2>2 DEF DmaSIF0, iopVars, Ring0
  <2>3. CASE Sif0Interrupt \/ StopEE \/ EEsif0Interrupt
    BY <2>3 DEF Sif0Interrupt, StopEE, EEsif0Interrupt, iopVars, eeVars, Ring0
  <2> QED BY <1>2, <2>1, <2>2, <2>3 DEF Guest
<1>3. CASE ~SifReset
  BY <1>2, <1>3 DEF Ring0, FifoInv, Stuck0, Rendezvous, fifoVars
<1> QED BY <1>1, <1>3

LEMMA Inductive0 == Inv0 /\ [Next]_vars => Inv0'
<1>1. ASSUME Inv0, UNCHANGED vars PROVE Inv0'
  BY <1>1 DEF vars, fifoVars, iopVars, eeVars, Inv0, Ring0, FifoInv, Stuck0, Rendezvous, Free
<1> QED BY <1>1, PadStep, IopStep, EeStep, GuestStep DEF Next, Loop
---------------------------------------------------------------------------
(* What the EE receives *)

\* A position less than one ring behind is brought back into the ring.
LEMMA AtBack ==
    ASSUME NEW i \in (-FIFO_SIF_W)..(-1)
    PROVE  At(i) = i + FIFO_SIF_W
BY FifoAssumption DEF At

\* A position less than two rings ahead gives a cell of the ring.
LEMMA AtRange ==
    ASSUME NEW w \in 0..(FIFO_SIF_W - 1), NEW n \in 0..FIFO_SIF_W
    PROVE  At(w + n) \in 0..(FIFO_SIF_W - 1)
<1>1. w + n \in 0..(2 * FIFO_SIF_W - 1)
  BY FifoAssumption
<1> QED BY <1>1, AtValue, FifoAssumption

\* A word stays right when a packet is added behind it.
LEMMA RightKept ==
    ASSUME NEW ps \in Seq(Packet), NEW r \in Packet, NEW i \in Nat, NEW v,
           i <= r.start, Right(ps, i, v)
    PROVE  Right(Append(ps, r), i, v)
<1> SUFFICES ASSUME NEW p \in 1..(Len(ps) + 1),
                    NEW k \in -4..4 * Quads(Append(ps, r)[p].words) - 1,
                    i = Append(ps, r)[p].start + 5 + k
             PROVE  v = IF k < Append(ps, r)[p].words THEN <<p, k>> ELSE <<p, k - 4>>
  BY DEF Right
<1>1. CASE p = Len(ps) + 1
  <2>1. Append(ps, r)[p] = r
    BY <1>1
  <2>2. i >= r.start + 1
    BY <2>1 DEF Packet
  <2> QED BY <2>2 DEF Packet
<1>2. CASE p \in 1..Len(ps)
  <2>1. Append(ps, r)[p] = ps[p] /\ p \in DOMAIN ps
    BY <1>2
  <2> QED BY <2>1 DEF Right
<1> QED BY <1>1, <1>2

\* The cell of the j-th word back from the next write, before and after a write
\* of n words.
LEMMA BackAfterWrite ==
    ASSUME NEW w \in 0..(FIFO_SIF_W - 1), NEW n \in 0..FIFO_SIF_W, NEW j \in 1..FIFO_SIF_W,
           NEW v \in 0..(FIFO_SIF_W - 1), v = w + n \/ v = w + n - FIFO_SIF_W
    PROVE  /\ Back(v, j) \in 0..(FIFO_SIF_W - 1)
           /\ j <= n => At(Back(v, j) - w) = n - j
           /\ j > n => Back(v, j) = Back(w, j - n) /\ At(Back(v, j) - w) >= n
<1> DEFINE c == Back(v, j)
<1>1. c \in 0..(FIFO_SIF_W - 1)
  BY FifoAssumption DEF Back
<1>2. c - w \in 0..(2 * FIFO_SIF_W - 1) => At(c - w) = IF c - w < FIFO_SIF_W THEN c - w ELSE c - w - FIFO_SIF_W
  BY AtValue
<1>3. c - w \in (-FIFO_SIF_W)..(-1) => At(c - w) = c - w + FIFO_SIF_W
  BY AtBack
<1>4. c - w \in 0..(2 * FIFO_SIF_W - 1) \/ c - w \in (-FIFO_SIF_W)..(-1)
  BY <1>1, FifoAssumption
<1>5. At(c - w) = IF c >= w THEN c - w ELSE c - w + FIFO_SIF_W
  BY <1>1, <1>2, <1>3, <1>4, FifoAssumption
<1>6. c = IF j <= v THEN v - j ELSE v - j + FIFO_SIF_W
  BY DEF Back
<1> HIDE DEF c
<1>7. j <= n => At(c - w) = n - j
  BY <1>5, <1>6, FifoAssumption
<1>8. j > n => c = Back(w, j - n) /\ At(c - w) >= n
  BY <1>5, <1>6, FifoAssumption DEF Back
<1> QED BY <1>1, <1>7, <1>8 DEF c

\* Words written at their places leave every cell right.
LEMMA WroteRight ==
    ASSUME FifoInv, Types0, Held0, Taken0, NEW ws \in Seq(Word), Len(ws) <= Free,
           FifoWrite(ws), out' = out,
           \A i \in Nat, v \in Word : i <= Filled /\ Right(packets, i, v) => Right(packets', i, v),
           \A k \in 1..Len(ws) : Right(packets', Filled + k, ws[k])
    PROVE  /\ data' \in [0..FIFO_SIF_W - 1 -> Word]
           /\ Filled' = Filled + Len(ws)
           /\ Held0' /\ Taken0'
<1> DEFINE n == Len(ws)
<1>1. n \in Nat /\ n <= Free /\ n \in 0..FIFO_SIF_W
  BY FifoAssumption DEF FifoInv, Free
<1>2. /\ size' = size + n /\ writePos \in 0..(FIFO_SIF_W - 1)
      /\ writePos' \in {writePos + n, writePos + n - FIFO_SIF_W}
  BY <1>1, Written, ZenonT(30)
<1>3. PICK w \in 0..(FIFO_SIF_W - 1) : writePos' = w
  BY <1>1, <1>2, AtRange DEF FifoWrite
<1>4. /\ Filled \in Nat /\ Filled' = Filled + n /\ Len(out) \in Nat /\ Len(out) <= Filled
  <2>1. size \in Nat /\ Len(out) \in Nat
    BY FifoAssumption DEF FifoInv, Types0
  <2>2. Filled = Len(out) + size /\ Filled' = Len(out) + size'
    BY DEF Filled
  <2> QED BY <1>1, <1>2, <2>1, <2>2
<1>5. /\ DOMAIN data = 0..(FIFO_SIF_W - 1)
      /\ \A c \in 0..(FIFO_SIF_W - 1) : data[c] \in Word
  BY DEF Types0
<1>6. data' = [c \in 0..(FIFO_SIF_W - 1) |-> IF At(c - writePos) + 1 <= n THEN ws[At(c - writePos) + 1] ELSE data[c]]
  BY <1>5 DEF FifoWrite
<1>7. \A c \in 0..(FIFO_SIF_W - 1) : At(c - writePos) \in Nat
  <2> SUFFICES ASSUME NEW c \in 0..(FIFO_SIF_W - 1) PROVE At(c - writePos) \in Nat
    OBVIOUS
  <2>1. c - writePos \in 0..(2 * FIFO_SIF_W - 1) \/ c - writePos \in (-FIFO_SIF_W)..(-1)
    BY <1>2, FifoAssumption
  <2>2. CASE c - writePos \in 0..(2 * FIFO_SIF_W - 1)
    BY <2>2, AtValue, FifoAssumption
  <2>3. CASE c - writePos \in (-FIFO_SIF_W)..(-1)
    BY <2>3, AtBack, FifoAssumption
  <2> QED BY <2>1, <2>2, <2>3
<1>8. \A k \in 1..n : ws[k] \in Word
  OBVIOUS
<1> HIDE DEF n
<1>9. data' \in [0..FIFO_SIF_W - 1 -> Word]
  <2>1. \A c \in 0..(FIFO_SIF_W - 1) : (IF At(c - writePos) + 1 <= n THEN ws[At(c - writePos) + 1] ELSE data[c]) \in Word
    BY <1>1, <1>5, <1>7, <1>8
  <2> QED BY <1>6, <2>1
<1>10. Taken0'
  <2> SUFFICES ASSUME NEW i \in DOMAIN out PROVE Right(packets', i, out[i])
    BY DEF Taken0
  <2>1. i \in Nat /\ i <= Filled /\ out[i] \in Word /\ Right(packets, i, out[i])
    BY <1>4 DEF Types0, Taken0
  <2> QED BY <2>1
<1>11. Held0'
  <2> SUFFICES ASSUME NEW j \in 1..FIFO_SIF_W, j <= Filled'
               PROVE  Right(packets', Filled' + 1 - j, data'[Back(w, j)])
    BY <1>3 DEF Held0
  <2> DEFINE c == Back(w, j)
  <2>1. w = writePos + n \/ w = writePos + n - FIFO_SIF_W
    BY <1>2, <1>3
  <2>2. /\ c \in 0..(FIFO_SIF_W - 1)
        /\ j <= n => At(c - writePos) = n - j
        /\ j > n => c = Back(writePos, j - n) /\ At(c - writePos) >= n
    BY <1>1, <1>2, <2>1, BackAfterWrite
  <2> HIDE DEF c
  <2>3. CASE j <= n
    <3>1. n - j + 1 \in 1..n /\ Filled' + 1 - j = Filled + (n - j + 1)
      BY <1>1, <1>4, <2>3
    <3>2. data'[c] = ws[n - j + 1]
      BY <1>1, <1>6, <2>2, <2>3
    <3>3. Right(packets', Filled + (n - j + 1), ws[n - j + 1])
      BY <3>1 DEF n
    <3> QED BY <3>1, <3>2, <3>3 DEF c
  <2>4. CASE j > n
    <3>1. j - n \in 1..FIFO_SIF_W /\ j - n <= Filled /\ Filled' + 1 - j = Filled + 1 - (j - n)
      BY <1>1, <1>4, <2>4, FifoAssumption
    <3>2. c = Back(writePos, j - n)
      BY <2>2, <2>4
    <3>3. data'[c] = data[c]
      BY <1>1, <1>6, <1>7, <2>2, <2>4
    <3>4. Right(packets, Filled + 1 - (j - n), data[c])
      BY <3>1, <3>2 DEF Held0
    <3>5. Filled + 1 - (j - n) \in Nat /\ Filled + 1 - (j - n) <= Filled /\ data[c] \in Word
      BY <1>4, <1>5, <2>2, <3>1
    <3> QED BY <3>1, <3>3, <3>4, <3>5 DEF c
  <2> QED BY <1>1, <2>3, <2>4
<1> QED BY <1>4, <1>9, <1>10, <1>11 DEF n

\* The k-th of s words held from position r on is the (s - k + 1)-th word back.
LEMMA BackOfRead ==
    ASSUME NEW r \in 0..(FIFO_SIF_W - 1), NEW s \in 0..FIFO_SIF_W, NEW k \in 1..s
    PROVE  At(r + k - 1) = Back(At(r + s), s - k + 1)
<1>1. r + s \in 0..(2 * FIFO_SIF_W - 1) /\ r + k - 1 \in 0..(2 * FIFO_SIF_W - 1)
  BY FifoAssumption
<1>2. /\ At(r + s) = IF r + s < FIFO_SIF_W THEN r + s ELSE r + s - FIFO_SIF_W
      /\ At(r + k - 1) = IF r + k - 1 < FIFO_SIF_W THEN r + k - 1 ELSE r + k - 1 - FIFO_SIF_W
  BY <1>1, AtValue, FifoAssumption
<1> QED BY <1>2, FifoAssumption DEF Back

\* The k-th word held is the one for the place behind the words taken.
LEMMA HeldAt ==
    ASSUME FifoInv, Types0, Held0, NEW k \in 1..size
    PROVE  /\ data[At(readPos + k - 1)] \in Word
           /\ Right(packets, Len(out) + k, data[At(readPos + k - 1)])
<1>1. /\ size \in 0..FIFO_SIF_W /\ readPos \in 0..(FIFO_SIF_W - 1)
      /\ writePos = At(readPos + size) /\ Len(out) \in Nat
  BY DEF FifoInv, Types0
<1>2. At(readPos + k - 1) = Back(writePos, size - k + 1)
  BY <1>1, BackOfRead
<1>3. writePos \in 0..(FIFO_SIF_W - 1)
  BY <1>1, AtRange
<1>4. size - k + 1 \in 1..FIFO_SIF_W /\ size - k + 1 <= Filled
      /\ Filled + 1 - (size - k + 1) = Len(out) + k
  BY <1>1, FifoAssumption DEF Filled
<1>5. Back(writePos, size - k + 1) \in 0..(FIFO_SIF_W - 1)
  BY <1>3, <1>4, FifoAssumption DEF Back
<1>6. Right(packets, Filled + 1 - (size - k + 1), data[Back(writePos, size - k + 1)])
  BY <1>4 DEF Held0
<1> QED BY <1>2, <1>4, <1>5, <1>6 DEF Types0

\* Words that are read were right in their cells.
LEMMA ReadRight ==
    ASSUME FifoInv, Types0, Held0, Taken0, NEW n \in 0..size, FifoRead(n), packets' = packets
    PROVE  /\ out' \in Seq(Word) /\ Len(out') = Len(out) + n
           /\ data' = data /\ Filled' = Filled
           /\ Held0' /\ Taken0'
<1> DEFINE ws == [k \in 1..n |-> data[At(readPos + k - 1)]]
<1>1. /\ size \in Nat /\ n \in Nat /\ Len(out) \in Nat /\ out \in Seq(Word)
  BY FifoAssumption DEF FifoInv, Types0
<1>2. \A k \in 1..n : ws[k] \in Word /\ Right(packets, Len(out) + k, ws[k])
  BY <1>1, HeldAt
<1>3. ws \in Seq(Word) /\ Len(ws) = n
  BY <1>1, <1>2
<1>4. out' = out \o ws /\ data' = data /\ size' = size - n /\ writePos' = writePos
  BY DEF FifoRead, FifoWords
<1> HIDE DEF ws
<1>5. out' \in Seq(Word) /\ Len(out') = Len(out) + n
  BY <1>1, <1>3, <1>4
<1>6. Filled' = Filled
  BY <1>1, <1>4, <1>5 DEF Filled
<1>7. Held0'
  BY <1>4, <1>6 DEF Held0
<1>8. Taken0'
  <2> SUFFICES ASSUME NEW i \in 1..(Len(out) + n) PROVE Right(packets, i, out'[i])
    BY <1>5 DEF Taken0
  <2>1. CASE i <= Len(out)
    BY <1>1, <1>3, <1>4, <2>1 DEF Taken0
  <2>2. CASE i > Len(out)
    <3>1. i - Len(out) \in 1..n /\ out'[i] = ws[i - Len(out)] /\ Len(out) + (i - Len(out)) = i
      BY <1>1, <1>3, <1>4, <2>2
    <3> QED BY <1>2, <3>1
  <2> QED BY <1>1, <2>1, <2>2
<1> QED BY <1>4, <1>5, <1>6, <1>7, <1>8

\* The padding of n words completes the last quadword.
LEMMA QuadsOf ==
    ASSUME NEW n \in Nat
    PROVE  /\ Quads(n) \in Nat /\ 4 * Quads(n) - n \in 0..3
           /\ (IF n % 4 # 0 THEN (4 - n) % 4 ELSE 0) = 4 * Quads(n) - n
BY DEF Quads

\* Packets that do not overlap say of no place two different things.
LEMMA RightAt ==
    ASSUME NEW ps \in Seq(Packet), NEW p \in DOMAIN ps,
           \A q, r \in DOMAIN ps : q < r => ps[q].start + 4 + 4 * Quads(ps[q].words) <= ps[r].start,
           NEW k \in -4..4 * Quads(ps[p].words) - 1
    PROVE  Right(ps, ps[p].start + 5 + k, IF k < ps[p].words THEN <<p, k>> ELSE <<p, k - 4>>)
<1> SUFFICES ASSUME NEW q \in DOMAIN ps, NEW l \in -4..4 * Quads(ps[q].words) - 1,
                    ps[p].start + 5 + k = ps[q].start + 5 + l
             PROVE  q = p /\ l = k
  BY ZenonT(30) DEF Right
<1>1. p \in Nat /\ q \in Nat /\ ps[p] \in Packet /\ ps[q] \in Packet
  OBVIOUS
<1>2. /\ ps[p].start \in Nat /\ ps[q].start \in Nat
      /\ ps[p].words \in Nat /\ ps[q].words \in Nat
  BY <1>1 DEF Packet
<1>3. Quads(ps[p].words) \in Nat /\ Quads(ps[q].words) \in Nat
  BY <1>2, QuadsOf, ZenonT(30)
<1>4. k \in Int /\ l \in Int /\ -4 <= k /\ -4 <= l
      /\ k < 4 * Quads(ps[p].words) /\ l < 4 * Quads(ps[q].words)
  BY <1>3
<1>0. ASSUME NEW a \in Nat, NEW b \in Nat, NEW x \in Nat, NEW i \in Int, NEW j \in Int,
             a + 4 + 4 * x <= b, i < 4 * x, -4 <= j
      PROVE  a + 5 + i # b + 5 + j
  BY <1>0
<1>5. ~(p < q)
  <2> SUFFICES ASSUME p < q PROVE FALSE
    OBVIOUS
  <2>1. ps[p].start + 4 + 4 * Quads(ps[p].words) <= ps[q].start
    OBVIOUS
  <2> QED BY <1>0, <1>2, <1>3, <1>4, <2>1, ZenonT(30)
<1>6. ~(q < p)
  <2> SUFFICES ASSUME q < p PROVE FALSE
    OBVIOUS
  <2>1. ps[q].start + 4 + 4 * Quads(ps[q].words) <= ps[p].start
    OBVIOUS
  <2> QED BY <1>0, <1>2, <1>3, <1>4, <2>1, ZenonT(30)
<1>7. q = p
  BY <1>1, <1>5, <1>6
<1> QED BY <1>2, <1>4, <1>7

\* What Flow0 says of the last packet and of the words written of it.
LEMMA LastPacket ==
    ASSUME FifoInv, Flow0, packets # <<>>
    PROVE  /\ Len(packets) \in DOMAIN packets
           /\ \E s, n, x \in Nat :
                /\ packets[Len(packets)].start = s /\ packets[Len(packets)].words = n
                /\ Quads(n) = x /\ 4 * x - n \in 0..3
                /\ EndOf(Len(packets)) = s + 4 + 4 * x
                /\ Filled + counter + writeJunk = s + 4 + 4 * x
                /\ counter <= n
                /\ writeJunk = 4 * x - n \/ (counter = 0 /\ writeJunk = 0)
<1> DEFINE P == Len(packets)
<1>1. P \in DOMAIN packets /\ P \in Nat /\ P # 0 /\ packets[P] \in Packet
  BY DEF Flow0, Types0
<1>2. PICK n \in Nat, s \in Nat : packets[P].words = n /\ packets[P].start = s
  BY <1>1 DEF Packet
<1>3. PICK x \in Nat : Quads(n) = x /\ 4 * x - n \in 0..3
  BY <1>2, QuadsOf, ZenonT(30)
<1>4. EndOf(P) = s + 4 + 4 * x
  BY <1>1, <1>2, <1>3 DEF EndOf
<1>5. /\ Filled + counter + writeJunk = EndOf(P)
      /\ counter <= n /\ (writeJunk = 4 * x - n \/ (counter = 0 /\ writeJunk = 0))
  BY <1>2, <1>3 DEF Flow0, Sent0
<1> QED BY <1>1, <1>2, <1>3, <1>4, <1>5, ZenonT(30)

\* Without packets nothing is to be sent.
LEMMA NoPacket ==
    ASSUME FifoInv, Flow0, packets = <<>>
    PROVE  counter = 0 /\ writeJunk = 0 /\ Filled = 0
<1>1. Filled \in Nat /\ counter \in Nat /\ writeJunk \in Nat
  BY FifoAssumption DEF FifoInv, Flow0, Types0, Filled
<1>2. Filled + counter + writeJunk = 0
  BY DEF Flow0, Sent0, EndOf
<1> QED BY <1>1, <1>2

\* Packets whose records do not change keep their layout and what is said of tags.
LEMMA SamePackets ==
    ASSUME Flow0, packets' = packets
    PROVE  /\ Layout0'
           /\ \A p : EndOf(p)' = EndOf(p)
           /\ \A i \in Nat, v \in Word : i <= Filled /\ Right(packets, i, v) => Right(packets', i, v)
<1>1. \A p : EndOf(p)' = EndOf(p)
  BY DEF EndOf
<1>2. Layout0'
  BY <1>1 DEF Flow0, Layout0
<1> QED BY <1>1, <1>2

\* The cells from which writeJunk copies n words: it does not wrap, and they lie
\* one quadword behind the words to write.
LEMMA JunkCell ==
    ASSUME NEW w \in 0..(FIFO_SIF_W - 1), NEW n \in 1..3, (w + n) % 4 = 0, NEW k \in 1..n
    PROVE  /\ ~(FIFO_SIF_W - w < n)
           /\ At(At(w - (4 + (4 - n))) + (4 - n + k - 1)) = Back(w, 5 - k)
           /\ Back(w, 5 - k) \in 0..(FIFO_SIF_W - 1)
<1>0. ~(FIFO_SIF_W - w < n) /\ w + n >= 4
  BY FifoAssumption
<1>1. Back(w, 5 - k) \in 0..(FIFO_SIF_W - 1)
  BY FifoAssumption DEF Back
<1>2. CASE w >= 4 + (4 - n)
  <2>1. w - (4 + (4 - n)) \in 0..(2 * FIFO_SIF_W - 1)
    BY <1>2, FifoAssumption
  <2>2. At(w - (4 + (4 - n))) = w - (4 + (4 - n))
    BY <1>2, <2>1, AtValue, FifoAssumption
  <2>3. w - 5 + k \in 0..(2 * FIFO_SIF_W - 1) /\ w - (4 + (4 - n)) + (4 - n + k - 1) = w - 5 + k
    BY <1>2, FifoAssumption
  <2>4. At(w - 5 + k) = w - 5 + k
    BY <2>3, AtValue, FifoAssumption
  <2> QED BY <1>0, <1>1, <1>2, <2>2, <2>3, <2>4, FifoAssumption DEF Back
<1>3. CASE w < 4 + (4 - n)
  <2>1. w - (4 + (4 - n)) \in (-FIFO_SIF_W)..(-1)
    BY <1>3, FifoAssumption
  <2>2. At(w - (4 + (4 - n))) = w - (4 + (4 - n)) + FIFO_SIF_W
    BY <2>1, AtBack
  <2>3. w + n = 4
    BY <1>0, <1>3
  <2>4. w - (4 + (4 - n)) + FIFO_SIF_W + (4 - n + k - 1) = FIFO_SIF_W + w - 5 + k
    BY FifoAssumption
  <2>5. FIFO_SIF_W + w - 5 + k \in 0..(2 * FIFO_SIF_W - 1)
    BY FifoAssumption
  <2>6. At(FIFO_SIF_W + w - 5 + k) = IF FIFO_SIF_W + w - 5 + k < FIFO_SIF_W
          THEN FIFO_SIF_W + w - 5 + k ELSE FIFO_SIF_W + w - 5 + k - FIFO_SIF_W
    BY <2>5, AtValue, FifoAssumption
  <2> QED BY <1>0, <1>1, <2>2, <2>3, <2>4, <2>6, FifoAssumption DEF Back
<1> QED BY <1>2, <1>3, FifoAssumption

\* No two packets overlap.
LEMMA NoOverlap ==
    ASSUME Flow0
    PROVE  \A q, r \in DOMAIN packets :
              q < r => packets[q].start + 4 + 4 * Quads(packets[q].words) <= packets[r].start
<1> SUFFICES ASSUME NEW q \in DOMAIN packets, NEW r \in DOMAIN packets, q < r
             PROVE  packets[q].start + 4 + 4 * Quads(packets[q].words) <= packets[r].start
  OBVIOUS
<1>1. q # 0
  BY DEF Flow0, Types0
<1>2. EndOf(q) = packets[q].start + 4 + 4 * Quads(packets[q].words)
  BY <1>1 DEF EndOf
<1>3. EndOf(q) <= packets[r].start
  BY DEF Flow0, Layout0
<1> QED BY <1>2, <1>3

\* The word that a packet has at a place is right there.
LEMMA RightIn ==
    ASSUME Flow0, NEW p \in DOMAIN packets, NEW k \in -4..4 * Quads(packets[p].words) - 1
    PROVE  /\ k < packets[p].words => Right(packets, packets[p].start + 5 + k, <<p, k>>)
           /\ ~(k < packets[p].words) => Right(packets, packets[p].start + 5 + k, <<p, k - 4>>)
<1>1. packets \in Seq(Packet)
  BY DEF Flow0, Types0
<1>2. Right(packets, packets[p].start + 5 + k,
            IF k < packets[p].words THEN <<p, k>> ELSE <<p, k - 4>>)
  BY <1>1, NoOverlap, RightAt, Zenon
<1> QED BY <1>2

\* Steps that write nothing, read nothing and keep what is left to send.
LEMMA QuietFlow ==
    ASSUME Flow0, UNCHANGED <<data, writePos, size, counter, writeJunk, packets, out, tags, normal>>,
           ~normal => qwc' = qwc
    PROVE  Flow0'
<1>1. Filled' = Filled /\ Layout0' /\ \A p : EndOf(p)' = EndOf(p)
  BY SamePackets DEF Filled
<1>2. Types0'
  BY DEF Flow0, Types0
<1>3. Sent0'
  BY <1>1 DEF Flow0, Sent0
<1>4. Held0' /\ Taken0'
  BY <1>1 DEF Flow0, Held0, Taken0
<1>5. Tagged0'
  BY <1>1 DEF Flow0, Tagged0
<1> QED BY <1>1, <1>2, <1>3, <1>4, <1>5 DEF Flow0

\* The padding is the end of the quadword before the last one of the packet.
LEMMA PadFlow == ASSUME Inv0, Flow0, WriteJunk PROVE Flow0'
<1>1. /\ UNCHANGED <<counter, packets, out, tags, normal, qwc>>
      /\ FifoInv /\ counter \in Nat /\ writeJunk \in 0..3
  BY DEF WriteJunk, eeVars, Inv0, Ring0, FifoInv
<1>2. CASE counter = 0 /\ writeJunk > 0
  <2>1. writeJunk <= Free
    BY <1>1, <1>2, RoomForJunk
  <2>2. FifoWriteJunk(writeJunk) /\ writeJunk' = 0
    BY <1>1, <1>2, <2>1, FifoAssumption DEF WriteJunk, Free, FifoInv
  <2>3. packets # <<>>
    BY <1>1, <1>2, NoPacket
  <2> DEFINE P == Len(packets)
             n == writeJunk
  <2>4. PICK s \in Nat, m \in Nat, x \in Nat :
          /\ packets[P].start = s /\ packets[P].words = m
          /\ Quads(m) = x /\ 4 * x - m \in 0..3 /\ EndOf(P) = s + 4 + 4 * x
          /\ Filled + counter + writeJunk = s + 4 + 4 * x
          /\ writeJunk = 4 * x - m
    BY <1>1, <1>2, <2>3, LastPacket
  <2>5. /\ writePos \in 0..(FIFO_SIF_W - 1) /\ n \in 1..3 /\ (writePos + n) % 4 = 0
        /\ Filled \in Nat /\ Filled = s + 4 + m /\ P \in DOMAIN packets
    <3>1. writePos = At(readPos + size) /\ readPos \in 0..(FIFO_SIF_W - 1) /\ size \in 0..FIFO_SIF_W
          /\ (writePos + counter + writeJunk) % 4 = 0
      BY <1>1 DEF FifoInv
    <3>2. writePos \in 0..(FIFO_SIF_W - 1)
      BY <3>1, AtRange
    <3>3. Filled \in Nat /\ P \in DOMAIN packets
      BY <1>1, <2>3, <3>1, FifoAssumption, LastPacket DEF Filled, Flow0, Types0
    <3>4. (writePos + writeJunk) % 4 = 0
      BY <1>1, <1>2, <3>1, <3>2, FifoAssumption
    <3> QED BY <1>1, <1>2, <2>4, <3>2, <3>3, <3>4
  <2> HIDE DEF n
  <2> DEFINE ws == [k \in 1..n |-> data[Back(writePos, 5 - k)]]
  <2>6. FifoWrite(ws)
    <3>1. \A k \in 1..n : /\ ~(FIFO_SIF_W - writePos < n)
                          /\ At(At(writePos - (4 + (4 - n))) + (4 - n + k - 1)) = Back(writePos, 5 - k)
      BY <2>5, JunkCell
    <3>2. ~(FIFO_SIF_W - writePos < n)
      BY <2>5, <3>1
    <3> DEFINE js == [k \in 1..n |-> IF k <= n THEN data[At(At(writePos - (4 + (4 - n))) + (4 - n + k - 1))]
                                     ELSE data[At(At(writePos - (4 + (4 - n))) + (k - 1))]]
    <3>3. FifoWrite(js)
      BY <2>2, <3>2 DEF FifoWriteJunk, n
    <3>4. js = ws
      BY <2>5, <3>1
    <3> QED BY <3>3, <3>4, ZenonT(30)
  <2>7. /\ data \in [0..FIFO_SIF_W - 1 -> Word]
        /\ \A k \in 1..n : Back(writePos, 5 - k) \in 0..(FIFO_SIF_W - 1)
    BY <2>5, JunkCell, ZenonT(30) DEF Flow0, Types0
  <2>8. ws \in Seq(Word) /\ Len(ws) = n
    BY <2>5, <2>7
  <2>9. \A k \in 1..n : Right(packets, Filled + k, ws[k])
    <3> SUFFICES ASSUME NEW k \in 1..n PROVE Right(packets, Filled + k, data[Back(writePos, 5 - k)])
      OBVIOUS
    <3>1. 5 - k \in 1..FIFO_SIF_W /\ 5 - k <= Filled
          /\ Filled + 1 - (5 - k) = s + 5 + (m + k - 1 - 4)
          /\ Filled + k = s + 5 + (m + k - 1)
      BY <2>5, FifoAssumption
    <3>2. Right(packets, s + 5 + (m + k - 1 - 4), data[Back(writePos, 5 - k)])
      BY <3>1 DEF Flow0, Held0
    <3>3. m + k - 1 - 4 \in -4..4 * x - 1 /\ m + k - 1 - 4 < m
          /\ m + k - 1 \in -4..4 * x - 1 /\ ~(m + k - 1 < m)
      BY <2>4, <2>5 DEF n
    <3>4. data[Back(writePos, 5 - k)] = <<P, m + k - 1 - 4>>
      BY <2>4, <2>5, <3>2, <3>3, ZenonT(30) DEF Right
    <3>5. Right(packets, s + 5 + (m + k - 1), <<P, m + k - 1 - 4>>)
      <4>1. P \in DOMAIN packets /\ m + k - 1 \in -4..4 * Quads(packets[P].words) - 1
        BY <2>4, <2>5, <3>3
      <4>2. PICK l : l = m + k - 1
        OBVIOUS
      <4>3. ~(l < packets[P].words) => Right(packets, packets[P].start + 5 + l, <<P, l - 4>>)
        BY <4>1, <4>2, RightIn, Zenon
      <4>4. ~(l < packets[P].words) /\ packets[P].start = s
        BY <2>4, <3>3, <4>2
      <4>5. Right(packets, s + 5 + l, <<P, l - 4>>)
        BY <4>3, <4>4, ZenonT(30)
      <4>6. s + 5 + l = s + 5 + (m + k - 1) /\ l - 4 = m + k - 1 - 4
        BY <4>2
      <4> QED BY <4>5, <4>6
    <3> QED BY <3>1, <3>4, <3>5
  <2> HIDE DEF ws
  <2>10. /\ data' \in [0..FIFO_SIF_W - 1 -> Word] /\ Filled' = Filled + n /\ Held0' /\ Taken0'
    BY <1>1, <2>1, <2>6, <2>8, <2>9, WroteRight DEF Flow0, n
  <2>11. Layout0' /\ \A p : EndOf(p)' = EndOf(p)
    BY <1>1, SamePackets
  <2>12. Types0'
    BY <1>1, <2>10 DEF Flow0, Types0
  <2>13. Sent0'
    <3>1. Filled' + counter' + writeJunk' = EndOf(P)
      BY <1>1, <1>2, <2>2, <2>4, <2>5, <2>10 DEF n
    <3>2. counter' <= packets[P].words /\ counter' = 0 /\ writeJunk' = 0
      BY <1>1, <1>2, <2>2, <2>4
    <3> QED BY <1>1, <2>11, <3>1, <3>2 DEF Sent0
  <2>14. Tagged0'
    BY <1>1, <2>11 DEF Flow0, Tagged0
  <2> QED BY <2>10, <2>11, <2>12, <2>13, <2>14 DEF Flow0
<1>3. CASE ~(counter = 0 /\ writeJunk > 0)
  <2>1. UNCHANGED <<data, writePos, size, writeJunk>>
    BY <1>3 DEF WriteJunk, fifoVars
  <2> QED BY <1>1, <2>1, QuietFlow
<1> QED BY <1>2, <1>3

\* A new packet starts behind everything sent so far.
LEMMA NewPacket ==
    ASSUME FifoInv, Flow0, counter = 0, writeJunk = 0, NEW n \in Nat, NEW end \in BOOLEAN,
           packets' = Append(packets, [words |-> n, end |-> end, start |-> EndOf(Len(packets))]),
           NEW P, P = Len(packets) + 1
    PROVE  /\ packets' \in Seq(Packet) /\ Len(packets') = P
           /\ packets'[P].words = n /\ packets'[P].start = Filled /\ Filled \in Nat
           /\ Layout0'
           /\ \A p \in 0..Len(packets) : EndOf(p)' = EndOf(p)
           /\ \A i \in Nat, v \in Word : i <= Filled /\ Right(packets, i, v) => Right(packets', i, v)
           /\ \A k \in 1..4 : Right(packets', Filled + k, <<P, k - 5>>)
           /\ EndOf(P)' = Filled + 4 + 4 * Quads(n)
<1> DEFINE r == [words |-> n, end |-> end, start |-> Filled]
<1>1. /\ packets \in Seq(Packet) /\ Len(packets) \in Nat /\ Len(out) \in Nat /\ size \in Nat
      /\ P \in Nat
  BY FifoAssumption DEF Flow0, Types0, FifoInv
<1>2. Filled \in Nat /\ EndOf(Len(packets)) = Filled
  <2>1. Filled \in Nat
    BY <1>1 DEF Filled
  <2>2. Filled + 0 + 0 = EndOf(Len(packets))
    BY DEF Flow0, Sent0
  <2> QED BY <2>1, <2>2
<1>3. r \in Packet /\ packets' = Append(packets, r)
  BY <1>2 DEF Packet
<1>4. r.words = n /\ r.start = Filled
  OBVIOUS
<1> HIDE DEF r
<1>5. /\ packets' \in Seq(Packet) /\ Len(packets') = P /\ packets'[P] = r
      /\ \A p \in 1..Len(packets) : packets'[p] = packets[p]
  BY <1>1, <1>3
<1>6. \A p \in 0..Len(packets) : EndOf(p)' = EndOf(p)
  BY <1>1, <1>5 DEF EndOf
<1>7. EndOf(P)' = Filled + 4 + 4 * Quads(n)
  <2>1. P # 0
    BY <1>1, <1>5
  <2>2. EndOf(P)' = packets'[P].start + 4 + 4 * Quads(packets'[P].words)
    BY <2>1 DEF EndOf
  <2> QED BY <1>4, <1>5, <2>2
<1>8. \A p \in DOMAIN packets : EndOf(p) <= Filled
  <2> SUFFICES ASSUME NEW p \in DOMAIN packets PROVE EndOf(p) <= Filled
    OBVIOUS
  <2>1. CASE p = Len(packets)
    BY <1>2, <2>1
  <2>2. CASE p < Len(packets)
    <3>1. Len(packets) \in DOMAIN packets /\ packets # <<>>
      BY <1>1, <2>2
    <3>2. EndOf(p) <= packets[Len(packets)].start
      BY <2>2, <3>1 DEF Flow0, Layout0
    <3>3. PICK s \in Nat, x \in Nat : packets[Len(packets)].start = s /\ EndOf(Len(packets)) = s + 4 + 4 * x
      BY <3>1, LastPacket, ZenonT(30)
    <3>4. EndOf(p) \in Int
      <4>1. packets[p] \in Packet /\ p # 0
        BY <1>1
      <4>2. packets[p].start \in Nat /\ packets[p].words \in Nat
        BY <4>1 DEF Packet
      <4>3. Quads(packets[p].words) \in Nat
        BY <4>2, QuadsOf, ZenonT(30)
      <4> QED BY <4>1, <4>2, <4>3 DEF EndOf
    <3> QED BY <1>2, <3>2, <3>3, <3>4
  <2> QED BY <1>1, <2>1, <2>2
<1>9. Layout0'
  <2>1. \A p \in DOMAIN packets' : packets'[p].start = EndOf(p - 1)'
    <3> SUFFICES ASSUME NEW p \in 1..P PROVE packets'[p].start = EndOf(p - 1)'
      BY <1>1, <1>5
    <3>1. p - 1 \in 0..Len(packets)
      BY <1>1
    <3>2. EndOf(p - 1)' = EndOf(p - 1)
      BY <1>6, <3>1
    <3>3. CASE p = P
      <4>1. p - 1 = Len(packets)
        BY <1>1, <3>3
      <4> QED BY <1>2, <1>4, <1>5, <3>2, <3>3, <4>1
    <3>4. CASE p \in 1..Len(packets)
      BY <1>1, <1>5, <3>2, <3>4 DEF Flow0, Layout0
    <3> QED BY <1>1, <3>3, <3>4
  <2>2. \A p, q \in DOMAIN packets' : p < q => EndOf(p)' <= packets'[q].start
    <3> SUFFICES ASSUME NEW p \in 1..P, NEW q \in 1..P, p < q PROVE EndOf(p)' <= packets'[q].start
      BY <1>1, <1>5
    <3>1. p \in DOMAIN packets /\ EndOf(p)' = EndOf(p)
      BY <1>1, <1>6
    <3>2. CASE q = P
      BY <1>4, <1>5, <1>8, <3>1, <3>2
    <3>3. CASE q \in 1..Len(packets)
      BY <1>1, <1>5, <3>1, <3>3 DEF Flow0, Layout0
    <3> QED BY <1>1, <3>2, <3>3
  <2> QED BY <2>1, <2>2 DEF Layout0
<1>10. \A i \in Nat, v \in Word : i <= Filled /\ Right(packets, i, v) => Right(packets', i, v)
  BY <1>1, <1>3, <1>4, RightKept
<1>11. \A k \in 1..4 : Right(packets', Filled + k, <<P, k - 5>>)
  <2> SUFFICES ASSUME NEW k \in 1..4 PROVE Right(packets', Filled + k, <<P, k - 5>>)
    BY ZenonT(30)
  <2>1. DOMAIN packets' = 1..P
    BY <1>1, <1>5
  <2>2. ASSUME NEW p \in 1..P, NEW l \in -4..4 * Quads(packets'[p].words) - 1,
               Filled + k = packets'[p].start + 5 + l
        PROVE  <<P, k - 5>> = IF l < packets'[p].words THEN <<p, l>> ELSE <<p, l - 4>>
    <3>1. CASE p = P
      <4>1. packets'[p].words = n /\ packets'[p].start = Filled
        BY <1>4, <1>5, <3>1
      <4>2. Quads(n) \in Nat
        BY QuadsOf
      <4>3. l = k - 5 /\ l < n
        BY <1>2, <2>2, <4>1, <4>2
      <4> QED BY <3>1, <4>1, <4>3
    <3>2. CASE p \in 1..Len(packets)
      <4>1. packets'[p] = packets[p] /\ packets[p] \in Packet /\ p # 0 /\ p \in DOMAIN packets
        BY <1>1, <1>5, <3>2
      <4>2. PICK s \in Nat, m \in Nat : packets[p].start = s /\ packets[p].words = m
        BY <4>1 DEF Packet
      <4>3. PICK x \in Nat : Quads(m) = x
        BY <4>2, QuadsOf
      <4>4. s + 4 + 4 * x <= Filled
        BY <1>8, <4>1, <4>2, <4>3, ZenonT(30) DEF EndOf
      <4>5. l \in -4..4 * x - 1 /\ Filled + k = s + 5 + l
        BY <2>2, <4>1, <4>2, <4>3
      <4> QED BY <1>2, <4>4, <4>5
    <3> QED BY <1>1, <3>1, <3>2
  <2> QED BY <2>1, <2>2 DEF Right
<1> QED BY <1>2, <1>4, <1>5, <1>6, <1>7, <1>9, <1>10, <1>11

\* The tag of a packet goes to the first four places of the packet.
LEMMA TagFlow ==
    ASSUME Ring0, Flow0, pc = "iop", counter = 0, Free > 0, ProcessIOPTag,
           UNCHANGED <<out, tags, normal, qwc>>
    PROVE  Flow0'
<1>1. PICK P : P = Len(packets) + 1
  OBVIOUS
<1>2. PICK n \in Words, end \in BOOLEAN :
        /\ packets' = Append(packets, [words |-> n, end |-> end, start |-> EndOf(P - 1)])
        /\ FifoWrite([k \in 1..4 |-> <<P, k - 5>>])
        /\ counter' = n
        /\ writeJunk' = IF n % 4 # 0 THEN (4 - n) % 4 ELSE 0
  BY <1>1, Zenon DEF ProcessIOPTag
<1>3. /\ FifoInv /\ writeJunk = 0 /\ Free >= 4 /\ P \in Nat /\ P - 1 = Len(packets)
      /\ Len(tags) \in Nat /\ n \in Nat
  BY <1>1, RoomForJunk, WordsAssumption DEF Ring0, FifoInv, Flow0, Types0
<1>4. packets' = Append(packets, [words |-> n, end |-> end, start |-> EndOf(Len(packets))])
  BY <1>2, <1>3
<1> DEFINE ws == [k \in 1..4 |-> <<P, k - 5>>]
<1>5. /\ packets' \in Seq(Packet) /\ Len(packets') = P
      /\ packets'[P].words = n /\ Filled \in Nat
      /\ Layout0'
      /\ \A p \in 0..Len(packets) : EndOf(p)' = EndOf(p)
      /\ \A i \in Nat, v \in Word : i <= Filled /\ Right(packets, i, v) => Right(packets', i, v)
      /\ \A k \in 1..4 : Right(packets', Filled + k, <<P, k - 5>>)
      /\ EndOf(P)' = Filled + 4 + 4 * Quads(n)
  BY <1>1, <1>3, <1>4, NewPacket, ZenonT(30)
<1>6. ws \in Seq(Word) /\ Len(ws) = 4 /\ \A k \in 1..4 : ws[k] = <<P, k - 5>>
  BY <1>3 DEF Word
<1>7. FifoWrite(ws)
  BY <1>2
<1> HIDE DEF ws
<1>8. /\ data' \in [0..FIFO_SIF_W - 1 -> Word] /\ Filled' = Filled + 4 /\ Held0' /\ Taken0'
  <2>1. Len(ws) <= Free /\ \A k \in 1..Len(ws) : Right(packets', Filled + k, ws[k])
    BY <1>3, <1>5, <1>6, FifoAssumption, ZenonT(30) DEF Free, FifoInv
  <2>2. Types0 /\ Held0 /\ Taken0
    BY DEF Flow0
  <2> QED BY <1>3, <1>5, <1>6, <1>7, <2>1, <2>2, WroteRight, ZenonT(30)
<1>9. Types0'
  BY <1>5, <1>8 DEF Flow0, Types0
<1>10. Sent0'
  <2>1. PICK x \in Nat : Quads(n) = x /\ writeJunk' = 4 * x - n
    BY <1>2, <1>3, QuadsOf, ZenonT(30)
  <2>2. Filled' + counter' + writeJunk' = EndOf(P)'
    BY <1>2, <1>3, <1>5, <1>8, <2>1
  <2>3. EndOf(P)' = EndOf(Len(packets))'
    BY <1>5
  <2>4. counter' <= packets'[Len(packets')].words
    BY <1>2, <1>3, <1>5
  <2> QED BY <1>5, <2>1, <2>2, <2>3, <2>4 DEF Sent0
<1>11. Tagged0'
  <2> SUFFICES ASSUME ~normal PROVE /\ Len(tags) <= P /\ Len(out) + 4 * qwc = EndOf(Len(tags))'
                                    /\ \A i \in DOMAIN tags : tags[i] = <<i, -4>>
    BY <1>5 DEF Tagged0
  <2>1. /\ Len(tags) <= Len(packets) /\ Len(out) + 4 * qwc = EndOf(Len(tags))
        /\ \A i \in DOMAIN tags : tags[i] = <<i, -4>>
    BY DEF Flow0, Tagged0
  <2>2. PICK t : t = Len(tags) /\ t \in 0..Len(packets)
    BY <1>3, <2>1
  <2>3. EndOf(t)' = EndOf(t)
    BY <1>5, <2>2
  <2>4. EndOf(Len(tags))' = EndOf(t)'
    BY <2>2
  <2> QED BY <1>3, <2>1, <2>2, <2>3, <2>4
<1> QED BY <1>5, <1>8, <1>9, <1>10, <1>11 DEF Flow0

\* The next words of the last packet go to their places.
LEMMA DataFlow ==
    ASSUME Ring0, Flow0, counter > 0, Free > 0, WriteIOPtoFifo,
           UNCHANGED <<out, tags, normal, qwc>>
    PROVE  Flow0'
<1> DEFINE P == Len(packets)
<1>1. FifoInv /\ counter \in Nat /\ writeJunk \in 0..3 /\ Free \in Nat
  BY FifoAssumption DEF Ring0, FifoInv, Free
<1>2. packets # <<>>
  BY <1>1, NoPacket
<1>3. P \in DOMAIN packets /\ P \in Nat
  BY <1>1, <1>2, LastPacket DEF Flow0, Types0
<1>4. PICK s \in Nat, m \in Nat, x \in Nat :
        /\ packets[P].start = s /\ packets[P].words = m
        /\ Quads(m) = x /\ 4 * x - m \in 0..3 /\ EndOf(P) = s + 4 + 4 * x
        /\ Filled + counter + writeJunk = s + 4 + 4 * x
        /\ counter <= m /\ writeJunk = 4 * x - m
  BY <1>1, <1>2, LastPacket
<1>5. Filled \in Nat /\ Filled = s + 4 + (m - counter)
  <2>1. Filled \in Nat
    BY <1>1, FifoAssumption DEF FifoInv, Flow0, Types0, Filled
  <2> QED BY <1>1, <1>4, <2>1
<1>6. PICK n \in Nat : n = Min2(counter, Free) /\ n <= counter /\ n <= Free
  BY <1>1 DEF Min2
<1> DEFINE ws == [k \in 1..n |-> <<P, m - counter + k - 1>>]
<1>7. /\ FifoWrite(ws) /\ counter' = counter - n /\ UNCHANGED <<writeJunk, packets>>
  BY <1>4, <1>6, ZenonT(30) DEF WriteIOPtoFifo
<1>8. ws \in Seq(Word) /\ Len(ws) = n /\ \A k \in 1..n : ws[k] = <<P, m - counter + k - 1>>
  <2>1. \A k \in 1..n : m - counter + k - 1 \in Int
    BY <1>1, <1>4, <1>6
  <2>2. \A k \in 1..n : <<P, m - counter + k - 1>> \in Word
    BY <1>3, <2>1 DEF Word
  <2> QED BY <1>6, <2>2
<1> HIDE DEF ws
<1>9. \A k \in 1..n : Right(packets, Filled + k, ws[k])
  <2> SUFFICES ASSUME NEW k \in 1..n PROVE Right(packets, Filled + k, ws[k])
    OBVIOUS
  <2>1. PICK l : l = m - counter + k - 1
    OBVIOUS
  <2>2. l \in -4..4 * Quads(packets[P].words) - 1 /\ l < packets[P].words
    BY <1>1, <1>4, <1>6, <2>1
  <2>3. Right(packets, packets[P].start + 5 + l, <<P, l>>)
    BY <1>3, <2>2, RightIn, Zenon
  <2>4. Filled + k = s + 5 + l /\ ws[k] = <<P, l>>
    BY <1>1, <1>4, <1>5, <1>8, <2>1
  <2> QED BY <1>4, <2>3, <2>4
<1>10. /\ data' \in [0..FIFO_SIF_W - 1 -> Word] /\ Filled' = Filled + n /\ Held0' /\ Taken0'
  <2>1. Len(ws) <= Free /\ \A k \in 1..Len(ws) : Right(packets', Filled + k, ws[k])
    BY <1>6, <1>7, <1>8, <1>9
  <2>2. Types0 /\ Held0 /\ Taken0
    BY DEF Flow0
  <2>3. \A i \in Nat, v \in Word : i <= Filled /\ Right(packets, i, v) => Right(packets', i, v)
    BY <1>7
  <2>4. data' \in [0..FIFO_SIF_W - 1 -> Word] /\ Filled' = Filled + Len(ws) /\ Held0' /\ Taken0'
    BY <1>1, <1>7, <1>8, <2>1, <2>2, <2>3, WroteRight
  <2> QED BY <1>8, <2>4
<1>11. Layout0' /\ \A p : EndOf(p)' = EndOf(p)
  BY <1>7, SamePackets
<1>12. Types0'
  BY <1>7, <1>10 DEF Flow0, Types0
<1>13. Sent0'
  <2>1. Filled' + counter' + writeJunk' = EndOf(P)
    BY <1>1, <1>4, <1>5, <1>6, <1>7, <1>10
  <2>2. counter' <= packets[P].words /\ writeJunk' = 4 * Quads(packets[P].words) - packets[P].words
    BY <1>1, <1>4, <1>6, <1>7
  <2> QED BY <1>7, <1>11, <2>1, <2>2 DEF Sent0
<1>14. Tagged0'
  BY <1>7, <1>11 DEF Flow0, Tagged0
<1> QED BY <1>10, <1>11, <1>12, <1>13, <1>14 DEF Flow0

\* The IOP's turn.
LEMMA IopFlow == ASSUME Inv0, Flow0, IopTurn PROVE Flow0'
<1>1. /\ pc = "iop" /\ UNCHANGED <<out, tags, normal, qwc>>
      /\ Ring0 /\ counter \in Nat
  BY DEF IopTurn, eeVars, Inv0, Ring0, FifoInv
<1>2. CASE ibusy /\ (Free > 0 \/ (iend /\ counter = 0))
  <2>1. HandleIOPTransfer
    BY <1>2, Zenon DEF IopTurn
  <2>2. CASE EndIOP
    BY <1>1, <2>2, QuietFlow DEF EndIOP, fifoVars
  <2>3. CASE counter <= 0 /\ ~iend /\ ProcessIOPTag
    BY <1>1, <1>2, <2>3, TagFlow
  <2>4. CASE counter > 0 /\ Free > 0 /\ WriteIOPtoFifo
    BY <1>1, <2>4, DataFlow
  <2> QED BY <2>1, <2>2, <2>3, <2>4 DEF HandleIOPTransfer
<1>3. CASE ~(ibusy /\ (Free > 0 \/ (iend /\ counter = 0)))
  <2>1. UNCHANGED <<data, writePos, size, counter, writeJunk, packets>>
    BY <1>3 DEF IopTurn, fifoVars
  <2> QED BY <1>1, <2>1, QuietFlow
<1> QED BY <1>2, <1>3

\* A read leaves everything but the EE's place as it was.
LEMMA ReadFlow ==
    ASSUME Ring0, Flow0, NEW n \in 0..size, FifoRead(n), UNCHANGED <<counter, writeJunk, packets>>
    PROVE  /\ Len(out') = Len(out) + n
           /\ \A p : EndOf(p)' = EndOf(p)
           /\ tags' \in Seq(Word) /\ Tagged0' => Flow0'
<1>1. FifoInv /\ Types0 /\ Held0 /\ Taken0
  BY DEF Ring0, Flow0
<1>2. /\ out' \in Seq(Word) /\ Len(out') = Len(out) + n
      /\ data' = data /\ Filled' = Filled /\ Held0' /\ Taken0'
  BY <1>1, ReadRight
<1>3. Layout0' /\ \A p : EndOf(p)' = EndOf(p)
  BY SamePackets
<1>4. Sent0'
  BY <1>2, <1>3 DEF Flow0, Sent0
<1>5. tags' \in Seq(Word) => Types0'
  BY <1>1, <1>2 DEF Types0
<1> QED BY <1>2, <1>3, <1>4, <1>5 DEF Flow0

\* The EE takes words of the packet it is in.
LEMMA TransferFlow ==
    ASSUME Ring0, Flow0, size >= 4, WriteFifoToEE(0, qwc),
           UNCHANGED <<counter, writeJunk, packets, tags, normal>>
    PROVE  Flow0'
<1>1. size \in Nat /\ qwc \in Nat /\ Len(out) \in Nat
  BY FifoAssumption DEF Ring0, FifoInv, Flow0, Types0
<1>2. PICK n \in Nat : /\ n = Min2(qwc, (size - 0) \div 4) /\ n <= qwc /\ 4 * n <= size
                       /\ FifoRead(0 + 4 * n) /\ qwc' = qwc - n
  BY <1>1 DEF WriteFifoToEE, Min2
<1>3. 0 + 4 * n = 4 * n /\ 4 * n \in 0..size
  BY <1>1, <1>2
<1>4. FifoRead(4 * n)
  BY <1>2, <1>3
<1>5. /\ Len(out') = Len(out) + 4 * n /\ (\A p : EndOf(p)' = EndOf(p))
      /\ tags' \in Seq(Word) /\ Tagged0' => Flow0'
  BY <1>3, <1>4, ReadFlow
<1>6. Tagged0'
  <2>1. Len(out') + 4 * qwc' = Len(out) + 4 * qwc
    BY <1>1, <1>2, <1>5
  <2> QED BY <1>5, <2>1 DEF Flow0, Tagged0
<1> QED BY <1>5, <1>6 DEF Flow0, Types0

\* Between two packets, what lies at the front of the ring is the next tag.
LEMMA FrontIsTag ==
    ASSUME Ring0, Flow0, ~normal, qwc = 0, size >= 4
    PROVE  LET t == Len(tags) + 1 IN
           t \in DOMAIN packets /\ packets[t].start = Len(out) /\ data[readPos] = <<t, -4>>
<1> DEFINE t == Len(tags) + 1
<1>1. /\ FifoInv /\ Types0 /\ Held0 /\ size \in 0..FIFO_SIF_W /\ readPos \in 0..(FIFO_SIF_W - 1)
      /\ counter \in Nat /\ writeJunk \in 0..3
      /\ Len(out) \in Nat /\ Len(tags) \in Nat /\ Len(packets) \in Nat /\ packets \in Seq(Packet)
  BY DEF Ring0, FifoInv, Flow0, Types0
<1>2. Len(tags) <= Len(packets) /\ Len(out) = EndOf(Len(tags))
  <2>1. Len(tags) <= Len(packets) /\ Len(out) + 4 * 0 = EndOf(Len(tags))
    BY DEF Flow0, Tagged0
  <2> QED BY <1>1, <2>1
<1>3. Len(tags) # Len(packets)
  <2> SUFFICES ASSUME Len(tags) = Len(packets) PROVE FALSE
    OBVIOUS
  <2>1. Len(out) + size + counter + writeJunk = Len(out)
    BY <1>2 DEF Flow0, Sent0, Filled
  <2> QED BY <1>1, <2>1, FifoAssumption
<1>4. t \in DOMAIN packets /\ t - 1 = Len(tags) /\ packets[t] \in Packet
  BY <1>1, <1>2, <1>3
<1>5. packets[t].start = Len(out)
  BY <1>2, <1>4 DEF Flow0, Layout0
<1>6. packets[t].words \in Nat
  BY <1>4 DEF Packet
<1>7. Quads(packets[t].words) \in Nat
  BY <1>6, QuadsOf, ZenonT(30)
<1>8. At(readPos + 1 - 1) = readPos
  <2>1. readPos + 1 - 1 = readPos /\ readPos \in 0..(2 * FIFO_SIF_W - 1)
    BY <1>1, FifoAssumption
  <2> QED BY <1>1, <2>1, AtValue, FifoAssumption
<1>9. Right(packets, Len(out) + 1, data[readPos])
  <2>1. 1 \in 1..size
    BY <1>1, FifoAssumption
  <2> QED BY <1>1, <1>8, <2>1, HeldAt, ZenonT(30)
<1>10. data[readPos] = <<t, -4>>
  <2>1. -4 \in -4..4 * Quads(packets[t].words) - 1 /\ -4 < packets[t].words
    BY <1>6, <1>7
  <2>2. Len(out) + 1 = packets[t].start + 5 + (-4)
    BY <1>1, <1>5
  <2> QED BY <1>4, <1>9, <2>1, <2>2, ZenonT(30) DEF Right
<1> QED BY <1>4, <1>5, <1>10

\* The EE takes the next tag, and words of its packet.
LEMMA EeTagFlow ==
    ASSUME Ring0, Flow0, qwc = 0, size >= 4, ProcessEETag,
           UNCHANGED <<counter, writeJunk, packets, normal>>
    PROVE  Flow0'
<1>1. /\ size \in Nat /\ size \in 0..FIFO_SIF_W /\ readPos \in 0..(FIFO_SIF_W - 1)
      /\ Len(out) \in Nat /\ tags \in Seq(Word) /\ data[readPos] \in Word
  <2>1. /\ size \in 0..FIFO_SIF_W /\ readPos \in 0..(FIFO_SIF_W - 1)
    BY DEF Ring0, FifoInv
  <2>2. /\ Len(out) \in Nat /\ tags \in Seq(Word) /\ data \in [0..FIFO_SIF_W - 1 -> Word]
    BY DEF Flow0, Types0
  <2> QED BY <2>1, <2>2, FifoAssumption
<1>2. PICK q \in Nat, end \in BOOLEAN :
        /\ data[readPos][2] = -4 => q = Quads(packets[data[readPos][1]].words)
        /\ tags' = Append(tags, data[readPos])
        /\ IF q > 0 /\ size - 4 >= 4 THEN WriteFifoToEE(4, q) ELSE FifoRead(4) /\ qwc' = q
  BY DEF ProcessEETag
<1>3. PICK n \in 0..size, z \in Nat : FifoRead(n) /\ qwc' = z /\ n + 4 * z = 4 + 4 * q
  <2>1. CASE q > 0 /\ size - 4 >= 4
    <3> DEFINE m == Min2(q, (size - 4) \div 4)
    <3>1. m \in Nat /\ m <= q /\ 4 + 4 * m <= size
      BY <1>1, <2>1 DEF Min2
    <3>2. FifoRead(4 + 4 * m) /\ qwc' = q - m
      BY <1>2, <2>1 DEF WriteFifoToEE
    <3> HIDE DEF m
    <3>3. 4 + 4 * m \in 0..size /\ q - m \in Nat /\ 4 + 4 * m + 4 * (q - m) = 4 + 4 * q
      BY <1>1, <3>1
    <3> QED BY <3>2, <3>3
  <2>2. CASE ~(q > 0 /\ size - 4 >= 4)
    BY <1>1, <1>2, <2>2
  <2> QED BY <2>1, <2>2
<1>4. /\ Len(out') = Len(out) + n /\ (\A p : EndOf(p)' = EndOf(p))
      /\ tags' \in Seq(Word) /\ Tagged0' => Flow0'
  BY <1>3, ReadFlow
<1>5. tags' \in Seq(Word) /\ Len(tags') = Len(tags) + 1 /\ Len(tags) \in Nat
  BY <1>1, <1>2
<1>6. Tagged0'
  <2> SUFFICES ASSUME ~normal
               PROVE  /\ Len(tags') <= Len(packets) /\ Len(out') + 4 * qwc' = EndOf(Len(tags'))
                      /\ \A i \in DOMAIN tags' : tags'[i] = <<i, -4>>
    BY <1>4 DEF Tagged0
  <2>1. PICK t : t = Len(tags) + 1
    OBVIOUS
  <2>2. t \in DOMAIN packets /\ packets[t].start = Len(out) /\ data[readPos] = <<t, -4>>
    BY <2>1, FrontIsTag
  <2>3. q = Quads(packets[t].words)
    BY <1>2, <2>2
  <2>4. EndOf(t) = Len(out) + 4 + 4 * q
    BY <1>5, <2>1, <2>2, <2>3 DEF EndOf
  <2>5. Len(out') + 4 * qwc' = EndOf(t)
    BY <1>1, <1>3, <1>4, <2>4
  <2>6. \A i \in DOMAIN tags : tags[i] = <<i, -4>>
    BY DEF Flow0, Tagged0
  <2>7. \A i \in DOMAIN tags' : tags'[i] = <<i, -4>>
    BY <1>1, <1>2, <1>5, <2>1, <2>2, <2>6
  <2>8. t <= Len(packets)
    BY <2>2 DEF Flow0, Types0
  <2> QED BY <1>5, <2>1, <2>5, <2>7, <2>8
<1> QED BY <1>4, <1>5, <1>6

\* The EE's turn.
LEMMA EeFlow == ASSUME Inv0, Flow0, EeTurn PROVE Flow0'
<1>1. Ring0 /\ UNCHANGED <<counter, writeJunk, packets, normal>>
  BY DEF EeTurn, iopVars, Inv0
<1>2. CASE ebusy /\ (size >= 4 \/ (eend /\ qwc = 0))
  <2>1. HandleEETransfer
    BY <1>2, Zenon DEF EeTurn
  <2>2. CASE UNCHANGED <<fifoVars, qwc, out, tags>>
    BY <1>1, <2>2, QuietFlow DEF fifoVars
  <2>3. CASE qwc = 0 /\ size >= 4 /\ ProcessEETag
    BY <1>1, <2>3, EeTagFlow
  <2>4. CASE size >= 4 /\ WriteFifoToEE(0, qwc) /\ UNCHANGED tags
    BY <1>1, <2>4, TransferFlow
  <2> QED BY <2>1, <2>2, <2>3, <2>4 DEF HandleEETransfer, EndEE
<1>3. CASE ~(ebusy /\ (size >= 4 \/ (eend /\ qwc = 0)))
  <2>1. UNCHANGED <<fifoVars, qwc, out, tags>>
    BY <1>3 DEF EeTurn
  <2> QED BY <1>1, <2>1, QuietFlow DEF fifoVars
<1> QED BY <1>2, <1>3

\* The stream starts anew.
LEMMA EmptyFlow ==
    ASSUME data = [i \in 0..FIFO_SIF_W - 1 |-> None], size = 0, counter = 0, writeJunk = 0, qwc = 0,
           packets = <<>>, out = <<>>, tags = <<>>
    PROVE  Flow0
<1>1. Types0
  BY DEF Types0, None, Word
<1>2. Layout0 /\ Taken0
  BY DEF Layout0, Taken0
<1>3. Filled = 0 /\ EndOf(0) = 0
  BY DEF Filled, EndOf
<1>4. Sent0
  BY <1>3 DEF Sent0
<1>5. Held0
  BY <1>3 DEF Held0
<1>6. Tagged0
  BY <1>3 DEF Tagged0
<1> QED BY <1>1, <1>2, <1>4, <1>5, <1>6 DEF Flow0

\* The guest moves no words.
LEMMA GuestFlow == ASSUME Inv0, Flow0, Guest PROVE Flow0'
<1>1. CASE SifReset
  <2>1. /\ data' = [i \in 0..FIFO_SIF_W - 1 |-> None] /\ size' = 0 /\ counter' = 0 /\ writeJunk' = 0
        /\ qwc' = 0 /\ packets' = <<>> /\ out' = <<>> /\ tags' = <<>>
    BY <1>1 DEF SifReset
  <2>2. Types0'
    BY <2>1 DEF Types0, None, Word
  <2>3. Layout0' /\ Taken0'
    BY <2>1 DEF Layout0, Taken0
  <2>4. Filled' = 0 /\ EndOf(0)' = 0
    BY <2>1 DEF Filled, EndOf
  <2>5. Sent0'
    BY <2>1, <2>4 DEF Sent0
  <2>6. Held0'
    BY <2>4 DEF Held0
  <2>7. Tagged0'
    BY <2>1, <2>4 DEF Tagged0
  <2> QED BY <2>2, <2>3, <2>5, <2>6, <2>7 DEF Flow0
<1>2. CASE DmaSIF0
  <2>1. /\ UNCHANGED <<data, writePos, size, counter, writeJunk, packets, out, tags>>
        /\ (UNCHANGED <<qwc, normal>> \/ normal' = TRUE)
    BY <1>2 DEF DmaSIF0, fifoVars, iopVars
  <2>2. CASE UNCHANGED <<qwc, normal>>
    BY <2>1, <2>2, QuietFlow
  <2>3. CASE normal' = TRUE
    <3>1. Filled' = Filled /\ Layout0' /\ \A p : EndOf(p)' = EndOf(p)
      BY <2>1, SamePackets DEF Filled
    <3>2. Types0' /\ Sent0' /\ Held0' /\ Taken0'
      BY <2>1, <3>1 DEF Flow0, Types0, Sent0, Held0, Taken0
    <3> QED BY <2>3, <3>1, <3>2 DEF Flow0, Tagged0
  <2> QED BY <2>1, <2>2, <2>3, ZenonT(30)
<1>3. CASE PsxDma9 \/ Sif0Interrupt \/ StopEE \/ EEsif0Interrupt
  <2>1. UNCHANGED <<data, writePos, size, counter, writeJunk, packets, out, tags, normal, qwc>>
    BY <1>3 DEF PsxDma9, Sif0Interrupt, StopEE, EEsif0Interrupt, fifoVars, iopVars, eeVars
  <2> QED BY <2>1, QuietFlow
<1> QED BY <1>1, <1>2, <1>3 DEF Guest

LEMMA FlowInductive0 == Inv0 /\ Flow0 /\ [Next]_vars => Flow0'
<1>1. ASSUME Flow0, UNCHANGED vars PROVE Flow0'
  BY <1>1, QuietFlow DEF vars, fifoVars, iopVars, eeVars
<1> QED BY <1>1, PadFlow, IopFlow, EeFlow, GuestFlow DEF Next, Loop
---------------------------------------------------------------------------
\* What the EE has taken is right, up to the words that are still held, to be
\* sent or to be padded.
LEMMA Intact0 == Inv0 /\ Flow0 => Intact
<1> SUFFICES ASSUME Inv0, Flow0 PROVE Intact
  OBVIOUS
<1>0. PICK a \in Nat, z \in Nat, c \in Nat, w \in Nat :
        Len(out) = a /\ size = z /\ counter = c /\ writeJunk = w
  <2>1. Len(out) \in Nat
    BY DEF Flow0, Types0
  <2>2. size \in Nat /\ counter \in Nat /\ writeJunk \in Nat
    BY FifoAssumption DEF Inv0, Ring0, FifoInv
  <2> QED BY <2>1, <2>2, Zenon
<1>1. Len(out) <= EndOf(Len(packets))
  <2>1. a + z + c + w = EndOf(Len(packets))
    BY <1>0 DEF Flow0, Sent0, Filled
  <2> QED BY <1>0, <2>1
<1>2. ASSUME NEW p \in DOMAIN packets, NEW k \in -4..4 * Quads(packets[p].words) - 1,
             packets[p].start + 4 + k + 1 <= Len(out)
      PROVE  out[packets[p].start + 4 + k + 1]
               = IF k < packets[p].words THEN <<p, k>> ELSE <<p, k - 4>>
  <2>0. packets[p] \in Packet
    BY DEF Flow0, Types0
  <2>1. PICK s \in Nat : packets[p].start = s
    BY <2>0 DEF Packet
  <2>2. k \in Int /\ k >= -4
    <3>1. packets[p].words \in Nat
      BY <2>0 DEF Packet
    <3>2. Quads(packets[p].words) \in Nat
      BY <3>1, QuadsOf, ZenonT(30)
    <3> QED BY <3>2
  <2>3. PICK i : i = s + 4 + k + 1
    OBVIOUS
  <2>4. i \in 1..a /\ i = s + 5 + k
    BY <1>0, <1>2, <2>1, <2>2, <2>3
  <2>5. Right(packets, i, out[i])
    <3>1. out \in Seq(Word)
      BY DEF Flow0, Types0
    <3>2. i \in DOMAIN out
      BY <1>0, <2>4, <3>1
    <3> QED BY <3>2 DEF Flow0, Taken0
  <2> QED BY <2>1, <2>3, <2>4, <2>5 DEF Right
<1> QED BY <1>1, <1>2 DEF Intact, Flow0, Tagged0
==================================================================================
