-------------------------------- MODULE SifProofs --------------------------------
(***************************************************************************)
(* Proofs about the two SIF channels together: what the receiving side     *)
(* gets, the rendezvous of the two sides of either channel, and the end of *)
(* a chain on SIF1 that is stopped and resumed.  Sif0Proofs has the steps  *)
(* of SIF0.                                                                *)
(***************************************************************************)
EXTENDS MCSif, Sif0Proofs

(* In SIF1Dma the IOP's turn is the last one: when the EE's turn has done   *)
(* nothing, the EE was not busy, was stalled or had no room.                *)
Stuck1 == pc1 = "iop" /\ ~busyCheck1 => ~ebusy1 \/ stall \/ ~(S1!Free > 0)

\* EndRemembered holds at every step of a call, not only between calls.
Remembered ==
    str1 /\ ebusy1 /\ mod1 = "chain" /\ qwc1 > 0 /\ (tag.irq => tie = vifTie)
        => (eend1 <=> S1!Ends(tag))

Inv1 == Stuck1 /\ S1!Rendezvous /\ Remembered

(* What travels on SIF1, as Flow0 has it for SIF0, in quadwords. *)
Packet1 == [len : Nat, stop : BOOLEAN, start : Nat]
Right1(ps, i, v) ==
    \A p \in DOMAIN ps : \A k \in 0..ps[p].len : i = ps[p].start + k + 1 => v = <<p, k>>

Types1 ==
    /\ fifo \in Seq(Word) /\ Len(fifo) <= FifoQW
    /\ out1 \in Seq(Word) /\ tags1 \in Seq(Word) /\ packets1 \in Seq(Packet1)
    /\ qwc1 \in Nat /\ counter1 \in Nat
Layout1 ==
    /\ \A p \in DOMAIN packets1 : packets1[p].start = S1!EndOf(p - 1)
    /\ \A p, q \in DOMAIN packets1 : p < q => S1!EndOf(p) <= packets1[q].start
Sent1 ==
    /\ Len(out1) + Len(fifo) + qwc1 = S1!EndOf(Len(packets1))
    /\ packets1 # <<>> => qwc1 <= packets1[Len(packets1)].len + 1
Held1 ==
    /\ \A j \in DOMAIN fifo : Right1(packets1, Len(out1) + j, fifo[j])
    /\ \A i \in DOMAIN out1 : Right1(packets1, i, out1[i])
Tagged1 ==
    /\ Len(tags1) <= Len(packets1)
    /\ Len(out1) + counter1 = S1!EndOf(Len(tags1))
    /\ \A i \in DOMAIN tags1 : tags1[i] = <<i, 0>>
Flow1 == Types1 /\ Layout1 /\ Sent1 /\ Held1 /\ Tagged1

IInv == Inv0 /\ Inv1 /\ Flow0 /\ Flow1
---------------------------------------------------------------------------
(* The steps of SIF1 *)

\* The EE's turn: when it does nothing, its side is idle, stalled or the ring is full.
LEMMA EeStep1 == ASSUME Inv1, S1!EeTurn PROVE Inv1'
<1> USE DEF Inv1
<1>1. /\ pc1' = "iop" /\ UNCHANGED <<str1, mod1, tie, vifTie>>
  BY DEF S1!EeTurn, S1!ctrlVars
<1>2. S1!Rendezvous'
  BY <1>1 DEF S1!Rendezvous
<1>3. CASE ebusy1 /\ ~stall /\ (S1!Free > 0 \/ (eend1 /\ qwc1 = 0))
  <2>1. busyCheck1' = TRUE /\ S1!HandleEETransfer
    BY <1>3, Zenon DEF S1!EeTurn
  <2>2. Stuck1'
    BY <2>1 DEF Stuck1
  <2>3. CASE ebusy1' = FALSE
    BY <1>2, <2>2, <2>3 DEF Remembered
  <2>4. CASE S1!ProcessEETag
    <3>1. PICK t : tag' = t /\ eend1' = S1!Ends(t)
      BY <2>4 DEF S1!ProcessEETag, S1!Begin
    <3>2. eend1' = S1!Ends(tag)'
      BY <1>1, <3>1 DEF S1!Ends
    <3> QED BY <1>2, <2>2, <3>2 DEF Remembered
  <2>5. CASE qwc1 > 0 /\ UNCHANGED <<ebusy1, eend1, tag>>
    BY <1>1, <1>2, <2>2, <2>5 DEF Remembered, S1!Ends
  <2> QED BY <2>1, <2>3, <2>4, <2>5, ZenonT(30) DEF S1!HandleEETransfer, S1!EndEE, S1!WriteEEtoFifo
<1>4. CASE ~(ebusy1 /\ ~stall /\ (S1!Free > 0 \/ (eend1 /\ qwc1 = 0)))
  <2>1. UNCHANGED <<fifo, ebusy1, eend1, tag, qwc1, stall>>
    BY <1>4 DEF S1!EeTurn
  <2>2. Remembered'
    BY <1>1, <2>1 DEF Remembered, S1!Ends
  <2>3. ~ebusy1 \/ stall \/ ~(S1!Free > 0)
    BY <1>4
  <2>4. Stuck1'
    BY <2>1, <2>3 DEF Stuck1, S1!Free
  <2> QED BY <1>2, <2>2, <2>4
<1> QED BY <1>3, <1>4

\* The IOP's turn.  If the call ends here with both sides busy and no stall, the
\* EE's side found the ring full, and a full ring holds a quadword for the IOP.
LEMMA IopStep1 == ASSUME Inv1, S1!IopTurn PROVE Inv1'
<1> USE DEF Inv1
<1>1. /\ pc1 = "iop" /\ pc1' \in {"ee", "idle"}
      /\ UNCHANGED <<busyCheck1, ebusy1, eend1, str1, mod1, tag, qwc1, tie, vifTie, stall>>
  BY DEF S1!IopTurn, S1!eeVars, S1!ctrlVars
<1>2. Remembered' /\ Stuck1'
  BY <1>1 DEF Remembered, S1!Ends, Stuck1
<1>3. CASE pc1' = "ee"
  BY <1>2, <1>3 DEF S1!Rendezvous
<1>4. CASE pc1' = "idle"
  <2>1. /\ ~(ibusy1 /\ (fifo # <<>> \/ (iend1 /\ counter1 = 0))) /\ ~busyCheck1
        /\ ibusy1' = ibusy1
    BY <1>4 DEF S1!IopTurn
  <2>2. fifo = <<>> => S1!Free > 0
    BY Fifo1Assumption DEF S1!Free
  <2>3. ~(ibusy1 /\ ebusy1 /\ ~stall)
    BY <1>1, <2>1, <2>2 DEF Stuck1
  <2>4. S1!Rendezvous'
    BY <1>1, <2>1, <2>3 DEF S1!Rendezvous
  <2> QED BY <1>2, <2>4
<1> QED BY <1>1, <1>3, <1>4

\* A new call, or a call that stall control sends back at once.
LEMMA CallStep ==
    ASSUME Inv1, pc1 = "idle", NEW q, NEW m, S1!SIF1Dma(q, m)
    PROVE  Stuck1' /\ S1!Rendezvous'
BY DEF S1!SIF1Dma, Stuck1, S1!Rendezvous

\* The guest, between two calls.
LEMMA GuestStep1 == ASSUME Inv1, S1!Guest PROVE Inv1'
<1> USE DEF Inv1
<1>1. CASE S1!DmaSIF1Chain
  <2>1. Stuck1' /\ S1!Rendezvous'
    BY <1>1, CallStep DEF S1!DmaSIF1Chain
  <2>2. /\ eend1' = (qwc1 > 0 /\ (tag.id = "REFE" \/ (tag.irq /\ vifTie)))
        /\ UNCHANGED <<tag, qwc1, tie, vifTie>>
    BY <1>1 DEF S1!DmaSIF1Chain, S1!ctrlVars
  <2>3. ASSUME qwc1 > 0, tag.irq => tie = vifTie
        PROVE  eend1' <=> S1!Ends(tag)
    <3>1. CASE tag.irq
      <4>1. eend1' <=> (tag.id = "REFE" \/ vifTie)
        BY <2>2, <2>3, <3>1, ZenonT(30)
      <4>2. tie = vifTie
        BY <2>3, <3>1
      <4>3. eend1' <=> (tag.id = "REFE" \/ tie)
        BY <4>1, <4>2, Zenon
      <4> QED BY <3>1, <4>3 DEF S1!Ends
    <3>2. CASE ~tag.irq
      BY <2>2, <2>3, <3>2, Zenon DEF S1!Ends
    <3> QED BY <3>1, <3>2
  <2>4. S1!Ends(tag)' <=> S1!Ends(tag)
    BY <2>2 DEF S1!Ends
  <2>5. Remembered'
    BY <2>2, <2>3, <2>4 DEF Remembered
  <2> QED BY <2>1, <2>5
<1>2. CASE S1!DmaSIF1Normal
  <2>1. Stuck1' /\ S1!Rendezvous'
    BY <1>2, CallStep DEF S1!DmaSIF1Normal
  <2>2. mod1' = "normal"
    BY <1>2 DEF S1!DmaSIF1Normal
  <2> QED BY <2>1, <2>2 DEF Remembered
<1>3. CASE S1!PsxDma10
  <2>1. Stuck1' /\ S1!Rendezvous'
    BY <1>3, CallStep DEF S1!PsxDma10
  <2>2. Remembered'
    BY <1>3 DEF S1!PsxDma10, S1!eeVars, S1!ctrlVars, Remembered, S1!Ends
  <2> QED BY <2>1, <2>2
<1>4. CASE S1!StopEE \/ S1!EEsif1Interrupt
  <2>1. /\ pc1 = "idle" /\ str1' = FALSE /\ UNCHANGED <<pc1, stall, ebusy1, ibusy1>>
    BY <1>4 DEF S1!StopEE, S1!EEsif1Interrupt, S1!iopVars
  <2> QED BY <2>1 DEF Stuck1, S1!Rendezvous, Remembered
<1>5. CASE S1!Sif1Interrupt \/ S1!AdvanceStadr
  <2>1. /\ pc1 = "idle"
        /\ UNCHANGED <<pc1, stall, ebusy1, eend1, ibusy1, str1, mod1, tag, qwc1, tie, vifTie>>
    BY <1>5 DEF S1!Sif1Interrupt, S1!AdvanceStadr, S1!iopVars, S1!eeVars, S1!ctrlVars
  <2> QED BY <2>1 DEF Stuck1, S1!Rendezvous, Remembered, S1!Ends
<1>6. CASE S1!SifReset
  BY <1>6 DEF S1!SifReset, Stuck1, S1!Rendezvous, Remembered
<1> QED BY <1>1, <1>2, <1>3, <1>4, <1>5, <1>6 DEF S1!Guest

LEMMA Inductive1 == Inv1 /\ [S1!Next]_vars1 => Inv1'
<1>1. ASSUME Inv1, UNCHANGED vars1 PROVE Inv1'
  BY <1>1 DEF vars1, Inv1, Stuck1, S1!Rendezvous, Remembered, S1!Ends, S1!Free
<1> QED BY <1>1, EeStep1, IopStep1, GuestStep1 DEF S1!Next, S1!Loop
---------------------------------------------------------------------------
(* What the IOP receives *)

\* The second of two sequences, in their concatenation.
LEMMA ConcatAt ==
    ASSUME NEW u \in Seq(Word), NEW v \in Seq(Word), NEW k \in 1..Len(v)
    PROVE  (u \o v)[Len(u) + k] = v[k]
OBVIOUS

\* A quadword stays right when a packet is added behind it.
LEMMA RightKept1 ==
    ASSUME NEW ps \in Seq(Packet1), NEW r \in Packet1, NEW i \in Nat, NEW v,
           i <= r.start, Right1(ps, i, v)
    PROVE  Right1(Append(ps, r), i, v)
<1> SUFFICES ASSUME NEW p \in 1..(Len(ps) + 1), NEW k \in 0..Append(ps, r)[p].len,
                    i = Append(ps, r)[p].start + k + 1
             PROVE  v = <<p, k>>
  BY DEF Right1
<1>1. CASE p = Len(ps) + 1
  <2>1. Append(ps, r)[p] = r
    BY <1>1
  <2>2. i >= r.start + 1
    BY <2>1 DEF Packet1
  <2> QED BY <2>2 DEF Packet1
<1>2. CASE p \in 1..Len(ps)
  <2>1. Append(ps, r)[p] = ps[p] /\ p \in DOMAIN ps
    BY <1>2
  <2> QED BY <2>1 DEF Right1
<1> QED BY <1>1, <1>2

\* What Flow1 says of one packet.
LEMMA PacketOf1 ==
    ASSUME Flow1, NEW p \in DOMAIN packets1
    PROVE  \E s, n \in Nat : /\ packets1[p].start = s /\ packets1[p].len = n
                             /\ S1!EndOf(p) = s + 1 + n
<1>1. packets1[p] \in Packet1 /\ p # 0
  BY DEF Flow1, Types1
<1>2. PICK s \in Nat, n \in Nat : packets1[p].start = s /\ packets1[p].len = n
  BY <1>1 DEF Packet1
<1>3. S1!EndOf(p) = s + 1 + n
  BY <1>1, <1>2 DEF S1!EndOf
<1> QED BY <1>2, <1>3

\* The quadword that a packet has at a place is right there.
LEMMA RightIn1 ==
    ASSUME Flow1, NEW p \in DOMAIN packets1, NEW k \in 0..packets1[p].len
    PROVE  Right1(packets1, packets1[p].start + k + 1, <<p, k>>)
<1>1. ASSUME NEW q \in DOMAIN packets1, NEW l \in 0..packets1[q].len,
             packets1[p].start + k + 1 = packets1[q].start + l + 1
      PROVE  q = p /\ l = k
  <2>1. PICK s \in Nat, n \in Nat : /\ packets1[p].start = s /\ packets1[p].len = n
                                    /\ S1!EndOf(p) = s + 1 + n
    BY PacketOf1
  <2>2. PICK t \in Nat, m \in Nat : /\ packets1[q].start = t /\ packets1[q].len = m
                                    /\ S1!EndOf(q) = t + 1 + m
    BY <1>1, PacketOf1
  <2>3. k \in 0..n /\ l \in 0..m /\ s + k + 1 = t + l + 1 /\ p \in Nat /\ q \in Nat
    BY <1>1, <2>1, <2>2 DEF Flow1, Types1
  <2>4. (p < q => s + 1 + n <= t) /\ (q < p => t + 1 + m <= s)
    BY <2>1, <2>2 DEF Flow1, Layout1
  <2> QED BY <2>1, <2>2, <2>3, <2>4
<1> QED BY <1>1 DEF Right1

\* Packets whose records do not change keep their layout.
LEMMA SamePackets1 ==
    ASSUME Flow1, packets1' = packets1
    PROVE  Layout1' /\ \A p : S1!EndOf(p)' = S1!EndOf(p)
<1>1. \A p : S1!EndOf(p)' = S1!EndOf(p)
  BY DEF S1!EndOf
<1> QED BY <1>1 DEF Flow1, Layout1

\* Steps that move nothing and keep what is left to send and to take.
LEMMA QuietFlow1 ==
    ASSUME Flow1, UNCHANGED <<fifo, packets1, out1, tags1, qwc1, counter1>>
    PROVE  Flow1'
<1>1. Layout1' /\ \A p : S1!EndOf(p)' = S1!EndOf(p)
  BY SamePackets1
<1>2. Types1' /\ Held1'
  BY DEF Flow1, Types1, Held1
<1>3. Sent1' /\ Tagged1'
  BY <1>1 DEF Flow1, Sent1, Tagged1
<1> QED BY <1>1, <1>2, <1>3 DEF Flow1

\* A new packet starts behind everything sent so far.
LEMMA BeginFlow ==
    ASSUME Flow1, qwc1 = 0, NEW n \in Lengths, NEW t, NEW stop \in BOOLEAN, S1!Begin(n, t, stop),
           UNCHANGED <<fifo, out1, tags1, counter1>>
    PROVE  Flow1'
<1>1. PICK P \in Nat, f \in Nat : P = Len(packets1) + 1 /\ f = Len(out1) + Len(fifo)
  BY DEF Flow1, Types1
<1>2. /\ packets1 \in Seq(Packet1) /\ Len(packets1) \in Nat /\ Len(tags1) \in Nat /\ n \in Nat
      /\ Len(out1) \in Nat /\ Len(fifo) \in Nat /\ out1 \in Seq(Word) /\ fifo \in Seq(Word)
  BY LengthsAssumption DEF Flow1, Types1
<1>3. S1!EndOf(Len(packets1)) = f
  <2>1. Len(out1) + Len(fifo) + 0 = S1!EndOf(Len(packets1))
    BY DEF Flow1, Sent1
  <2> QED BY <1>1, <1>2, <2>1
<1> DEFINE r == [len |-> n, stop |-> stop, start |-> f]
<1>4. packets1' = Append(packets1, r) /\ qwc1' = n + 1
  BY <1>3 DEF S1!Begin
<1>5. r \in Packet1 /\ r.len = n /\ r.start = f
  BY <1>2 DEF Packet1
<1> HIDE DEF r
<1>6. /\ packets1' \in Seq(Packet1) /\ Len(packets1') = P /\ packets1'[P] = r
      /\ \A p \in 1..Len(packets1) : packets1'[p] = packets1[p]
  BY <1>1, <1>2, <1>4, <1>5
<1>7. \A p \in 0..Len(packets1) : S1!EndOf(p)' = S1!EndOf(p)
  BY <1>2, <1>6 DEF S1!EndOf
<1>8. S1!EndOf(P)' = f + 1 + n
  <2>1. P # 0
    BY <1>1, <1>2
  <2> QED BY <1>5, <1>6, <2>1 DEF S1!EndOf
<1>9. \A p \in DOMAIN packets1 : S1!EndOf(p) <= f
  <2> SUFFICES ASSUME NEW p \in DOMAIN packets1 PROVE S1!EndOf(p) <= f
    OBVIOUS
  <2>1. CASE p = Len(packets1)
    BY <1>3, <2>1
  <2>2. CASE p < Len(packets1)
    <3>1. Len(packets1) \in DOMAIN packets1
      BY <1>2, <2>2
    <3>2. S1!EndOf(p) <= packets1[Len(packets1)].start
      BY <2>2, <3>1 DEF Flow1, Layout1
    <3>3. PICK s \in Nat, x \in Nat : packets1[Len(packets1)].start = s /\ S1!EndOf(Len(packets1)) = s + 1 + x
      BY <3>1, PacketOf1
    <3>4. PICK e \in Nat : S1!EndOf(p) = e
      <4>1. PICK a \in Nat, b \in Nat : S1!EndOf(p) = a + 1 + b
        BY PacketOf1
      <4> QED BY <4>1
    <3> QED BY <1>3, <3>2, <3>3, <3>4
  <2> QED BY <1>2, <2>1, <2>2
<1>10. Layout1'
  <2>1. \A p \in DOMAIN packets1' : packets1'[p].start = S1!EndOf(p - 1)'
    <3> SUFFICES ASSUME NEW p \in 1..P PROVE packets1'[p].start = S1!EndOf(p - 1)'
      BY <1>1, <1>6
    <3>1. p - 1 \in 0..Len(packets1)
      BY <1>1, <1>2
    <3>2. S1!EndOf(p - 1)' = S1!EndOf(p - 1)
      BY <1>7, <3>1
    <3>3. CASE p = P
      <4>1. p - 1 = Len(packets1)
        BY <1>1, <1>2, <3>3
      <4> QED BY <1>3, <1>5, <1>6, <3>2, <3>3, <4>1
    <3>4. CASE p \in 1..Len(packets1)
      BY <1>2, <1>6, <3>2, <3>4 DEF Flow1, Layout1
    <3> QED BY <1>1, <1>2, <3>3, <3>4
  <2>2. \A p, q \in DOMAIN packets1' : p < q => S1!EndOf(p)' <= packets1'[q].start
    <3>0. DOMAIN packets1' = 1..P
      BY <1>1, <1>6
    <3> SUFFICES ASSUME NEW p \in 1..P, NEW q \in 1..P, p < q PROVE S1!EndOf(p)' <= packets1'[q].start
      BY <3>0, Zenon
    <3>a. p \in 1..Len(packets1) /\ (q = P \/ q \in 1..Len(packets1))
      BY <1>1
    <3>b. p \in 0..Len(packets1) /\ DOMAIN packets1 = 1..Len(packets1)
      BY <1>2, <3>a
    <3>1. p \in DOMAIN packets1 /\ S1!EndOf(p)' = S1!EndOf(p)
      BY <1>7, <3>a, <3>b, Zenon
    <3>2. CASE q = P
      BY <1>5, <1>6, <1>9, <3>1, <3>2, Zenon
    <3>3. CASE q \in 1..Len(packets1)
      <4>1. q \in DOMAIN packets1 /\ packets1'[q] = packets1[q]
        BY <1>6, <3>3, <3>b, Zenon
      <4>2. S1!EndOf(p) <= packets1[q].start
        BY <3>1, <4>1 DEF Flow1, Layout1
      <4> QED BY <3>1, <4>1, <4>2, Zenon
    <3> QED BY <3>2, <3>3, <3>a, Zenon
  <2> QED BY <2>1, <2>2 DEF Layout1
<1>11. \A i \in Nat, v \in Word : i <= f /\ Right1(packets1, i, v) => Right1(packets1', i, v)
  BY <1>2, <1>4, <1>5, RightKept1
<1>12. Held1'
  <2>1. \A j \in DOMAIN fifo : Right1(packets1', Len(out1) + j, fifo[j])
    <3> SUFFICES ASSUME NEW j \in DOMAIN fifo PROVE Right1(packets1', Len(out1) + j, fifo[j])
      OBVIOUS
    <3>1. Len(out1) + j \in Nat /\ Len(out1) + j <= f /\ fifo[j] \in Word
      BY <1>1, <1>2
    <3> QED BY <1>11, <3>1 DEF Flow1, Held1
  <2>2. \A i \in DOMAIN out1 : Right1(packets1', i, out1[i])
    <3> SUFFICES ASSUME NEW i \in DOMAIN out1 PROVE Right1(packets1', i, out1[i])
      OBVIOUS
    <3>1. i \in Nat /\ i <= f /\ out1[i] \in Word
      BY <1>1, <1>2
    <3> QED BY <1>11, <3>1 DEF Flow1, Held1
  <2> QED BY <2>1, <2>2 DEF Held1
<1>13. Types1'
  <2>1. qwc1' \in Nat
    BY <1>2, <1>4
  <2> QED BY <1>6, <2>1, ZenonT(30) DEF Flow1, Types1
<1>14. Sent1'
  <2>1. S1!EndOf(Len(packets1))' = S1!EndOf(P)'
    BY <1>6
  <2>2. Len(out1) + Len(fifo) + qwc1' = f + 1 + n
    BY <1>1, <1>2, <1>4
  <2>3. qwc1' <= packets1'[P].len + 1
    BY <1>2, <1>4, <1>5, <1>6
  <2> QED BY <1>6, <1>8, <2>1, <2>2, <2>3 DEF Sent1
<1>15. Tagged1'
  <2>1. PICK k \in 0..Len(packets1) : k = Len(tags1) /\ Len(out1) + counter1 = S1!EndOf(k)
    BY <1>2 DEF Flow1, Tagged1
  <2>2. S1!EndOf(Len(tags1))' = S1!EndOf(k)' /\ S1!EndOf(k)' = S1!EndOf(k)
    BY <1>7, <2>1
  <2> QED BY <1>1, <1>2, <1>6, <2>1, <2>2 DEF Flow1, Tagged1
<1> QED BY <1>10, <1>12, <1>13, <1>14, <1>15 DEF Flow1

\* The next quadwords of the last packet go to their places.
LEMMA SendFlow ==
    ASSUME Flow1, qwc1 > 0, S1!Free > 0, S1!WriteEEtoFifo, UNCHANGED <<out1, tags1, counter1>>
    PROVE  Flow1'
<1>0. PICK a \in Nat, b \in Nat, c \in Nat :
        /\ Len(out1) = a /\ Len(fifo) = b /\ qwc1 = c /\ b <= FifoQW
        /\ S1!Free = FifoQW - b /\ FifoQW \in Nat
  BY Fifo1Assumption DEF Flow1, Types1, S1!Free
<1>1. packets1 \in Seq(Packet1) /\ fifo \in Seq(Word) /\ out1 \in Seq(Word)
  BY DEF Flow1, Types1
<1>2. packets1 # <<>>
  <2> SUFFICES ASSUME packets1 = <<>> PROVE FALSE
    OBVIOUS
  <2>1. a + b + c = 0
    BY <1>0 DEF Flow1, Sent1, S1!EndOf
  <2> QED BY <1>0, <2>1
<1>3. PICK P \in DOMAIN packets1 : P = Len(packets1) /\ P \in Nat
  BY <1>1, <1>2
<1>4. PICK s \in Nat, n \in Nat : /\ packets1[P].start = s /\ packets1[P].len = n
                                  /\ S1!EndOf(P) = s + 1 + n
  BY PacketOf1, ZenonT(30)
<1>5. a + b + c = s + 1 + n /\ c <= n + 1
  BY <1>0, <1>2, <1>3, <1>4 DEF Flow1, Sent1
<1>6. PICK z \in Nat : z = S1!WriteSize /\ z <= c /\ b + z <= FifoQW
  <2>1. S1!WriteSize = IF c < FifoQW - b THEN c ELSE FifoQW - b
    BY <1>0 DEF S1!WriteSize, S1!Min2
  <2>2. S1!WriteSize \in Nat /\ S1!WriteSize <= c /\ b + S1!WriteSize <= FifoQW
    BY <1>0, <2>1
  <2> QED BY <2>2
<1> DEFINE ws == [k \in 1..z |-> <<P, n + 1 - c + k - 1>>]
<1>7. fifo' = fifo \o ws /\ qwc1' = c - z /\ packets1' = packets1
  BY <1>0, <1>3, <1>4, <1>6 DEF S1!WriteEEtoFifo
<1>8. ws \in Seq(Word) /\ Len(ws) = z /\ \A k \in 1..z : ws[k] = <<P, n + 1 - c + k - 1>>
  <2>1. \A k \in 1..z : n + 1 - c + k - 1 \in Int
    BY <1>0, <1>4, <1>6
  <2>2. \A k \in 1..z : <<P, n + 1 - c + k - 1>> \in Word
    BY <1>3, <2>1 DEF Word
  <2> QED BY <1>6, <2>2
<1> HIDE DEF ws
<1>9. fifo' \in Seq(Word) /\ Len(fifo') = b + z
  <2>1. \A u, v \in Seq(Word) : u \o v \in Seq(Word) /\ Len(u \o v) = Len(u) + Len(v)
    OBVIOUS
  <2> QED BY <1>0, <1>1, <1>7, <1>8, <2>1, ZenonT(30)
<1>10. Layout1' /\ \A p : S1!EndOf(p)' = S1!EndOf(p)
  BY <1>7, SamePackets1
<1>11. Types1'
  BY <1>0, <1>1, <1>6, <1>7, <1>9 DEF Flow1, Types1
<1>12. Sent1'
  <2>1. a + (b + z) + (c - z) = s + 1 + n /\ c - z <= n + 1
    BY <1>0, <1>5, <1>6
  <2> QED BY <1>0, <1>3, <1>4, <1>7, <1>9, <1>10, <2>1, ZenonT(30) DEF Sent1
<1>13. Held1'
  <2>1. \A j \in DOMAIN fifo' : Right1(packets1, Len(out1) + j, fifo'[j])
    <3> SUFFICES ASSUME NEW j \in 1..(b + z) PROVE Right1(packets1, Len(out1) + j, fifo'[j])
      BY <1>9
    <3>1. CASE j \in 1..b
      <4>1. fifo'[j] = fifo[j] /\ j \in DOMAIN fifo
        BY <1>0, <1>1, <1>7, <1>8, <3>1
      <4> QED BY <4>1 DEF Flow1, Held1
    <3>2. CASE j > b
      <4>0. j - b \in 1..z
        BY <1>0, <3>2
      <4>1. PICK k \in 1..z : k = j - b
        BY <4>0
      <4>2. fifo'[j] = ws[k]
        <5>1. j = b + k
          BY <1>0, <4>1
        <5> QED BY <1>0, <1>1, <1>7, <1>8, <5>1, ConcatAt, ZenonT(30)
      <4>3. PICK l : l = n + 1 - c + k - 1
        OBVIOUS
      <4>4. l \in 0..packets1[P].len
        BY <1>0, <1>4, <1>5, <1>6, <4>1, <4>3
      <4>5. Right1(packets1, packets1[P].start + l + 1, <<P, l>>)
        BY <4>4, RightIn1
      <4>6. a + j = s + l + 1
        BY <1>0, <1>5, <4>1, <4>3
      <4> QED BY <1>0, <1>4, <1>8, <4>2, <4>3, <4>5, <4>6, ZenonT(30)
    <3> QED BY <1>0, <3>1, <3>2
  <2> QED BY <1>7, <2>1 DEF Flow1, Held1
<1>14. Tagged1'
  BY <1>7, <1>10 DEF Flow1, Tagged1
<1> QED BY <1>10, <1>11, <1>12, <1>13, <1>14 DEF Flow1

\* Quadwords that are taken were right in the ring.
LEMMA TakeFlow ==
    ASSUME Flow1, NEW g \in 0..Len(fifo), fifo' = SubSeq(fifo, g + 1, Len(fifo)),
           out1' = out1 \o SubSeq(fifo, 1, g), UNCHANGED <<packets1, qwc1>>
    PROVE  /\ Len(out1') = Len(out1) + g
           /\ \A p : S1!EndOf(p)' = S1!EndOf(p)
           /\ tags1' \in Seq(Word) /\ counter1' \in Nat /\ Tagged1' => Flow1'
<1>0. PICK a \in Nat, b \in Nat, c \in Nat :
        /\ Len(out1) = a /\ Len(fifo) = b /\ qwc1 = c /\ b <= FifoQW
        /\ FifoQW \in Nat /\ g \in Nat /\ g <= b
  BY Fifo1Assumption DEF Flow1, Types1
<1>1. packets1 \in Seq(Packet1) /\ fifo \in Seq(Word) /\ out1 \in Seq(Word)
  BY DEF Flow1, Types1
<1> DEFINE ws == SubSeq(fifo, 1, g)
<1>2. ws \in Seq(Word) /\ Len(ws) = g /\ \A k \in 1..g : ws[k] = fifo[k]
  BY <1>0, <1>1
<1> HIDE DEF ws
<1>3. out1' = out1 \o ws
  BY DEF ws
<1>4. out1' \in Seq(Word) /\ Len(out1') = a + g
  BY <1>0, <1>1, <1>2, <1>3
<1>5. /\ fifo' \in Seq(Word) /\ Len(fifo') = b - g
      /\ \A j \in 1..(b - g) : fifo'[j] = fifo[g + j]
  BY <1>0, <1>1
<1>6. Layout1' /\ \A p : S1!EndOf(p)' = S1!EndOf(p)
  BY SamePackets1
<1>7. Sent1'
  <2>1. (a + g) + (b - g) + c = a + b + c
    BY <1>0
  <2> QED BY <1>0, <1>4, <1>5, <1>6, <2>1 DEF Flow1, Sent1
<1>8. Held1'
  <2>1. \A j \in DOMAIN fifo' : Right1(packets1, Len(out1') + j, fifo'[j])
    <3> SUFFICES ASSUME NEW j \in 1..(b - g) PROVE Right1(packets1, Len(out1') + j, fifo'[j])
      <4>1. DOMAIN fifo' = 1..(b - g)
        BY <1>5
      <4> QED BY <4>1, ZenonT(30)
    <3>1. g + j \in 1..b /\ (a + g) + j = a + (g + j)
      BY <1>0
    <3>2. g + j \in DOMAIN fifo /\ fifo'[j] = fifo[g + j]
      BY <1>0, <1>1, <1>5, <3>1
    <3> QED BY <1>0, <1>4, <3>1, <3>2, ZenonT(30) DEF Flow1, Held1
  <2>2. \A i \in DOMAIN out1' : Right1(packets1, i, out1'[i])
    <3> SUFFICES ASSUME NEW i \in 1..(a + g) PROVE Right1(packets1, i, out1'[i])
      BY <1>4
    <3>1. CASE i \in 1..a
      <4>1. out1'[i] = out1[i] /\ i \in DOMAIN out1
        BY <1>0, <1>1, <1>2, <1>3, <3>1
      <4> QED BY <4>1 DEF Flow1, Held1
    <3>2. CASE i > a
      <4>0. i - a \in 1..g
        BY <1>0, <3>2
      <4>1. PICK k \in 1..g : k = i - a
        BY <4>0
      <4>2. i = a + k /\ k \in DOMAIN fifo
        BY <1>0, <1>1, <4>1
      <4>3. out1'[i] = fifo[k]
        BY <1>0, <1>1, <1>2, <1>3, <4>2, ConcatAt, ZenonT(30)
      <4> QED BY <1>0, <4>2, <4>3, ZenonT(30) DEF Flow1, Held1
    <3> QED BY <1>0, <3>1, <3>2
  <2> QED BY <2>1, <2>2 DEF Held1
<1>9. tags1' \in Seq(Word) /\ counter1' \in Nat => Types1'
  BY <1>0, <1>1, <1>4, <1>5 DEF Flow1, Types1
<1> QED BY <1>0, <1>4, <1>6, <1>7, <1>8, <1>9 DEF Flow1

\* When the IOP has taken all of a packet, the next quadword is the tag of the
\* packet behind it.
LEMMA NextIsTag ==
    ASSUME Flow1, counter1 < Len(fifo)
    PROVE  LET t == Len(tags1) + 1 IN
           /\ t \in DOMAIN packets1 /\ fifo[counter1 + 1] = <<t, 0>>
           /\ S1!EndOf(t) = Len(out1) + counter1 + 1 + packets1[t].len
<1>0. PICK a \in Nat, b \in Nat, c \in Nat, d \in Nat, k \in Nat, P \in Nat :
        /\ Len(out1) = a /\ Len(fifo) = b /\ counter1 = c /\ qwc1 = d /\ Len(tags1) = k
        /\ Len(packets1) = P
  <2>1. /\ Len(out1) \in Nat /\ Len(fifo) \in Nat /\ counter1 \in Nat /\ qwc1 \in Nat
        /\ Len(tags1) \in Nat /\ Len(packets1) \in Nat
    BY DEF Flow1, Types1
  <2> QED BY <2>1, Zenon
<1>1. k <= P /\ a + c = S1!EndOf(k) /\ a + b + d = S1!EndOf(P)
  BY <1>0 DEF Flow1, Tagged1, Sent1
<1>2. c < b /\ k # P
  <2>1. c < b
    BY <1>0
  <2>2. S1!EndOf(k) # S1!EndOf(P)
    BY <1>0, <1>1, <2>1
  <2> QED BY <2>1, <2>2
<1>3. PICK t \in Nat : t = k + 1
  BY <1>0
<1>4. t \in DOMAIN packets1 /\ t - 1 = k
  <2>1. t \in 1..P /\ t - 1 = k
    BY <1>0, <1>1, <1>2, <1>3
  <2> QED BY <1>0, <2>1 DEF Flow1, Types1
<1>5. PICK s \in Nat, n \in Nat : /\ packets1[t].start = s /\ packets1[t].len = n
                                  /\ S1!EndOf(t) = s + 1 + n
  BY <1>4, PacketOf1
<1>6. s = a + c
  BY <1>1, <1>4, <1>5 DEF Flow1, Layout1
<1>7. c + 1 \in DOMAIN fifo
  BY <1>0, <1>2 DEF Flow1, Types1
<1>8. Right1(packets1, a + (c + 1), fifo[c + 1])
  BY <1>0, <1>7 DEF Flow1, Held1
<1>9. 0 \in 0..packets1[t].len /\ a + (c + 1) = packets1[t].start + 0 + 1
  BY <1>0, <1>5, <1>6
<1>10. fifo[c + 1] = <<t, 0>>
  BY <1>4, <1>8, <1>9 DEF Right1
<1>11. S1!EndOf(t) = a + c + 1 + packets1[t].len
  BY <1>0, <1>5, <1>6
<1> QED BY <1>0, <1>3, <1>4, <1>10, <1>11

\* WriteFifoToIOP, and the tag that may follow it.
LEMMA TransferFlow1 ==
    ASSUME Flow1, S1!HandleIOPTransfer, UNCHANGED <<packets1, qwc1>>
    PROVE  Flow1'
<1>0. PICK a \in Nat, b \in Nat, c \in Nat, k \in Nat :
        Len(out1) = a /\ Len(fifo) = b /\ counter1 = c /\ Len(tags1) = k
  BY DEF Flow1, Types1
<1>1. fifo \in Seq(Word) /\ tags1 \in Seq(Word)
  BY DEF Flow1, Types1
<1>2. PICK n \in 0..b : n = S1!Min2(counter1, Len(fifo)) /\ n <= c /\ (n = c \/ n = b)
  <2>1. S1!Min2(counter1, Len(fifo)) = IF c < b THEN c ELSE b
    BY <1>0 DEF S1!Min2
  <2> QED BY <1>0, <2>1
<1> DEFINE rest == SubSeq(fifo, n + 1, Len(fifo))
           readTag == counter1 = n /\ ~iend1 /\ rest # <<>>
<1>3. PICK g : g = IF readTag THEN n + 1 ELSE n
  OBVIOUS
<1>4. /\ fifo' = SubSeq(fifo, g + 1, Len(fifo)) /\ out1' = out1 \o SubSeq(fifo, 1, g)
      /\ \/ counter1 = n /\ iend1 /\ S1!EndIOP
         \/ readTag /\ S1!SIFIOPReadTag(Head(rest))
         \/ /\ ~readTag /\ ~(counter1 = n /\ iend1)
            /\ counter1' = counter1 - n /\ tags1' = tags1
  BY <1>2, <1>3, ZenonT(30) DEF S1!HandleIOPTransfer
<1>5. rest # <<>> => n < b /\ Head(rest) = fifo[n + 1]
  BY <1>0, <1>1, <1>2
<1> HIDE DEF rest
<1>6. g \in 0..Len(fifo) /\ (~readTag => g = n) /\ (readTag => g = n + 1)
  BY <1>0, <1>2, <1>3, <1>5
<1>7. /\ Len(out1') = a + g /\ (\A p : S1!EndOf(p)' = S1!EndOf(p))
      /\ tags1' \in Seq(Word) /\ counter1' \in Nat /\ Tagged1' => Flow1'
  BY <1>0, <1>4, <1>6, TakeFlow, ZenonT(30)
<1>8. k <= Len(packets1) /\ a + c = S1!EndOf(k) /\ \A i \in DOMAIN tags1 : tags1[i] = <<i, 0>>
  BY <1>0 DEF Flow1, Tagged1
<1>9. CASE ~readTag /\ tags1' = tags1 /\ counter1' = c - n
  <2>1. counter1' \in Nat /\ (a + n) + counter1' = a + c
    BY <1>0, <1>2, <1>9
  <2>2. Len(out1') + counter1' = S1!EndOf(Len(tags1))'
    BY <1>0, <1>6, <1>7, <1>8, <1>9, <2>1
  <2>3. Tagged1'
    BY <1>0, <1>8, <1>9, <2>2 DEF Tagged1
  <2> QED BY <1>1, <1>7, <1>9, <2>1, <2>3
<1>10. CASE counter1 = n /\ iend1 /\ S1!EndIOP
  <2>1. counter1' = c - n /\ tags1' = tags1
    <3>1. counter1' = 0 /\ tags1' = tags1
      BY <1>10 DEF S1!EndIOP
    <3>2. c - n = 0
      BY <1>0, <1>10
    <3> QED BY <3>1, <3>2
  <2> QED BY <1>9, <1>10, <2>1
<1>11. CASE readTag /\ S1!SIFIOPReadTag(Head(rest))
  <2>0. c = n /\ c < b /\ Head(rest) = fifo[c + 1]
    BY <1>0, <1>5, <1>11
  <2>1. PICK t \in Nat : t = k + 1
    BY <1>0
  <2>2. /\ t \in DOMAIN packets1 /\ fifo[c + 1] = <<t, 0>>
        /\ S1!EndOf(t) = a + c + 1 + packets1[t].len
    BY <1>0, <2>0, <2>1, NextIsTag
  <2>3. counter1' = packets1[t].len /\ tags1' = Append(tags1, <<t, 0>>)
    <3>1. S1!SIFIOPReadTag(<<t, 0>>)
      BY <1>11, <2>0, <2>2
    <3> QED BY <3>1 DEF S1!SIFIOPReadTag
  <2>4. PICK l \in Nat : packets1[t].len = l
    BY <2>2, PacketOf1
  <2>5. tags1' \in Seq(Word) /\ Len(tags1') = t /\ \A i \in DOMAIN tags1' : tags1'[i] = <<i, 0>>
    <3>1. <<t, 0>> \in Word
      BY DEF Word
    <3> QED BY <1>0, <1>1, <1>8, <2>1, <2>3, <3>1
  <2>6. t <= Len(packets1)
    BY <2>2 DEF Flow1, Types1
  <2>7. (a + (n + 1)) + l = a + c + 1 + l
    BY <1>0, <2>0
  <2>8. Len(out1') + counter1' = S1!EndOf(t)
    BY <1>6, <1>7, <1>11, <2>2, <2>3, <2>4, <2>7
  <2>9. S1!EndOf(Len(tags1))' = S1!EndOf(t)
    BY <1>7, <2>5
  <2>10. Tagged1'
    BY <2>5, <2>6, <2>8, <2>9 DEF Tagged1
  <2> QED BY <1>7, <2>3, <2>4, <2>5, <2>10
<1> QED BY <1>0, <1>4, <1>9, <1>10, <1>11

\* The EE's turn.
LEMMA EeFlow1 == ASSUME Flow1, S1!EeTurn PROVE Flow1'
<1>1. UNCHANGED <<out1, tags1, counter1>>
  BY DEF S1!EeTurn, S1!iopVars
<1>2. CASE UNCHANGED <<fifo, qwc1, packets1>>
  BY <1>1, <1>2, QuietFlow1
<1>3. CASE ~UNCHANGED <<fifo, qwc1, packets1>>
  <2>1. S1!HandleEETransfer
    BY <1>3 DEF S1!EeTurn
  <2>2. CASE qwc1 = 0 /\ S1!ProcessEETag
    BY <1>1, <2>2, BeginFlow, Zenon DEF S1!ProcessEETag
  <2>3. CASE qwc1 > 0 /\ S1!Free > 0 /\ S1!WriteEEtoFifo
    BY <1>1, <2>3, SendFlow
  <2> QED BY <1>3, <2>1, <2>2, <2>3 DEF S1!HandleEETransfer, S1!EndEE
<1> QED BY <1>2, <1>3

\* The IOP's turn.
LEMMA IopFlow1 == ASSUME Flow1, S1!IopTurn PROVE Flow1'
<1>1. UNCHANGED <<packets1, qwc1>>
  BY DEF S1!IopTurn, S1!eeVars
<1>2. CASE S1!HandleIOPTransfer
  BY <1>1, <1>2, TransferFlow1
<1>3. CASE UNCHANGED <<fifo, counter1, out1, tags1>>
  BY <1>1, <1>3, QuietFlow1
<1> QED BY <1>2, <1>3 DEF S1!IopTurn

\* The stream starts anew.
LEMMA EmptyFlow1 ==
    ASSUME fifo = <<>>, qwc1 = 0, counter1 = 0, packets1 = <<>>, out1 = <<>>, tags1 = <<>>
    PROVE  Flow1
<1>1. Types1
  BY Fifo1Assumption DEF Types1
<1>2. Layout1 /\ Held1
  BY DEF Layout1, Held1
<1>3. S1!EndOf(0) = 0
  BY DEF S1!EndOf
<1>4. Sent1 /\ Tagged1
  BY <1>3 DEF Sent1, Tagged1
<1> QED BY <1>1, <1>2, <1>4 DEF Flow1

\* The guest begins a packet in normal mode, or moves nothing.
LEMMA GuestFlow1 == ASSUME Flow1, S1!Guest PROVE Flow1'
<1>1. CASE S1!SifReset
  <2>1. /\ fifo' = <<>> /\ qwc1' = 0 /\ counter1' = 0
        /\ packets1' = <<>> /\ out1' = <<>> /\ tags1' = <<>>
    BY <1>1 DEF S1!SifReset
  <2>2. Types1'
    BY <2>1, Fifo1Assumption DEF Types1
  <2>3. Layout1' /\ Held1'
    BY <2>1 DEF Layout1, Held1
  <2>4. S1!EndOf(0)' = 0
    BY DEF S1!EndOf
  <2>5. Sent1' /\ Tagged1'
    BY <2>1, <2>4 DEF Sent1, Tagged1
  <2> QED BY <2>2, <2>3, <2>5 DEF Flow1
<1>2. CASE S1!DmaSIF1Normal
  <2>1. UNCHANGED <<fifo, out1, tags1, counter1>>
    BY <1>2 DEF S1!DmaSIF1Normal, S1!iopVars
  <2>2. CASE qwc1 = 0 /\ \E n \in Lengths, stop \in BOOLEAN : S1!Begin(n, S1!NoTag, stop)
    BY <2>1, <2>2, BeginFlow, Zenon
  <2>3. CASE UNCHANGED <<qwc1, packets1>>
    BY <2>1, <2>3, QuietFlow1
  <2> QED BY <1>2, <2>2, <2>3 DEF S1!DmaSIF1Normal
<1>3. CASE ~S1!SifReset /\ ~S1!DmaSIF1Normal
  <2>1. UNCHANGED <<fifo, packets1, out1, tags1, qwc1, counter1>>
    BY <1>3 DEF S1!Guest, S1!DmaSIF1Chain, S1!StopEE, S1!EEsif1Interrupt, S1!PsxDma10,
                S1!Sif1Interrupt, S1!AdvanceStadr, S1!eeVars, S1!iopVars
  <2> QED BY <2>1, QuietFlow1
<1> QED BY <1>1, <1>2, <1>3

LEMMA FlowInductive1 == Flow1 /\ [S1!Next]_vars1 => Flow1'
<1> SUFFICES ASSUME Flow1, [S1!Next]_vars1 PROVE Flow1'
  OBVIOUS
<1>1. CASE UNCHANGED vars1
  BY <1>1, QuietFlow1 DEF vars1
<1> QED BY <1>1, EeFlow1, IopFlow1, GuestFlow1 DEF S1!Next, S1!Loop
---------------------------------------------------------------------------
(* The theorems *)

LEMMA Initially == MCInit => IInv
<1> SUFFICES ASSUME MCInit PROVE IInv
  OBVIOUS
<1>1. At(0 + 0) = 0
  BY AtValue, FifoAssumption
<1>2. Inv0
  BY <1>1, FifoAssumption DEF MCInit, Init, Inv0, Ring0, FifoInv, Stuck0, Rendezvous
<1>3. Inv1
  BY DEF MCInit, S1!Init, Inv1, Stuck1, S1!Rendezvous, Remembered
<1>4. Flow0
  BY EmptyFlow DEF MCInit, Init
<1>5. Flow1
  BY EmptyFlow1 DEF MCInit, S1!Init
<1> QED BY <1>2, <1>3, <1>4, <1>5 DEF IInv

LEMMA Inductive == IInv /\ [MCNext]_MCvars => IInv'
<1> SUFFICES ASSUME IInv, [MCNext]_MCvars PROVE IInv'
  OBVIOUS
<1>1. [Next]_vars /\ [S1!Next]_vars1
  BY DEF MCNext, Step0, Step1, MCvars
<1> QED BY <1>1, Inductive0, Inductive1, FlowInductive0, FlowInductive1 DEF IInv

LEMMA AlwaysIInv == MCSpec => []IInv
BY Initially, Inductive, PTL DEF MCSpec

\* The ring of SIF0 (sifFifo) is never overfilled, the EE reads whole quadwords
\* from it, and SIF0Dma has padded a packet before ProcessIOPTag reads the next
\* tag, for every size of the ring and all lengths of packets.
THEOREM RingOfSif0 == MCSpec => []FifoInv
<1>1. IInv => FifoInv
  BY DEF IInv, Inv0, Ring0
<1> QED BY <1>1, AlwaysIInv, PTL

\* When SIF0Dma or SIF1Dma returns, its two sides never wait for each other,
\* except under stall control.
THEOREM SidesMeet == MCSpec => []SifRendezvous
<1>1. IInv => SifRendezvous
  BY DEF IInv, Inv0, Inv1, SifRendezvous
<1> QED BY <1>1, AlwaysIInv, PTL

\* dmaSIF1 finds the end of a stopped chain again in the tag kept in chcr.
THEOREM ChainsEnd == MCSpec => []EndRemembered
<1>1. IInv => EndRemembered
  BY DEF IInv, Inv1, Remembered, EndRemembered, S1!EndRemembered
<1> QED BY <1>1, AlwaysIInv, PTL

\* What the IOP has taken is right, up to the quadwords held or to be sent.
LEMMA Intact1 == Flow1 => S1!Intact
<1> SUFFICES ASSUME Flow1 PROVE S1!Intact
  OBVIOUS
<1>0. PICK a \in Nat, b \in Nat, c \in Nat : Len(out1) = a /\ Len(fifo) = b /\ qwc1 = c
  BY DEF Flow1, Types1
<1>1. Len(out1) <= S1!EndOf(Len(packets1))
  <2>1. a + b + c = S1!EndOf(Len(packets1))
    BY <1>0 DEF Flow1, Sent1
  <2> QED BY <1>0, <2>1
<1>2. ASSUME NEW p \in DOMAIN packets1, NEW k \in 0..packets1[p].len,
             packets1[p].start + k + 1 <= Len(out1)
      PROVE  out1[packets1[p].start + k + 1] = <<p, k>>
  <2>1. PICK s \in Nat, n \in Nat : packets1[p].start = s /\ packets1[p].len = n
    BY PacketOf1
  <2>2. PICK i : i = s + k + 1
    OBVIOUS
  <2>3. i \in 1..a
    BY <1>0, <1>2, <2>1, <2>2
  <2>4. Right1(packets1, i, out1[i])
    <3>1. out1 \in Seq(Word)
      BY DEF Flow1, Types1
    <3>2. i \in DOMAIN out1
      BY <1>0, <2>3, <3>1
    <3> QED BY <3>2 DEF Flow1, Held1
  <2> QED BY <2>1, <2>2, <2>4, ZenonT(30) DEF Right1
<1> QED BY <1>1, <1>2 DEF S1!Intact, Flow1, Types1, Tagged1

\* What either processor receives is exactly what the other one sent, in order,
\* whole and padded as Sif.h says (sifFifo, SIF0Dma, SIF1Dma): for every size of
\* the rings, all lengths of packets, and any calls and resets between them.
THEOREM Delivered == MCSpec => []SifIntact
<1>1. IInv => SifIntact
  BY Intact0, Intact1 DEF IInv, SifIntact
<1> QED BY <1>1, AlwaysIInv, PTL
=============================================================================
