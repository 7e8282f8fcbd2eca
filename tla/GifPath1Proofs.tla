--------------------------- MODULE GifPath1Proofs ---------------------------
(***************************************************************************)
(* GIF path 1 with a threaded VU1, for every size of the buffer, of the    *)
(* queue and of the kicks, and any number of programs.                     *)
(*                                                                         *)
(* Counting (Counted): a post of semaXGkick for each packet in the queue;  *)
(* a ring item for each program.  Notification (Noticed): ring items MTGS  *)
(* does not know of have a notify on its way.  Space (Layout): packets lie *)
(* one after the other in a virtual buffer without end, in which g[i] is   *)
(* where packet i begins with what it skips; readAmount is a difference of *)
(* two such places, and those before the last move to the front lie in the *)
(* path buffer at a distance c of at least buffLimit.                      *)
(***************************************************************************)
EXTENDS GifPath1, TLAPS

PacketType == [offset : Int, size : Nat, readAmount : Nat, more : BOOLEAN]

Waits == {"notify", "count", "drain", "recheck", "sleep"}
Serving == {"kick", "got", "pop", "progress"}

Typed == /\ epc \in EePcs /\ vpc \in VuPcs /\ gpc \in GsPcs
         /\ m_Ring \in Seq({"vu", "vsync"}) /\ gsPackQueue \in Seq(PacketType)
         /\ s_sem_event \in {"idle", "run0", "runN"}
         /\ semaXGkick \in Nat /\ batch \in Nat
         /\ fakePackets \in Int /\ programs \in Int
         /\ readAmount \in Int /\ curSize \in Int /\ curOffset \in Int /\ size \in Nat
         /\ gsPack \in PacketType /\ pack \in PacketType

\* The GS thread in the ring.
Served == /\ gpc \in {"batch", "advance"} \cup Serving => batch <= Len(m_Ring)
          /\ gpc \in {"advance"} \cup Serving => batch > 0 /\ m_Ring # <<>>
          /\ gpc \in Serving => Head(m_Ring) = "vu"
          /\ gpc = "pop" => gsPackQueue # <<>> /\ pack = Head(gsPackQueue)

Counted == Len(gsPackQueue) = semaXGkick + (IF gpc \in {"got", "pop"} THEN 1 ELSE 0) + (IF vpc = "post" THEN 1 ELSE 0)

\* Ring items MTGS takes without another notify.
Known == IF gpc \in {"out", "wait", "parked"} THEN 0
         ELSE IF gpc \in {"snapshot", "vsync"} THEN Len(m_Ring) ELSE batch

Noticed == /\ Len(m_Ring) > Known => s_sem_event = "runN" \/ epc \in {"sent", "notify"}
           /\ s_sem_event = "idle" => gpc = "parked"
           /\ gpc = "parked" => s_sem_event # "run0"
           /\ epc = "asleep" /\ ~waiting => m_Ring = <<>>
           /\ epc = "waited" => m_Ring = <<>>

\* Where the VU thread returns to, whether a kick is copied but not consumed, and
\* how the packet being built lies in the buffer.
InFlight == vpc \in {"execute", "consume"} \/ ret \in {<<"consume">>, <<"realign", "consume">>}
Returns == /\ vpc = "realign" => ret \in {<<"copy">>, <<"consume">>}
           /\ vpc \in Waits => ret \in {<<"copy">>, <<"realign", "copy">>, <<"realign", "consume">>}
           /\ vpc \notin Waits \cup {"realign"} => ret = <<>>
           /\ curSize = curOffset + IF InFlight THEN size ELSE 0
           /\ gsPack.offset = Offset /\ Offset >= 0

\* The packets MTGS has not transferred, and after them the one being built.
Waiting == IF gpc = "pop" THEN Tail(gsPackQueue) ELSE gsPackQueue
Chain == Append(Waiting, gsPack)

\* Packets x[1] to x[m] lie at the virtual places g; those before k at a distance of
\* c from them in the buffer, past cell e.
Placed(x, m, g, k, c, e) ==
   /\ c >= buffLimit /\ \A i \in 1..m : g[i] \in Int
   /\ \A i \in 1..(m - 1) : g[i + 1] = g[i] + x[i].readAmount + x[i].size
   /\ \A i, j \in 1..m : i < j => g[i] + x[i].readAmount + x[i].size <= g[j]
   /\ \A i \in 1..m : i < k => /\ g[i] + x[i].readAmount + x[i].size <= 0
                               /\ x[i].size > 0 => x[i].offset = g[i] + x[i].readAmount + c /\ e <= x[i].offset
   /\ \A i \in 1..m : i >= k /\ x[i].size > 0 => x[i].offset = g[i] + x[i].readAmount

\* So laid out, with r cells from the first packet to the last.
LaidOut(x, m, e, r) == \E g : \E k \in 1..m, c \in Int :
                          /\ Placed(x, m, g, k, c, e)
                          /\ g[m] + x[m].readAmount = x[m].offset
                          /\ r = g[m] - g[1]

\* FinishGSPacketMTVU accounts for the packet being built before it pushes it.
Layout == LaidOut(Chain, Len(Chain), curSize,
                  readAmount - IF vpc = "push" THEN gsPack.size + gsPack.readAmount ELSE 0)

IInv == Typed /\ Served /\ Counted /\ OneItemPerProgram /\ Noticed /\ Returns /\ Layout

-----------------------------------------------------------------------------
\* The layout: what a step of either thread does to it.

Fields(x, m) == \A i \in 1..m : x[i].offset \in Int /\ x[i].size \in Nat /\ x[i].readAmount \in Nat

\* The first packet is the first in the virtual buffer.
LEMMA PlacedFirst ==
   ASSUME NEW m \in Nat \ {0}, NEW x, Fields(x, m), NEW g, NEW k, NEW c, NEW e,
          Placed(x, m, g, k, c, e), NEW i \in 1..m
   PROVE  g[1] <= g[i]
<1>1. 1 \in 1..m /\ g[1] \in Int /\ g[i] \in Int /\ x[1].size \in Nat /\ x[1].readAmount \in Nat
  BY DEF Fields, Placed
<1>2. i # 1 => g[1] + x[1].readAmount + x[1].size <= g[i]
  BY <1>1 DEF Placed
<1> QED BY <1>1, <1>2

\* Copying past e: MTGS reads behind the packet being built, or far enough ahead.
LEMMA LaidCopy ==
   ASSUME NEW m \in Nat \ {0}, NEW x, Fields(x, m), NEW e \in Int, NEW r \in Int, NEW n \in Nat,
          LaidOut(x, m, e, r),
          \/ x[m].offset - (r + x[m].readAmount) >= 0
          \/ buffLimit + x[m].offset - (r + x[m].readAmount) > e + n
   PROVE  LaidOut(x, m, e + n, r)
<1>g. PICK g : \E k \in 1..m, c \in Int :
         /\ Placed(x, m, g, k, c, e)
         /\ g[m] + x[m].readAmount = x[m].offset
         /\ r = g[m] - g[1]
  BY DEF LaidOut
<1>1. PICK k \in 1..m, c \in Int :
         /\ Placed(x, m, g, k, c, e)
         /\ g[m] + x[m].readAmount = x[m].offset
         /\ r = g[m] - g[1]
  BY <1>g
<1>2. buffLimit \in Int
  BY GifPath1Assumption
<1>3. g[1] >= 0 \/ buffLimit + g[1] > e + n
  <2>1. g[1] \in Int /\ g[m] \in Int /\ x[m].offset \in Int /\ x[m].readAmount \in Nat
    BY <1>1 DEF Fields, Placed
  <2> QED BY <2>1, <1>1, <1>2
<1>4. ASSUME NEW i \in 1..m, i < k, x[i].size > 0 PROVE e + n <= x[i].offset
  <2>1. g[1] <= g[i]
    BY <1>1, PlacedFirst
  <2>2. g[i] + x[i].readAmount + x[i].size <= 0 /\ x[i].offset = g[i] + x[i].readAmount + c /\ c >= buffLimit
    BY <1>1, <1>4 DEF Placed
  <2>3. g[1] \in Int /\ g[i] \in Int /\ x[i].offset \in Int /\ x[i].size \in Nat /\ x[i].readAmount \in Nat
    BY <1>1 DEF Fields, Placed
  <2> QED BY <2>1, <2>2, <2>3, <1>2, <1>3, <1>4
<1>5. Placed(x, m, g, k, c, e + n)
  BY <1>1, <1>4 DEF Placed
<1> QED BY <1>1, <1>5 DEF LaidOut

\* The packet being built takes what was copied.
LEMMA LaidConsume ==
   ASSUME NEW m \in Nat \ {0}, NEW x, NEW y, NEW e, NEW r, LaidOut(x, m, e, r),
          \A i \in 1..m : i < m => y[i] = x[i],
          y[m].offset = x[m].offset, y[m].readAmount = x[m].readAmount
   PROVE  LaidOut(y, m, e, r)
<1>g. PICK g : \E k \in 1..m, c \in Int :
         /\ Placed(x, m, g, k, c, e)
         /\ g[m] + x[m].readAmount = x[m].offset
         /\ r = g[m] - g[1]
  BY Zenon DEF LaidOut
<1>1. PICK k \in 1..m, c \in Int :
         /\ Placed(x, m, g, k, c, e)
         /\ g[m] + x[m].readAmount = x[m].offset
         /\ r = g[m] - g[1]
  BY <1>g
<1>2. /\ \A i \in 1..(m - 1) : i \in 1..m /\ i < m
      /\ \A i, j \in 1..m : i < j => i < m
      /\ \A i \in 1..m : i < k => i < m
  OBVIOUS
<1>3. /\ c >= buffLimit /\ \A i \in 1..m : g[i] \in Int
      /\ \A i \in 1..(m - 1) : g[i + 1] = g[i] + y[i].readAmount + y[i].size
      /\ \A i, j \in 1..m : i < j => g[i] + y[i].readAmount + y[i].size <= g[j]
      /\ \A i \in 1..m : i < k => /\ g[i] + y[i].readAmount + y[i].size <= 0
                                  /\ y[i].size > 0 => y[i].offset = g[i] + y[i].readAmount + c /\ e <= y[i].offset
  BY <1>1, <1>2 DEF Placed
<1>4. \A i \in 1..m : i >= k /\ y[i].size > 0 => y[i].offset = g[i] + y[i].readAmount
  BY <1>1 DEF Placed
<1>5. Placed(y, m, g, k, c, e)
  BY <1>3, <1>4 DEF Placed
<1> QED BY <1>1, <1>5 DEF LaidOut

\* RealignPacket moves it to the front: all virtual places move back by d.
LEMMA LaidMove ==
   ASSUME NEW m \in Nat \ {0}, NEW x, NEW y, Fields(x, m), Fields(y, m), NEW e \in Int, NEW r \in Int,
          LaidOut(x, m, e, r),
          r + x[m].readAmount <= 0 \/ x[m].offset - (r + x[m].readAmount) >= e - x[m].offset,
          x[m].offset >= 0, x[m].offset <= e,
          \A i \in 1..m : i < m => y[i] = x[i],
          NEW d \in Int, d >= buffLimit, d >= x[m].offset,
          y[m].offset = 0, y[m].size = x[m].size, y[m].readAmount = x[m].readAmount + d - x[m].offset
   PROVE  LaidOut(y, m, e - x[m].offset, r)
<1> DEFINE o == x[m].offset
<1>g. PICK g : \E k \in 1..m, c \in Int :
         /\ Placed(x, m, g, k, c, e)
         /\ g[m] + x[m].readAmount = x[m].offset
         /\ r = g[m] - g[1]
  BY DEF LaidOut
<1>1. PICK k \in 1..m, c \in Int :
         /\ Placed(x, m, g, k, c, e)
         /\ g[m] + x[m].readAmount = x[m].offset
         /\ r = g[m] - g[1]
  BY <1>g
<1>2. /\ g[1] \in Int /\ g[m] \in Int /\ o \in Int /\ x[m].readAmount \in Nat /\ x[m].size \in Nat
      /\ buffLimit \in Int
  BY <1>1, GifPath1Assumption DEF Fields, Placed
<1>3. g[m] <= o /\ g[1] >= 0 /\ (g[1] >= o \/ g[1] >= e - o)
  BY <1>1, <1>2
<1> DEFINE h == [i \in 1..m |-> g[i] - d]
<1>4. \A i \in 1..m : h[i] = g[i] - d /\ h[i] \in Int /\ g[i] \in Int
  BY <1>1 DEF Placed
<1> HIDE DEF h, o
<1>5. h[m] + y[m].readAmount = y[m].offset /\ r = h[m] - h[1]
  <2>1. h[m] = g[m] - d /\ h[1] = g[1] - d
    BY <1>4
  <2> QED BY <2>1, <1>1, <1>2 DEF o
<1>6. ASSUME NEW i \in 1..m, i < m
      PROVE  /\ h[i] + y[i].readAmount + y[i].size <= 0
             /\ y[i].size > 0 => y[i].offset = h[i] + y[i].readAmount + d /\ e - o <= y[i].offset
  <2>1. /\ g[i] \in Int /\ x[i].offset \in Int /\ x[i].size \in Nat /\ x[i].readAmount \in Nat
        /\ h[i] = g[i] - d
    BY <1>4 DEF Fields
  <2>2. g[1] <= g[i] /\ g[i] + x[i].readAmount + x[i].size <= g[m]
    <3>1. g[1] <= g[i]
      BY <1>1, PlacedFirst
    <3>2. m \in 1..m
      OBVIOUS
    <3> QED BY <1>1, <1>6, <3>1, <3>2 DEF Placed
  <2>3. h[i] + x[i].readAmount + x[i].size <= 0
    BY <2>1, <2>2, <1>2, <1>3 DEF o
  <2>4. ASSUME x[i].size > 0 PROVE x[i].offset = g[i] + x[i].readAmount
    <3>1. i < k => g[i] + x[i].readAmount + x[i].size <= 0
      BY <1>1 DEF Placed
    <3>2. i >= k
      BY <3>1, <2>1, <2>2, <2>4, <1>2, <1>3
    <3> QED BY <3>2, <2>4, <1>1 DEF Placed
  <2>5. ASSUME x[i].size > 0 PROVE x[i].offset = h[i] + x[i].readAmount + d /\ e - o <= x[i].offset
    BY <2>1, <2>2, <2>4, <2>5, <1>2, <1>3
  <2> QED BY <2>3, <2>5, <1>6
<1>7. ASSUME NEW i \in 1..(m - 1) PROVE h[i + 1] = h[i] + y[i].readAmount + y[i].size
  <2>1. i \in 1..m /\ i + 1 \in 1..m /\ i < m /\ g[i + 1] = g[i] + x[i].readAmount + x[i].size
    BY <1>1 DEF Placed
  <2>2. /\ g[i] \in Int /\ g[i + 1] \in Int /\ x[i].size \in Nat /\ x[i].readAmount \in Nat
        /\ h[i] = g[i] - d /\ h[i + 1] = g[i + 1] - d /\ y[i] = x[i]
    BY <2>1, <1>4 DEF Fields
  <2> QED BY <2>1, <2>2
<1>8. ASSUME NEW i \in 1..m, NEW j \in 1..m, i < j PROVE h[i] + y[i].readAmount + y[i].size <= h[j]
  <2>1. i < m /\ g[i] + x[i].readAmount + x[i].size <= g[j]
    BY <1>1, <1>8 DEF Placed
  <2>2. /\ g[i] \in Int /\ g[j] \in Int /\ x[i].size \in Nat /\ x[i].readAmount \in Nat
        /\ h[i] = g[i] - d /\ h[j] = g[j] - d /\ y[i] = x[i]
    BY <2>1, <1>4 DEF Fields
  <2> QED BY <2>1, <2>2
<1>9. \A i \in 1..m : i >= m /\ y[i].size > 0 => y[i].offset = h[i] + y[i].readAmount
  BY <1>5
<1>10. Placed(y, m, h, m, d, e - o)
  BY <1>4, <1>6, <1>7, <1>8, <1>9 DEF Placed
<1> QED BY <1>4, <1>5, <1>10, m \in 1..m DEF LaidOut, o

\* FinishGSPacketMTVU pushes it; the next packet starts where it ends.
LEMMA LaidPush ==
   ASSUME NEW m \in Nat \ {0}, NEW x, NEW y, Fields(x, m), NEW e, NEW r \in Int, LaidOut(x, m, e, r),
          \A i \in 1..m : y[i].offset = x[i].offset /\ y[i].size = x[i].size /\ y[i].readAmount = x[i].readAmount,
          y[m + 1].offset = x[m].offset + x[m].size, y[m + 1].size = 0, y[m + 1].readAmount = 0
   PROVE  LaidOut(y, m + 1, e, r + x[m].size + x[m].readAmount)
<1>g. PICK g : \E k \in 1..m, c \in Int :
         /\ Placed(x, m, g, k, c, e)
         /\ g[m] + x[m].readAmount = x[m].offset
         /\ r = g[m] - g[1]
  BY DEF LaidOut
<1>1. PICK k \in 1..m, c \in Int :
         /\ Placed(x, m, g, k, c, e)
         /\ g[m] + x[m].readAmount = x[m].offset
         /\ r = g[m] - g[1]
  BY <1>g
<1> DEFINE h == [i \in 1..(m + 1) |-> IF i = m + 1 THEN x[m].offset + x[m].size ELSE g[i]]
<1>2. /\ h[m + 1] = x[m].offset + x[m].size
      /\ \A i \in 1..m : h[i] = g[i] /\ g[i] \in Int
  BY <1>1 DEF Placed
<1> HIDE DEF h
<1>3. /\ m \in 1..m /\ 1 \in 1..m /\ g[m] \in Int /\ g[1] \in Int
      /\ x[m].offset \in Int /\ x[m].size \in Nat /\ x[m].readAmount \in Nat
  BY <1>2 DEF Fields
<1>4. ASSUME NEW i \in 1..m PROVE g[i] + x[i].readAmount + x[i].size <= h[m + 1]
  <2>1. i # m => g[i] + x[i].readAmount + x[i].size <= g[m]
    BY <1>1, <1>3 DEF Placed
  <2>2. g[i] \in Int /\ x[i].size \in Nat /\ x[i].readAmount \in Nat
    BY <1>2 DEF Fields
  <2> QED BY <2>1, <2>2, <1>1, <1>2, <1>3
<1>5. ASSUME NEW i \in 1..m PROVE h[i + 1] = h[i] + y[i].readAmount + y[i].size
  <2>1. CASE i = m
    BY <2>1, <1>1, <1>2, <1>3
  <2>2. CASE i # m
    <3>1. i \in 1..(m - 1) /\ i + 1 \in 1..m
      BY <2>2
    <3>2. g[i + 1] = g[i] + x[i].readAmount + x[i].size
      BY <3>1, <1>1 DEF Placed
    <3> QED BY <3>1, <3>2, <1>2
  <2> QED BY <2>1, <2>2
<1>6. ASSUME NEW i \in 1..(m + 1), NEW j \in 1..(m + 1), i < j PROVE h[i] + y[i].readAmount + y[i].size <= h[j]
  <2>1. i \in 1..m
    BY <1>6
  <2>2. CASE j = m + 1
    BY <2>1, <2>2, <1>2, <1>4
  <2>3. CASE j # m + 1
    <3>1. j \in 1..m
      BY <2>3
    <3> QED BY <2>1, <3>1, <1>1, <1>2, <1>6 DEF Placed
  <2> QED BY <2>2, <2>3
<1>7. ASSUME NEW i \in 1..(m + 1), i < k
      PROVE  /\ h[i] + y[i].readAmount + y[i].size <= 0
             /\ y[i].size > 0 => y[i].offset = h[i] + y[i].readAmount + c /\ e <= y[i].offset
  <2>1. i \in 1..m
    BY <1>7
  <2> QED BY <2>1, <1>1, <1>2, <1>7 DEF Placed
<1>8. ASSUME NEW i \in 1..(m + 1), i >= k, y[i].size > 0 PROVE y[i].offset = h[i] + y[i].readAmount
  <2>1. i # m + 1
    BY <1>8
  <2>2. i \in 1..m
    BY <2>1
  <2> QED BY <2>2, <1>1, <1>2, <1>8 DEF Placed
<1>9. \A i \in 1..(m + 1) : h[i] \in Int
  BY <1>2, <1>3
<1>10. Placed(y, m + 1, h, k, c, e)
  BY <1>1, <1>5, <1>6, <1>7, <1>8, <1>9 DEF Placed
<1>11. /\ h[m + 1] + y[m + 1].readAmount = y[m + 1].offset
       /\ r + x[m].size + x[m].readAmount = h[m + 1] - h[1]
       /\ k \in 1..(m + 1)
  BY <1>1, <1>2, <1>3
<1> QED BY <1>10, <1>11 DEF LaidOut

\* MTGS has transferred the first packet.
LEMMA LaidTail ==
   ASSUME NEW m \in Nat \ {0}, NEW x, NEW y, Fields(x, m + 1), NEW e, NEW r \in Int, LaidOut(x, m + 1, e, r),
          \A i \in 1..m : y[i] = x[i + 1]
   PROVE  LaidOut(y, m, e, r - x[1].size - x[1].readAmount)
<1>g. PICK g : \E k \in 1..(m + 1), c \in Int :
         /\ Placed(x, m + 1, g, k, c, e)
         /\ g[m + 1] + x[m + 1].readAmount = x[m + 1].offset
         /\ r = g[m + 1] - g[1]
  BY DEF LaidOut
<1>1. PICK k \in 1..(m + 1), c \in Int :
         /\ Placed(x, m + 1, g, k, c, e)
         /\ g[m + 1] + x[m + 1].readAmount = x[m + 1].offset
         /\ r = g[m + 1] - g[1]
  BY <1>g
<1> DEFINE h == [i \in 1..m |-> g[i + 1]]
           l == IF k = 1 THEN 1 ELSE k - 1
<1>2. l \in 1..m /\ \A i \in 1..m : (i < l => i + 1 < k) /\ (i >= l => i + 1 >= k)
  OBVIOUS
<1>3. \A i \in 1..m : h[i] = g[i + 1] /\ g[i + 1] \in Int /\ i + 1 \in 1..(m + 1)
  BY <1>1 DEF Placed
<1> HIDE DEF h, l
<1>4. c >= buffLimit /\ \A i \in 1..m : h[i] \in Int
  BY <1>1, <1>3 DEF Placed
<1>5. \A i \in 1..(m - 1) : h[i + 1] = h[i] + y[i].readAmount + y[i].size
  <2> SUFFICES ASSUME NEW i \in 1..(m - 1) PROVE h[i + 1] = h[i] + y[i].readAmount + y[i].size
    OBVIOUS
  <2>1. i \in 1..m /\ i + 1 \in 1..m /\ i + 1 \in 1..((m + 1) - 1)
    OBVIOUS
  <2>2. g[(i + 1) + 1] = g[i + 1] + x[i + 1].readAmount + x[i + 1].size
    BY <2>1, <1>1 DEF Placed
  <2> QED BY <2>1, <2>2, <1>3
<1>6. \A i, j \in 1..m : i < j => h[i] + y[i].readAmount + y[i].size <= h[j]
  BY <1>1, <1>3 DEF Placed
<1>7. \A i \in 1..m : i < l => /\ h[i] + y[i].readAmount + y[i].size <= 0
                               /\ y[i].size > 0 => y[i].offset = h[i] + y[i].readAmount + c /\ e <= y[i].offset
  BY <1>1, <1>2, <1>3 DEF Placed
<1>8. \A i \in 1..m : i >= l /\ y[i].size > 0 => y[i].offset = h[i] + y[i].readAmount
  BY <1>1, <1>2, <1>3, ZenonT(30) DEF Placed
<1>9. Placed(y, m, h, l, c, e)
  BY <1>4, <1>5, <1>6, <1>7, <1>8 DEF Placed
<1>10. h[m] + y[m].readAmount = y[m].offset
  BY <1>1, <1>3
<1>11. r - x[1].size - x[1].readAmount = h[m] - h[1]
  <2>1. g[2] = g[1] + x[1].readAmount + x[1].size
    BY <1>1, 1 \in 1..((m + 1) - 1), 1 + 1 = 2 DEF Placed
  <2>2. h[1] = g[2] /\ h[m] = g[m + 1]
    BY <1>3, 1 + 1 = 2
  <2>3. g[1] \in Int /\ g[2] \in Int /\ g[m + 1] \in Int /\ x[1].size \in Nat /\ x[1].readAmount \in Nat
    BY <1>1 DEF Placed, Fields
  <2> QED BY <2>1, <2>2, <2>3, <1>1
<1> QED BY <1>2, <1>9, <1>10, <1>11 DEF LaidOut

\* Packets that are so laid out are disjoint, and lie clear of what is written
\* between the last one's start and e.
LEMMA LaidIntact ==
   ASSUME NEW m \in Nat \ {0}, NEW x, Fields(x, m), NEW e \in Int, NEW r, LaidOut(x, m, e, r),
          x[m].offset <= e
   PROVE  \A i \in 1..(m - 1) : /\ Cells(x[i]) \cap x[m].offset..(e - 1) = {}
                                /\ \A j \in 1..(m - 1) : i # j => Cells(x[i]) \cap Cells(x[j]) = {}
<1>g. PICK g : \E k \in 1..m, c \in Int :
         /\ Placed(x, m, g, k, c, e)
         /\ g[m] + x[m].readAmount = x[m].offset
         /\ r = g[m] - g[1]
  BY DEF LaidOut
<1>1. PICK k \in 1..m, c \in Int :
         /\ Placed(x, m, g, k, c, e)
         /\ g[m] + x[m].readAmount = x[m].offset
         /\ r = g[m] - g[1]
  BY <1>g
<1>2. \A i \in 1..m : /\ g[i] \in Int
                      /\ x[i].offset \in Int /\ x[i].size \in Nat /\ x[i].readAmount \in Nat
  BY <1>1 DEF Placed, Fields
<1>3. ASSUME NEW i \in 1..(m - 1), x[i].size > 0
      PROVE  /\ i < k => x[i].offset >= e /\ x[i].offset = g[i] + x[i].readAmount + c
             /\ i >= k => x[i].offset + x[i].size <= x[m].offset /\ x[i].offset = g[i] + x[i].readAmount
  <2>1. i \in 1..m /\ m \in 1..m /\ i < m
    OBVIOUS
  <2>2. i < k => x[i].offset >= e /\ x[i].offset = g[i] + x[i].readAmount + c
    BY <2>1, <1>1, <1>3, <1>2 DEF Placed
  <2>3. i >= k => x[i].offset = g[i] + x[i].readAmount
    BY <2>1, <1>1, <1>3 DEF Placed
  <2>4. g[i] + x[i].readAmount + x[i].size <= g[m]
    BY <2>1, <1>1 DEF Placed
  <2>5. /\ g[i] \in Int /\ g[m] \in Int /\ x[m].readAmount \in Nat /\ x[m].offset \in Int
        /\ x[i].offset \in Int /\ x[i].size \in Nat /\ x[i].readAmount \in Nat
    BY <2>1, <1>2
  <2>6. i >= k => x[i].offset + x[i].size <= x[m].offset
    BY <2>3, <2>4, <2>5, <1>1
  <2> QED BY <2>2, <2>3, <2>6
<1>4. ASSUME NEW i \in 1..(m - 1), NEW a \in Cells(x[i])
      PROVE  x[i].size > 0 /\ a \in Int /\ x[i].offset <= a /\ a < x[i].offset + x[i].size
  <2>1. x[i].offset \in Int /\ x[i].size \in Nat
    BY <1>2
  <2> QED BY <2>1 DEF Cells
<1>5. ASSUME NEW i \in 1..(m - 1), NEW a \in Cells(x[i]), a \in x[m].offset..(e - 1) PROVE FALSE
  <2>1. x[i].offset \in Int /\ x[i].size \in Nat /\ x[m].offset \in Int
    BY <1>2
  <2> QED BY <2>1, <1>3, <1>4, <1>5
<1>6. ASSUME NEW i \in 1..(m - 1), NEW j \in 1..(m - 1), i < j, NEW a \in Cells(x[i]), a \in Cells(x[j]) PROVE FALSE
  <2>1. /\ x[i].offset \in Int /\ x[i].size \in Nat /\ x[j].offset \in Int /\ x[j].size \in Nat /\ x[m].offset \in Int
        /\ g[i] \in Int /\ g[j] \in Int /\ x[i].readAmount \in Nat /\ x[j].readAmount \in Nat
    BY <1>2
  <2>2. g[i] + x[i].readAmount + x[i].size <= g[j]
    <3>1. i \in 1..m /\ j \in 1..m
      OBVIOUS
    <3> QED BY <3>1, <1>1, <1>6 DEF Placed
  <2>3. /\ x[i].size > 0 /\ x[i].offset <= a /\ a < x[i].offset + x[i].size
        /\ x[j].size > 0 /\ x[j].offset <= a /\ a < x[j].offset + x[j].size
        /\ a \in Int
    BY <1>4, <1>6
  <2>4. CASE i < k /\ j >= k
    BY <2>1, <2>3, <2>4, <1>3
  <2>5. CASE ~(i < k /\ j >= k)
    <3>1. (i < k /\ j < k) \/ (i >= k /\ j >= k)
      BY <2>5, <1>6
    <3> QED BY <3>1, <2>1, <2>2, <2>3, <1>3
  <2> QED BY <2>4, <2>5
<1> QED BY <1>5, <1>6

-----------------------------------------------------------------------------
\* The steps

\* Sequences are equal when their items are.
LEMMA SameSequence == ASSUME NEW S, NEW s \in Seq(S), NEW t \in Seq(S), Len(s) = Len(t),
                             \A i \in 1..Len(s) : s[i] = t[i]
                      PROVE  s = t
<1>1. DOMAIN s = 1..Len(s) /\ DOMAIN t = 1..Len(s) /\ s = [i \in DOMAIN s |-> s[i]] /\ t = [i \in DOMAIN t |-> t[i]]
  OBVIOUS
<1> QED BY <1>1

\* The return addresses of the VU thread.
LEMMA RetFacts ==
   /\ Head(<<"copy">>) = "copy" /\ Head(<<"consume">>) = "consume"
   /\ Head(<<"realign", "copy">>) = "realign" /\ Head(<<"realign", "consume">>) = "realign"
   /\ Tail(<<"copy">>) = <<>> /\ Tail(<<"consume">>) = <<>>
   /\ Tail(<<"realign", "copy">>) = <<"copy">> /\ Tail(<<"realign", "consume">>) = <<"consume">>
   /\ <<"realign">> \o <<"copy">> = <<"realign", "copy">>
   /\ <<"realign">> \o <<"consume">> = <<"realign", "consume">>
   /\ <<"copy">> \notin {<<"consume">>, <<"realign", "consume">>}
   /\ <<"realign", "copy">> \notin {<<"consume">>, <<"realign", "consume">>}
   /\ <<>> \notin {<<"consume">>, <<"realign", "consume">>}
<1>1. Head(<<"copy">>) = "copy" /\ Head(<<"consume">>) = "consume"
  OBVIOUS
<1>2. Head(<<"realign", "copy">>) = "realign" /\ Head(<<"realign", "consume">>) = "realign"
  OBVIOUS
<1>3. Tail(<<"copy">>) = <<>> /\ Tail(<<"consume">>) = <<>>
  OBVIOUS
<1>4. Tail(<<"realign", "copy">>) = <<"copy">> /\ Tail(<<"realign", "consume">>) = <<"consume">>
  OBVIOUS
<1>5. ASSUME NEW S, NEW a \in S, NEW b \in S PROVE <<a>> \o <<b>> = <<a, b>>
  <2>1. /\ <<a>> \in Seq(S) /\ <<b>> \in Seq(S) /\ Len(<<a>>) = 1 /\ Len(<<b>>) = 1
        /\ <<a, b>> \in Seq(S) /\ Len(<<a, b>>) = 2
    OBVIOUS
  <2>2. /\ <<a>> \o <<b>> \in Seq(S) /\ Len(<<a>> \o <<b>>) = 2
        /\ (<<a>> \o <<b>>)[1] = a /\ (<<a>> \o <<b>>)[2] = b
    BY <2>1
  <2>3. \A i \in 1..Len(<<a>> \o <<b>>) : (<<a>> \o <<b>>)[i] = <<a, b>>[i]
    BY <2>2
  <2>4. Len(<<a>> \o <<b>>) = Len(<<a, b>>)
    BY <2>1, <2>2
  <2> QED BY <2>1, <2>2, <2>3, <2>4, SameSequence, Zenon
<1>6. /\ <<"realign">> \o <<"copy">> = <<"realign", "copy">>
      /\ <<"realign">> \o <<"consume">> = <<"realign", "consume">>
  <2>1. "realign" \in {"realign", "copy", "consume"} /\ "copy" \in {"realign", "copy", "consume"}
           /\ "consume" \in {"realign", "copy", "consume"}
    OBVIOUS
  <2> QED BY <1>5, <2>1, Zenon
<1>7. <<"copy">> \notin {<<"consume">>, <<"realign", "consume">>}
  OBVIOUS
<1>8. <<"realign", "copy">> \notin {<<"consume">>, <<"realign", "consume">>}
  OBVIOUS
<1>9. <<>> \notin {<<"consume">>, <<"realign", "consume">>}
  OBVIOUS
<1> QED BY <1>1, <1>2, <1>3, <1>4, <1>5, <1>6, <1>7, <1>8, <1>9

\* What no step of a thread changes.
LEMMA EeFrame == EE => UNCHANGED <<vu, readAmount, path, gsPackQueue, semaXGkick, semaP1Progress, gs>>
  BY DEF EE, ExecuteVU, TransferMTVU, Execute, AddCompletedGSPacket, AddCompletedNotify,
      PostVsyncStart, WaitGSNotify, WaitForEmpty, WaitForEmptyWoken, NextFrame, WaitVU, WaitVUDone

LEMMA VuFrame == VU => UNCHANGED <<m_Ring, waiting, ee, gs>>
  BY ZenonT(30) DEF VU, StartProgram, XGkick, ProgramEnd, CopyGSPacketData, CopyFull,
      ExecuteGSPacketMTVU, Consume, RealignPacket, FinishAdd, FinishPush, PostXGkick, WaitGSMTVU,
      CountP1Packs, DrainCredit, Recheck, SleepP1, mtgs

LEMMA GsFrame == GS => UNCHANGED <<ee, programs, vu, path>>
  BY DEF GS, EnterMainLoop, WaitForWorkTimed, Wake, TimeOut, Snapshot, NextItem, WaitXGkick,
      GetGSPacketMTVU, PopGSPacketMTVU, PostP1Progress, AdvanceReadPos, LeaveAtVsync, unserved

LEMMA EmptyType == Empty \in PacketType
  BY DEF Empty, GS_Packet, PacketType

\* The packets that the steps make.
LEMMA Moved == ASSUME Typed, MoveToFront
               PROVE  /\ curSize' = curSize - Offset /\ curOffset' = gsPack.size
                      /\ curSize' \in Int /\ curOffset' \in Int
                      /\ gsPack' \in PacketType
                      /\ gsPack'.offset = 0 /\ gsPack'.size = gsPack.size
                      /\ gsPack'.readAmount = gsPack.readAmount + IF Offset < buffLimit THEN buffLimit - Offset ELSE 0
<1>1. /\ Offset \in Int /\ buffLimit \in Nat
      /\ gsPack.readAmount \in Nat /\ gsPack.size \in Nat /\ gsPack.more \in BOOLEAN
  BY GifPath1Assumption DEF Typed, PacketType, Offset
<1>2. /\ gsPack'.offset = 0 /\ gsPack'.size = gsPack.size /\ gsPack'.more = gsPack.more
      /\ gsPack'.readAmount = IF Offset < buffLimit THEN gsPack.readAmount + buffLimit - Offset ELSE gsPack.readAmount
  BY DEF MoveToFront, Typed, PacketType
<1>3. gsPack' = GS_Packet(0, gsPack.size, gsPack'.readAmount, gsPack.more)
  BY <1>2, ZenonT(30) DEF MoveToFront, Typed, PacketType, GS_Packet
<1>4. gsPack'.readAmount \in Nat
  BY <1>1, <1>2
<1>5. curSize' = curSize - Offset /\ curOffset' = gsPack.size
  BY DEF MoveToFront
<1>6. curSize' \in Int /\ curOffset' \in Int
  BY <1>1, <1>5 DEF Typed
<1> QED BY <1>1, <1>2, <1>3, <1>4, <1>5, <1>6 DEF PacketType, GS_Packet

LEMMA Consumed == ASSUME Typed, Consume
                  PROVE  /\ gsPack' \in PacketType
                         /\ gsPack'.offset = gsPack.offset /\ gsPack'.size = gsPack.size + size
                         /\ gsPack'.readAmount = gsPack.readAmount
<1>1. gsPack.size + size \in Nat
  BY DEF Typed, PacketType
<1>2. gsPack' = [gsPack EXCEPT !.size = gsPack.size + size]
  BY DEF Consume, Typed, PacketType
<1> QED BY <1>1, <1>2, ZenonT(30) DEF Typed, PacketType

LEMMA Pushed == ASSUME Typed, FinishPush
                PROVE  /\ \E x \in PacketType :
                             /\ gsPackQueue' = Append(gsPackQueue, x)
                             /\ x.offset = gsPack.offset /\ x.size = gsPack.size /\ x.readAmount = gsPack.readAmount
                             /\ x.more <=> ~final
                       /\ gsPack' \in PacketType
                       /\ gsPack'.offset = curOffset /\ gsPack'.size = 0 /\ gsPack'.readAmount = 0
<1> DEFINE x == [gsPack EXCEPT !.more = ~final]
<1>1. x \in PacketType /\ x.offset = gsPack.offset /\ x.size = gsPack.size /\ x.readAmount = gsPack.readAmount
  BY ZenonT(30) DEF Typed, PacketType
<1>2. x.more <=> ~final
  BY Zenon DEF Typed, PacketType
<1>3. gsPackQueue' = Append(gsPackQueue, x)
  BY DEF FinishPush
<1>4. /\ gsPack' \in PacketType
      /\ gsPack'.offset = curOffset /\ gsPack'.size = 0 /\ gsPack'.readAmount = 0
  BY DEF FinishPush, Typed, PacketType, GS_Packet
<1> HIDE DEF x
<1> QED BY <1>1, <1>2, <1>3, <1>4

LEMMA Got == ASSUME Typed, Counted, GetGSPacketMTVU
             PROVE  /\ gsPackQueue # <<>> /\ pack' = Head(gsPackQueue) /\ pack' \in PacketType
                    /\ readAmount' = readAmount - pack'.size - pack'.readAmount
<1>1. gsPackQueue # <<>>
  BY DEF GetGSPacketMTVU, Typed, Counted
<1> QED BY <1>1 DEF GetGSPacketMTVU, Typed

LEMMA ReturnsTo == ASSUME Returns, vpc \in {"realign"} \cup Waits, Return
                   PROVE  vpc' \in {"copy", "consume", "realign"}
  BY RetFacts DEF Returns, Return, Waits

LEMMA WaitingType == Typed /\ Served => Waiting \in Seq(PacketType)
  BY SMTT(30) DEF Typed, Served, Waiting

LEMMA TailAppend == ASSUME NEW S, NEW q \in Seq(S), q # <<>>, NEW p \in S
                    PROVE  Tail(Append(q, p)) = Append(Tail(q), p)
<1>1. /\ Append(q, p) \in Seq(S) /\ Append(q, p) # <<>> /\ Len(Append(q, p)) = Len(q) + 1
      /\ \A i \in 1..Len(q) : Append(q, p)[i] = q[i]
      /\ Append(q, p)[Len(q) + 1] = p /\ Len(q) \in Nat \ {0}
  OBVIOUS
<1>2. /\ Tail(q) \in Seq(S) /\ Len(Tail(q)) = Len(q) - 1
      /\ \A i \in 1..(Len(q) - 1) : Tail(q)[i] = q[i + 1]
  OBVIOUS
<1>3. /\ Append(Tail(q), p) \in Seq(S) /\ Len(Append(Tail(q), p)) = Len(q)
      /\ \A i \in 1..(Len(q) - 1) : Append(Tail(q), p)[i] = q[i + 1]
      /\ Append(Tail(q), p)[Len(q)] = p
  BY <1>1, <1>2
<1>4. /\ Tail(Append(q, p)) \in Seq(S) /\ Len(Tail(Append(q, p))) = Len(q)
      /\ \A i \in 1..Len(q) : Tail(Append(q, p))[i] = Append(q, p)[i + 1]
  BY <1>1
<1>5. \A i \in 1..Len(q) : Tail(Append(q, p))[i] = Append(Tail(q), p)[i]
  <2> SUFFICES ASSUME NEW i \in 1..Len(q) PROVE Tail(Append(q, p))[i] = Append(Tail(q), p)[i]
    BY SMTT(30)
  <2>1. CASE i = Len(q)
    BY <2>1, <1>1, <1>3, <1>4, SMTT(30)
  <2>2. CASE i # Len(q)
    <3>1. i \in 1..(Len(q) - 1) /\ i + 1 \in 1..Len(q)
      BY <1>1, <2>2
    <3> QED BY <3>1, <1>1, <1>3, <1>4, ZenonT(30)
  <2> QED BY <2>1, <2>2
<1> QED BY <1>3, <1>4, <1>5, SameSequence, Zenon

LEMMA ChainFacts == ASSUME Typed, Served
                    PROVE  /\ Len(Chain) \in Nat \ {0} /\ Chain[Len(Chain)] = gsPack
                           /\ \A i \in 1..Len(Chain) : Chain[i] \in PacketType
                           /\ Fields(Chain, Len(Chain))
<1>1. Waiting \in Seq(PacketType) /\ gsPack \in PacketType /\ Chain = Append(Waiting, gsPack)
  BY WaitingType DEF Typed, Chain
<1>2. /\ Len(Chain) \in Nat \ {0} /\ Chain[Len(Chain)] = gsPack
      /\ \A i \in 1..Len(Chain) : Chain[i] \in PacketType
  BY <1>1
<1> QED BY <1>2 DEF Fields, PacketType

LEMMA LayoutFrame == ASSUME Layout, UNCHANGED <<gsPackQueue, gsPack, curSize, readAmount>>,
                            gpc' = "pop" <=> gpc = "pop", vpc' = "push" <=> vpc = "push"
                     PROVE  Layout'
<1>1. Chain' = Chain
  BY DEF Chain, Waiting
<1> QED BY <1>1 DEF Layout

LEMMA LayoutFrom == ASSUME NEW y, NEW m, NEW e, NEW r \in Int, LaidOut(y, m, e, r),
                           Chain' = y, m = Len(y), curSize' = e, readAmount' = r, vpc' # "push"
                    PROVE  Layout'
  BY DEF Layout

\* A step that leaves the queue alone changes the last of the chain at most.
LEMMA ChainLast == ASSUME Typed, Served, UNCHANGED <<gsPackQueue, gpc>>
                   PROVE  Len(Chain') = Len(Chain) /\ Chain'[Len(Chain)] = gsPack'
                             /\ \A i \in 1..Len(Chain) : i < Len(Chain) => Chain'[i] = Chain[i]
<1>1. PICK u \in Seq(PacketType) : u = Waiting
  BY WaitingType
<1>2. Waiting' = Waiting
  BY DEF Waiting
<1>3. Chain = Append(u, gsPack) /\ Chain' = Append(u, gsPack')
  BY <1>1, <1>2 DEF Chain
<1> QED BY <1>3

LEMMA LayoutStep == ASSUME Typed, Served, Counted, Returns, Layout, Typed', Served', [Next]_vars PROVE Layout'
<1> DEFINE x == Chain
           m == Len(Chain)
           r == readAmount - IF vpc = "push" THEN gsPack.size + gsPack.readAmount ELSE 0
<1>1. /\ m \in Nat \ {0} /\ x[m] = gsPack /\ Fields(x, m)
      /\ gsPack \in PacketType /\ readAmount \in Int /\ curSize \in Int /\ curOffset \in Int /\ size \in Nat
      /\ gsPack.offset \in Int /\ gsPack.size \in Nat /\ gsPack.readAmount \in Nat
  BY ChainFacts, Zenon DEF Typed, PacketType
<1>2. LaidOut(x, m, curSize, r)
  BY DEF Layout
<1>3. CASE EE
  BY <1>3, EeFrame, LayoutFrame DEF vu, path, gs
<1>4. CASE CopyGSPacketData
  <2>1. vpc = "copy" /\ vpc' # "push" /\ Chain' = Chain /\ readAmount' = readAmount
    BY <1>4 DEF CopyGSPacketData, gs, Chain, Waiting
  <2>2. r = readAmount /\ r \in Int
    BY <1>1, <2>1
  <2>3. CASE CopyRoom
    <3>1. curSize' = curSize + size
      BY <1>4, <2>3 DEF CopyGSPacketData
    <3>2. \/ gsPack.offset - (r + gsPack.readAmount) >= 0
          \/ buffLimit + gsPack.offset - (r + gsPack.readAmount) > curSize + size
      BY <1>1, <2>2, <2>3, GifPath1Assumption, SMTT(30) DEF CopyRoom, Returns, getReadAmount
    <3> HIDE DEF x, m, r
    <3>3. LaidOut(x, m, curSize + size, r)
      BY <1>1, <1>2, <2>2, <3>2, LaidCopy
    <3> QED BY <2>1, <2>2, <3>1, <3>3, LayoutFrom DEF x, m
  <2>4. CASE ~CopyRoom
    BY <1>4, <2>4, LayoutFrame DEF CopyGSPacketData, gs
  <2> QED BY <2>3, <2>4
<1>5. CASE Consume
  <2>1. /\ vpc = "consume" /\ vpc' # "push" /\ readAmount' = readAmount /\ curSize' = curSize
        /\ UNCHANGED <<gpc, gsPackQueue>>
    BY <1>5 DEF Consume, gs
  <2>2. r = readAmount /\ r \in Int
    BY <1>1, <2>1
  <2>3. gsPack'.offset = gsPack.offset /\ gsPack'.readAmount = gsPack.readAmount
    BY <1>5, Consumed
  <2>4. PICK y : y = Chain'
    OBVIOUS
  <2>5. /\ Len(y) = m /\ \A i \in 1..m : i < m => y[i] = x[i]
        /\ y[m].offset = x[m].offset /\ y[m].readAmount = x[m].readAmount
    BY <1>1, <2>1, <2>3, <2>4, ChainLast, SMTT(30)
  <2> HIDE DEF x, m, r
  <2>6. LaidOut(y, m, curSize, r)
    BY <1>1, <1>2, <2>5, LaidConsume, ZenonT(30)
  <2> QED BY <2>1, <2>2, <2>4, <2>5, <2>6, LayoutFrom
<1>6. CASE RealignPacket
  <2>1. CASE MoveToFront /\ Return
    <3>1. /\ vpc = "realign" /\ vpc' # "push" /\ readAmount' = readAmount
          /\ UNCHANGED <<gpc, gsPackQueue>>
      BY <1>6, <2>1, ReturnsTo DEF RealignPacket, gs
    <3>2. r = readAmount /\ r \in Int
      BY <1>1, <3>1
    <3>3. /\ gsPack'.offset = 0 /\ gsPack'.size = gsPack.size
          /\ gsPack'.readAmount = gsPack.readAmount + IF gsPack.offset < buffLimit THEN buffLimit - gsPack.offset ELSE 0
          /\ curSize' = curSize - gsPack.offset
      BY <2>1, Moved DEF Returns
    <3>4. PICK d \in Int : /\ d >= buffLimit /\ d >= gsPack.offset
                           /\ gsPack'.readAmount = gsPack.readAmount + d - gsPack.offset
      <4>1. buffLimit \in Int
        BY GifPath1Assumption, SMTT(30)
      <4>2. CASE gsPack.offset < buffLimit
        BY <1>1, <3>3, <4>1, <4>2
      <4>3. CASE ~(gsPack.offset < buffLimit)
        BY <1>1, <3>3, <4>1, <4>3
      <4> QED BY <4>2, <4>3
    <3>5. gsPack.offset >= 0 /\ gsPack.offset <= curSize
      BY <1>1 DEF Returns, Offset
    <3>6. r + gsPack.readAmount <= 0 \/ gsPack.offset - (r + gsPack.readAmount) >= curSize - gsPack.offset
      <4> DEFINE toAdd == curSize - gsPack.offset
      <4>1. gsPack.offset - (readAmount + gsPack.readAmount)
               >= toAdd - IF toAdd > gsPack.offset THEN toAdd - gsPack.offset ELSE 0
        <5>1. vpc' # "notify"
          BY <1>6, <2>1, ReturnsTo DEF RealignPacket
        <5> QED BY <1>6, <5>1 DEF RealignPacket, Returns, getReadAmount
      <4> QED BY <1>1, <3>2, <3>5, <4>1
    <3>7. PICK y : y = Chain'
      OBVIOUS
    <3>8. /\ Len(y) = m /\ \A i \in 1..m : i < m => y[i] = x[i]
          /\ y[m].offset = 0 /\ y[m].size = x[m].size /\ y[m].readAmount = x[m].readAmount + d - x[m].offset
      BY <1>1, <3>1, <3>3, <3>4, <3>7, ChainLast, SMTT(30)
    <3>9. Fields(y, m)
      <4> HIDE DEF x, m
      <4>1. y[m].offset \in Int /\ y[m].size \in Nat /\ y[m].readAmount \in Nat
        <5>1. y[m].offset = 0 /\ y[m].size = gsPack.size
              /\ y[m].readAmount = gsPack.readAmount + d - gsPack.offset
          BY <1>1, <3>8, Zenon
        <5>2. gsPack.readAmount \in Nat /\ gsPack.offset \in Int /\ gsPack.size \in Nat /\ d >= gsPack.offset
          BY <1>1, <3>4, Zenon
        <5>3. gsPack.readAmount + d - gsPack.offset \in Nat
          BY <5>2
        <5> QED BY <5>1, <5>2, <5>3
      <4>2. \A i \in 1..m : i = m \/ i < m
        BY <1>1, SMTT(30)
      <4> QED BY <1>1, <3>8, <4>1, <4>2, SMTT(30) DEF Fields
    <3> HIDE DEF x, m, r
    <3>10. LaidOut(y, m, curSize - gsPack.offset, r)
      BY <1>1, <1>2, <3>2, <3>4, <3>5, <3>6, <3>8, <3>9, LaidMove, ZenonT(30)
    <3> QED BY <3>1, <3>2, <3>3, <3>7, <3>8, <3>10, LayoutFrom
  <2>2. CASE vpc' = "notify" /\ UNCHANGED path
    BY <1>6, <2>2, LayoutFrame DEF RealignPacket, path, gs
  <2> QED BY <1>6, <2>1, <2>2 DEF RealignPacket
<1>7. CASE FinishAdd
  <2>1. /\ vpc = "add" /\ vpc' = "push" /\ readAmount' = readAmount + gsPack.size + gsPack.readAmount
        /\ UNCHANGED <<gpc, gsPackQueue, gsPack, curSize>>
    BY <1>7 DEF FinishAdd, gs, path
  <2>2. Chain' = Chain
    BY <2>1 DEF Chain, Waiting
  <2>3. readAmount' - (gsPack'.size + gsPack'.readAmount) = r
    BY <1>1, <2>1
  <2> HIDE DEF r
  <2> QED BY <1>2, <2>1, <2>2, <2>3 DEF Layout
<1>8. CASE FinishPush
  <2>1. /\ vpc = "push" /\ vpc' # "push" /\ readAmount' = readAmount /\ curSize' = curSize /\ gpc' = gpc
    BY <1>8 DEF FinishPush, gs
  <2>2. r = readAmount - (gsPack.size + gsPack.readAmount) /\ r \in Int
    BY <1>1, <2>1
  <2>3. PICK p \in PacketType :
           /\ gsPackQueue' = Append(gsPackQueue, p)
           /\ p.offset = gsPack.offset /\ p.size = gsPack.size /\ p.readAmount = gsPack.readAmount
    BY <1>8, Pushed
  <2>4. gsPack'.offset = curOffset /\ gsPack'.size = 0 /\ gsPack'.readAmount = 0
    BY <1>8, Pushed
  <2>5. PICK y : y = Chain'
    OBVIOUS
  <2>6. PICK u \in Seq(PacketType) : u = Waiting
    BY WaitingType
  <2>7. Chain = Append(u, gsPack) /\ y = Append(Append(u, p), gsPack')
    <3>1. gpc = "pop" => Tail(Append(gsPackQueue, p)) = Append(Tail(gsPackQueue), p)
      BY TailAppend, ZenonT(30) DEF Typed, Served
    <3>2. Waiting' = Append(Waiting, p)
      BY <2>1, <2>3, <3>1 DEF Waiting
    <3> QED BY <2>5, <2>6, <3>2 DEF Chain
  <2>8. PICK n : n = gsPack'
    OBVIOUS
  <2>9. /\ Len(y) = m + 1 /\ y[m + 1] = n /\ y[m] = p
        /\ \A i \in 1..m : i < m => y[i] = x[i]
    BY <2>7, <2>8
  <2>10. /\ \A i \in 1..m : y[i].offset = x[i].offset /\ y[i].size = x[i].size /\ y[i].readAmount = x[i].readAmount
         /\ y[m + 1].offset = x[m].offset + x[m].size /\ y[m + 1].size = 0 /\ y[m + 1].readAmount = 0
    <3>1. gsPack.offset + gsPack.size = curOffset
      BY <1>1 DEF Returns, Offset
    <3>2. y[m + 1].offset = x[m].offset + x[m].size /\ y[m + 1].size = 0 /\ y[m + 1].readAmount = 0
      BY <1>1, <2>4, <2>8, <2>9, <3>1
    <3>3. y[m].offset = x[m].offset /\ y[m].size = x[m].size /\ y[m].readAmount = x[m].readAmount
      BY <1>1, <2>3, <2>9
    <3> HIDE DEF x, m
    <3>4. \A i \in 1..m : i = m \/ i < m
      BY <1>1
    <3> QED BY <2>9, <3>2, <3>3, <3>4
  <2>11. r + gsPack.size + gsPack.readAmount = readAmount
    BY <1>1, <2>2, SMTT(30)
  <2> HIDE DEF x, m, r
  <2>12. LaidOut(y, m + 1, curSize, r + gsPack.size + gsPack.readAmount)
    BY <1>1, <1>2, <2>2, <2>10, LaidPush, ZenonT(30)
  <2> QED BY <1>1, <2>1, <2>5, <2>9, <2>11, <2>12, LayoutFrom
<1>9. CASE CountP1Packs \/ Recheck
  BY <1>9, ReturnsTo, LayoutFrame DEF CountP1Packs, Recheck, Waits, path, gs
<1>10. CASE \/ StartProgram \/ (\E n \in Sizes : XGkick(n)) \/ ProgramEnd \/ CopyFull
            \/ ExecuteGSPacketMTVU \/ PostXGkick \/ WaitGSMTVU \/ DrainCredit \/ SleepP1
  <2>1. UNCHANGED <<gsPackQueue, gsPack, curSize, readAmount, gpc>> /\ vpc # "push" /\ vpc' # "push"
    BY <1>10, ZenonT(30) DEF StartProgram, XGkick, ProgramEnd, CopyFull, ExecuteGSPacketMTVU,
        PostXGkick, WaitGSMTVU, DrainCredit, SleepP1, path, gs
  <2> QED BY <2>1, LayoutFrame
<1>11. CASE GetGSPacketMTVU
  <2>1. /\ gpc = "got" /\ gpc' = "pop" /\ UNCHANGED <<vpc, gsPackQueue, gsPack, curSize>>
    BY <1>11 DEF GetGSPacketMTVU, unserved, vu, path
  <2>2. /\ gsPackQueue # <<>> /\ gsPackQueue \in Seq(PacketType)
        /\ readAmount' = readAmount - gsPackQueue[1].size - gsPackQueue[1].readAmount
    BY <1>11, Got, SMTT(30) DEF Typed
  <2>3. PICK y : y = Chain'
    OBVIOUS
  <2>4. Chain = Append(gsPackQueue, gsPack) /\ y = Append(Tail(gsPackQueue), gsPack)
    BY <2>1, <2>3 DEF Chain, Waiting
  <2>5. PICK k \in Nat \ {0} : k = Len(gsPackQueue)
    BY <2>2
  <2>6. /\ m = k + 1 /\ Len(y) = k /\ x[1] = gsPackQueue[1]
        /\ \A i \in 1..k : y[i] = x[i + 1]
    BY <1>1, <2>2, <2>4, <2>5
  <2>7. x[1].size \in Nat /\ x[1].readAmount \in Nat /\ r \in Int
    BY <1>1, <2>6, SMTT(30) DEF Fields
  <2>8. r - x[1].size - x[1].readAmount = readAmount' - IF vpc' = "push" THEN gsPack'.size + gsPack'.readAmount ELSE 0
    <3>1. r = readAmount - IF vpc = "push" THEN gsPack.size + gsPack.readAmount ELSE 0
      OBVIOUS
    <3> HIDE DEF x, m, r
    <3>2. readAmount' = readAmount - x[1].size - x[1].readAmount
      BY <2>2, <2>6, Zenon
    <3>3. vpc' = vpc /\ gsPack' = gsPack
      BY <2>1, Zenon
    <3>4. CASE vpc = "push"
      BY <1>1, <2>7, <3>1, <3>2, <3>3, <3>4, SMTT(30)
    <3>5. CASE vpc # "push"
      BY <1>1, <2>7, <3>1, <3>2, <3>3, <3>5
    <3> QED BY <3>4, <3>5, Zenon
  <2> HIDE DEF x, m, r
  <2>9. LaidOut(y, k, curSize, r - x[1].size - x[1].readAmount)
    BY <1>1, <1>2, <2>6, <2>7, LaidTail, Zenon
  <2> QED BY <2>1, <2>3, <2>6, <2>8, <2>9, ZenonT(30) DEF Layout
<1>12. CASE PopGSPacketMTVU
  <2>1. /\ gpc = "pop" /\ gpc' # "pop" /\ gsPackQueue' = Tail(gsPackQueue)
        /\ UNCHANGED <<vpc, gsPack, curSize, readAmount>>
    BY <1>12 DEF PopGSPacketMTVU, Served, vu, path
  <2>2. Chain' = Chain
    BY <2>1 DEF Chain, Waiting
  <2> QED BY <2>1, <2>2 DEF Layout
<1>13. CASE \/ EnterMainLoop \/ WaitForWorkTimed \/ Wake \/ TimeOut \/ Snapshot \/ NextItem \/ WaitXGkick
            \/ PostP1Progress \/ AdvanceReadPos \/ LeaveAtVsync
  <2>1. UNCHANGED <<gsPackQueue, gsPack, curSize, readAmount, vpc>> /\ gpc # "pop" /\ gpc' # "pop"
    BY <1>13, ZenonT(30) DEF EnterMainLoop, WaitForWorkTimed, Wake, TimeOut, Snapshot, NextItem,
        WaitXGkick, PostP1Progress, AdvanceReadPos, LeaveAtVsync, unserved, vu, path
  <2> QED BY <2>1, LayoutFrame, SMTT(30)
<1>14. CASE UNCHANGED vars
  BY <1>14, LayoutFrame DEF vars, vu, path, gs
<1> QED BY <1>3, <1>4, <1>5, <1>6, <1>7, <1>8, <1>9, <1>10, <1>11, <1>12, <1>13, <1>14 DEF Next, VU, GS

\* Every variable stays in its type.
LEMMA TypedStep == ASSUME Typed, Served, Counted, Returns, [Next]_vars PROVE Typed'
<1>1. CASE ExecuteVU
  BY <1>1, SMTT(30) DEF ExecuteVU, Typed, EePcs, mtgs, vu, path, gs
<1>2. CASE TransferMTVU
  BY <1>2 DEF TransferMTVU, Typed, EePcs, mtgs, vu, path, gs
<1>3. CASE AddCompletedGSPacket
  BY <1>3 DEF AddCompletedGSPacket, Typed, EePcs, vu, path, gs
<1>4. CASE PostVsyncStart
  BY <1>4, SMTT(30) DEF PostVsyncStart, Typed, EePcs, vu, path, gs
<1>5. CASE Execute \/ AddCompletedNotify \/ WaitGSNotify \/ WaitForEmpty
  BY <1>5, SMTT(30) DEF Execute, AddCompletedNotify, WaitGSNotify, WaitForEmpty, Typed, EePcs,
      VuPcs, GsPcs, Serving, mtgs, vu, path, gs, unserved
<1>6. CASE WaitForEmptyWoken \/ NextFrame \/ WaitVU \/ WaitVUDone
  BY <1>6, SMTT(30) DEF WaitForEmptyWoken, NextFrame, WaitVU, WaitVUDone, Typed, EePcs, mtgs, vu,
      path, gs, unserved
<1>7. ASSUME NEW n \in Sizes, XGkick(n) PROVE Typed'
  BY <1>7, GifPath1Assumption DEF XGkick, Typed, VuPcs, mtgs, ee, path, gs
<1>8. CASE Consume
  BY <1>8, Consumed DEF Consume, Typed, VuPcs, mtgs, ee, gs
<1>9. CASE RealignPacket
  <2>1. gsPack' \in PacketType /\ curSize' \in Int /\ curOffset' \in Int
    <3>1. CASE MoveToFront
      BY <3>1, Moved
    <3>2. CASE UNCHANGED path
      BY <3>2 DEF Typed, path
    <3> QED BY <1>9, <3>1, <3>2 DEF RealignPacket
  <2>2. vpc' \in VuPcs
    BY <1>9, ReturnsTo DEF RealignPacket, VuPcs, Waits
  <2> QED BY <1>9, <2>1, <2>2 DEF RealignPacket, Typed, mtgs, ee, gs
<1>10. CASE FinishAdd
  BY <1>10 DEF FinishAdd, Typed, VuPcs, mtgs, ee, path, gs
<1>11. CASE FinishPush
  <2>1. gsPack' \in PacketType /\ gsPackQueue' \in Seq(PacketType)
    BY <1>11, Pushed DEF Typed
  <2> QED BY <1>11, <2>1, ZenonT(30) DEF FinishPush, Typed, mtgs, ee, gs, VuPcs
<1>12. CASE PostXGkick
  BY <1>12 DEF PostXGkick, Typed, VuPcs, mtgs, ee, path, gs
<1>13. CASE CountP1Packs
  BY <1>13, ReturnsTo DEF CountP1Packs, Typed, VuPcs, Waits, mtgs, ee, path, gs
<1>14. CASE Recheck
  BY <1>14, ReturnsTo DEF Recheck, Typed, VuPcs, Waits, mtgs, ee, path, gs
<1>15. CASE StartProgram \/ ProgramEnd \/ CopyGSPacketData \/ CopyFull
  <2>1. CASE StartProgram \/ ProgramEnd
    BY <2>1 DEF StartProgram, ProgramEnd, Typed, VuPcs, Serving, mtgs, ee, path, gs, unserved
  <2>2. CASE CopyGSPacketData \/ CopyFull
    BY <2>2 DEF CopyGSPacketData, CopyFull, Typed, EePcs, VuPcs, Serving, mtgs, ee, vu, path, gs,
        unserved
  <2> QED BY <1>15, <2>1, <2>2, SMTT(30)
<1>16. CASE ExecuteGSPacketMTVU \/ WaitGSMTVU \/ DrainCredit \/ SleepP1
  BY <1>16, SMTT(30) DEF ExecuteGSPacketMTVU, WaitGSMTVU, DrainCredit, SleepP1, Typed, EePcs,
      VuPcs, GsPcs, Waits, Serving, vars, mtgs, ee, path, gs, unserved
<1>17. CASE Snapshot
  BY <1>17 DEF Snapshot, Typed, GsPcs, mtgs, ee, vu, path, unserved
<1>18. CASE WaitXGkick
  BY <1>18 DEF WaitXGkick, Typed, GsPcs, mtgs, ee, vu, path, unserved
<1>19. CASE GetGSPacketMTVU
  BY <1>19, Got DEF GetGSPacketMTVU, Typed, GsPcs, mtgs, ee, vu, path, unserved
<1>20. CASE PopGSPacketMTVU
  BY <1>20 DEF PopGSPacketMTVU, Typed, GsPcs, mtgs, ee, vu, path
<1>21. CASE PostP1Progress
  BY <1>21, EmptyType DEF PostP1Progress, Typed, GsPcs, mtgs, ee, vu, path, unserved
<1>22. CASE AdvanceReadPos
  BY <1>22 DEF AdvanceReadPos, Typed, GsPcs, ee, vu, path, unserved, Served
<1>23. CASE EnterMainLoop \/ WaitForWorkTimed \/ Wake \/ TimeOut
  BY <1>23 DEF EnterMainLoop, WaitForWorkTimed, Wake, TimeOut, Typed, EePcs, VuPcs, GsPcs, Waits, Serving,
      vars, mtgs, ee, vu, path, gs, unserved
<1>24. CASE NextItem \/ LeaveAtVsync
  BY <1>24, SMTT(30) DEF NextItem, LeaveAtVsync, Typed, GsPcs, vars, mtgs, ee, vu, path, gs,
      unserved
<1>25. CASE UNCHANGED vars
  BY <1>25 DEF Typed, vars, mtgs, ee, vu, path, gs
<1> QED BY <1>1, <1>2, <1>3, <1>4, <1>5, <1>6, <1>7, <1>8, <1>9, <1>10, <1>11, <1>12, <1>13, <1>14,
    <1>15, <1>16, <1>17, <1>18, <1>19, <1>20, <1>21, <1>22, <1>23, <1>24, <1>25, Zenon DEF Next,
    EE, VU, GS

\* The GS thread stays in the ring and in the queue.
LEMMA ServedStep == ASSUME Typed, Served, Counted, [Next]_vars PROVE Served'
<1>1. CASE AddCompletedGSPacket
  BY <1>1 DEF AddCompletedGSPacket, Typed, Served, EePcs, gs
<1>2. CASE PostVsyncStart
  BY <1>2, SMTT(30) DEF PostVsyncStart, Typed, Served, VuPcs, gs
<1>3. CASE ExecuteVU \/ TransferMTVU \/ Execute \/ AddCompletedNotify
  BY <1>3 DEF ExecuteVU, TransferMTVU, Execute, AddCompletedNotify, Served, mtgs, gs
<1>4. CASE WaitGSNotify \/ WaitForEmpty \/ WaitForEmptyWoken \/ NextFrame
  BY <1>4 DEF WaitGSNotify, WaitForEmpty, WaitForEmptyWoken, NextFrame, Served, mtgs, gs
<1>5. CASE WaitVU \/ WaitVUDone
  BY <1>5 DEF WaitVU, WaitVUDone, Served, mtgs, gs
<1>6. CASE FinishPush
  BY <1>6, Pushed DEF FinishPush, Served, mtgs, gs
<1>7. CASE StartProgram \/ (\E n \in Sizes : XGkick(n)) \/ ProgramEnd \/ CopyGSPacketData
  BY <1>7 DEF StartProgram, XGkick, ProgramEnd, CopyGSPacketData, Served, mtgs, gs
<1>8. CASE CopyFull \/ ExecuteGSPacketMTVU \/ Consume \/ RealignPacket
  BY <1>8 DEF CopyFull, ExecuteGSPacketMTVU, Consume, RealignPacket, Served, mtgs, gs
<1>9. CASE FinishAdd \/ PostXGkick \/ WaitGSMTVU \/ CountP1Packs
  BY <1>9 DEF FinishAdd, PostXGkick, WaitGSMTVU, CountP1Packs, Served, mtgs, gs
<1>10. CASE DrainCredit \/ Recheck \/ SleepP1
  BY <1>10 DEF DrainCredit, Recheck, SleepP1, Served, mtgs, gs
<1>11. CASE NextItem
  BY <1>11 DEF NextItem, Typed, Served, Serving, mtgs
<1>12. CASE GetGSPacketMTVU
  BY <1>12 DEF GetGSPacketMTVU, Typed, Served, Serving, mtgs, unserved, Counted
<1>13. CASE PopGSPacketMTVU
  BY <1>13 DEF PopGSPacketMTVU, Served, Serving, mtgs
<1>14. CASE AdvanceReadPos
  BY <1>14 DEF AdvanceReadPos, Typed, Served, Serving
<1>15. CASE EnterMainLoop \/ WaitForWorkTimed \/ Wake \/ TimeOut
  BY <1>15 DEF EnterMainLoop, WaitForWorkTimed, Wake, TimeOut, Served, Serving
<1>16. CASE Snapshot \/ WaitXGkick \/ PostP1Progress \/ LeaveAtVsync
  BY <1>16 DEF Snapshot, WaitXGkick, PostP1Progress, LeaveAtVsync, Served, Serving, mtgs
<1>17. CASE UNCHANGED vars
  BY <1>17 DEF Served, vars, mtgs, gs
<1> QED BY <1>1, <1>2, <1>3, <1>4, <1>5, <1>6, <1>7, <1>8, <1>9, <1>10, <1>11, <1>12, <1>13, <1>14,
    <1>15, <1>16, <1>17, Zenon DEF Next, EE, VU, GS

\* Every push is followed by its post, every wait by its pop.
LEMMA CountedStep == ASSUME Typed, Served, Counted, Returns, [Next]_vars PROVE Counted'
<1>1. CASE EE
  BY <1>1, EeFrame, SMTT(30) DEF Counted, vu, gs
<1>2. CASE RealignPacket
  BY <1>2, ReturnsTo, SMTT(30) DEF RealignPacket, Counted, EePcs, VuPcs, GsPcs, Waits, Serving,
      path, gs
<1>3. CASE FinishPush
  BY <1>3, Pushed, SMTT(30) DEF FinishPush, Typed, Served, Counted, EePcs, VuPcs, GsPcs, vars,
      mtgs, vu, path, gs, unserved
<1>4. CASE CountP1Packs
  BY <1>4, ReturnsTo, SMTT(30) DEF CountP1Packs, Served, Counted, GsPcs, Waits, gs
<1>5. CASE Recheck
  BY <1>5, ReturnsTo, SMTT(30) DEF Recheck, Typed, Served, Counted, VuPcs, GsPcs, Waits, gs
<1>6. CASE StartProgram \/ (\E n \in Sizes : XGkick(n)) \/ ProgramEnd \/ CopyGSPacketData
  BY <1>6, SMTT(30) DEF StartProgram, XGkick, ProgramEnd, CopyGSPacketData, Counted, gs
<1>7. CASE CopyFull \/ ExecuteGSPacketMTVU \/ Consume \/ FinishAdd
  BY <1>7, SMTT(30) DEF CopyFull, ExecuteGSPacketMTVU, Consume, FinishAdd, Counted, gs
<1>8. CASE PostXGkick \/ WaitGSMTVU \/ DrainCredit \/ SleepP1
  BY <1>8, SMTT(30) DEF PostXGkick, WaitGSMTVU, DrainCredit, SleepP1, Typed, Counted, EePcs, VuPcs,
      vu, gs
<1>9. CASE WaitXGkick
  BY <1>9 DEF WaitXGkick, Typed, Counted, vu, unserved
<1>10. CASE PopGSPacketMTVU
  BY <1>10 DEF PopGSPacketMTVU, Typed, Counted, vu
<1>11. CASE EnterMainLoop \/ WaitForWorkTimed \/ Wake \/ TimeOut
  BY <1>11, SMTT(30) DEF EnterMainLoop, WaitForWorkTimed, Wake, TimeOut, Counted, vu, unserved
<1>12. CASE Snapshot \/ NextItem \/ GetGSPacketMTVU \/ PostP1Progress
  BY <1>12, ZenonT(30) DEF Snapshot, NextItem, GetGSPacketMTVU, PostP1Progress, Counted, vu,
      unserved
<1>13. CASE AdvanceReadPos \/ LeaveAtVsync
  BY <1>13, SMTT(30) DEF AdvanceReadPos, LeaveAtVsync, Counted, vu, unserved
<1>14. CASE UNCHANGED vars
  BY <1>14 DEF Counted, vars, vu, gs
<1> QED BY <1>1, <1>2, <1>3, <1>4, <1>5, <1>6, <1>7, <1>8, <1>9, <1>10, <1>11, <1>12, <1>13, <1>14
    DEF Next, EE, VU, GS

\* An item MTGS does not know of is followed by a notify.
LEMMA NoticedStep == ASSUME Typed, Served, Noticed, [Next]_vars PROVE Noticed'
<1>1. CASE AddCompletedGSPacket
  BY <1>1, SMTT(30) DEF AddCompletedGSPacket, Served, Noticed, gs
<1>2. CASE PostVsyncStart
  BY <1>2 DEF PostVsyncStart, Noticed, gs
<1>3. CASE WaitForEmpty
  <2>1. ~waiting' => s_sem_event = "idle"
    BY <1>3, ZenonT(30) DEF WaitForEmpty
  <2>2. s_sem_event = "idle" => m_Ring = <<>>
    BY <1>3 DEF WaitForEmpty, Typed, Noticed, Known
  <2>3. CASE s_sem_event = "idle"
    BY <1>3, <2>2, <2>3 DEF WaitForEmpty, Noticed, Known, gs
  <2>4. CASE s_sem_event # "idle"
    BY <1>3, <2>1, <2>4, SMTT(30) DEF WaitForEmpty, Noticed, Known, gs
  <2> QED BY <2>3, <2>4
<1>4. CASE ExecuteVU \/ TransferMTVU \/ Execute \/ AddCompletedNotify
  BY <1>4, SMTT(30) DEF ExecuteVU, TransferMTVU, Execute, AddCompletedNotify, Noticed, Known,
      VuPcs, GsPcs, Waits, mtgs, gs
<1>5. CASE WaitGSNotify \/ WaitForEmptyWoken \/ NextFrame \/ WaitVU
  BY <1>5, SMTT(30) DEF WaitGSNotify, WaitForEmptyWoken, NextFrame, WaitVU, Served, Noticed, Known,
      EePcs, VuPcs, GsPcs, Waits, Serving, mtgs, ee, gs, unserved
<1>6. CASE WaitVUDone
  BY <1>6, SMTT(30) DEF WaitVUDone, Noticed, Known, mtgs, gs
<1>7. CASE WaitGSMTVU
  BY <1>7, SMTT(30) DEF WaitGSMTVU, Noticed, GsPcs, ee
<1>8. CASE StartProgram \/ (\E n \in Sizes : XGkick(n)) \/ ProgramEnd \/ CopyGSPacketData
  BY <1>8, SMTT(30) DEF StartProgram, XGkick, ProgramEnd, CopyGSPacketData, Noticed, Known, EePcs,
      mtgs, ee, gs
<1>9. CASE CopyFull \/ ExecuteGSPacketMTVU \/ Consume \/ RealignPacket
  BY <1>9 DEF CopyFull, ExecuteGSPacketMTVU, Consume, RealignPacket, Noticed, Known, mtgs, ee, gs
<1>10. CASE FinishAdd \/ FinishPush \/ PostXGkick \/ CountP1Packs
  BY <1>10, ZenonT(30) DEF FinishAdd, FinishPush, PostXGkick, CountP1Packs, Noticed, Known, EePcs,
      Waits, Serving, vars, mtgs, ee, vu, path, gs, unserved
<1>11. CASE DrainCredit \/ Recheck \/ SleepP1
  BY <1>11, SMTT(30) DEF DrainCredit, Recheck, SleepP1, Noticed, Known, Waits, Serving, mtgs, ee, gs
<1>12. CASE WaitForWorkTimed
  BY <1>12, SMTT(30) DEF WaitForWorkTimed, Noticed, Known, ee, unserved
<1>13. CASE Snapshot
  BY <1>13, SMTT(30) DEF Snapshot, Served, Noticed, Known, mtgs, ee, unserved
<1>14. CASE NextItem
  BY <1>14, SMTT(30) DEF NextItem, Noticed, Known, Serving, mtgs, ee, unserved
<1>15. CASE AdvanceReadPos
  BY <1>15 DEF AdvanceReadPos, Typed, Served, Noticed, Known, ee, unserved
<1>16. CASE LeaveAtVsync
  BY <1>16, SMTT(30) DEF LeaveAtVsync, Served, Noticed, Known, VuPcs, ee, unserved
<1>17. CASE EnterMainLoop \/ Wake \/ TimeOut \/ WaitXGkick
  BY <1>17, SMTT(30) DEF EnterMainLoop, Wake, TimeOut, WaitXGkick, Noticed, Known, EePcs, GsPcs,
      Serving, mtgs, ee, unserved
<1>18. CASE GetGSPacketMTVU \/ PopGSPacketMTVU \/ PostP1Progress
  BY <1>18, SMTT(30) DEF GetGSPacketMTVU, PopGSPacketMTVU, PostP1Progress, Noticed, Known, EePcs,
      VuPcs, GsPcs, mtgs, ee, unserved
<1>19. CASE UNCHANGED vars
  BY <1>19 DEF Noticed, Known, vars, mtgs, ee, gs
<1> QED BY <1>1, <1>2, <1>3, <1>4, <1>5, <1>6, <1>7, <1>8, <1>9, <1>10, <1>11, <1>12, <1>13, <1>14,
    <1>15, <1>16, <1>17, <1>18, <1>19, Zenon DEF Next, EE, VU, GS

\* The VU thread returns to where it was called from.
LEMMA ReturnsStep == ASSUME Typed, Returns, [Next]_vars PROVE Returns'
<1>1. CASE EE
  BY <1>1, EeFrame, SMTT(30) DEF Returns, InFlight, Offset, vu, path
<1>2. CASE StartProgram
  BY <1>2, RetFacts, SMTT(30) DEF StartProgram, Typed, EePcs, VuPcs, Waits, vars, mtgs, ee, vu,
      path, unserved, Returns, InFlight, Offset
<1>3. ASSUME NEW n \in Sizes, XGkick(n) PROVE Returns'
  BY <1>3, RetFacts, SMTT(30) DEF XGkick, Waits, Serving, mtgs, path, Returns, InFlight, Offset
<1>4. CASE CopyGSPacketData
  BY <1>4, RetFacts, SMTT(30) DEF CopyGSPacketData, Typed, VuPcs, GsPcs, Waits, Serving, ee, vu,
      Returns, InFlight, Offset
<1>5. CASE CopyFull
  BY <1>5, RetFacts, SMTT(30) DEF CopyFull, Typed, EePcs, VuPcs, GsPcs, Waits, Serving, ee, vu,
      path, gs, unserved, Returns, InFlight, Offset
<1>6. CASE ExecuteGSPacketMTVU
  BY <1>6, RetFacts, SMTT(30) DEF ExecuteGSPacketMTVU, Typed, VuPcs, GsPcs, Waits, Serving, mtgs,
      ee, vu, path, unserved, Returns, InFlight, Offset
<1>7. CASE Consume
  <2>1. /\ gsPack'.offset = gsPack.offset /\ gsPack'.size = gsPack.size + size /\ gsPack.size \in Nat
        /\ curOffset' = curOffset + size /\ curSize' = curSize /\ vpc = "consume" /\ vpc' = "run" /\ ret' = ret
    BY <1>7, Consumed DEF Consume, Typed, PacketType
  <2>2. ret = <<>>
    BY <2>1 DEF Returns, Waits
  <2> QED BY <2>1, <2>2, RetFacts DEF Returns, InFlight, Offset, Typed, Waits
<1>8. CASE RealignPacket
  <2>1. vpc = "realign" /\ size' = size /\ curSize \in Int /\ curOffset \in Int /\ gsPack.size \in Nat /\ size \in Nat
    BY <1>8 DEF RealignPacket, Typed, PacketType
  <2>2. CASE MoveToFront /\ Return
    <3>1. /\ curSize' = curSize - (curOffset - gsPack.size) /\ curOffset' = gsPack.size
          /\ gsPack'.offset = 0 /\ gsPack'.size = gsPack.size
      BY <2>2, Moved DEF Offset
    <3>2. /\ ret = <<"copy">> => vpc' = "copy" /\ ret' = <<>>
          /\ ret = <<"consume">> => vpc' = "consume" /\ ret' = <<>>
          /\ ret \in {<<"copy">>, <<"consume">>}
      BY <2>1, <2>2, RetFacts, ZenonT(30) DEF Return, Returns
    <3>3. CASE ret = <<"copy">>
      BY <2>1, <3>1, <3>2, <3>3, RetFacts, SMTT(30) DEF Returns, InFlight, Offset, Waits
    <3>4. CASE ret = <<"consume">>
      BY <2>1, <3>1, <3>2, <3>4, RetFacts DEF Returns, InFlight, Offset, Waits
    <3> QED BY <3>2, <3>3, <3>4
  <2>3. CASE vpc' = "notify" /\ ret' = <<"realign">> \o ret /\ UNCHANGED path
    BY <2>1, <2>3, RetFacts, ZenonT(30) DEF Returns, InFlight, Offset, Waits, path
  <2> QED BY <1>8, <2>2, <2>3 DEF RealignPacket
<1>9. CASE FinishPush
  <2>1. /\ gsPack'.offset = curOffset /\ gsPack'.size = 0 /\ curOffset' = curOffset /\ curSize' = curSize
        /\ gsPack.size \in Nat
        /\ vpc = "push" /\ vpc' = "post" /\ ret' = ret /\ size' = size
    BY <1>9, Pushed, ZenonT(30) DEF FinishPush, Typed, PacketType
  <2> QED BY <2>1, RetFacts DEF Returns, InFlight, Offset, Typed, Waits
<1>10. CASE CountP1Packs
  BY <1>10, RetFacts, ZenonT(30) DEF CountP1Packs, GsPcs, Waits, Serving, vars, mtgs, ee, vu, path,
      gs, Returns, InFlight, Offset, Return
<1>11. CASE Recheck
  BY <1>11, RetFacts, ZenonT(30) DEF Recheck, VuPcs, GsPcs, Waits, Serving, vars, ee, vu, path, gs,
      unserved, Returns, InFlight, Offset, Return
<1>12. CASE ProgramEnd \/ FinishAdd \/ PostXGkick
  BY <1>12, ZenonT(30) DEF Returns, InFlight, Offset, ProgramEnd, FinishAdd, PostXGkick, GsPcs,
      Waits, vu, path
<1>13. CASE WaitGSMTVU \/ DrainCredit \/ SleepP1
  BY <1>13, ZenonT(30) DEF Returns, InFlight, Offset, WaitGSMTVU, DrainCredit, SleepP1, Waits, path
<1>14. CASE GS
  BY <1>14, GsFrame, SMTT(30) DEF Returns, InFlight, Offset, vu, path
<1>15. CASE UNCHANGED vars
  BY <1>15 DEF vars, vu, path, Returns, InFlight, Offset
<1> QED BY <1>1, <1>2, <1>3, <1>4, <1>5, <1>6, <1>7, <1>8, <1>9, <1>10, <1>11, <1>12, <1>13, <1>14,
    <1>15, Zenon DEF Next, EE, VU, GS

-----------------------------------------------------------------------------
\* Layout at the start, and what it shows.

LEMMA LayoutInit == Init => Layout
<1> SUFFICES ASSUME Init PROVE Layout
  OBVIOUS
<1>1. Chain = <<Empty>> /\ Len(Chain) = 1 /\ Chain[1] = Empty
  BY DEF Init, Chain, Waiting
<1>2. Empty.offset = 0 /\ Empty.size = 0 /\ Empty.readAmount = 0
  BY DEF Empty, GS_Packet
<1>3. PICK x : x = Chain
  OBVIOUS
<1>4. x[1].offset = 0 /\ x[1].size = 0 /\ x[1].readAmount = 0
  BY <1>1, <1>2, <1>3
<1> DEFINE g == [i \in 1..1 |-> 0]
<1>5. g[1] = 0
  BY SMTT(30)
<1> HIDE DEF g
<1>6. Placed(x, 1, g, 1, buffLimit, 0)
  BY <1>4, <1>5, GifPath1Assumption, SMTT(30) DEF Placed
<1>7. LaidOut(x, 1, 0, 0)
  BY <1>4, <1>5, <1>6, GifPath1Assumption DEF LaidOut
<1> QED BY <1>1, <1>3, <1>7 DEF Init, Layout

\* Packets that lie so are intact.
LEMMA IntactNow == ASSUME Typed, Served, Returns, Layout PROVE HandedOverIntact
<1> DEFINE x == Chain
           m == Len(Chain)
           d == IF gpc = "pop" THEN 1 ELSE 0
           r == readAmount - IF vpc = "push" THEN gsPack.size + gsPack.readAmount ELSE 0
<1>1. /\ m \in Nat \ {0} /\ x[m] = gsPack /\ Fields(x, m)
      /\ LaidOut(x, m, curSize, r)
  BY ChainFacts DEF Layout
<1>2. curSize \in Int /\ gsPack.offset <= curSize /\ gsPack.offset = Offset
  BY DEF Typed, Returns, Offset, PacketType
<1>3. /\ m = Len(gsPackQueue) + 1 - d /\ d \in {0, 1} /\ Len(gsPackQueue) \in Nat
      /\ \A i \in 1..(m - 1) : x[i] = gsPackQueue[i + d]
  <2>1. CASE gpc = "pop"
    BY <2>1 DEF Typed, Served, Chain, Waiting
  <2>2. CASE gpc # "pop"
    BY <2>2 DEF Typed, Served, Chain, Waiting
  <2> QED BY <2>1, <2>2
<1>4. \A i \in Unread : i \in Int /\ i - d \in 1..(m - 1) /\ gsPackQueue[i] = x[i - d]
  <2>1. \A i \in Unread : i \in 1..Len(gsPackQueue) /\ i > d
    BY SMTT(30) DEF Unread, Typed
  <2> HIDE DEF x, m, d
  <2> QED BY <1>3, <2>1
<1> HIDE DEF x, m, d, r
<1>5. \A i \in 1..(m - 1) : /\ Cells(x[i]) \cap x[m].offset..(curSize - 1) = {}
                            /\ \A j \in 1..(m - 1) : i # j => Cells(x[i]) \cap Cells(x[j]) = {}
  BY <1>1, <1>2, LaidIntact, SMTT(30)
<1>6. ASSUME NEW i \in Unread, NEW j \in Unread, i # j
      PROVE  Cells(gsPackQueue[i]) \cap Cells(gsPackQueue[j]) = {}
  <2>1. i - d # j - d
    BY <1>3, <1>4, <1>6, SMTT(30)
  <2> QED BY <1>4, <1>5, <2>1, SMTT(30)
<1>7. ASSUME NEW i \in Unread PROVE Cells(gsPackQueue[i]) \cap Offset..(curSize - 1) = {}
  BY <1>1, <1>2, <1>4, <1>5
<1> QED BY <1>6, <1>7 DEF HandedOverIntact

\* WAITING_EMPTY is set for a sleeping EE only.
Asleep == waiting \in BOOLEAN /\ (waiting => epc = "asleep")

LEMMA AsleepStep == Asleep /\ [Next]_vars => Asleep'
<1> SUFFICES ASSUME Asleep, [Next]_vars PROVE Asleep'
  OBVIOUS
<1> USE DEF mtgs, ee, vars
<1>0. waiting = FALSE \/ (waiting = TRUE /\ epc = "asleep")
  BY DEF Asleep
<1>a. waiting' = FALSE \/ (waiting' = TRUE /\ epc' = "asleep") => Asleep'
  BY Zenon DEF Asleep
<1>1. CASE EE
  <2>1. \/ waiting' = waiting /\ epc # "asleep"
        \/ WaitForEmpty \/ WaitForEmptyWoken
    BY <1>1, Zenon DEF EE, ExecuteVU, TransferMTVU, Execute, AddCompletedGSPacket, AddCompletedNotify, PostVsyncStart,
       WaitGSNotify, NextFrame, WaitVU, WaitVUDone
  <2>2. CASE WaitForEmpty
    BY <1>0, <2>2, ZenonT(30) DEF WaitForEmpty, Asleep
  <2>3. CASE WaitForEmptyWoken
    BY <1>0, <2>3, ZenonT(30) DEF WaitForEmptyWoken, Asleep
  <2> QED BY <1>0, <1>a, <2>1, <2>2, <2>3
<1>2. CASE VU
  BY <1>0, <1>a, <1>2, VuFrame
<1>3. CASE GS
  <2>1. epc' = epc
    BY <1>3, GsFrame
  <2>2. waiting' = waiting \/ waiting' = FALSE
    BY <1>3, ZenonT(30) DEF GS, EnterMainLoop, WaitForWorkTimed, Wake, TimeOut, Snapshot, NextItem, WaitXGkick, GetGSPacketMTVU,
       PopGSPacketMTVU, PostP1Progress, AdvanceReadPos, LeaveAtVsync
  <2> QED BY <1>0, <1>a, <2>1, <2>2
<1>4. CASE UNCHANGED vars
  BY <1>0, <1>a, <1>4
<1> QED BY <1>1, <1>2, <1>3, <1>4 DEF Next

-----------------------------------------------------------------------------
\* How the numbers of VU items and of final packets follow their queues; proved below.
CountsFollow ==
   /\ \A q \in Seq({"vu", "vsync"}) : \A x \in {"vu", "vsync"} :
        VuItems(q) \in Nat /\ VuItems(Append(q, x)) = VuItems(q) + IF x = "vu" THEN 1 ELSE 0
   /\ \A q \in Seq({"vu", "vsync"}) : q # <<>> =>
        VuItems(Tail(q)) \in Nat /\ VuItems(q) = VuItems(Tail(q)) + IF Head(q) = "vu" THEN 1 ELSE 0
   /\ \A q \in Seq(PacketType) : \A x \in PacketType :
        FinalPackets(q) \in Nat /\ FinalPackets(Append(q, x)) = FinalPackets(q) + IF x.more THEN 0 ELSE 1
   /\ \A q \in Seq(PacketType) : q # <<>> =>
        FinalPackets(Tail(q)) \in Nat /\ FinalPackets(q) = FinalPackets(Tail(q)) + IF Head(q).more THEN 0 ELSE 1

\* A program's item leaves the ring with the program's final packet.
LEMMA ItemsTyped == CountsFollow /\ Typed => VuItems(m_Ring) \in Nat /\ FinalPackets(gsPackQueue) \in Nat
  BY EmptyType DEF Typed, CountsFollow

LEMMA ItemsStep ==
   ASSUME CountsFollow, Typed, Served, Counted, Returns, OneItemPerProgram, [Next]_vars
   PROVE  OneItemPerProgram'
<1>1. CASE ExecuteVU
  <2>1. /\ epc = "run" /\ epc' = "exec" /\ programs' = programs + 1
        /\ UNCHANGED <<m_Ring, fakePackets, vpc, final, gsPackQueue, gpc, pack>>
    BY <1>1 DEF ExecuteVU, mtgs, vu, gs
  <2>2. programs \in Int /\ fakePackets \in Int
    BY DEF Typed
  <2> QED BY <2>1, <2>2, ItemsTyped DEF OneItemPerProgram
<1>2. CASE TransferMTVU
  BY <1>2, ItemsTyped, SMTT(30) DEF TransferMTVU, Typed, OneItemPerProgram, mtgs, vu, gs
<1>3. CASE AddCompletedGSPacket
  <2>1. VuItems(m_Ring') = VuItems(m_Ring) + 1 /\ VuItems(m_Ring) \in Nat
    BY <1>3 DEF CountsFollow, AddCompletedGSPacket, Typed
  <2>2. gpc = "advance" => Head(m_Ring') = Head(m_Ring)
    BY <1>3 DEF AddCompletedGSPacket, Typed, Served
  <2> QED BY <1>3, <2>1, <2>2, ItemsTyped DEF AddCompletedGSPacket, OneItemPerProgram, Typed, vu, gs
<1>4. CASE PostVsyncStart
  <2>1. VuItems(m_Ring') = VuItems(m_Ring)
    BY <1>4, "vsync" # "vu" DEF CountsFollow, PostVsyncStart, Typed
  <2>2. gpc = "advance" => Head(m_Ring') = Head(m_Ring)
    BY <1>4, SMTT(30) DEF PostVsyncStart, Typed, Served
  <2> QED BY <1>4, <2>1, <2>2, ItemsTyped DEF PostVsyncStart, OneItemPerProgram, vu, gs
<1>5. CASE Execute \/ AddCompletedNotify \/ WaitGSNotify \/ WaitForEmpty
  BY <1>5, SMTT(30) DEF Execute, AddCompletedNotify, WaitGSNotify, WaitForEmpty, OneItemPerProgram,
      mtgs, vu, gs
<1>6. CASE WaitForEmptyWoken \/ NextFrame \/ WaitVU \/ WaitVUDone
  BY <1>6, SMTT(30) DEF WaitForEmptyWoken, NextFrame, WaitVU, WaitVUDone, OneItemPerProgram, mtgs,
      vu, gs
<1>7. CASE RealignPacket
  BY <1>7, ReturnsTo, ItemsTyped, ZenonT(30) DEF RealignPacket, OneItemPerProgram, EePcs, VuPcs,
      GsPcs, Waits, Serving, mtgs, ee, path, gs, unserved
<1>8. CASE FinishPush
  <2>1. FinalPackets(gsPackQueue') = FinalPackets(gsPackQueue) + IF final THEN 1 ELSE 0
    BY <1>8, Pushed, ZenonT(30) DEF CountsFollow, Typed
  <2> QED BY <1>8, <2>1, ItemsTyped DEF FinishPush, OneItemPerProgram, Typed, mtgs, ee, gs
<1>9. CASE PostXGkick
  BY <1>9, ItemsTyped, SMTT(30) DEF PostXGkick, OneItemPerProgram, VuPcs, Serving, vars, mtgs, ee,
      gs, unserved
<1>10. CASE CountP1Packs
  BY <1>10, ReturnsTo, ItemsTyped, SMTT(30) DEF CountP1Packs, OneItemPerProgram, VuPcs, GsPcs,
      Waits, mtgs, ee, vu, gs, unserved
<1>11. CASE Recheck
  <2>1. /\ vpc = "recheck" /\ vpc' # "post"
        /\ UNCHANGED <<m_Ring, epc, fakePackets, programs, gsPackQueue, gpc, pack>>
    BY <1>11, ReturnsTo, ZenonT(30) DEF Recheck, Waits, mtgs, ee, path, gs
  <2> QED BY <2>1 DEF OneItemPerProgram
<1>12. CASE StartProgram \/ (\E n \in Sizes : XGkick(n)) \/ ProgramEnd \/ CopyGSPacketData
  BY <1>12 DEF StartProgram, XGkick, ProgramEnd, CopyGSPacketData, OneItemPerProgram, mtgs, ee, gs
<1>13. CASE CopyFull \/ ExecuteGSPacketMTVU \/ Consume \/ FinishAdd
  BY <1>13, SMTT(30) DEF CopyFull, ExecuteGSPacketMTVU, Consume, FinishAdd, OneItemPerProgram,
      mtgs, ee, gs
<1>14. CASE WaitGSMTVU \/ DrainCredit \/ SleepP1
  BY <1>14, SMTT(30) DEF WaitGSMTVU, DrainCredit, SleepP1, OneItemPerProgram, mtgs, ee, gs
<1>15. CASE NextItem
  BY <1>15, ItemsTyped DEF NextItem, OneItemPerProgram, VuPcs, GsPcs, mtgs, ee, vu, unserved
<1>16. CASE PopGSPacketMTVU
  <2>1. FinalPackets(gsPackQueue) = FinalPackets(gsPackQueue') + IF pack.more THEN 0 ELSE 1
    BY <1>16 DEF CountsFollow, PopGSPacketMTVU, Typed, Served
  <2>2. FinalPackets(gsPackQueue') \in Nat
    BY <1>16, SMTT(30) DEF CountsFollow, PopGSPacketMTVU, Typed, Served
  <2>3. CASE pack.more
    BY <1>16, <2>1, <2>2, <2>3, SMTT(30) DEF PopGSPacketMTVU, OneItemPerProgram, mtgs, ee, vu
  <2>4. CASE ~pack.more
    BY <1>16, <2>1, <2>2, <2>4, ItemsTyped, SMTT(30) DEF PopGSPacketMTVU, OneItemPerProgram, Typed,
        mtgs, ee, vu
  <2> QED BY <2>3, <2>4
<1>17. CASE PostP1Progress
  BY <1>17, ItemsTyped DEF PostP1Progress, OneItemPerProgram, GsPcs, Serving, mtgs, ee, vu, path,
      unserved, Served
<1>18. CASE AdvanceReadPos
  <2>1. m_Ring # <<>> /\ m_Ring' = Tail(m_Ring)
    BY <1>18 DEF AdvanceReadPos, Served
  <2>2. VuItems(m_Ring) = VuItems(m_Ring') + IF Head(m_Ring) = "vu" THEN 1 ELSE 0
    BY <2>1 DEF CountsFollow, Typed
  <2>3. VuItems(m_Ring') \in Nat
    BY <2>1, SMTT(30) DEF CountsFollow, Typed
  <2>4. /\ gpc = "advance" /\ gpc' \in {"vsync", "batch"}
        /\ UNCHANGED <<epc, fakePackets, programs, vpc, final, gsPackQueue>>
    BY <1>18 DEF AdvanceReadPos, unserved, ee, vu
  <2>5. programs \in Int /\ fakePackets \in Int
    BY DEF Typed
  <2> QED BY <2>2, <2>3, <2>4, <2>5, ItemsTyped DEF OneItemPerProgram
<1>19. CASE EnterMainLoop \/ WaitForWorkTimed \/ Wake \/ TimeOut
  BY <1>19 DEF EnterMainLoop, WaitForWorkTimed, Wake, TimeOut, OneItemPerProgram, mtgs, ee, vu, unserved
<1>20. CASE Snapshot \/ WaitXGkick
  BY <1>20 DEF Snapshot, WaitXGkick, OneItemPerProgram, mtgs, ee, vu, unserved
<1>21. CASE GetGSPacketMTVU \/ LeaveAtVsync
  BY <1>21 DEF GetGSPacketMTVU, LeaveAtVsync, OneItemPerProgram, mtgs, ee, vu, unserved
<1>22. CASE UNCHANGED vars
  BY <1>22 DEF OneItemPerProgram, vars, mtgs, ee, vu, gs
<1> QED BY <1>1, <1>2, <1>3, <1>4, <1>5, <1>6, <1>7, <1>8, <1>9, <1>10, <1>11, <1>12, <1>13, <1>14,
    <1>15, <1>16, <1>17, <1>18, <1>19, <1>20, <1>21, <1>22, Zenon DEF Next, EE, VU, GS

-----------------------------------------------------------------------------
\* Counting the items of a sequence that are in a set, after an Append and a Tail.

INSTANCE FiniteSetTheorems

Marked(q, Marks) == {i \in DOMAIN q : q[i] \in Marks}

LEMMA MarkedFinite == ASSUME NEW S, NEW q \in Seq(S), NEW Marks
                      PROVE  IsFiniteSet(Marked(q, Marks)) /\ Cardinality(Marked(q, Marks)) \in Nat
<1>1. Len(q) \in Nat /\ Marked(q, Marks) \subseteq 1..Len(q)
  BY DEF Marked
<1>2. IsFiniteSet(1..Len(q))
  BY <1>1, FS_Interval
<1>3. IsFiniteSet(Marked(q, Marks))
  BY <1>1, <1>2, FS_Subset
<1> QED BY <1>3, FS_CardinalityType

LEMMA MarkedAppend ==
   ASSUME NEW S, NEW q \in Seq(S), NEW x \in S, NEW Marks
   PROVE  Cardinality(Marked(Append(q, x), Marks))
             = Cardinality(Marked(q, Marks)) + IF x \in Marks THEN 1 ELSE 0
<1> DEFINE n == Len(q)
<1>1. n \in Nat /\ DOMAIN q = 1..n /\ DOMAIN Append(q, x) = 1..(n + 1)
  OBVIOUS
<1>2. /\ \A i \in 1..n : Append(q, x)[i] = q[i]
      /\ Append(q, x)[n + 1] = x
  OBVIOUS
<1>3. IsFiniteSet(Marked(q, Marks)) /\ Cardinality(Marked(q, Marks)) \in Nat
  BY MarkedFinite
<1>4. CASE x \in Marks
  <2>1. Marked(Append(q, x), Marks) = Marked(q, Marks) \cup {n + 1} /\ n + 1 \notin Marked(q, Marks)
    BY <1>1, <1>2, <1>4 DEF Marked
  <2> QED BY <1>3, <1>4, <2>1, FS_AddElement, ZenonT(30)
<1>5. CASE x \notin Marks
  <2>1. Marked(Append(q, x), Marks) = Marked(q, Marks)
    BY <1>1, <1>2, <1>5 DEF Marked
  <2> QED BY <1>3, <1>5, <2>1
<1> QED BY <1>4, <1>5

LEMMA MarkedTail ==
   ASSUME NEW S, NEW q \in Seq(S), q # <<>>, NEW Marks
   PROVE  Cardinality(Marked(q, Marks))
             = Cardinality(Marked(Tail(q), Marks)) + IF Head(q) \in Marks THEN 1 ELSE 0
<1> DEFINE A == Marked(q, Marks)
           A1 == A \ {1}
           B == Marked(Tail(q), Marks)
           n == Len(q)
           f == [i \in B |-> i + 1]
<1>1. n \in Nat \ {0} /\ DOMAIN q = 1..n /\ DOMAIN Tail(q) = 1..(n - 1)
  OBVIOUS
<1>2. /\ \A i \in 1..(n - 1) : Tail(q)[i] = q[i + 1]
      /\ Head(q) = q[1]
  OBVIOUS
<1>3. IsFiniteSet(A) /\ IsFiniteSet(B)
  BY MarkedFinite, Tail(q) \in Seq(S), Zenon
<1>4. IsFiniteSet(A1) /\ A1 \subseteq A
  BY <1>3, FS_Subset
<1>5. Cardinality(A1) \in Nat /\ Cardinality(B) \in Nat
  BY <1>3, <1>4, FS_CardinalityType
<1>6. Cardinality(B) = Cardinality(A1)
  <2>1. f \in [B -> A1]
    BY <1>1, <1>2 DEF Marked
  <2>2. \A i, j \in B : f[i] = f[j] => i = j
    BY <1>1 DEF Marked
  <2>3. \A k \in A1 : k - 1 \in B /\ f[k - 1] = k
    BY <1>1, <1>2 DEF Marked
  <2>4. \A k \in A1 : \E i \in B : f[i] = k
    BY <2>3, ZenonT(30)
  <2>5. f \in Bijection(B, A1)
    BY <2>1, <2>2, <2>4 DEF Bijection, Injection, Surjection, IsInjective
  <2>6. ExistsBijection(B, A1)
    BY <2>5, ZenonT(30) DEF ExistsBijection
  <2> QED BY <1>3, <2>6, FS_Bijection
<1>7. CASE Head(q) \in Marks
  <2>1. A = A1 \cup {1} /\ 1 \notin A1
    BY <1>1, <1>2, <1>7 DEF Marked
  <2> QED BY <1>4, <1>5, <1>6, <1>7, <2>1, FS_AddElement, ZenonT(30)
<1>8. CASE Head(q) \notin Marks
  <2>1. A = A1
    BY <1>1, <1>2, <1>8 DEF Marked
  <2>2. Cardinality(A) = Cardinality(A1)
    BY <2>1, Zenon
  <2> QED BY <1>5, <1>6, <1>8, <2>2
<1> QED BY <1>7, <1>8

LEMMA VuItemsMarked == \A q : VuItems(q) = Cardinality(Marked(q, {"vu"}))
<1>1. \A q : {i \in DOMAIN q : q[i] = "vu"} = Marked(q, {"vu"})
  BY DEF Marked
<1> QED BY <1>1 DEF VuItems

FinalOnes == {p \in PacketType : ~p.more}

LEMMA FinalPacketsMarked == \A q \in Seq(PacketType) : FinalPackets(q) = Cardinality(Marked(q, FinalOnes))
<1>1. \A q \in Seq(PacketType) : {i \in DOMAIN q : ~q[i].more} = Marked(q, FinalOnes)
  BY DEF Marked, FinalOnes
<1> QED BY <1>1, ZenonT(30) DEF FinalPackets

LEMMA VuItemsAppend ==
   ASSUME NEW q \in Seq({"vu", "vsync"}), NEW x \in {"vu", "vsync"}
   PROVE  /\ VuItems(q) \in Nat
          /\ VuItems(Append(q, x)) = VuItems(q) + IF x = "vu" THEN 1 ELSE 0
<1>1. VuItems(q) \in Nat
  BY MarkedFinite, VuItemsMarked
<1>2. VuItems(Append(q, x)) = VuItems(q) + IF x \in {"vu"} THEN 1 ELSE 0
  BY MarkedAppend, VuItemsMarked
<1> QED BY <1>1, <1>2

LEMMA VuItemsTail ==
   ASSUME NEW q \in Seq({"vu", "vsync"}), q # <<>>
   PROVE  /\ VuItems(Tail(q)) \in Nat
          /\ VuItems(q) = VuItems(Tail(q)) + IF Head(q) = "vu" THEN 1 ELSE 0
<1>1. VuItems(Tail(q)) \in Nat
  BY MarkedFinite, VuItemsMarked, Tail(q) \in Seq({"vu", "vsync"}), ZenonT(30)
<1>2. VuItems(q) = VuItems(Tail(q)) + IF Head(q) \in {"vu"} THEN 1 ELSE 0
  BY MarkedTail, VuItemsMarked
<1> QED BY <1>1, <1>2

LEMMA FinalPacketsAppend ==
   ASSUME NEW q \in Seq(PacketType), NEW x \in PacketType
   PROVE  /\ FinalPackets(q) \in Nat
          /\ FinalPackets(Append(q, x)) = FinalPackets(q) + IF x.more THEN 0 ELSE 1
<1>1. FinalPackets(q) \in Nat
  BY MarkedFinite, FinalPacketsMarked
<1>2. FinalPackets(Append(q, x)) = FinalPackets(q) + IF x \in FinalOnes THEN 1 ELSE 0
  <2>1. Append(q, x) \in Seq(PacketType)
    OBVIOUS
  <2>2. FinalPackets(Append(q, x)) = Cardinality(Marked(Append(q, x), FinalOnes))
    BY <2>1, FinalPacketsMarked, ZenonT(30)
  <2>3. FinalPackets(q) = Cardinality(Marked(q, FinalOnes))
    BY FinalPacketsMarked
  <2> QED BY <2>2, <2>3, MarkedAppend
<1>3. x \in FinalOnes <=> ~x.more
  BY DEF FinalOnes
<1> QED BY <1>1, <1>2, <1>3

LEMMA FinalPacketsTail ==
   ASSUME NEW q \in Seq(PacketType), q # <<>>
   PROVE  /\ FinalPackets(Tail(q)) \in Nat
          /\ FinalPackets(q) = FinalPackets(Tail(q)) + IF Head(q).more THEN 0 ELSE 1
<1>1. FinalPackets(Tail(q)) \in Nat
  BY MarkedFinite, FinalPacketsMarked, Tail(q) \in Seq(PacketType), ZenonT(30)
<1>2. FinalPackets(q) = FinalPackets(Tail(q)) + IF Head(q) \in FinalOnes THEN 1 ELSE 0
  <2>1. Tail(q) \in Seq(PacketType)
    OBVIOUS
  <2>2. FinalPackets(Tail(q)) = Cardinality(Marked(Tail(q), FinalOnes))
    BY <2>1, FinalPacketsMarked, Zenon
  <2>3. FinalPackets(q) = Cardinality(Marked(q, FinalOnes))
    BY FinalPacketsMarked
  <2> QED BY <2>2, <2>3, MarkedTail
<1>3. Head(q) \in FinalOnes <=> ~Head(q).more
  BY Head(q) \in PacketType DEF FinalOnes
<1> QED BY <1>1, <1>2, <1>3

\* So both numbers follow their queues.
LEMMA CountsHold == CountsFollow
  BY VuItemsAppend, VuItemsTail, FinalPacketsAppend, FinalPacketsTail, Zenon DEF CountsFollow

-----------------------------------------------------------------------------
\* The theorems

LEMMA Inductive == Spec => []IInv
<1>1. Init => IInv
  <2> SUFFICES ASSUME Init PROVE IInv
    OBVIOUS
  <2>1. Typed
    BY EmptyType DEF Init, Typed, EePcs, VuPcs, GsPcs
  <2>2. Served /\ Counted /\ Noticed
    BY SMTT(30) DEF Init, Served, Serving, Counted, Noticed, Known
  <2>3. Returns
    BY RetFacts DEF Init, Returns, Offset, Waits, Empty, GS_Packet
  <2>4. OneItemPerProgram
    <3>1. {i \in DOMAIN m_Ring : m_Ring[i] = "vu"} = {} /\ {i \in DOMAIN gsPackQueue : ~gsPackQueue[i].more} = {}
      BY DEF Init
    <3>2. VuItems(m_Ring) = 0 /\ FinalPackets(gsPackQueue) = 0
      BY <3>1, FS_EmptySet DEF VuItems, FinalPackets
    <3> QED BY <3>2 DEF Init, OneItemPerProgram
  <2>5. Layout
    BY LayoutInit
  <2> QED BY <2>1, <2>2, <2>3, <2>4, <2>5 DEF IInv
<1>2. IInv /\ [Next]_vars => IInv'
  <2> SUFFICES ASSUME IInv, [Next]_vars PROVE IInv'
    OBVIOUS
  <2>1. Typed /\ Served /\ Counted /\ OneItemPerProgram /\ Noticed /\ Returns /\ Layout
    BY DEF IInv
  <2>2. Typed' /\ Served' /\ Counted'
    BY <2>1, TypedStep, ServedStep, CountedStep
  <2>3. OneItemPerProgram' /\ Noticed' /\ Returns'
    BY <2>1, CountsHold, ItemsStep, NoticedStep, ReturnsStep
  <2>4. Layout'
    BY <2>1, <2>2, LayoutStep
  <2> QED BY <2>2, <2>3, <2>4 DEF IInv
<1> QED BY <1>1, <1>2, PTL DEF Spec

\* Nothing handed to MTGS is overwritten before MTGS has transferred it: the room
\* that CopyGSPacketData and RealignPacket compute from readAmount is really free.
THEOREM HandedOver == Spec => []HandedOverIntact
<1>1. IInv => HandedOverIntact
  BY IntactNow DEF IInv
<1> QED BY <1>1, Inductive, PTL

\* MTGS never gets past semaXGkick to an empty queue.
THEOREM EveryKickHasPacket == Spec => []KickHasPacket
<1>1. IInv => KickHasPacket
  BY DEF IInv, Typed, Counted, KickHasPacket
<1> QED BY <1>1, Inductive, PTL

\* One ring item is one VU1 program, however many packets that delivers.
THEOREM ItemsMatchPrograms == Spec => []OneItemPerProgram
<1>1. IInv => OneItemPerProgram
  BY DEF IInv
<1> QED BY <1>1, Inductive, PTL

\* MTGS::WaitGS(false) returns only when the ring is drained.
THEOREM WaitGSIsBarrier == Spec => []WaitGSDrains
<1>1. IInv => WaitGSDrains
  BY DEF IInv, Noticed, WaitGSDrains
<1> QED BY <1>1, Inductive, PTL

-----------------------------------------------------------------------------
\* The semaphore

\* s_sem_event as the contract of WorkSema has it.
Sema == INSTANCE WorkSemaContract
          WITH sem <- s_sem_event,
               caller <- CASE epc = "asleep" -> "asleep" [] epc = "waited" -> "returned" [] OTHER -> "out"

\* A step of the path is one of the semaphore's contract, or leaves it alone.
LEMMA SemaContractStep == Typed /\ Noticed /\ Asleep /\ [Next]_vars => [Sema!Next]_(Sema!vars)
<1> SUFFICES ASSUME Typed, Noticed, Asleep, [Next]_vars PROVE [Sema!Next]_(Sema!vars)
  OBVIOUS
<1> DEFINE caller == CASE epc = "asleep" -> "asleep" [] epc = "waited" -> "returned" [] OTHER -> "out"
<1>1. ASSUME UNCHANGED <<s_sem_event, waiting>>, caller' = caller PROVE [Sema!Next]_(Sema!vars)
  BY <1>1 DEF Sema!vars
<1>2. ASSUME s_sem_event' = "runN", waiting' = waiting, caller' = caller PROVE [Sema!Next]_(Sema!vars)
  BY <1>2 DEF Typed, Sema!Next, Sema!NotifyOfWork
<1>3. CASE EE
  <2>1. CASE AddCompletedNotify \/ WaitGSNotify
    BY <1>2, <2>1 DEF AddCompletedNotify, WaitGSNotify
  <2>2. CASE WaitForEmpty
    BY <2>2 DEF WaitForEmpty, Typed, Asleep, Sema!Next, Sema!WaitForEmpty, Sema!Back
  <2>3. CASE WaitForEmptyWoken
    BY <2>3 DEF WaitForEmptyWoken, mtgs, Sema!Next, Sema!Return, Sema!Back
  <2>4. CASE NextFrame
    BY <2>4 DEF NextFrame, mtgs, Sema!Next, Sema!Continue
  <2>5. CASE ExecuteVU \/ TransferMTVU \/ Execute \/ AddCompletedGSPacket \/ PostVsyncStart \/ WaitVU \/ WaitVUDone
    BY <1>1, <2>5 DEF ExecuteVU, TransferMTVU, Execute, AddCompletedGSPacket, PostVsyncStart, WaitVU, WaitVUDone, mtgs
  <2> QED BY <1>3, <2>1, <2>2, <2>3, <2>4, <2>5 DEF EE
<1>4. CASE VU
  <2>1. s_sem_event' \in {s_sem_event, "runN"}
    BY <1>4, ZenonT(30) DEF VU, StartProgram, XGkick, ProgramEnd, CopyGSPacketData, CopyFull,
      ExecuteGSPacketMTVU, Consume, RealignPacket, FinishAdd, FinishPush, PostXGkick, WaitGSMTVU,
      CountP1Packs, DrainCredit, Recheck, SleepP1, mtgs
  <2>2. waiting' = waiting /\ caller' = caller
    BY <1>4, VuFrame DEF ee
  <2> QED BY <1>1, <1>2, <2>1, <2>2
<1>5. CASE GS
  <2>0. caller' = caller
    BY <1>5, GsFrame DEF ee
  <2>1. CASE WaitForWorkTimed
    BY <2>0, <2>1 DEF WaitForWorkTimed, Typed, Noticed, Sema!Next, Sema!TakeWork, Sema!GoIdle
  <2>2. CASE Wake
    BY <2>0, <2>2 DEF Wake, Sema!Next, Sema!TakeWork
  <2>3. CASE TimeOut
    BY <2>0, <2>3 DEF TimeOut, Sema!Next, Sema!TimeOut
  <2>4. CASE LeaveAtVsync
    BY <1>1, <1>2, <2>0, <2>4 DEF LeaveAtVsync
  <2>5. CASE EnterMainLoop \/ Snapshot \/ NextItem \/ WaitXGkick \/ GetGSPacketMTVU \/ PopGSPacketMTVU
             \/ PostP1Progress \/ AdvanceReadPos
    BY <1>1, <2>0, <2>5 DEF EnterMainLoop, Snapshot, NextItem, WaitXGkick, GetGSPacketMTVU, PopGSPacketMTVU,
       PostP1Progress, AdvanceReadPos, mtgs
  <2> QED BY <1>5, <2>1, <2>2, <2>3, <2>4, <2>5 DEF GS
<1>6. CASE UNCHANGED vars
  BY <1>1, <1>6 DEF vars, mtgs, ee
<1> QED BY <1>3, <1>4, <1>5, <1>6 DEF Next

\* EE, VU1 and MTGS ask of s_sem_event, and expect from it, what WorkSema provides.
THEOREM KeepsToContract == Spec => Sema!Spec
<1>1. Init => Sema!Init /\ Asleep
  BY ZenonT(30) DEF Init, Sema!Init, Asleep
<1>2. IInv => Typed /\ Noticed
  BY DEF IInv
<1> QED BY <1>1, <1>2, AsleepStep, SemaContractStep, Inductive, PTL DEF Spec, Sema!Spec

\* While the EE sleeps in WaitGS and has not been let go, the MTGS thread is awake or
\* has been notified.
THEOREM WaitGSNotStranded == Spec => []Sema!NobodyStranded
<1> DEFINE Inv == s_sem_event \in Sema!SemStates /\ Sema!NobodyStranded
<1>1. Sema!Init => Inv
  BY Zenon DEF Sema!Init, Sema!NobodyStranded, Sema!SemStates
<1>2. Inv /\ [Sema!Next]_(Sema!vars) => Inv'
  <2> SUFFICES ASSUME Inv, [Sema!Next]_(Sema!vars) PROVE Inv'
    OBVIOUS
  <2> USE DEF Sema!NobodyStranded, Sema!SemStates
  <2>1. CASE Sema!NotifyOfWork \/ Sema!TakeWork \/ Sema!TimeOut \/ Sema!Reset
    BY <2>1 DEF Sema!NotifyOfWork, Sema!TakeWork, Sema!TimeOut, Sema!Reset
  <2>2. CASE Sema!GoIdle \/ Sema!CheckForWork \/ Sema!Kill
    BY <2>2, Zenon DEF Sema!GoIdle, Sema!CheckForWork, Sema!Kill
  <2>3. CASE Sema!WaitForEmpty
    BY <2>3, Zenon DEF Sema!WaitForEmpty
  <2>4. CASE Sema!Return \/ Sema!Continue \/ UNCHANGED Sema!vars
    BY <2>4 DEF Sema!Return, Sema!Continue, Sema!vars
  <2> QED BY <2>1, <2>2, <2>3, <2>4, Zenon DEF Sema!Next
<1> QED BY <1>1, <1>2, KeepsToContract, PTL DEF Sema!Spec
=============================================================================
