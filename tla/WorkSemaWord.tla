---------------------------- MODULE WorkSemaWord ----------------------------
(***************************************************************************)
(* The 32-bit state word of Threading::WorkSema and the bit operations     *)
(* that its methods perform on it (common/Threading.h, Semaphore.cpp).     *)
(*                                                                         *)
(* FLAG is STATE_FLAG_WAITING_EMPTY, 1 << 30 in the code.  A word lies in  *)
(* -2*FLAG .. 2*FLAG-1 and "&" is taken on its two's complement, so a      *)
(* negative idle state has the FLAG bit set, exactly as in the code; with  *)
(* FLAG a parameter TLC can use a short word.                              *)
(***************************************************************************)
EXTENDS Integers

CONSTANT FLAG

\* The notify step of 2 must not jump over the flag bit.
ASSUME FlagAssumption == FLAG \in Nat /\ FLAG >= 4

STATE_SPINNING  == -2
STATE_SLEEPING  == -1
STATE_RUNNING_0 == 0

\* INT32_MIN, the word Kill() stores.
STATE_DEAD == -2 * FLAG

Word == -2 * FLAG .. 2 * FLAG - 1

\* "value < STATE_SPINNING": the death sentinel every method tests.
IsDead(v) == v < STATE_SPINNING

\* value & STATE_FLAG_WAITING_EMPTY, as a Boolean.
HasFlag(v) == v >= FLAG \/ (v < 0 /\ v >= -FLAG)

\* value & STATE_FLAG_WAITING_EMPTY, as a word.
KeepFlag(v) == IF HasFlag(v) THEN FLAG ELSE 0

\* value & (STATE_FLAG_WAITING_EMPTY - 1): the notify count of a RUNNING word.
ClearFlag(v) == CASE v >= FLAG             -> v - FLAG
                  [] v >= 0 /\ v < FLAG    -> v
                  [] v < 0 /\ v >= -FLAG   -> v + FLAG
                  [] v < -FLAG             -> v + 2 * FLAG

\* value | STATE_FLAG_WAITING_EMPTY
SetFlag(v) == IF HasFlag(v) THEN v ELSE v + FLAG

\* No notify since the worker's last look: (value & (FLAG - 1)) == RUNNING_0.
NoNewWork(v) == ClearFlag(v) = STATE_RUNNING_0

\* fetch_add(&m_state, 2) of NotifyOfWork.  A dead word stays dead: it takes
\* 2^30 notifies to lift INT32_MIN to STATE_SPINNING.
AfterNotify(v) == IF IsDead(v) THEN v ELSE v + 2

\* The bound on notifies between two looks of the worker (2^29 in the code):
\* the count stays below the flag bit.
NotifyRoom(v) == v < 0 \/ ClearFlag(v) + 2 < FLAG

\* Mutant of AfterWaitCas: drops the waiter's flag.
AfterWaitCasNoFlag(v, idle) == IF NoNewWork(v) THEN idle ELSE STATE_RUNNING_0

\* The word the CAS of WaitForWork and WaitForWorkTimed installs.
AfterWaitCas(v, idle) == IF NoNewWork(v) THEN idle ELSE KeepFlag(v)

\* The word the CAS of CheckForWork installs.
AfterCheckCas(v) == IF NoNewWork(v) THEN STATE_RUNNING_0 ELSE KeepFlag(v)
=============================================================================
