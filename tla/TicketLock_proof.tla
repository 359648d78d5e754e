-------------------------- MODULE TicketLock_proof --------------------------
(***************************************************************************)
(* Proofs about the ticket lock for any finite set of CPUs and any number  *)
(* of tickets larger than it.                                              *)
(*                                                                         *)
(* Mutual exclusion is not inductive: it follows from the tickets being    *)
(* distinct, and that from the ring of tickets never being full, which is  *)
(* a matter of counting them.  TicketsInv says all of this.                *)
(***************************************************************************)
EXTENDS TicketLock, FiniteSetTheorems, TLAPS

\* The number of CPUs with a ticket is a number, and one of fewer CPUs than
\* all is below the number of tickets.
LEMMA OutstandingFinite ==
    /\ IsFiniteSet(Outstanding)
    /\ Cardinality(Outstanding) \in Nat
    /\ Cardinality(Outstanding) < TicketMod
<1>1. Outstanding \subseteq CPU
  BY DEF Outstanding
<1>2. IsFiniteSet(Outstanding) /\ Cardinality(Outstanding) <= Cardinality(CPU)
  BY <1>1, TicketAssumption, FS_Subset
<1>3. Cardinality(Outstanding) \in Nat /\ Cardinality(CPU) \in Nat
  BY <1>2, TicketAssumption, FS_CardinalityType
<1> QED
  BY <1>2, <1>3, TicketAssumption

\* Every step of ticket.c keeps the variables within their types.
LEMMA TypeStep == LockTypeOK /\ [LockNext]_lvars => LockTypeOK'
<1> SUFFICES ASSUME LockTypeOK, [LockNext]_lvars PROVE LockTypeOK'
  OBVIOUS
<1> USE TicketAssumption DEF LockTypeOK, Ticket, Label
<1>1. ASSUME NEW c \in CPU, CallLock(c) \/ CallTryLock(c) PROVE LockTypeOK'
  BY <1>1 DEF CallLock, CallTryLock, Goto
<1>2. ASSUME NEW c \in CPU, NEW from \in Label, NEW to \in Label, LoadNext(c, from, to)
      PROVE LockTypeOK'
  BY <1>2 DEF LoadNext, Goto
<1>3. ASSUME NEW c \in CPU, NEW from \in Label, NEW to \in Label, StoreNext(c, from, to)
      PROVE LockTypeOK'
  <2>1. Inc(lockval[c]) \in 0 .. TicketMod - 1
    BY DEF Inc
  <2> QED
    BY <1>3, <2>1 DEF StoreNext, Goto
<1>4. ASSUME NEW c \in CPU, NEW from \in Label, NEW to \in Label, StoreFails(c, from, to)
      PROVE LockTypeOK'
  BY <1>4 DEF StoreFails, Goto
<1>5. ASSUME NEW c \in CPU, Spin(c) \/ TryCompare(c) PROVE LockTypeOK'
  BY <1>5 DEF Spin, TryCompare, Goto
<1>6. ASSUME NEW c \in CPU, Unlock(c) PROVE LockTypeOK'
  BY <1>6 DEF Unlock, Goto, Inc
<1>7. CASE UNCHANGED lvars
  BY <1>7 DEF lvars
<1> QED
  BY <1>1, <1>2, <1>3, <1>4, <1>5, <1>6, <1>7
     DEF LockNext, LockStep, Lock, TryLock

\* A CPU takes a ticket by storing to `next` and waits for its turn (lock) or
\* has it at once (try_lock): the ring of tickets gets one longer.
LEMMA StoreStep ==
    ASSUME LockTypeOK, TicketsInv, NEW c \in CPU,
           \/ StoreNext(c, "stxr", "spin")
           \/ StoreNext(c, "try_stxr", "held")
    PROVE  TicketsInv'
<1> USE TicketAssumption DEF LockTypeOK, Ticket
<1>1. /\ c \in monitor /\ c \notin Outstanding
      /\ lockval[c] = next /\ next' = Inc(next)
      /\ monitor' = {} /\ owner' = owner /\ lockval' = lockval
      /\ \A d \in CPU \ {c} : pc'[d] = pc[d]
      /\ pc'[c] \in {"spin", "held"}
  BY DEF StoreNext, Goto, TicketsInv, Outstanding
<1>2. Outstanding' = Outstanding \union {c}
  BY <1>1 DEF Outstanding
<1>3. Cardinality(Outstanding') = Cardinality(Outstanding) + 1
  BY <1>1, <1>2, OutstandingFinite, FS_AddElement
<1>4. Outstanding' \subseteq CPU
  BY DEF Outstanding
<1>5. Cardinality(Outstanding') < TicketMod
  BY <1>4, TicketAssumption, FS_Subset, FS_CardinalityType
<1>6. Behind(next) = Cardinality(Outstanding)
  BY DEF TicketsInv
<1>7. Behind(next)' = Behind(next) + 1
  BY <1>1, <1>3, <1>5, <1>6, OutstandingFinite DEF Behind, Inc
<1>8. \A d \in CPU : Behind(lockval[d])' = Behind(lockval[d])
  BY <1>1 DEF Behind
<1>9. Behind(lockval[c]) = Behind(next)
  BY <1>1
<1>10. Behind(next) \in Nat /\ \A d \in CPU : Behind(lockval[d]) \in Nat
  BY DEF Behind
<1>11. \A d \in Outstanding' : Behind(lockval[d])' < Behind(next)'
  BY <1>2, <1>4, <1>7, <1>8, <1>9, <1>10 DEF TicketsInv
<1>12. \A d \in Outstanding : lockval[d] # lockval[c]
  BY <1>9, <1>10, <1>4, <1>2 DEF TicketsInv
<1>13. \A d, e \in Outstanding' : lockval'[d] = lockval'[e] => d = e
  BY <1>1, <1>2, <1>12 DEF TicketsInv
<1>14. \A d \in CPU : pc'[d] = "held" => lockval'[d] = owner'
  BY <1>1 DEF TicketsInv, StoreNext, Goto
<1> QED
  BY <1>1, <1>3, <1>6, <1>7, <1>11, <1>13, <1>14 DEF TicketsInv

\* unlock() uses up the ticket being served: the ring gets one shorter.
LEMMA UnlockStep ==
    ASSUME LockTypeOK, TicketsInv, NEW c \in CPU, Unlock(c)
    PROVE  TicketsInv'
<1> USE TicketAssumption DEF LockTypeOK, Ticket
<1>1. /\ c \in Outstanding /\ lockval[c] = owner
      /\ owner' = Inc(owner) /\ next' = next /\ lockval' = lockval /\ monitor' = monitor
      /\ pc'[c] = "out" /\ \A d \in CPU \ {c} : pc'[d] = pc[d]
  BY DEF Unlock, Goto, TicketsInv, Outstanding
<1>2. Outstanding' = Outstanding \ {c}
  BY <1>1 DEF Outstanding
<1>3. Cardinality(Outstanding') = Cardinality(Outstanding) - 1
  BY <1>1, <1>2, OutstandingFinite, FS_RemoveElement
<1>4. Behind(next) = Cardinality(Outstanding) /\ Outstanding \subseteq CPU
  BY DEF TicketsInv, Outstanding
<1>5. Behind(lockval[c]) = 0 /\ Behind(lockval[c]) < Behind(next)
  BY <1>1 DEF Behind, TicketsInv
<1>6. Behind(next)' = Behind(next) - 1
  BY <1>1, <1>5 DEF Behind, Inc
<1>7. ASSUME NEW d \in Outstanding' PROVE Behind(lockval[d])' = Behind(lockval[d]) - 1
  <2>1. d \in CPU /\ lockval[d] # owner
    BY <1>1, <1>2, <1>4 DEF TicketsInv
  <2> QED
    BY <1>1, <2>1 DEF Behind, Inc
<1>8. \A d \in Outstanding' : Behind(lockval[d])' < Behind(next)'
  BY <1>2, <1>4, <1>6, <1>7 DEF TicketsInv, Behind
<1>9. \A d, e \in Outstanding' : lockval'[d] = lockval'[e] => d = e
  BY <1>1, <1>2 DEF TicketsInv
<1>10. \A d \in CPU : pc'[d] # "held"
  <2> SUFFICES ASSUME NEW d \in CPU, pc'[d] = "held" PROVE FALSE
    OBVIOUS
  <2>1. d # c /\ d \in Outstanding /\ lockval[d] = owner
    BY <1>1 DEF TicketsInv, Outstanding
  <2> QED
    BY <1>1, <2>1 DEF TicketsInv
<1>11. \A d \in monitor : ~(pc[d] = "try_stxr")
  <2> SUFFICES ASSUME NEW d \in monitor, pc[d] = "try_stxr" PROVE FALSE
    OBVIOUS
  <2>1. lockval[d] = owner /\ lockval[d] = next
    BY DEF TicketsInv
  <2> QED
    BY <1>1, <1>5, <2>1
<1>12. \A d \in monitor' : pc'[d] \in {"stxr", "try_cmp", "try_stxr"} => lockval'[d] = next'
  BY <1>1 DEF TicketsInv
<1>13. \A d \in monitor' : pc'[d] = "try_stxr" => lockval'[d] = owner'
  BY <1>1, <1>11
<1> QED
  BY <1>3, <1>4, <1>6, <1>8, <1>9, <1>10, <1>12, <1>13 DEF TicketsInv

\* The other steps move one CPU to another instruction and take or return no
\* ticket; a load-exclusive reads `next` and sets the monitor, the remaining
\* ones only compare.
LEMMA TicketsStep == LockTypeOK /\ TicketsInv /\ [LockNext]_lvars => TicketsInv'
<1> SUFFICES ASSUME LockTypeOK, TicketsInv, [LockNext]_lvars PROVE TicketsInv'
  OBVIOUS
<1> USE DEF LockTypeOK
<1>1. ASSUME Outstanding' = Outstanding, next' = next, owner' = owner,
             \A c \in Outstanding : lockval'[c] = lockval[c],
             \A c \in CPU : pc'[c] = "held" => lockval'[c] = owner,
             \A c \in monitor' : pc'[c] \in {"stxr", "try_cmp", "try_stxr"} => lockval'[c] = next,
             \A c \in monitor' : pc'[c] = "try_stxr" => lockval'[c] = owner
      PROVE  TicketsInv'
  BY <1>1 DEF TicketsInv, Behind
<1>2. ASSUME NEW c \in CPU, CallLock(c) \/ CallTryLock(c) PROVE TicketsInv'
  <2>1. Outstanding' = Outstanding
    BY <1>2 DEF CallLock, CallTryLock, Goto, Outstanding
  <2> QED
    BY <1>1, <1>2, <2>1 DEF CallLock, CallTryLock, Goto, TicketsInv
<1>3. ASSUME NEW c \in CPU,
             LoadNext(c, "ldaxr", "stxr") \/ LoadNext(c, "try_ldaxr", "try_cmp")
      PROVE  TicketsInv'
  <2>1. Outstanding' = Outstanding
    BY <1>3 DEF LoadNext, Goto, Outstanding
  <2>2. c \notin Outstanding
    BY <1>3 DEF LoadNext, Goto, Outstanding
  <2>3. \A d \in Outstanding : lockval'[d] = lockval[d]
    BY <1>3, <2>2 DEF LoadNext, Outstanding
  <2> QED
    BY <1>1, <1>3, <2>1, <2>3 DEF LoadNext, Goto, TicketsInv
<1>4. ASSUME NEW c \in CPU,
             StoreFails(c, "stxr", "ldaxr") \/ StoreFails(c, "try_stxr", "try_ldaxr")
      PROVE  TicketsInv'
  <2>1. Outstanding' = Outstanding
    BY <1>4 DEF StoreFails, Goto, Outstanding
  <2> QED
    BY <1>1, <1>4, <2>1 DEF StoreFails, Goto, TicketsInv
<1>5. ASSUME NEW c \in CPU, Spin(c) \/ TryCompare(c) PROVE TicketsInv'
  <2>1. Outstanding' = Outstanding
    BY <1>5 DEF Spin, TryCompare, Goto, Outstanding
  <2> QED
    BY <1>1, <1>5, <2>1 DEF Spin, TryCompare, Goto, TicketsInv
<1>6. CASE UNCHANGED lvars
  <2>1. Outstanding' = Outstanding
    BY <1>6 DEF lvars, Outstanding
  <2> QED
    BY <1>1, <1>6, <2>1 DEF lvars, TicketsInv
<1> QED
  BY <1>2, <1>3, <1>4, <1>5, <1>6, StoreStep, UnlockStep
     DEF LockNext, LockStep, Lock, TryLock

\* lock_init leaves a ring without tickets.
LEMMA InitInv == LockInit => LockTypeOK /\ TicketsInv
<1> SUFFICES ASSUME LockInit PROVE LockTypeOK /\ TicketsInv
  OBVIOUS
<1>1. Outstanding = {}
  BY DEF LockInit, Outstanding
<1>2. Cardinality(Outstanding) = 0
  BY <1>1, FS_EmptySet
<1>3. Cardinality(CPU) \in Nat
  BY TicketAssumption, FS_CardinalityType
<1> QED
  BY <1>1, <1>2, <1>3, TicketAssumption
     DEF LockInit, LockTypeOK, TicketsInv, Behind, Ticket, Label

\* The tickets handed out by lock() and try_lock() and not yet used up by
\* unlock() are distinct and fill the ring from owner to next, however often
\* the u32 counters wrap around.
THEOREM TicketsCorrect == LockSpec => [](LockTypeOK /\ TicketsInv)
<1>1. LockTypeOK /\ TicketsInv /\ [LockNext]_lvars => (LockTypeOK /\ TicketsInv)'
  BY TypeStep, TicketsStep
<1> QED
  BY <1>1, InitInv, PTL DEF LockSpec

\* No two CPUs are between lock() (or a try_lock() that succeeded) and
\* unlock().
THEOREM LockExcludes == LockSpec => []MutualExclusion
<1>1. LockTypeOK /\ TicketsInv => MutualExclusion
  BY DEF TicketsInv, MutualExclusion, Outstanding
<1> QED
  BY <1>1, TicketsCorrect, PTL

\* is_locked() is true for a holder: the BUG_ON of unlock_kernel is silent.
THEOREM HolderLocked == LockSpec => []HolderSeesLocked
<1>1. LockTypeOK /\ TicketsInv => HolderSeesLocked
  <2> SUFFICES ASSUME LockTypeOK, TicketsInv, NEW c \in CPU, pc[c] = "held"
               PROVE  is_locked
    BY DEF HolderSeesLocked
  <2>1. Behind(lockval[c]) < Behind(next) /\ lockval[c] = owner
    BY DEF TicketsInv, Outstanding
  <2> QED
    BY <2>1 DEF Behind, is_locked, LockTypeOK, Ticket
<1> QED
  BY <1>1, TicketsCorrect, PTL
=============================================================================
