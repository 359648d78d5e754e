----------------------------- MODULE TicketLock -----------------------------
(***************************************************************************)
(* The ticket lock of kernel/arch/aarch64/sync/ticket.c, instruction by    *)
(* instruction where another CPU can observe or disturb it.                *)
(*                                                                         *)
(* `next` and `owner` are the two words of struct lock_impl.  A CPU inside *)
(* lock() or try_lock() is at the instruction pc[c]; lockval[c] is the     *)
(* register that the load-exclusive filled; `monitor` holds the CPUs whose *)
(* exclusive monitor is still set.  A store-exclusive stores only with the *)
(* monitor set, and may fail although it is set: the architecture allows   *)
(* it, and the neighbouring store to `owner` can cause it.                 *)
(***************************************************************************)
EXTENDS Integers, FiniteSets, Sequences

CONSTANTS CPU,        \* the CPUs that use the lock
          TicketMod   \* tickets are counted modulo this; 2^32 for the u32 words

\* Tickets wrap around: they must outnumber the CPUs, or two would share one.
ASSUME TicketAssumption == /\ IsFiniteSet(CPU)
                           /\ TicketMod \in Nat
                           /\ Cardinality(CPU) < TicketMod

VARIABLES next, owner, pc, lockval, monitor

lvars == <<next, owner, pc, lockval, monitor>>

Ticket == 0 .. TicketMod - 1

Label == {"out", "ldaxr", "stxr", "spin", "held", "try_ldaxr", "try_cmp", "try_stxr"}

LockTypeOK == /\ next \in Ticket /\ owner \in Ticket
              /\ pc \in [CPU -> Label]
              /\ lockval \in [CPU -> Ticket]
              /\ monitor \in SUBSET CPU

\* mutant: a counter that does not wrap around
IncUnbounded(t) == t + 1

\* u32 addition of one.
Inc(t) == IF t = TicketMod - 1 THEN 0 ELSE t + 1

\* How many tickets t is behind the one being served.
Behind(t) == IF t >= owner THEN t - owner ELSE t - owner + TicketMod

\* lock_init; nobody is inside the lock's functions.
LockInit == /\ next = 0 /\ owner = 0
            /\ pc = [c \in CPU |-> "out"]
            /\ lockval = [c \in CPU |-> 0]
            /\ monitor = {}

Goto(c, from, to) == pc[c] = from /\ pc' = [pc EXCEPT ![c] = to]

\* A caller enters lock(), or try_lock().
CallLock(c) == Goto(c, "out", "ldaxr") /\ UNCHANGED <<next, owner, lockval, monitor>>

CallTryLock(c) == Goto(c, "out", "try_ldaxr") /\ UNCHANGED <<next, owner, lockval, monitor>>

\* 1: ldaxr lockval, next
LoadNext(c, from, to) == /\ Goto(c, from, to)
                         /\ lockval' = [lockval EXCEPT ![c] = next]
                         /\ monitor' = monitor \union {c}
                         /\ UNCHANGED <<next, owner>>

\* mutants: the store ignores this CPU's monitor, leaves those of the others
StoreNextPlain(c, from, to) == /\ Goto(c, from, to)
                               /\ next' = Inc(lockval[c])
                               /\ monitor' = {}
                               /\ UNCHANGED <<owner, lockval>>

StoreNextLocal(c, from, to) == /\ Goto(c, from, to)
                               /\ c \in monitor
                               /\ next' = Inc(lockval[c])
                               /\ monitor' = monitor \ {c}
                               /\ UNCHANGED <<owner, lockval>>

\* stxr newval, next: the store succeeds and clears every CPU's monitor ...
StoreNext(c, from, to) == /\ Goto(c, from, to)
                          /\ c \in monitor
                          /\ next' = Inc(lockval[c])
                          /\ monitor' = {}
                          /\ UNCHANGED <<owner, lockval>>

\* ... or it fails, and cbnz goes back to the load.
StoreFails(c, from, to) == /\ Goto(c, from, to)
                           /\ monitor' = monitor \ {c}
                           /\ UNCHANGED <<next, owner, lockval>>

\* 2: ldar owner; cmp; b.ne 2b: the loop is left once the ticket is served.
Spin(c) == /\ owner = lockval[c]
           /\ Goto(c, "spin", "held")
           /\ UNCHANGED <<next, owner, lockval, monitor>>

\* mutant: a failed store is not retried
LockGivesUp(c) == \/ LoadNext(c, "ldaxr", "stxr")
                  \/ StoreNext(c, "stxr", "spin")
                  \/ StoreFails(c, "stxr", "out")
                  \/ Spin(c)

\* lock() after CallLock
Lock(c) == \/ LoadNext(c, "ldaxr", "stxr")
           \/ StoreNext(c, "stxr", "spin")
           \/ StoreFails(c, "stxr", "ldaxr")
           \/ Spin(c)

\* mutant: a taken lock is tried for
TryCompareSkipped(c) == Goto(c, "try_cmp", "try_stxr") /\ UNCHANGED <<next, owner, lockval, monitor>>

\* ldar owner; cmp: only a free lock is tried for; a taken one fails with -1.
TryCompare(c) == /\ IF owner = lockval[c]
                    THEN Goto(c, "try_cmp", "try_stxr")
                    ELSE Goto(c, "try_cmp", "out")
                 /\ UNCHANGED <<next, owner, lockval, monitor>>

\* try_lock() after CallTryLock
TryLock(c) == \/ LoadNext(c, "try_ldaxr", "try_cmp")
              \/ TryCompare(c)
              \/ StoreNext(c, "try_stxr", "held")
              \/ StoreFails(c, "try_stxr", "try_ldaxr")

\* unlock(), by the CPU that holds the lock.
Unlock(c) == /\ Goto(c, "held", "out")
             /\ owner' = Inc(owner)
             /\ UNCHANGED <<next, lockval, monitor>>

\* mutant: tickets compared as numbers
IsLockedBelow == owner < next

is_locked == owner # next

LockStep(c) == CallLock(c) \/ CallTryLock(c) \/ Lock(c) \/ TryLock(c) \/ Unlock(c)

LockNext == \E c \in CPU : LockStep(c)

(***************************************************************************)
(* Fairness: a CPU keeps executing instructions, every holder unlocks (the *)
(* kernel's critical sections are finite), and a store-exclusive that is   *)
(* retried for ever succeeds at last, as the architecture promises for a   *)
(* loop as short as these.                                                 *)
(***************************************************************************)
LockFairness == \A c \in CPU : /\ WF_lvars(Lock(c)) /\ WF_lvars(Unlock(c))
                               /\ SF_lvars(StoreNext(c, "stxr", "spin"))

LockSpec == LockInit /\ [][LockNext]_lvars /\ LockFairness
-----------------------------------------------------------------------------
\* The CPUs that own a ticket not yet used up.
Outstanding == {c \in CPU : pc[c] \in {"spin", "held"}}

\* lock()/unlock(): no two CPUs are between lock() and unlock() at once.
MutualExclusion == \A c, d \in CPU : pc[c] = "held" /\ pc[d] = "held" => c = d

\* unlock_kernel's BUG_ON(!is_locked(..)) cannot fire for a holder, even when
\* `next` has wrapped around to a smaller number than `owner`.
HolderSeesLocked == \A c \in CPU : pc[c] = "held" => is_locked

(***************************************************************************)
(* The tickets given out and not used up are distinct, lie between owner   *)
(* and next on the ring of tickets, and are as many as that distance; a    *)
(* holder has the ticket being served; a store-exclusive that can still    *)
(* succeed would store the successor of the current `next`, and a try_lock *)
(* that found the lock free and can still succeed finds it free.           *)
(***************************************************************************)
TicketsInv ==
    /\ \A c \in Outstanding : Behind(lockval[c]) < Behind(next)
    /\ \A c, d \in Outstanding : lockval[c] = lockval[d] => c = d
    /\ Behind(next) = Cardinality(Outstanding)
    /\ \A c \in CPU : pc[c] = "held" => lockval[c] = owner
    /\ \A c \in monitor : pc[c] \in {"stxr", "try_cmp", "try_stxr"} => lockval[c] = next
    /\ \A c \in monitor : pc[c] = "try_stxr" => lockval[c] = owner

\* lock(): a CPU that asks for the lock gets it.
EveryRequestServed == \A c \in CPU : (pc[c] = "ldaxr") ~> (pc[c] = "held")

(***************************************************************************)
(* The ticket lock implements the FIFO mutex: the queue is the CPUs with   *)
(* an outstanding ticket, the ticket being served first.                   *)
(***************************************************************************)
TicketQueue == [i \in 1 .. Behind(next) |->
                  CHOOSE c \in Outstanding : Behind(lockval[c]) = i - 1]

Fifo == INSTANCE FifoLock WITH q <- TicketQueue,
                               granted <- \E c \in CPU : pc[c] = "held"

RefinesFifo == Fifo!FifoSpec
=============================================================================
