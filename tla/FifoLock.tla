------------------------------ MODULE FifoLock ------------------------------
(***************************************************************************)
(* What ChCore's locks promise their callers: a mutex whose requests are   *)
(* granted in the order in which they were made.  `q` is the queue of the  *)
(* CPUs that have asked for the lock and not yet released it, in the order *)
(* of their requests; `granted` says whether its head has been let in.     *)
(***************************************************************************)
EXTENDS Sequences

CONSTANT CPU        \* the CPUs that share the lock
VARIABLES q, granted

fvars == <<q, granted>>

Queued(c) == \E i \in DOMAIN q : q[i] = c

FifoInit == q = <<>> /\ granted = FALSE

\* lock(): the request joins the queue.
Request(c) == /\ ~Queued(c)
              /\ q' = Append(q, c)
              /\ UNCHANGED granted

\* lock() returns to the CPU whose request is the oldest.
Grant == /\ q # <<>> /\ ~granted
         /\ granted' = TRUE
         /\ UNCHANGED q

\* try_lock() takes a lock nobody wants, in one step.
TryGrant(c) == /\ q = <<>> /\ ~granted
               /\ q' = <<c>>
               /\ granted' = TRUE

\* unlock() by the holder, the head of the queue.
Release == /\ granted
           /\ q' = Tail(q)
           /\ granted' = FALSE

FifoNext == \/ Grant \/ Release
            \/ \E c \in CPU : Request(c) \/ TryGrant(c)

FifoSpec == FifoInit /\ [][FifoNext]_fvars
=============================================================================
