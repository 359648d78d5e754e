----------------------------- MODULE Semaphore ------------------------------
(***************************************************************************)
(* Kernel semaphores (kernel/semaphore/semaphore.c) over the scheduler:    *)
(* waiting blocks the current thread and schedules, signalling enqueues    *)
(* the first waiting thread.  A semaphore's fields are functions on Sem;   *)
(* `sems` holds the semaphores created so far.                             *)
(***************************************************************************)
EXTENDS RRSched

CONSTANTS Sem,          \* semaphores that can be created
          MaxSemCount   \* bound: no signal when the count is this high

ASSUME SemAssumption == MaxSemCount \in Nat

VARIABLES sems, sem_count, waiting_threads_count, waiting_threads

semvars == <<sems, sem_count, waiting_threads_count, waiting_threads>>
ssvars == <<svars, semvars>>

SemTypeOK == /\ SchedTypeOK
             /\ sems \in SUBSET Sem
             /\ sem_count \in [Sem -> 0 .. MaxSemCount]
             /\ waiting_threads_count \in [Sem -> Nat]
             /\ waiting_threads \in [Sem -> Seq(User \union Shadow)]

SemInit == /\ SchedInit
           /\ sems = {}
           /\ sem_count = [s \in Sem |-> 0]
           /\ waiting_threads_count = [s \in Sem |-> 0]
           /\ waiting_threads = [s \in Sem |-> <<>>]

\* sys_create_sem: a fresh object and init_sem.
sys_create_sem(c) == /\ InUser(c)
                     /\ \E s \in Sem \ sems :
                          /\ sems' = sems \union {s}
                          /\ sem_count' = [sem_count EXCEPT ![s] = 0]
                          /\ waiting_threads_count' = [waiting_threads_count EXCEPT ![s] = 0]
                          /\ waiting_threads' = [waiting_threads EXCEPT ![s] = <<>>]
                     /\ UNCHANGED svars

\* mutant: a unit is taken although there is none
WaitTakesTooMuch(c, s) == /\ sem_count[s] >= 0
                          /\ sem_count' = [sem_count EXCEPT ![s] = @ - 1]
                          /\ UNCHANGED <<sems, waiting_threads_count, waiting_threads, svars>>

\* wait_sem takes a unit if there is one ...
WaitTakes(c, s) == /\ sem_count[s] > 0
                   /\ sem_count' = [sem_count EXCEPT ![s] = @ - 1]
                   /\ UNCHANGED <<sems, waiting_threads_count, waiting_threads, svars>>

\* ... blocks the current thread if it may (otherwise it returns -EAGAIN).
WaitBlocks(c, s) ==
    /\ sem_count[s] = 0
    /\ waiting_threads' = [waiting_threads EXCEPT ![s] = Append(@, current[c])]
    /\ waiting_threads_count' = [waiting_threads_count EXCEPT ![s] = @ + 1]
    /\ Commit(rr_sched(c, [K EXCEPT !.state[current[c]] = "TS_WAITING"]))
    /\ UNCHANGED <<sems, sem_count>>

sys_wait_sem(c) == InUser(c) /\ \E s \in sems : WaitTakes(c, s) \/ WaitBlocks(c, s)

\* mutant: the unit is counted although somebody waits
SignalCountsAlways(c, s) == /\ sem_count[s] < MaxSemCount
                            /\ sem_count' = [sem_count EXCEPT ![s] = @ + 1]
                            /\ UNCHANGED <<sems, waiting_threads_count, waiting_threads, svars>>

\* signal_sem counts if nobody waits ...
SignalCounts(c, s) == /\ waiting_threads_count[s] = 0
                      /\ sem_count[s] < MaxSemCount
                      /\ sem_count' = [sem_count EXCEPT ![s] = @ + 1]
                      /\ UNCHANGED <<sems, waiting_threads_count, waiting_threads, svars>>

\* mutant: the thread leaves the list and is not enqueued
SignalForgets(c, s) ==
    /\ waiting_threads_count[s] # 0
    /\ waiting_threads_count' = [waiting_threads_count EXCEPT ![s] = @ - 1]
    /\ waiting_threads' = [waiting_threads EXCEPT ![s] = Tail(@)]
    /\ UNCHANGED <<sems, sem_count, svars>>

\* ... and otherwise makes the first waiting thread ready.  What
\* sched_enqueue returns is ignored.
SignalWakes(c, s) ==
    /\ waiting_threads_count[s] # 0
    /\ waiting_threads_count' = [waiting_threads_count EXCEPT ![s] = @ - 1]
    /\ waiting_threads' = [waiting_threads EXCEPT ![s] = Tail(@)]
    /\ Commit(rr_sched_enqueue(c, Head(waiting_threads[s]), K))
    /\ UNCHANGED <<sems, sem_count>>

sys_signal_sem(c) == InUser(c) /\ \E s \in sems : SignalCounts(c, s) \/ SignalWakes(c, s)

SemStep(c) == sys_create_sem(c) \/ sys_wait_sem(c) \/ sys_signal_sem(c)

SemNext == \/ SchedNext /\ UNCHANGED semvars
           \/ \E c \in CPU : SemStep(c)

SemSpec == SemInit /\ [][SemNext]_ssvars /\ TimerFairness
-----------------------------------------------------------------------------
\* Positions of t in lists of waiting threads.
BlockedAt(t) ==
    UNION {{s} \X {i \in DOMAIN waiting_threads[s] : waiting_threads[s][i] = t} : s \in Sem}

\* wait_sem and signal_sem: the count of waiting threads is the length of the
\* list, and nobody waits while the semaphore has units left.
SemCountsAgree == corrupt \/ \A s \in Sem :
    /\ waiting_threads_count[s] = Len(waiting_threads[s])
    /\ sem_count[s] > 0 => waiting_threads[s] = <<>>

\* How many places t is in.
Places(t) == Cardinality(RunsOn(t)) + Cardinality(ReadyAt(t)) + Cardinality(BlockedAt(t))

\* No thread is lost or duplicated: one that exists and has not exited is
\* current on one CPU, or in one ready queue, or waiting for one semaphore.
NoThreadLost == corrupt \/
    \A t \in User : Places(t) = IF Exists(t) /\ ~Exited(t) THEN 1 ELSE 0
=============================================================================
