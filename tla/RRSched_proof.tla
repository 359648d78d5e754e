---------------------------- MODULE RRSched_proof ----------------------------
(***************************************************************************)
(* Proofs about the scheduler for every number of CPUs and threads, every  *)
(* budget and every set of values passed to sys_set_affinity: each handler *)
(* of RRSched keeps SchedInv, from the lemma that rr_sched restores it,    *)
(* and SchedInv implies the other invariants.  They hold as long as        *)
(* rr_sched_enqueue has not written outside the ready queues; NeverCorrupt *)
(* says that this takes an affinity below NO_AFF.                          *)
(***************************************************************************)
EXTENDS RRSched_lemmas

\* Between two handlers rr_sched can be called.
LEMMA InvTransit ==
    ASSUME NEW c \in CPU, NEW k, MemoryInv(k)
    PROVE  Transit(c, k)
<1>1. CurrentInv(c, k)
  BY DEF MemoryInv
<1>2. ASSUME k.current[c] # NULL, NEW d \in CPU \ {c} PROVE k.current[d] # k.current[c]
  BY <1>2, <1>1, SMTT(30) DEF MemoryInv, CurrentInv
<1> QED
  BY <1>1, <1>2 DEF MemoryInv, Transit, CurrentInv

\* The current thread has a context to run on.
LEMMA CurrentContext ==
    ASSUME NEW c \in CPU, NEW k, MemoryInv(k), k.current[c] # NULL
    PROVE  k \in Memory /\ k.sc[k.current[c]] \in Context /\ k.sc[k.current[c]] # NULL
<1>1. k \in Memory /\ CurrentInv(c, k)
  BY DEF MemoryInv
<1>2. /\ k.current \in [CPU -> Thread \union {NULL}]
      /\ k.sc \in [Thread -> Context \union {NULL}]
  BY <1>1, Fields
<1>3. k.sc[k.current[c]] # NULL
  BY <1>1 DEF CurrentInv
<1>4. k.current[c] \in Thread
  BY <1>2
<1> QED
  BY <1>1, <1>2, <1>3, <1>4

\* The current thread may lose budget.
LEMMA RebudgetTransit ==
    ASSUME NEW c \in CPU, NEW k, MemoryInv(k), k.current[c] # NULL,
           NEW v, NEW e, Rebudgeted(k.sc[k.current[c]], v, k, e)
    PROVE  Transit(c, e)
<1>1. k.budget \in [Context -> 0 .. DEFAULT_BUDGET]
  BY Fields DEF MemoryInv
<1>2. CurrentInv(c, k) /\ Transit(c, k)
  BY InvTransit DEF MemoryInv
<1>3. WantsCpu(c, e)
  BY <1>2 DEF WantsCpu, CurrentInv, Rebudgeted
<1>4. \A s \in Context : e.budget[s] = 0 => s = e.sc[e.current[c]]
  BY <1>1, SMTT(30) DEF MemoryInv, Rebudgeted
<1>5. QueueInv(e) /\ ThreadInv(e) /\ \A d \in CPU \ {c} : CurrentInv(d, e)
  BY RebudgetKeeps DEF MemoryInv
<1> QED
  BY <1>2, <1>3, <1>4, <1>5, SMTT(30) DEF Transit, Rebudgeted

\* sched_handle_timer_irq takes a tick from the current thread.
LEMMA TickedTransit ==
    ASSUME NEW c \in CPU, NEW k, MemoryInv(k), k.current[c] # NULL
    PROVE  Transit(c, Ticked(c, k))
<1> DEFINE s == k.sc[k.current[c]]
           v == k.budget[s] - 1
<1>1. k \in Memory /\ s \in Context
  BY CurrentContext
<1>2. k.budget[s] # 0 /\ s # NULL /\ v \in 0 .. DEFAULT_BUDGET
  <2>1. k.budget[s] \in 0 .. DEFAULT_BUDGET /\ k.budget[s] # 0
    BY <1>1, Fields DEF MemoryInv
  <2> QED
    BY <2>1, <1>1, Kinds, BudgetAssumption, SMTT(30)
<1>3. Ticked(c, k) = [k EXCEPT !.budget[s] = v]
  BY <1>1, <1>2, Fields DEF Ticked
<1>4. Rebudgeted(s, v, k, Ticked(c, k))
  <2> HIDE DEF s, v
  <2> QED
    BY <1>1, <1>2, <1>3, BudgetFields
<1> QED
  BY <1>4, RebudgetTransit

\* sys_yield empties the budget of its caller.
LEMMA YieldTransit ==
    ASSUME NEW c \in CPU, NEW k, MemoryInv(k), k.current[c] # NULL
    PROVE  Transit(c, [k EXCEPT !.budget[k.sc[k.current[c]]] = 0])
<1> DEFINE s == k.sc[k.current[c]]
<1>1. k \in Memory /\ s \in Context
  BY CurrentContext
<1>2. Rebudgeted(s, 0, k, [k EXCEPT !.budget[s] = 0])
  <2>1. 0 \in 0 .. DEFAULT_BUDGET
    BY BudgetAssumption
  <2> HIDE DEF s
  <2> QED
    BY <1>1, <2>1, BudgetFields
<1> QED
  BY <1>2, RebudgetTransit

\* sys_thread_exit marks its caller.
LEMMA ExitTransit ==
    ASSUME NEW c \in CPU, NEW k, MemoryInv(k), k.current[c] \in User \union Shadow
    PROVE  Transit(c, [k EXCEPT !.thread_exit_state[k.current[c]] = "TE_EXITING"])
<1> DEFINE t == k.current[c]
           e == [k EXCEPT !.thread_exit_state[t] = "TE_EXITING"]
<1>1. k \in Memory /\ Transit(c, k) /\ t \in Thread /\ t \notin Idle /\ t # NULL
  BY InvTransit, Kinds DEF MemoryInv
<1>2. k.thread_exit_state \in [Thread -> ExitState]
  BY <1>1, Fields
<1>3. /\ e.thread_exit_state = [k.thread_exit_state EXCEPT ![t] = "TE_EXITING"]
      /\ e.state = k.state /\ e.cpuid = k.cpuid /\ e.sc = k.sc /\ e.budget = k.budget
      /\ e.queue = k.queue /\ e.queue_len = k.queue_len
      /\ e.current = k.current /\ e.bug = k.bug
  BY <1>1 DEF Memory
<1>4. e \in Memory
  <2>1. [k.thread_exit_state EXCEPT ![t] = "TE_EXITING"] \in [Thread -> ExitState]
    BY <1>1, <1>2 DEF ExitState
  <2> QED
    BY <1>1, <2>1, Zenon DEF Memory
<1> HIDE DEF e
<1>5. QueueInv(e)
  BY <1>3 DEF MemoryInv, QueueInv
<1>6. ThreadInv(e)
  <2>1. k.state[t] = "TS_RUNNING"
    BY <1>1 DEF MemoryInv, CurrentInv
  <2> HIDE DEF t
  <2> QED
    BY <2>1, <1>1, <1>2, <1>3 DEF MemoryInv, ThreadInv
<1>7. ASSUME NEW d \in CPU \ {c} PROVE CurrentInv(d, e)
  <2>1. CurrentInv(d, k) /\ k.current[d] # t /\ k.current[d] \in Thread \union {NULL}
    BY <1>1, Fields DEF Transit
  <2> QED
    BY <2>1, <1>1, <1>2, <1>3, SMTT(30) DEF CurrentInv
<1>8. \A s \in Context : e.budget[s] # 0
  BY <1>3 DEF MemoryInv
<1> QED
  BY <1>1, <1>3, <1>4, <1>5, <1>6, <1>7, <1>8 DEF Transit, e

\* sys_set_affinity, and create_root_thread's binding to CPU 0.
LEMMA AffinityInv ==
    ASSUME NEW k, MemoryInv(k), NEW t \in Thread, NEW aff \in Affinity
    PROVE  LET e == [k EXCEPT !.affinity[t] = aff] IN
           MemoryInv(e) /\ e.state = k.state /\ e.current = k.current
<1> DEFINE e == [k EXCEPT !.affinity[t] = aff]
<1>1. k \in Memory
  BY DEF MemoryInv
<1>2. /\ e.thread_exit_state = k.thread_exit_state
      /\ e.state = k.state /\ e.cpuid = k.cpuid /\ e.sc = k.sc /\ e.budget = k.budget
      /\ e.queue = k.queue /\ e.queue_len = k.queue_len
      /\ e.current = k.current /\ e.bug = k.bug
  BY <1>1 DEF Memory
<1>3. e \in Memory
  <2>1. [k.affinity EXCEPT ![t] = aff] \in [Thread -> Affinity]
    BY <1>1, Fields
  <2> QED
    BY <1>1, <2>1, Zenon DEF Memory
<1> HIDE DEF e
<1>4. QueueInv(e) /\ ThreadInv(e) /\ \A c \in CPU : CurrentInv(c, e)
  BY <1>2 DEF MemoryInv, QueueInv, ThreadInv, CurrentInv
<1>5. MemoryInv(e)
  BY <1>2, <1>3, <1>4 DEF MemoryInv
<1> QED
  BY <1>2, <1>5 DEF e

\* A thread that does not exist yet is fit to be enqueued and runs nowhere.
LEMMA NewThread ==
    ASSUME NEW k, MemoryInv(k), NEW t \in User, k.state[t] = "TS_INIT"
    PROVE  /\ t \in Thread /\ k.thread_exit_state[t] = "TE_RUNNING" /\ k.sc[t] # NULL
           /\ \A d \in CPU : k.current[d] # t
<1>1. t \in Thread /\ t \in Context /\ t # NULL
  BY Kinds
<1>2. k.thread_exit_state[t] = "TE_RUNNING" /\ k.sc[t] # NULL
  BY <1>1 DEF MemoryInv, ThreadInv
<1>3. ASSUME NEW d \in CPU PROVE k.current[d] # t
  BY <1>1 DEF MemoryInv, CurrentInv
<1> QED
  BY <1>1, <1>2, <1>3

\* Enqueueing a thread that runs nowhere leaves the current threads alone.
LEMMA JoinedCurrent ==
    ASSUME NEW k \in Memory, NEW t, NEW e, Joined(t, k, e), NEW d \in CPU,
           CurrentInv(d, k), k.current[d] # t
    PROVE  CurrentInv(d, e)
<1>1. k.current[d] \in Thread \union {NULL}
  BY Fields
<1> QED
  BY <1>1, SMTT(30) DEF CurrentInv, Joined

\* main: the root thread is created and enqueued, with an affinity of 0.
LEMMA BootTransit ==
    ASSUME NEW k, MemoryInv(k), k.current[0] = NULL, k.affinity[Root] = 0
    PROVE  Transit(0, BugOn(EnqueueRefuses(Root, k), rr_sched_enqueue(0, Root, k)))
<1> DEFINE e == BugOn(EnqueueRefuses(Root, k), rr_sched_enqueue(0, Root, k))
<1>1. 0 \in CPU /\ Root \in User /\ k.state[Root] = "TS_INIT"
  BY CpuAssumption, Kinds DEF CPU, MemoryInv
<1>2. /\ Root \in Thread /\ k.thread_exit_state[Root] = "TE_RUNNING" /\ k.sc[Root] # NULL
      /\ \A d \in CPU : k.current[d] # Root
  BY <1>1, NewThread
<1>3. Joined(Root, k, e)
  <2>1. QueueIndex(0, Root, k) \in CPU
    BY <1>1 DEF QueueIndex, NO_AFF
  <2> QED
    BY <1>1, <1>2, <2>1, EnqueueJoins DEF MemoryInv
<1> HIDE DEF e
<1>4. \A d \in CPU \ {0} : CurrentInv(d, e)
  BY <1>2, <1>3, JoinedCurrent, SMTT(30) DEF MemoryInv
<1>5. Transit(0, e)
  BY <1>3, <1>4 DEF Transit, MemoryInv, Joined
<1> QED
  BY <1>5 DEF e

\* sys_create_thread: the new thread is enqueued, or put outside the queues.
LEMMA CreateInv ==
    ASSUME NEW c \in CPU, NEW m, MemoryInv(m),
           NEW t \in User \ {Root}, m.state[t] = "TS_INIT",
           NEW k, k = [m EXCEPT !.state[t] = "TS_INTER"]
    PROVE  LET e == BugOn(EnqueueRefuses(t, k), rr_sched_enqueue(c, t, k)) IN
           MemoryInv(e) \/ e.corrupt
<1> DEFINE e == BugOn(EnqueueRefuses(t, k), rr_sched_enqueue(c, t, k))
<1>1. m \in Memory
  BY DEF MemoryInv
<1>f. /\ m.state \in [Thread -> ThreadState] /\ m.cpuid \in [Thread -> CPU]
      /\ m.queue \in [CPU -> Seq(User \union Shadow)] /\ m.queue_len \in [CPU -> Nat]
  BY <1>1, Fields
<1>2. /\ t \in Thread /\ m.thread_exit_state[t] = "TE_RUNNING" /\ m.sc[t] # NULL
      /\ \A d \in CPU : m.current[d] # t
  BY NewThread
<1>3. /\ k.state = [m.state EXCEPT ![t] = "TS_INTER"]
      /\ k.thread_exit_state = m.thread_exit_state
      /\ k.cpuid = m.cpuid /\ k.sc = m.sc /\ k.budget = m.budget
      /\ k.queue = m.queue /\ k.queue_len = m.queue_len
      /\ k.current = m.current /\ k.bug = m.bug
  BY <1>1 DEF Memory
<1>4. k \in Memory
  <2>1. [m.state EXCEPT ![t] = "TS_INTER"] \in [Thread -> ThreadState]
    BY <1>2, <1>f DEF ThreadState
  <2> QED
    BY <1>1, <2>1, Zenon DEF Memory
<1>5. k.state[t] = "TS_INTER" /\ \A u \in Thread \ {t} : k.state[u] = m.state[u]
  BY <1>2, <1>3, <1>f
<1>6. QueueInv(k)
  <2>1. Queues(m.queue, m.queue_len, m.state, m.cpuid)
    BY QueueInvFields DEF MemoryInv
  <2>2. Queues(m.queue, m.queue_len, [m.state EXCEPT ![t] = "TS_INTER"],
               [m.cpuid EXCEPT ![t] = m.cpuid[t]])
    BY <2>1, <1>2, <1>f, OtherKeeps, Zenon
  <2>3. [m.cpuid EXCEPT ![t] = m.cpuid[t]] = m.cpuid
    BY <1>f, Zenon
  <2>4. Queues(k.queue, k.queue_len, k.state, k.cpuid)
    BY <2>2, <2>3, <1>3
  <2> QED
    BY <2>4, QueueInvFields, Zenon
<1>7. ThreadInv(k)
  BY <1>3, <1>5 DEF MemoryInv, ThreadInv
<1>s. Joined(t, k, e) \/ e.corrupt
  <2>1. k.state[t] # "TS_READY" /\ k.thread_exit_state[t] = "TE_RUNNING" /\ k.sc[t] # NULL
    BY <1>2, <1>3, <1>5
  <2>2. IF QueueIndex(c, t, k) \in CPU THEN Joined(t, k, e) ELSE Spoilt(e)
    BY <2>1, <1>4, <1>6, <1>7, EnqueueJoins, Zenon
  <2> HIDE DEF e
  <2> QED
    BY <2>2 DEF Spoilt
<1> HIDE DEF e
<1> SUFFICES ASSUME Joined(t, k, e) PROVE MemoryInv(e)
  BY <1>s DEF e
<1>8. Joined(t, k, e)
  OBVIOUS
<1>9. ASSUME NEW d \in CPU PROVE CurrentInv(d, e)
  <2>1. CurrentInv(d, m) /\ m.current[d] # t /\ m.current[d] \in Thread \union {NULL}
    BY <1>1, <1>2, Fields DEF MemoryInv
  <2>2. CurrentInv(d, k) /\ k.current[d] # t
    BY <2>1, <1>3, <1>5 DEF CurrentInv
  <2> QED
    BY <2>2, <1>4, <1>8, JoinedCurrent, Zenon
<1>10. e.current[0] = NULL => e.state[Root] = "TS_INIT"
  <2>1. Root \in Thread \ {t}
    BY Kinds
  <2> QED
    BY <2>1, <1>3, <1>5, <1>8 DEF MemoryInv, Joined
<1>11. MemoryInv(e)
  BY <1>3, <1>8, <1>9, <1>10, SMTT(30) DEF MemoryInv, Joined
<1> QED
  BY <1>11

\* The memory a handler commits is the next memory.
LEMMA NextMemory ==
    ASSUME NEW k, MemoryInv(k), Commit(k)
    PROVE  MemoryInv(K)'
<1>1. k \in Memory
  BY DEF MemoryInv
<1>2. K' = k
  BY <1>1 DEF K, Commit, Memory
<1> QED
  BY <1>2 DEF MemoryInv, QueueInv, ThreadInv, CurrentInv

\* So a handler keeps the invariant if the memory it commits has it.
LEMMA Committed ==
    ASSUME NEW k, MemoryInv(k) \/ k.corrupt, Commit(k)
    PROVE  SchedInv'
<1>1. CASE MemoryInv(k)
  BY <1>1, NextMemory DEF SchedInv
<1>2. CASE k.corrupt
  BY <1>2 DEF Commit, SchedInv
<1> QED
  BY <1>1, <1>2
-----------------------------------------------------------------------------
\* rr_sched_init establishes the invariant.
LEMMA InitInv ==
    ASSUME SchedInit PROVE SchedInv
<1>1. 0 \in CPU
  BY CpuAssumption DEF CPU
<1>2. state \in [Thread -> ThreadState] /\ thread_exit_state \in [Thread -> ExitState]
  BY DEF SchedInit, ThreadState, ExitState
<1>3. affinity \in [Thread -> Affinity]
  <2>0. CPU \subseteq Affinity /\ NO_AFF \in Affinity
    BY CpuAssumption DEF CPU, Affinity, NO_AFF
  <2>1. ASSUME NEW t \in Idle PROVE (CHOOSE c \in CPU : idle_threads[c] = t) \in CPU
    <3>1. \E c \in CPU : idle_threads[c] = t
      BY <2>1 DEF Idle
    <3> QED
      BY <3>1
  <2> QED
    BY <2>0, <2>1 DEF SchedInit
<1>4. cpuid \in [Thread -> CPU] /\ sc \in [Thread -> Context \union {NULL}]
  BY <1>1 DEF SchedInit, Thread, Context
<1>5. budget \in [Context -> 0 .. DEFAULT_BUDGET] /\ \A s \in Context : budget[s] # 0
  BY BudgetAssumption DEF SchedInit
<1>6. /\ queue \in [CPU -> Seq(User \union Shadow)] /\ queue_len \in [CPU -> Nat]
      /\ current \in [CPU -> Thread \union {NULL}] /\ bug \in BOOLEAN /\ ~bug
      /\ corrupt \in BOOLEAN
  <2>1. bug \in BOOLEAN /\ ~bug /\ corrupt \in BOOLEAN
    BY Zenon DEF SchedInit
  <2>2. queue_len \in [CPU -> Nat] /\ current \in [CPU -> Thread \union {NULL}]
    BY DEF SchedInit
  <2>3. queue \in [CPU -> Seq(User \union Shadow)]
    <3>1. <<>> \in Seq(User \union Shadow)
      OBVIOUS
    <3> QED
      BY <3>1 DEF SchedInit
  <2> QED
    BY <2>1, <2>2, <2>3
<1>7. K \in Memory
  BY <1>2, <1>3, <1>4, <1>5, <1>6 DEF K, Memory
<1>8. QueueInv(K)
  <2>1. \A t \in Thread : state[t] # "TS_READY"
    BY DEF SchedInit
  <2>2. \A c \in CPU : queue[c] = <<>> /\ queue_len[c] = 0 /\ Len(queue[c]) = 0
    BY DEF SchedInit
  <2>3. Queues(queue, queue_len, state, cpuid)
    BY <2>1, <2>2 DEF Queues
  <2>4. /\ K.queue = queue /\ K.queue_len = queue_len
        /\ K.state = state /\ K.cpuid = cpuid
    BY DEF K
  <2> QED
    BY <2>3, <2>4, QueueInvFields
<1>9. ThreadInv(K)
  <2>1. \A t \in Context : t \in Thread /\ t \notin Shadow
    BY ThreadAssumption DEF Context, Thread
  <2> QED
    BY <2>1, Kinds DEF ThreadInv, K, SchedInit
<1>10. (\A c \in CPU : CurrentInv(c, K)) /\ K.state[Root] = "TS_INIT"
  BY Kinds DEF CurrentInv, K, SchedInit
<1> QED
  BY <1>5, <1>6, <1>7, <1>8, <1>9, <1>10 DEF SchedInv, MemoryInv, K

\* Every handler keeps the invariant.
LEMMA StepInv ==
    ASSUME SchedInv, [SchedNext]_svars PROVE SchedInv'
<1>c. ASSUME corrupt PROVE SchedInv'
  <2>1. UNCHANGED svars
    BY <1>c, Zenon DEF SchedNext, SchedStep, BootMain, Corrupted, BootSecondary, TimerIrq,
                OtherIrq, InUser, sys_yield, sys_create_thread, sys_thread_exit, sys_set_affinity
  <2> QED
    BY <1>c, <2>1 DEF svars, SchedInv
<1> SUFFICES ASSUME ~corrupt PROVE SchedInv'
  BY <1>c
<1>m. MemoryInv(K)
  BY DEF SchedInv
<1>f. /\ K.current = current /\ K.state = state /\ K.sc = sc
      /\ K \in Memory /\ current \in [CPU -> Thread \union {NULL}]
  <2>1. K.current = current /\ K.state = state /\ K.sc = sc /\ K \in Memory
    BY <1>m DEF K, MemoryInv
  <2> QED
    BY <2>1, Fields
<1>0. ASSUME NEW c \in CPU, NEW k, Transit(c, k), Commit(rr_sched(c, k)) PROVE SchedInv'
  BY <1>0, SchedRestores, Committed
<1>1. CASE BootMain
  <2> DEFINE k == [K EXCEPT !.affinity[Root] = 0]
             e == BugOn(EnqueueRefuses(Root, k), rr_sched_enqueue(0, Root, k))
  <2>1. 0 \in CPU /\ Root \in Thread
    BY CpuAssumption, Kinds DEF CPU
  <2>2. MemoryInv(k) /\ k.current[0] = NULL /\ k.affinity[Root] = 0
    <3>1. 0 \in Affinity
      BY CpuAssumption DEF Affinity
    <3>2. MemoryInv(k) /\ k.current[0] = NULL
      BY <1>1, <1>m, <1>f, <2>1, <3>1, AffinityInv DEF BootMain
    <3>3. K.affinity \in [Thread -> Affinity]
      BY <1>f, Fields
    <3> QED
      BY <2>1, <3>2, <3>3, <1>f DEF Memory
  <2>3. Commit(rr_sched(0, e))
    BY <1>1 DEF BootMain
  <2> HIDE DEF k
  <2>4. Transit(0, e)
    BY <2>2, BootTransit
  <2> HIDE DEF e
  <2> QED
    BY <2>1, <2>3, <2>4, <1>0
<1>2. ASSUME NEW c \in CPU, BootSecondary(c) PROVE SchedInv'
  <2>1. Transit(c, K) /\ Commit(rr_sched(c, K))
    BY <1>2, <1>m, InvTransit DEF BootSecondary
  <2> QED
    BY <2>1, <1>0
<1>3. ASSUME NEW c \in CPU, TimerIrq(c) PROVE SchedInv'
  <2>1. Transit(c, Ticked(c, K)) /\ Commit(rr_sched(c, Ticked(c, K)))
    BY <1>3, <1>m, <1>f, TickedTransit DEF TimerIrq
  <2> QED
    BY <2>1, <1>0
<1>4. ASSUME NEW c \in CPU, OtherIrq(c) PROVE SchedInv'
  <2>1. Transit(c, K) /\ Commit(rr_sched(c, K))
    BY <1>4, <1>m, InvTransit DEF OtherIrq
  <2> QED
    BY <2>1, <1>0
<1>5. ASSUME NEW c \in CPU, sys_yield(c) PROVE SchedInv'
  <2> DEFINE k == [K EXCEPT !.budget[K.sc[K.current[c]]] = 0]
  <2>1. K.current[c] # NULL
    BY <1>5, <1>f, Kinds DEF sys_yield, InUser
  <2>2. Transit(c, k)
    BY <2>1, <1>m, YieldTransit
  <2>3. k = [K EXCEPT !.budget[sc[current[c]]] = 0]
    BY <1>f
  <2> HIDE DEF k
  <2>4. Commit(rr_sched(c, k))
    BY <1>5, <2>3 DEF sys_yield
  <2> QED
    BY <2>2, <2>4, <1>0
<1>6. ASSUME NEW c \in CPU, sys_create_thread(c) PROVE SchedInv'
  <2>1. PICK t \in User \ {Root} :
           LET k == [K EXCEPT !.state[t] = "TS_INTER"] IN
           /\ state[t] = "TS_INIT"
           /\ Commit(BugOn(EnqueueRefuses(t, k), rr_sched_enqueue(c, t, k)))
    BY <1>6, Zenon DEF sys_create_thread
  <2> DEFINE k == [K EXCEPT !.state[t] = "TS_INTER"]
             e == BugOn(EnqueueRefuses(t, k), rr_sched_enqueue(c, t, k))
  <2>2. K.state[t] = "TS_INIT" /\ Commit(e)
    BY <2>1, <1>f
  <2>3. MemoryInv(e) \/ e.corrupt
    BY <2>2, <1>m, CreateInv
  <2> HIDE DEF e
  <2> QED
    BY <2>2, <2>3, Committed
<1>7. ASSUME NEW c \in CPU, sys_thread_exit(c) PROVE SchedInv'
  <2> DEFINE k == [K EXCEPT !.thread_exit_state[K.current[c]] = "TE_EXITING"]
  <2>1. K.current[c] \in User \union Shadow
    BY <1>7, <1>f DEF sys_thread_exit, InUser
  <2>2. Transit(c, k)
    BY <2>1, <1>m, ExitTransit
  <2>3. k = [K EXCEPT !.thread_exit_state[current[c]] = "TE_EXITING"]
    BY <1>f
  <2> HIDE DEF k
  <2>4. Commit(rr_sched(c, k))
    BY <1>7, <2>3 DEF sys_thread_exit
  <2> QED
    BY <2>2, <2>4, <1>0
<1>8. ASSUME NEW c \in CPU, sys_set_affinity(c) PROVE SchedInv'
  <2>1. PICK t \in User \union {current[c]}, aff \in AffArg :
           aff < PLAT_CPU_NUM /\ Commit([K EXCEPT !.affinity[t] = aff])
    BY <1>8, Zenon DEF sys_set_affinity
  <2>2. t \in Thread
    BY <1>8, <1>f, Kinds DEF sys_set_affinity, InUser
  <2>3. aff \in Affinity
    BY <2>1, AffAssumption DEF Affinity
  <2>4. MemoryInv([K EXCEPT !.affinity[t] = aff])
    BY <2>2, <2>3, <1>m, AffinityInv
  <2> QED
    BY <2>1, <2>4, Committed
<1>9. CASE UNCHANGED svars
  <2>1. Commit(K)
    BY <1>9 DEF Commit, K, svars
  <2> QED
    BY <2>1, <1>m, Committed
<1> QED
  BY <1>1, <1>2, <1>3, <1>4, <1>5, <1>6, <1>7, <1>8, <1>9 DEF SchedNext, SchedStep, Corrupted

\* The ready queues, the thread states, the current threads and the budgets
\* agree whenever no handler runs, for any number of CPUs and threads and any
\* affinities, until rr_sched_enqueue has written outside the queues.
THEOREM SchedCorrect == SchedSpec => []SchedInv
<1>1. SchedInit => SchedInv
  BY InitInv
<1>2. SchedInv /\ [SchedNext]_svars => SchedInv'
  BY StepInv
<1> QED
  BY <1>1, <1>2, PTL DEF SchedSpec

\* enqueue and dequeue keep queue_len the length of the queue, and the queues
\* hold the TS_READY threads, each once, at its cpuid.
THEOREM QueuesCorrect == SchedSpec => []QueuesConsistent
<1>1. SchedInv => QueuesConsistent
  <2> SUFFICES ASSUME MemoryInv(K) PROVE QueuesConsistent
    BY DEF SchedInv, QueuesConsistent
  <2>1. Queues(queue, queue_len, state, cpuid)
    BY QueueInvFields DEF MemoryInv, K
  <2>2. queue \in [CPU -> Seq(User \union Shadow)] /\ cpuid \in [Thread -> CPU]
    <3>1. K \in Memory
      BY DEF MemoryInv
    <3>2. K.queue = queue /\ K.cpuid = cpuid
      BY DEF K
    <3> QED
      BY <3>1, <3>2, Fields
  <2>3. ASSUME NEW t \in Thread, NEW p
        PROVE  p \in ReadyAt(t) <=>
                 \E c \in CPU : \E i \in 1 .. Len(queue[c]) : p = <<c, i>> /\ queue[c][i] = t
    <3>1. \A c \in CPU : DOMAIN queue[c] = 1 .. Len(queue[c])
      BY <2>2
    <3> QED
      BY <3>1 DEF ReadyAt
  <2>4. ASSUME NEW t \in Thread, state[t] = "TS_READY"
        PROVE  \E i \in 1 .. Len(queue[cpuid[t]]) : ReadyAt(t) = {<<cpuid[t], i>>}
    <3>1. PICK i \in 1 .. Len(queue[cpuid[t]]) : queue[cpuid[t]][i] = t
      BY <2>1, <2>4 DEF Queues
    <3>2. cpuid[t] \in CPU
      BY <2>2
    <3>3. <<cpuid[t], i>> \in ReadyAt(t)
      BY <2>3, <3>1, <3>2
    <3>4. ASSUME NEW p \in ReadyAt(t) PROVE p = <<cpuid[t], i>>
      <4>1. PICK c \in CPU : \E j \in 1 .. Len(queue[c]) : p = <<c, j>> /\ queue[c][j] = t
        BY <2>3
      <4>2. PICK j \in 1 .. Len(queue[c]) : p = <<c, j>> /\ queue[c][j] = t
        BY <4>1, SMTT(30)
      <4>3. c = cpuid[t]
        BY <2>1, <4>2 DEF Queues
      <4>4. j = i
        BY <2>1, <3>1, <3>2, <4>2, <4>3 DEF Queues
      <4> QED
        BY <4>2, <4>3, <4>4
    <3> QED
      BY <3>3, <3>4
  <2>5. ASSUME NEW t \in Thread, state[t] # "TS_READY" PROVE ReadyAt(t) = {}
    <3>1. ASSUME NEW p \in ReadyAt(t) PROVE FALSE
      <4>1. PICK c \in CPU : \E j \in 1 .. Len(queue[c]) : p = <<c, j>> /\ queue[c][j] = t
        BY <2>3
      <4> QED
        BY <2>1, <2>5, <4>1 DEF Queues
    <3> QED
      BY <3>1
  <2>6. \A c \in CPU : queue_len[c] = Len(queue[c])
    BY <2>1 DEF Queues
  <2> QED
    BY <2>4, <2>5, <2>6 DEF QueuesConsistent
<1> QED
  BY <1>1, SchedCorrect, PTL

\* switch_to_thread: a thread is current on one CPU at most, at its cpuid,
\* marked running, and has not exited.
THEOREM CurrentCorrect == SchedSpec => []CurrentConsistent
<1>1. SchedInv => CurrentConsistent
  <2> SUFFICES ASSUME MemoryInv(K), NEW c \in CPU, current[c] # NULL
               PROVE  /\ RunsOn(current[c]) = {c} /\ cpuid[current[c]] = c
                      /\ state[current[c]] = "TS_RUNNING" /\ ~Exited(current[c])
    BY SMTT(30) DEF SchedInv, CurrentConsistent
  <2>1. \A d \in CPU : current[d] # NULL => /\ state[current[d]] = "TS_RUNNING"
                                            /\ thread_exit_state[current[d]] = "TE_RUNNING"
                                            /\ cpuid[current[d]] = d
    BY Zenon DEF MemoryInv, CurrentInv, K
  <2>2. RunsOn(current[c]) = {c}
    BY <2>1 DEF RunsOn
  <2> QED
    BY <2>1, <2>2 DEF Exited
<1> QED
  BY <1>1, SchedCorrect, PTL

\* No BUG_ON of rr_sched, switch_to_thread and the callers of sched_enqueue
\* fires.
THEOREM NoBugCorrect == SchedSpec => []NoBug
<1>1. SchedInv => NoBug
  BY DEF SchedInv, MemoryInv, NoBug, K
<1> QED
  BY <1>1, SchedCorrect, PTL

\* rr_sched_refill_budget comes in time: every context has a tick left.
THEOREM BudgetCorrect == SchedSpec => []BudgetLeft
<1>1. SchedInv => BudgetLeft
  <2> SUFFICES ASSUME MemoryInv(K), NEW s \in Context PROVE budget[s] > 0
    BY SMTT(30) DEF SchedInv, BudgetLeft
  <2>1. K \in Memory /\ K.budget = budget /\ budget[s] # 0
    BY DEF MemoryInv, K
  <2>2. budget[s] \in 0 .. DEFAULT_BUDGET
    BY <2>1, Fields
  <2> QED
    BY <2>1, <2>2, BudgetAssumption
<1> QED
  BY <1>1, SchedCorrect, PTL
-----------------------------------------------------------------------------
\* Nothing has been written outside the queues, and no affinity leads there.
Sound == ~corrupt /\ \A t \in Thread : affinity[t] >= NO_AFF

\* A handler that leaves `corrupt` and the affinities keeps this.
LEMMA KeptSound ==
    ASSUME NEW k, k.corrupt = FALSE, Bounded(k), NEW e, Kept(k, e), Commit(e)
    PROVE  Sound'
BY DEF Kept, Bounded, Commit, Sound

\* Each handler keeps Sound when no thread passes an affinity below NO_AFF.
LEMMA StepSound ==
    ASSUME \A a \in AffArg : a >= NO_AFF, SchedInv, Sound, [SchedNext]_svars
    PROVE  Sound'
<1>f. /\ MemoryInv(K) /\ K \in Memory /\ K.affinity = affinity /\ K.corrupt = FALSE
      /\ K.state = state /\ Bounded(K)
  <2>1. MemoryInv(K) /\ K.affinity = affinity /\ K.state = state /\ K.corrupt = corrupt
    BY DEF SchedInv, Sound, K
  <2>2. K \in Memory
    BY <2>1 DEF MemoryInv
  <2>3. K.corrupt = FALSE
    BY <2>1, <2>2, Fields DEF Sound
  <2> QED
    BY <2>1, <2>2, <2>3 DEF Sound, Bounded
<1>0. ASSUME NEW c \in CPU, NEW k \in Memory, k.corrupt = FALSE, Bounded(k),
             Commit(rr_sched(c, k))
      PROVE  Sound'
  BY <1>0, SchedKeeps, KeptSound
<1>a. ASSUME NEW t \in Thread, NEW aff \in Affinity, aff >= NO_AFF,
             NEW k, k = [K EXCEPT !.affinity[t] = aff]
      PROVE  /\ k \in Memory /\ k.corrupt = FALSE /\ Bounded(k)
             /\ k.state = state
  <2>1. K.affinity \in [Thread -> Affinity]
    BY <1>f, Fields
  <2>2. k.affinity = [K.affinity EXCEPT ![t] = aff] /\ k.corrupt = FALSE /\ k.state = state
    BY <1>f, <1>a DEF Memory
  <2>3. k \in Memory
    BY <1>a, <1>f, AffinityInv DEF MemoryInv
  <2> QED
    BY <1>a, <1>f, <2>1, <2>2, <2>3 DEF Bounded
<1>1. CASE BootMain
  <2> DEFINE k == [K EXCEPT !.affinity[Root] = 0]
             e == BugOn(EnqueueRefuses(Root, k), rr_sched_enqueue(0, Root, k))
  <2>1. 0 \in CPU /\ Root \in Thread /\ Root \in User /\ 0 \in Affinity /\ 0 >= NO_AFF
    BY CpuAssumption, Kinds DEF CPU, Affinity, NO_AFF
  <2>2. k \in Memory /\ k.corrupt = FALSE /\ Bounded(k)
    BY <2>1, <1>a
  <2>3. Commit(rr_sched(0, e))
    BY <1>1 DEF BootMain
  <2>4. MemoryInv(k) /\ k.current[0] = NULL /\ k.affinity[Root] = 0
    <3>1. MemoryInv(k) /\ k.current = K.current /\ K.current = current
      BY <1>f, <2>1, AffinityInv DEF K
    <3>2. k.affinity[Root] = 0
      BY <1>f, <2>1, Fields DEF Memory
    <3> QED
      BY <1>1, <3>1, <3>2 DEF BootMain
  <2> HIDE DEF k
  <2>5. Transit(0, e)
    BY <2>4, BootTransit
  <2>6. Kept(k, e)
    BY <2>1, <2>2, BoundedIndex, EnqueueKeeps
  <2> HIDE DEF e
  <2>7. e \in Memory /\ e.corrupt = FALSE /\ Bounded(e)
    BY <2>2, <2>5, <2>6 DEF Transit, Kept, Bounded
  <2> QED
    BY <2>1, <2>3, <2>7, <1>0
<1>2. ASSUME NEW c \in CPU, BootSecondary(c) \/ OtherIrq(c) PROVE Sound'
  BY <1>0, <1>2, <1>f DEF BootSecondary, OtherIrq
<1>3. ASSUME NEW c \in CPU, TimerIrq(c) PROVE Sound'
  <2> DEFINE k == Ticked(c, K)
  <2>1. K.current[c] # NULL
    BY <1>3 DEF TimerIrq, K
  <2>2. k \in Memory
    BY <2>1, <1>f, TickedTransit DEF Transit
  <2>3. Kept(K, k)
    BY <1>f DEF Ticked, Kept, Memory
  <2>4. Commit(rr_sched(c, k))
    BY <1>3 DEF TimerIrq
  <2> HIDE DEF k
  <2>5. k.corrupt = FALSE /\ Bounded(k)
    BY <2>3, <1>f DEF Kept, Bounded
  <2> QED
    BY <2>2, <2>4, <2>5, <1>0
<1>4. ASSUME NEW c \in CPU, sys_yield(c) PROVE Sound'
  <2> DEFINE k == [K EXCEPT !.budget[K.sc[K.current[c]]] = 0]
  <2>1. K.current[c] # NULL /\ K.current = current /\ K.sc = sc
    BY <1>4, Kinds DEF sys_yield, InUser, K
  <2>2. k \in Memory
    BY <2>1, <1>f, YieldTransit DEF Transit
  <2>3. k.affinity = K.affinity /\ k.corrupt = FALSE
    BY <1>f DEF Memory
  <2>4. Commit(rr_sched(c, k))
    BY <1>4, <2>1 DEF sys_yield
  <2> HIDE DEF k
  <2> QED
    BY <2>2, <2>3, <2>4, <1>0, <1>f DEF Bounded
<1>5. ASSUME NEW c \in CPU, sys_create_thread(c) PROVE Sound'
  <2>1. PICK t \in User \ {Root} :
           LET k == [K EXCEPT !.state[t] = "TS_INTER"] IN
           Commit(BugOn(EnqueueRefuses(t, k), rr_sched_enqueue(c, t, k)))
    BY <1>5, Zenon DEF sys_create_thread
  <2> DEFINE k == [K EXCEPT !.state[t] = "TS_INTER"]
             e == BugOn(EnqueueRefuses(t, k), rr_sched_enqueue(c, t, k))
  <2>2. Commit(e)
    BY <2>1
  <2>3. k.affinity = K.affinity /\ k.corrupt = FALSE
    BY <1>f DEF Memory
  <2>4. k \in Memory /\ t \in Thread
    <3>1. t \in Thread
      BY Kinds
    <3>2. [K.state EXCEPT ![t] = "TS_INTER"] \in [Thread -> ThreadState]
      BY <1>f, <3>1, Fields DEF ThreadState
    <3> QED
      BY <1>f, <3>1, <3>2, Zenon DEF Memory
  <2> HIDE DEF k
  <2>5. Bounded(k)
    BY <1>f, <2>3 DEF Bounded
  <2>6. Kept(k, e)
    BY <2>4, <2>5, BoundedIndex, EnqueueKeeps
  <2> HIDE DEF e
  <2> QED
    BY <2>2, <2>3, <2>5, <2>6, KeptSound
<1>6. ASSUME NEW c \in CPU, sys_thread_exit(c) PROVE Sound'
  <2> DEFINE k == [K EXCEPT !.thread_exit_state[K.current[c]] = "TE_EXITING"]
  <2>1. K.current[c] \in User \union Shadow /\ K.current = current
    BY <1>6 DEF sys_thread_exit, InUser, K
  <2>2. k \in Memory
    BY <2>1, <1>f, ExitTransit DEF Transit
  <2>3. k.affinity = K.affinity /\ k.corrupt = FALSE
    BY <1>f DEF Memory
  <2>4. Commit(rr_sched(c, k))
    BY <1>6, <2>1 DEF sys_thread_exit
  <2> HIDE DEF k
  <2> QED
    BY <2>2, <2>3, <2>4, <1>0, <1>f DEF Bounded
<1>7. ASSUME NEW c \in CPU, sys_set_affinity(c) PROVE Sound'
  <2>1. PICK t \in User \union {current[c]}, aff \in AffArg :
           aff < PLAT_CPU_NUM /\ Commit([K EXCEPT !.affinity[t] = aff])
    BY <1>7, Zenon DEF sys_set_affinity
  <2> DEFINE k == [K EXCEPT !.affinity[t] = aff]
  <2>2. t \in Thread
    BY <1>7, Kinds DEF sys_set_affinity, InUser
  <2>3. aff \in Affinity /\ aff >= NO_AFF
    BY <2>1, AffAssumption DEF Affinity
  <2>4. k.corrupt = FALSE /\ Bounded(k)
    BY <2>2, <2>3, <1>a
  <2>5. Commit(k)
    BY <2>1
  <2> HIDE DEF k
  <2> QED
    BY <2>4, <2>5 DEF Commit, Sound, Bounded
<1>8. CASE Corrupted \/ UNCHANGED svars
  BY <1>8 DEF Corrupted, svars, Sound
<1> QED
  BY <1>1, <1>2, <1>3, <1>4, <1>5, <1>6, <1>7, <1>8 DEF SchedNext, SchedStep

\* The missing lower bound in sys_set_affinity is the only way in which the
\* scheduler writes outside rr_ready_queue_meta: if no thread passes an
\* affinity below NO_AFF it never does, and the invariants above hold always.
THEOREM NeverCorrupt ==
    ASSUME \A a \in AffArg : a >= NO_AFF
    PROVE  SchedSpec => [](~corrupt /\ MemoryInv(K))
<1>1. SchedInit => SchedInv /\ Sound
  <2> SUFFICES ASSUME SchedInit PROVE Sound
    BY InitInv
  <2>1. \A t \in Thread : affinity[t] \in CPU \union {NO_AFF}
    <3>1. ASSUME NEW t \in Idle PROVE (CHOOSE c \in CPU : idle_threads[c] = t) \in CPU
      <4>1. \E c \in CPU : idle_threads[c] = t
        BY <3>1 DEF Idle
      <4> QED
        BY <4>1
    <3> QED
      BY <3>1 DEF SchedInit
  <2>2. \A a \in CPU \union {NO_AFF} : a >= NO_AFF
    BY CpuAssumption DEF CPU, NO_AFF
  <2> QED
    BY <2>1, <2>2 DEF SchedInit, Sound
<1>2. SchedInv /\ Sound /\ [SchedNext]_svars => (SchedInv /\ Sound)'
  BY StepInv, StepSound
<1>3. SchedInv /\ Sound => ~corrupt /\ MemoryInv(K)
  BY DEF SchedInv, Sound
<1> QED
  BY <1>1, <1>2, <1>3, PTL DEF SchedSpec
==============================================================================
