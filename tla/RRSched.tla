------------------------------ MODULE RRSched -------------------------------
(***************************************************************************)
(* The round-robin scheduler (kernel/sched/policy_rr.c, kernel/sched/      *)
(* sched.c) and the thread system calls that end in it.  Every handler     *)
(* runs under big_kernel_lock (module KernelEntry), so it is one action,   *)
(* its trailing sched() included.                                          *)
(*                                                                         *)
(* A thread's fields are functions on Thread: state, thread_exit_state,    *)
(* affinity, cpuid.  A scheduling context is named by the thread it was    *)
(* allocated for, sc[t] is the context t runs on and budget[s] what is     *)
(* left of context s.  queue[c] and queue_len[c] are the two fields of     *)
(* rr_ready_queue_meta[c], current[c] is current_threads[c].  `bug` is     *)
(* raised where a BUG_ON would stop the kernel, and `corrupt` where the    *)
(* kernel writes outside rr_ready_queue_meta: what it overwrites there,    *)
(* and so what it does from there on, is not modelled and nothing is       *)
(* claimed of it.                                                          *)
(* prev_thread and the registers are not kept: they select the address     *)
(* space within a handler.                                                 *)
(*                                                                         *)
(* A handler is a sequence of assignments and calls, so the scheduler's    *)
(* functions are operators from the memory k they find to the memory they  *)
(* leave: K is the memory now, Commit(k) makes k the next one.             *)
(***************************************************************************)
EXTENDS Integers, Sequences, FiniteSets

CONSTANTS PLAT_CPU_NUM,    \* number of CPUs
          DEFAULT_BUDGET,  \* timer ticks of a full budget
          User,            \* threads of TYPE_USER that can be created
          Root,            \* the first of them, created by create_root_thread
          Shadow,          \* threads of TYPE_SHADOW, the handlers of connections
          idle_threads,    \* the thread of TYPE_IDLE of each CPU
          AffArg,          \* values that threads pass to sys_set_affinity
          NULL

CPU == 0 .. PLAT_CPU_NUM - 1
NO_AFF == -1
Idle == {idle_threads[c] : c \in CPU}
Thread == User \union Shadow \union Idle
Context == User \union Idle          \* shadow threads have none of their own

\* What sys_set_affinity accepts: it has an upper bound only.
Affinity == {a \in Int : a < PLAT_CPU_NUM}

ASSUME CpuAssumption == PLAT_CPU_NUM \in Nat \ {0}
ASSUME BudgetAssumption == DEFAULT_BUDGET \in Nat \ {0}
ASSUME ThreadAssumption == /\ Root \in User
                           /\ User \intersect Shadow = {}
                           /\ (User \union Shadow) \intersect Idle = {}
                           /\ NULL \notin Thread
ASSUME AffAssumption == AffArg \subseteq Int
ASSUME IdleAssumption == \A c, d \in CPU : idle_threads[c] = idle_threads[d] => c = d

VARIABLES state, thread_exit_state, affinity, cpuid, sc, budget,
          queue, queue_len, current, bug, corrupt

svars == <<state, thread_exit_state, affinity, cpuid, sc, budget,
           queue, queue_len, current, bug, corrupt>>

K == [state |-> state, thread_exit_state |-> thread_exit_state,
      affinity |-> affinity, cpuid |-> cpuid, sc |-> sc, budget |-> budget,
      queue |-> queue, queue_len |-> queue_len, current |-> current,
      bug |-> bug, corrupt |-> corrupt]

Commit(k) == /\ state' = k.state /\ thread_exit_state' = k.thread_exit_state
             /\ affinity' = k.affinity /\ cpuid' = k.cpuid
             /\ sc' = k.sc /\ budget' = k.budget
             /\ queue' = k.queue /\ queue_len' = k.queue_len
             /\ current' = k.current /\ bug' = k.bug /\ corrupt' = k.corrupt

ThreadState == {"TS_INIT", "TS_READY", "TS_INTER", "TS_RUNNING", "TS_EXIT", "TS_WAITING"}
ExitState == {"TE_RUNNING", "TE_EXITING", "TE_EXITED"}

Memory == [state : [Thread -> ThreadState],
           thread_exit_state : [Thread -> ExitState],
           affinity : [Thread -> Affinity],
           cpuid : [Thread -> CPU],
           sc : [Thread -> Context \union {NULL}],
           budget : [Context -> 0 .. DEFAULT_BUDGET],
           queue : [CPU -> Seq(User \union Shadow)],
           queue_len : [CPU -> Nat],
           current : [CPU -> Thread \union {NULL}],
           bug : BOOLEAN,
           corrupt : BOOLEAN]

SchedTypeOK == corrupt \/ K \in Memory

\* rr_sched_init: empty queues, an idle thread bound to each CPU, nothing
\* runs.  The fields of a thread that does not exist yet are as
\* init_thread_ctx and create_server_thread will leave them.
SchedInit == /\ state = [t \in Thread |-> "TS_INIT"]
             /\ thread_exit_state = [t \in Thread |-> "TE_RUNNING"]
             /\ affinity = [t \in Thread |->
                              IF t \in Idle THEN CHOOSE c \in CPU : idle_threads[c] = t
                                            ELSE NO_AFF]
             /\ cpuid = [t \in Thread |-> 0]
             /\ sc = [t \in Thread |-> IF t \in Shadow THEN NULL ELSE t]
             /\ budget = [s \in Context |-> DEFAULT_BUDGET]
             /\ queue = [c \in CPU |-> <<>>]
             /\ queue_len = [c \in CPU |-> 0]
             /\ current = [c \in CPU |-> NULL]
             /\ bug = FALSE /\ corrupt = FALSE
-----------------------------------------------------------------------------
\* BUG_ON(cond)
BugOn(cond, k) == [k EXCEPT !.bug = @ \/ cond]

\* rr_sched_enqueue called on CPU c.  It refuses a thread that is ready
\* already or has too large an affinity, and leaves an idle thread alone.
EnqueueRefuses(t, k) == \/ k.state[t] = "TS_READY"
                        \/ t \notin Idle /\ k.affinity[t] >= PLAT_CPU_NUM

\* The index of the queue that t goes to.
QueueIndex(c, t, k) == IF k.affinity[t] = NO_AFF THEN c ELSE k.affinity[t]

\* mutant: list_add for list_append
EnqueueAtFront(c, t, k) ==
    LET cpu == QueueIndex(c, t, k) IN
    IF EnqueueRefuses(t, k) \/ t \in Idle THEN k
    ELSE IF cpu \in CPU
    THEN [k EXCEPT !.state[t] = "TS_READY",
                   !.cpuid[t] = cpu,
                   !.queue[cpu] = <<t>> \o @,
                   !.queue_len[cpu] = @ + 1]
    ELSE [k EXCEPT !.state[t] = "TS_READY", !.cpuid[t] = cpu, !.corrupt = TRUE]

\* The last case is that of an affinity below NO_AFF, which nothing refuses:
\* the thread is ready and the list is appended to outside the table.
rr_sched_enqueue(c, t, k) ==
    LET cpu == QueueIndex(c, t, k) IN
    IF EnqueueRefuses(t, k) \/ t \in Idle THEN k
    ELSE IF cpu \in CPU
    THEN [k EXCEPT !.state[t] = "TS_READY",
                   !.cpuid[t] = cpu,
                   !.queue[cpu] = Append(@, t),
                   !.queue_len[cpu] = @ + 1]
    ELSE [k EXCEPT !.state[t] = "TS_READY", !.cpuid[t] = cpu, !.corrupt = TRUE]

\* rr_sched_dequeue on CPU c of t, the head of c's queue.
DequeueRefuses(t, k) == \/ t \in Idle \/ k.state[t] # "TS_READY"
                        \/ k.affinity[t] >= PLAT_CPU_NUM

\* mutant: the length of the queue of the thread's affinity is decremented
DequeueCountsAffinity(c, t, k) ==
    LET cpu == QueueIndex(c, t, k) IN
    IF DequeueRefuses(t, k) THEN k
    ELSE [k EXCEPT !.state[t] = "TS_INTER",
                   !.cpuid[t] = c,
                   !.queue[c] = Tail(@),
                   !.queue_len[cpu] = @ - 1]

rr_sched_dequeue(c, t, k) ==
    IF DequeueRefuses(t, k) THEN k
    ELSE [k EXCEPT !.state[t] = "TS_INTER",
                   !.cpuid[t] = c,
                   !.queue[c] = Tail(@),
                   !.queue_len[c] = @ - 1]

\* switch_to_thread on CPU c.
switch_to_thread(c, t, k) ==
    [BugOn(k.state[t] = "TS_READY" \/ k.thread_exit_state[t] = "TE_EXITED", k)
        EXCEPT !.cpuid[t] = IF t = k.current[c] THEN @ ELSE c,
               !.state[t] = "TS_RUNNING",
               !.current[c] = t]

\* mutant: the head of the queue is chosen and not dequeued
ChosenNotDequeued(c, k) ==
    switch_to_thread(c, IF k.queue_len[c] = 0 THEN idle_threads[c] ELSE Head(k.queue[c]), k)

\* switch_to_thread(rr_sched_choose_thread()): the idle thread if the queue is
\* empty, its head otherwise.
SwitchToChosen(c, k) ==
    LET t == Head(k.queue[c]) IN
    IF k.queue_len[c] = 0
    THEN switch_to_thread(c, idle_threads[c], k)
    ELSE switch_to_thread(c, t, BugOn(DequeueRefuses(t, k), rr_sched_dequeue(c, t, k)))

\* mutant: the exit state is not looked at
WantsCpuExiting(c, k) == /\ k.current[c] # NULL
                         /\ k.state[k.current[c]] # "TS_WAITING"

\* The cases of rr_sched: the current thread wants to go on running ...
WantsCpu(c, k) == /\ k.current[c] # NULL
                  /\ k.thread_exit_state[k.current[c]] # "TE_EXITING"
                  /\ k.state[k.current[c]] # "TS_WAITING"


\* ... and it may, having budget left on a CPU its affinity allows.
MayStay(c, k) == /\ k.budget[k.sc[k.current[c]]] # 0
                 /\ k.affinity[k.current[c]] \in {c, NO_AFF}

\* mutants: the budget is not refilled, is overfilled
PutBackNoRefill(c, k) ==
    LET t == k.current[c] IN BugOn(EnqueueRefuses(t, k), rr_sched_enqueue(c, t, k))

PutBackOverfill(c, k) ==
    LET t == k.current[c] IN
    [BugOn(EnqueueRefuses(t, k), rr_sched_enqueue(c, t, k))
        EXCEPT !.budget[k.sc[t]] = @ + DEFAULT_BUDGET]

\* It goes to the end of the queue of its CPU with a new budget.
PutBack(c, k) ==
    LET t == k.current[c] IN
    [BugOn(EnqueueRefuses(t, k), rr_sched_enqueue(c, t, k))
        EXCEPT !.budget[k.sc[t]] = DEFAULT_BUDGET]

\* rr_sched.  A thread that waits is only replaced, and so is one that exits:
\* lines 213 and 214 compare where they mean to assign.
rr_sched(c, k) ==
    IF WantsCpu(c, k) /\ MayStay(c, k) THEN switch_to_thread(c, k.current[c], k)
    ELSE IF WantsCpu(c, k) THEN SwitchToChosen(c, PutBack(c, k))
    ELSE SwitchToChosen(c, k)
-----------------------------------------------------------------------------
\* main: create_root_thread, bound to CPU 0, and sched.
BootMain ==
    LET k == [K EXCEPT !.affinity[Root] = 0] IN
    /\ ~corrupt /\ current[0] = NULL
    /\ Commit(rr_sched(0, BugOn(EnqueueRefuses(Root, k), rr_sched_enqueue(0, Root, k))))

\* secondary_start: sched on another CPU.
BootSecondary(c) == ~corrupt /\ c # 0 /\ current[c] = NULL /\ Commit(rr_sched(c, K))

\* handle_irq for the timer: sched_handle_timer_irq and sched.
Ticked(c, k) == LET s == k.sc[k.current[c]] IN
                IF s # NULL /\ k.budget[s] # 0 THEN [k EXCEPT !.budget[s] = @ - 1] ELSE k

TimerIrq(c) == ~corrupt /\ current[c] # NULL /\ Commit(rr_sched(c, Ticked(c, K)))

\* handle_irq for any other interrupt.
OtherIrq(c) == ~corrupt /\ current[c] # NULL /\ Commit(rr_sched(c, K))

\* The thread on CPU c is one that can make a system call.
InUser(c) == ~corrupt /\ current[c] \in User \union Shadow

sys_yield(c) == /\ InUser(c)
                /\ Commit(rr_sched(c, [K EXCEPT !.budget[sc[current[c]]] = 0]))

\* sys_create_thread of a TYPE_USER thread: create_thread and its enqueue.
sys_create_thread(c) ==
    /\ InUser(c)
    /\ \E t \in User \ {Root} :
         LET k == [K EXCEPT !.state[t] = "TS_INTER"] IN
         /\ state[t] = "TS_INIT"
         /\ Commit(BugOn(EnqueueRefuses(t, k), rr_sched_enqueue(c, t, k)))

sys_thread_exit(c) ==
    /\ InUser(c)
    /\ Commit(rr_sched(c, [K EXCEPT !.thread_exit_state[current[c]] = "TE_EXITING"]))

\* sys_set_affinity of the caller itself or of a user thread it has a cap of.
\* There is no lower bound on a signed aff.
sys_set_affinity(c) ==
    /\ InUser(c)
    /\ \E t \in User \union {current[c]}, aff \in AffArg :
         /\ aff < PLAT_CPU_NUM
         /\ state[t] # "TS_INIT"
         /\ Commit([K EXCEPT !.affinity[t] = aff])

SchedStep(c) == \/ BootSecondary(c) \/ TimerIrq(c) \/ OtherIrq(c) \/ sys_yield(c)
                \/ sys_create_thread(c) \/ sys_thread_exit(c) \/ sys_set_affinity(c)

\* The end of what is modelled.
Corrupted == corrupt /\ UNCHANGED svars

SchedNext == BootMain \/ Corrupted \/ \E c \in CPU : SchedStep(c)

\* Every CPU boots, and one that is up is interrupted by its timer again and
\* again: each interrupt re-arms the timer, and interrupts are enabled in user
\* mode and in the idle loop.  For the timer this is WF_svars(TimerIrq(c)),
\* with ~ENABLED spelled out: TimerIdles(c) says that the interrupt cannot
\* happen or changes nothing.
TimerIdles(c) == corrupt \/ current[c] = NULL \/ rr_sched(c, Ticked(c, K)) = K

TimerFairness ==
    /\ WF_svars(BootMain)
    /\ \A c \in CPU : /\ WF_svars(BootSecondary(c))
                      /\ ([]<>TimerIdles(c)) \/ ([]<><<TimerIrq(c)>>_svars)

SchedSpec == SchedInit /\ [][SchedNext]_svars /\ TimerFairness
-----------------------------------------------------------------------------
Exists(t) == state[t] # "TS_INIT"
Exited(t) == thread_exit_state[t] # "TE_RUNNING"

\* Where a thread is: on CPUs, and at positions of ready queues.
RunsOn(t) == {c \in CPU : current[c] = t}
ReadyAt(t) == UNION {{c} \X {i \in DOMAIN queue[c] : queue[c][i] = t} : c \in CPU}

\* The invariant of the scheduler's memory between two handlers.  In a ready
\* queue are ready threads of this CPU, each once, and each ready thread is in
\* one ...
QueueInv(k) ==
    /\ \A c \in CPU : k.queue_len[c] = Len(k.queue[c])
    /\ \A c \in CPU : \A i \in 1 .. Len(k.queue[c]) :
         k.state[k.queue[c][i]] = "TS_READY" /\ k.cpuid[k.queue[c][i]] = c
    /\ \A c \in CPU : \A i, j \in 1 .. Len(k.queue[c]) : k.queue[c][i] = k.queue[c][j] => i = j
    /\ \A t \in Thread : k.state[t] = "TS_READY" =>
         \E i \in 1 .. Len(k.queue[k.cpuid[t]]) : k.queue[k.cpuid[t]][i] = t

\* ... a current thread runs here, and an idle thread on its CPU only ...
CurrentInv(c, k) ==
    k.current[c] # NULL => /\ k.state[k.current[c]] = "TS_RUNNING"
                           /\ k.thread_exit_state[k.current[c]] = "TE_RUNNING"
                           /\ k.cpuid[k.current[c]] = c
                           /\ k.sc[k.current[c]] # NULL
                           /\ k.current[c] \in Idle => k.current[c] = idle_threads[c]

\* ... nothing that is ready, new or an idle thread has exited, and what is
\* ready has a context to run on.
ThreadInv(k) ==
    /\ \A t \in Thread : /\ k.thread_exit_state[t] # "TE_EXITED"
                         /\ k.state[t] \in {"TS_READY", "TS_INIT"} =>
                              k.thread_exit_state[t] = "TE_RUNNING"
                         /\ k.state[t] = "TS_READY" => k.sc[t] # NULL
    /\ \A t \in Idle : k.thread_exit_state[t] = "TE_RUNNING"
    /\ \A t \in Context : k.sc[t] = t

MemoryInv(k) == /\ k \in Memory /\ ~k.bug
                /\ QueueInv(k) /\ ThreadInv(k)
                /\ \A c \in CPU : CurrentInv(c, k)
                /\ \A s \in Context : k.budget[s] # 0
                /\ k.current[0] = NULL => k.state[Root] = "TS_INIT"

\* The scheduler's data structures agree with each other whenever the big
\* kernel lock is free, which rr_sched and its callers rely on, until
\* rr_sched_enqueue has written outside rr_ready_queue_meta.
SchedInv == corrupt \/ MemoryInv(K)

\* enqueue and dequeue: a queue's length field is its length; the threads in
\* the queues are the TS_READY ones, each in one queue, once, at its cpuid.
QueuesConsistent == corrupt \/
    /\ \A c \in CPU : queue_len[c] = Len(queue[c])
    /\ \A t \in Thread : IF state[t] = "TS_READY"
                          THEN \E i \in 1 .. Len(queue[cpuid[t]]) : ReadyAt(t) = {<<cpuid[t], i>>}
                          ELSE ReadyAt(t) = {}

\* switch_to_thread: a thread is current on at most one CPU, the one its
\* cpuid names, is marked running there and has not exited.
CurrentConsistent == corrupt \/
    \A c \in CPU : current[c] # NULL =>
        LET t == current[c] IN
        RunsOn(t) = {c} /\ cpuid[t] = c /\ state[t] = "TS_RUNNING" /\ ~Exited(t)

\* No BUG_ON of the scheduler and of its callers fires in a sound memory.
NoBug == corrupt \/ ~bug

\* rr_sched_refill_budget: whoever is dispatched has at least one tick.
BudgetLeft == corrupt \/ \A s \in Context : budget[s] > 0

\* rr_sched: every ready thread gets a CPU in the end, whatever threads do,
\* unless one is enqueued with an affinity below NO_AFF.
ReadyThreadRuns ==
    \A t \in User \union Shadow : (state[t] = "TS_READY") ~> (RunsOn(t) # {} \/ corrupt)

\* The ready queues are FIFO: in one step a queue loses at most its head, and
\* whatever joins it does so behind those that were there.
QueuesFifo ==
    [][corrupt' \/ \A c \in CPU : \E n \in {0, 1} :
          LET kept == SubSeq(queue[c], 1 + n, Len(queue[c])) IN
          /\ Len(kept) <= Len(queue'[c])
          /\ kept = SubSeq(queue'[c], 1, Len(kept))]_svars

\* policy_rr.c:71, "Do not forget to check if the affinity is valid!": a thread
\* that rr_sched_enqueue makes ready is assigned to a CPU, in whose queue it is.
ReadyOnACpu == \A t \in Thread : state[t] = "TS_READY" => cpuid[t] \in CPU

\* policy_rr.c:211 and the lab text: a thread that has exited is TS_EXIT and
\* TE_EXITED once another thread runs in its place.
ExitRecorded == \A t \in User \union Shadow :
    Exited(t) => state[t] = "TS_EXIT" /\ thread_exit_state[t] = "TE_EXITED"

\* The lab text: a thread with an affinity runs on that CPU only.  Stated of
\* the moment it is dispatched, as sys_set_affinity need not move the caller.
AffinityHonoured ==
    [][\A c \in CPU : current'[c] # current[c] => affinity'[current'[c]] \in {c, NO_AFF}]_svars
=============================================================================
