--------------------------- MODULE RRSched_lemmas ----------------------------
(***************************************************************************)
(* Lemmas about the scheduler's functions, for every number of CPUs and    *)
(* threads and every budget: rr_sched restores MemoryInv.                  *)
(*                                                                         *)
(* MemoryInv holds between two handlers.  Within a handler the current     *)
(* CPU's thread is in transit: Transit(c, k) is what rr_sched may find,    *)
(* and Vacant(c, k), MemoryInv without what it says of the thread current  *)
(* on c, is what SwitchToChosen repairs.  First come the fields each       *)
(* operator writes, then the queues, then rr_sched.  rr_sched_enqueue may  *)
(* write outside the queues: then `corrupt` is set, and it stays set to    *)
(* the end of the handler.                                                 *)
(***************************************************************************)
EXTENDS RRSched, TLAPS

\* What holds on CPU c when the thread it runs next is chosen.
Vacant(c, k) == /\ k \in Memory /\ ~k.bug
                /\ QueueInv(k) /\ ThreadInv(k)
                /\ \A d \in CPU \ {c} : CurrentInv(d, k)
                /\ k.current[c] = idle_threads[c] => k.cpuid[idle_threads[c]] = c
                /\ \A s \in Context : k.budget[s] # 0
                /\ c # 0 /\ k.current[0] = NULL => k.state[Root] = "TS_INIT"

\* Threads of either kind can be queued; the idle threads cannot.
LEMMA Kinds == /\ \A c \in CPU : idle_threads[c] \in Idle
               /\ Idle \subseteq Context /\ Context \subseteq Thread
               /\ User \union Shadow \subseteq Thread
               /\ (User \union Shadow) \intersect Idle = {}
               /\ User \subseteq Context /\ Root \in User /\ NULL \notin Thread
BY ThreadAssumption DEF Idle, Context, Thread

\* The fields of the memory.
LEMMA Fields ==
    ASSUME NEW k \in Memory
    PROVE  /\ k.state \in [Thread -> ThreadState]
           /\ k.thread_exit_state \in [Thread -> ExitState]
           /\ k.affinity \in [Thread -> Affinity]
           /\ k.cpuid \in [Thread -> CPU]
           /\ k.sc \in [Thread -> Context \union {NULL}]
           /\ k.budget \in [Context -> 0 .. DEFAULT_BUDGET]
           /\ k.queue \in [CPU -> Seq(User \union Shadow)]
           /\ k.queue_len \in [CPU -> Nat]
           /\ k.current \in [CPU -> Thread \union {NULL}]
           /\ k.bug \in BOOLEAN /\ k.corrupt \in BOOLEAN
BY DEF Memory

\* No affinity in the memory is too large for rr_sched_enqueue and _dequeue.
LEMMA AffinityBound ==
    ASSUME NEW k \in Memory, NEW t \in Thread
    PROVE  k.affinity[t] \in Int /\ ~(k.affinity[t] >= PLAT_CPU_NUM)
<1>1. k.affinity[t] \in Affinity
  BY Fields
<1> QED
  BY <1>1, CpuAssumption DEF Affinity

\* The functions called after rr_sched_enqueue leave affinities and `corrupt`.
Kept(k, e) == /\ {"corrupt", "affinity"} \subseteq DOMAIN e
              /\ e.corrupt = k.corrupt /\ e.affinity = k.affinity

\* What rr_sched_enqueue leaves when it has written outside the queues.
Spoilt(e) == {"corrupt", "affinity"} \subseteq DOMAIN e /\ e.corrupt

\* BUG_ON, rr_sched_dequeue and switch_to_thread leave them, and so does
\* choosing the next thread.
LEMMA SwitchKeeps ==
    ASSUME NEW c, NEW k, {"corrupt", "affinity"} \subseteq DOMAIN k
    PROVE  /\ \A b : Kept(k, BugOn(b, k))
           /\ \A t : Kept(k, switch_to_thread(c, t, k))
           /\ Kept(k, SwitchToChosen(c, k))
<1>1. ASSUME NEW m, {"corrupt", "affinity"} \subseteq DOMAIN m, NEW b
      PROVE  Kept(m, BugOn(b, m))
  BY <1>1 DEF Kept, BugOn
<1>2. ASSUME NEW m, {"corrupt", "affinity"} \subseteq DOMAIN m, NEW t
      PROVE  Kept(m, switch_to_thread(c, t, m))
  <2> DEFINE e == BugOn(m.state[t] = "TS_READY" \/ m.thread_exit_state[t] = "TE_EXITED", m)
  <2>1. Kept(m, e)
    BY <1>1, <1>2, Zenon
  <2> HIDE DEF e
  <2>2. Kept(e, [e EXCEPT !.cpuid[t] = IF t = m.current[c] THEN @ ELSE c,
                          !.state[t] = "TS_RUNNING", !.current[c] = t])
    BY <2>1 DEF Kept
  <2> QED
    BY <2>1, <2>2 DEF Kept, switch_to_thread, e
<1>3. Kept(k, SwitchToChosen(c, k))
  <2> DEFINE t == Head(k.queue[c])
             e == rr_sched_dequeue(c, t, k)
             b == BugOn(DequeueRefuses(t, k), e)
  <2>1. Kept(k, e)
    BY DEF Kept, rr_sched_dequeue
  <2> HIDE DEF e, t
  <2>2. Kept(e, b)
    BY <2>1, <1>1, Zenon DEF Kept
  <2> HIDE DEF b
  <2>3. Kept(b, switch_to_thread(c, t, b))
    BY <2>2, <1>2, Zenon DEF Kept
  <2>4. Kept(k, switch_to_thread(c, idle_threads[c], k))
    BY <1>2, Zenon
  <2> QED
    BY <2>1, <2>2, <2>3, <2>4 DEF Kept, SwitchToChosen, t, e, b
<1> QED
  BY <1>1, <1>2, <1>3, Zenon

\* rr_sched_enqueue to the queue of CPU d: the fields it writes.
Enqueued(d, t, k, e) ==
    /\ e \in Memory /\ d \in CPU
    /\ e.state = [k.state EXCEPT ![t] = "TS_READY"]
    /\ e.cpuid = [k.cpuid EXCEPT ![t] = d]
    /\ e.queue = [k.queue EXCEPT ![d] = Append(@, t)]
    /\ e.queue_len = [k.queue_len EXCEPT ![d] = @ + 1]
    /\ e.thread_exit_state = k.thread_exit_state /\ e.sc = k.sc
    /\ e.budget = k.budget /\ e.current = k.current /\ e.bug = k.bug
    /\ e.affinity = k.affinity

\* rr_sched_enqueue of a thread that is not ready and whose affinity is valid.
LEMMA EnqueueFields ==
    ASSUME NEW k \in Memory, NEW c \in CPU, NEW t \in User \union Shadow,
           k.state[t] # "TS_READY", QueueIndex(c, t, k) \in CPU
    PROVE  Enqueued(QueueIndex(c, t, k), t, k, rr_sched_enqueue(c, t, k))
<1> DEFINE d == QueueIndex(c, t, k)
           e == rr_sched_enqueue(c, t, k)
<1> USE Fields
<1>1. t \in Thread /\ t \notin Idle
  BY Kinds
<1>2. d \in CPU
  OBVIOUS
<1>3. e = [k EXCEPT !.state[t] = "TS_READY", !.cpuid[t] = d,
                    !.queue[d] = Append(@, t), !.queue_len[d] = @ + 1]
  BY <1>1, AffinityBound DEF rr_sched_enqueue, EnqueueRefuses
<1> HIDE DEF d, e
<1>4. /\ e.state = [k.state EXCEPT ![t] = "TS_READY"]
      /\ e.cpuid = [k.cpuid EXCEPT ![t] = d]
      /\ e.queue = [k.queue EXCEPT ![d] = Append(@, t)]
      /\ e.queue_len = [k.queue_len EXCEPT ![d] = @ + 1]
      /\ e.thread_exit_state = k.thread_exit_state /\ e.sc = k.sc
      /\ e.budget = k.budget /\ e.current = k.current /\ e.bug = k.bug
      /\ e.affinity = k.affinity
  BY <1>3 DEF Memory
<1>5. e \in Memory
  <2>1. /\ [k.state EXCEPT ![t] = "TS_READY"] \in [Thread -> ThreadState]
        /\ [k.cpuid EXCEPT ![t] = d] \in [Thread -> CPU]
    BY <1>1, <1>2 DEF ThreadState
  <2>2. [k.queue_len EXCEPT ![d] = @ + 1] \in [CPU -> Nat]
    BY <1>2
  <2>3. [k.queue EXCEPT ![d] = Append(@, t)] \in [CPU -> Seq(User \union Shadow)]
    BY <1>2
  <2> QED
    BY <1>3, <2>1, <2>2, <2>3, Zenon DEF Memory
<1> QED
  BY <1>2, <1>4, <1>5 DEF Enqueued, d, e

\* rr_sched_dequeue: the fields it writes.
Dequeued(c, t, k, e) ==
    /\ e \in Memory
    /\ e.state = [k.state EXCEPT ![t] = "TS_INTER"]
    /\ e.cpuid = [k.cpuid EXCEPT ![t] = c]
    /\ e.queue = [k.queue EXCEPT ![c] = Tail(@)]
    /\ e.queue_len = [k.queue_len EXCEPT ![c] = @ - 1]
    /\ e.thread_exit_state = k.thread_exit_state /\ e.sc = k.sc
    /\ e.budget = k.budget /\ e.current = k.current /\ e.bug = k.bug
    /\ e.affinity = k.affinity

\* rr_sched_dequeue of the head of a queue that is not empty.
LEMMA DequeueFields ==
    ASSUME NEW k \in Memory, NEW c \in CPU, NEW t \in User \union Shadow,
           k.state[t] = "TS_READY", k.queue[c] # <<>>, k.queue_len[c] = Len(k.queue[c])
    PROVE  Dequeued(c, t, k, rr_sched_dequeue(c, t, k))
<1> DEFINE e == rr_sched_dequeue(c, t, k)
<1> USE Fields
<1>1. t \in Thread /\ t \notin Idle
  BY Kinds
<1>2. e = [k EXCEPT !.state[t] = "TS_INTER", !.cpuid[t] = c,
                    !.queue[c] = Tail(@), !.queue_len[c] = @ - 1]
  BY <1>1, AffinityBound DEF rr_sched_dequeue, DequeueRefuses
<1> HIDE DEF e
<1>3. /\ e.state = [k.state EXCEPT ![t] = "TS_INTER"]
      /\ e.cpuid = [k.cpuid EXCEPT ![t] = c]
      /\ e.queue = [k.queue EXCEPT ![c] = Tail(@)]
      /\ e.queue_len = [k.queue_len EXCEPT ![c] = @ - 1]
      /\ e.thread_exit_state = k.thread_exit_state /\ e.sc = k.sc
      /\ e.budget = k.budget /\ e.current = k.current /\ e.bug = k.bug
      /\ e.affinity = k.affinity
  BY <1>2 DEF Memory
<1>4. e \in Memory
  <2>1. /\ [k.state EXCEPT ![t] = "TS_INTER"] \in [Thread -> ThreadState]
        /\ [k.cpuid EXCEPT ![t] = c] \in [Thread -> CPU]
    BY <1>1 DEF ThreadState
  <2>2. k.queue[c] \in Seq(User \union Shadow) /\ Len(k.queue[c]) > 0
    OBVIOUS
  <2>3. [k.queue_len EXCEPT ![c] = @ - 1] \in [CPU -> Nat]
    BY <2>2
  <2>4. [k.queue EXCEPT ![c] = Tail(@)] \in [CPU -> Seq(User \union Shadow)]
    BY <2>2
  <2> QED
    BY <1>2, <2>1, <2>3, <2>4, Zenon DEF Memory
<1> QED
  BY <1>3, <1>4 DEF Dequeued, e

\* switch_to_thread: the fields it writes.
Switched(c, t, k, e) ==
    /\ e \in Memory
    /\ e.state = [k.state EXCEPT ![t] = "TS_RUNNING"]
    /\ e.cpuid = [k.cpuid EXCEPT ![t] = IF t = k.current[c] THEN @ ELSE c]
    /\ e.current = [k.current EXCEPT ![c] = t]
    /\ e.bug => k.bug \/ k.state[t] = "TS_READY" \/ k.thread_exit_state[t] = "TE_EXITED"
    /\ e.queue = k.queue /\ e.queue_len = k.queue_len
    /\ e.thread_exit_state = k.thread_exit_state /\ e.sc = k.sc
    /\ e.budget = k.budget /\ e.affinity = k.affinity

\* switch_to_thread writes these fields.
LEMMA SwitchFields ==
    ASSUME NEW k \in Memory, NEW c \in CPU, NEW t \in Thread
    PROVE  Switched(c, t, k, switch_to_thread(c, t, k))
<1> DEFINE e == switch_to_thread(c, t, k)
           b == k.bug \/ k.state[t] = "TS_READY" \/ k.thread_exit_state[t] = "TE_EXITED"
           p == IF t = k.current[c] THEN k.cpuid[t] ELSE c
<1> USE Fields
<1>1. e = [k EXCEPT !.bug = b, !.cpuid[t] = p, !.state[t] = "TS_RUNNING", !.current[c] = t]
  BY DEF switch_to_thread, BugOn, Memory
<1>2. b \in BOOLEAN /\ p \in CPU
  OBVIOUS
<1> HIDE DEF e, b, p
<1>3. /\ e.state = [k.state EXCEPT ![t] = "TS_RUNNING"]
      /\ e.cpuid = [k.cpuid EXCEPT ![t] = p]
      /\ e.current = [k.current EXCEPT ![c] = t]
      /\ e.bug = b
      /\ e.queue = k.queue /\ e.queue_len = k.queue_len
      /\ e.thread_exit_state = k.thread_exit_state /\ e.sc = k.sc
      /\ e.budget = k.budget /\ e.affinity = k.affinity
  BY <1>1 DEF Memory
<1>4. e \in Memory
  <2>1. /\ [k.state EXCEPT ![t] = "TS_RUNNING"] \in [Thread -> ThreadState]
        /\ [k.cpuid EXCEPT ![t] = p] \in [Thread -> CPU]
        /\ [k.current EXCEPT ![c] = t] \in [CPU -> Thread \union {NULL}]
    BY <1>2 DEF ThreadState
  <2> QED
    BY <1>1, <1>2, <2>1, Zenon DEF Memory
<1> QED
  BY <1>3, <1>4 DEF Switched, e, b, p

\* QueueInv as a predicate of the four fields it is about.
Queues(q, len, st, cpu) ==
    /\ \A c \in CPU : len[c] = Len(q[c])
    /\ \A c \in CPU : \A i \in 1 .. Len(q[c]) : st[q[c][i]] = "TS_READY" /\ cpu[q[c][i]] = c
    /\ \A c \in CPU : \A i, j \in 1 .. Len(q[c]) : q[c][i] = q[c][j] => i = j
    /\ \A t \in Thread : st[t] = "TS_READY" => \E i \in 1 .. Len(q[cpu[t]]) : q[cpu[t]][i] = t

\* QueueInv depends on no other field.
LEMMA QueueInvFields ==
    ASSUME NEW k PROVE QueueInv(k) <=> Queues(k.queue, k.queue_len, k.state, k.cpuid)
BY DEF QueueInv, Queues

\* Appending a thread that was in no queue keeps the queues consistent.
LEMMA AppendKeeps ==
    ASSUME NEW q \in [CPU -> Seq(User \union Shadow)], NEW len \in [CPU -> Nat],
           NEW st \in [Thread -> ThreadState], NEW cpu \in [Thread -> CPU],
           NEW d \in CPU, NEW t \in User \union Shadow,
           st[t] # "TS_READY", Queues(q, len, st, cpu)
    PROVE  Queues([q EXCEPT ![d] = Append(@, t)], [len EXCEPT ![d] = @ + 1],
                  [st EXCEPT ![t] = "TS_READY"], [cpu EXCEPT ![t] = d])
<1> DEFINE q2 == [q EXCEPT ![d] = Append(@, t)]
           len2 == [len EXCEPT ![d] = @ + 1]
           st2 == [st EXCEPT ![t] = "TS_READY"]
           cpu2 == [cpu EXCEPT ![t] = d]
<1>1. t \in Thread
  BY Kinds
<1>2. \A b \in CPU : q[b] \in Seq(User \union Shadow) /\ Len(q[b]) \in Nat
  OBVIOUS
<1>3. \A b \in CPU : \A i \in 1 .. Len(q[b]) : q[b][i] # t /\ q[b][i] \in Thread
  BY <1>2, Kinds DEF Queues
<1>4. /\ Len(q2[d]) = Len(q[d]) + 1 /\ q2[d][Len(q[d]) + 1] = t
      /\ \A i \in 1 .. Len(q[d]) : q2[d][i] = q[d][i]
  BY <1>2
<1>5. \A b \in CPU \ {d} : q2[b] = q[b]
  OBVIOUS
<1>6. /\ len2[d] = len[d] + 1 /\ \A b \in CPU \ {d} : len2[b] = len[b]
      /\ st2[t] = "TS_READY" /\ cpu2[t] = d
      /\ \A u \in Thread \ {t} : st2[u] = st[u] /\ cpu2[u] = cpu[u]
  BY <1>1
<1> HIDE DEF q2, len2, st2, cpu2
<1>7. ASSUME NEW b \in CPU PROVE len2[b] = Len(q2[b])
  <2>1. len[b] = Len(q[b])
    BY DEF Queues
  <2>2. CASE b = d
    BY <2>1, <2>2, <1>4, <1>6
  <2>3. CASE b # d
    BY <2>1, <2>3, <1>5, <1>6
  <2> QED
    BY <2>2, <2>3
<1>8. ASSUME NEW b \in CPU, NEW i \in 1 .. Len(q2[b])
      PROVE  st2[q2[b][i]] = "TS_READY" /\ cpu2[q2[b][i]] = b
  <2>1. CASE b = d /\ i = Len(q[d]) + 1
    BY <2>1, <1>4, <1>6
  <2>2. CASE b # d \/ i # Len(q[d]) + 1
    <3>1. i \in 1 .. Len(q[b]) /\ q2[b][i] = q[b][i]
      BY <2>2, <1>2, <1>4, <1>5
    <3> QED
      BY <3>1, <1>3, <1>6 DEF Queues
  <2> QED
    BY <2>1, <2>2
<1>9. ASSUME NEW b \in CPU, NEW i \in 1 .. Len(q2[b]), NEW j \in 1 .. Len(q2[b]),
             q2[b][i] = q2[b][j]
      PROVE  i = j
  <2>1. CASE b = d
    <3>1. \A x \in 1 .. Len(q2[d]) : x \in 1 .. Len(q[d]) \/ x = Len(q[d]) + 1
      BY <1>2, <1>4
    <3>2. \A x \in 1 .. Len(q[d]) : q2[d][x] = q[d][x] /\ q2[d][x] # t
      BY <1>3, <1>4, SMTT(30)
    <3>3. CASE i = Len(q[d]) + 1 \/ j = Len(q[d]) + 1
      BY <2>1, <3>1, <3>2, <3>3, <1>4, <1>9
    <3>4. CASE i \in 1 .. Len(q[d]) /\ j \in 1 .. Len(q[d])
      <4>1. q[d][i] = q[d][j]
        BY <2>1, <3>2, <3>4, <1>9
      <4> QED
        BY <3>4, <4>1 DEF Queues
    <3> QED
      BY <2>1, <3>1, <3>3, <3>4
  <2>2. CASE b # d
    BY <2>2, <1>5, <1>9 DEF Queues
  <2> QED
    BY <2>1, <2>2
<1>10. ASSUME NEW u \in Thread, st2[u] = "TS_READY"
       PROVE  \E i \in 1 .. Len(q2[cpu2[u]]) : q2[cpu2[u]][i] = u
  <2>1. CASE u = t
    <3>1. Len(q[d]) + 1 \in 1 .. Len(q2[d])
      BY <1>2, <1>4
    <3> QED
      BY <2>1, <3>1, <1>4, <1>6
  <2>2. CASE u # t
    <3>1. st[u] = "TS_READY" /\ cpu2[u] = cpu[u] /\ cpu[u] \in CPU
      BY <2>2, <1>6, <1>10
    <3>2. PICK i \in 1 .. Len(q[cpu[u]]) : q[cpu[u]][i] = u
      BY <3>1 DEF Queues
    <3>3. i \in 1 .. Len(q2[cpu[u]]) /\ q2[cpu[u]][i] = u
      <4>1. CASE cpu[u] = d
        <5>1. 1 .. Len(q[d]) \subseteq 1 .. Len(q2[d])
          BY <1>2, <1>4
        <5> QED
          BY <4>1, <5>1, <3>2, <1>4
      <4>2. CASE cpu[u] # d
        BY <4>2, <3>1, <3>2, <1>5
      <4> QED
        BY <4>1, <4>2
    <3> QED
      BY <3>1, <3>3
  <2> QED
    BY <2>1, <2>2
<1> QED
  BY <1>7, <1>8, <1>9, <1>10, SMTT(30) DEF Queues, q2, len2, st2, cpu2

\* Removing the head of a queue keeps the queues consistent.
LEMMA TailKeeps ==
    ASSUME NEW q \in [CPU -> Seq(User \union Shadow)], NEW len \in [CPU -> Nat],
           NEW st \in [Thread -> ThreadState], NEW cpu \in [Thread -> CPU],
           NEW c \in CPU, q[c] # <<>>, Queues(q, len, st, cpu),
           NEW s, s # "TS_READY"
    PROVE  Queues([q EXCEPT ![c] = Tail(@)], [len EXCEPT ![c] = @ - 1],
                  [st EXCEPT ![Head(q[c])] = s], [cpu EXCEPT ![Head(q[c])] = c])
<1> DEFINE t == Head(q[c])
           q2 == [q EXCEPT ![c] = Tail(@)]
           len2 == [len EXCEPT ![c] = @ - 1]
           st2 == [st EXCEPT ![t] = s]
           cpu2 == [cpu EXCEPT ![t] = c]
<1>1. \A b \in CPU : q[b] \in Seq(User \union Shadow) /\ Len(q[b]) \in Nat
  OBVIOUS
<1>2. Len(q[c]) > 0 /\ 1 \in 1 .. Len(q[c]) /\ t = q[c][1] /\ t \in User \union Shadow
  BY <1>1
<1>3. t \in Thread /\ st[t] = "TS_READY" /\ cpu[t] = c
  BY <1>2, Kinds DEF Queues
<1>4. \A b \in CPU : \A i \in 1 .. Len(q[b]) :
         /\ q[b][i] \in Thread /\ st[q[b][i]] = "TS_READY" /\ cpu[q[b][i]] = b
         /\ q[b][i] = t => b = c /\ i = 1
  BY <1>1, <1>2, <1>3, Kinds DEF Queues
<1>5. /\ Len(q2[c]) = Len(q[c]) - 1
      /\ \A i \in 1 .. Len(q2[c]) : q2[c][i] = q[c][i + 1] /\ i + 1 \in 1 .. Len(q[c])
  BY <1>1, <1>2
<1>6. \A b \in CPU \ {c} : q2[b] = q[b]
  OBVIOUS
<1>7. /\ len2[c] = len[c] - 1 /\ \A b \in CPU \ {c} : len2[b] = len[b]
      /\ st2[t] = s /\ \A u \in Thread \ {t} : st2[u] = st[u] /\ cpu2[u] = cpu[u]
  BY <1>3
<1> HIDE DEF t, q2, len2, st2, cpu2
<1>8. ASSUME NEW b \in CPU PROVE len2[b] = Len(q2[b])
  <2>1. len[b] = Len(q[b])
    BY DEF Queues
  <2>2. CASE b = c
    BY <2>1, <2>2, <1>5, <1>7
  <2>3. CASE b # c
    BY <2>1, <2>3, <1>6, <1>7
  <2> QED
    BY <2>2, <2>3
<1>9. ASSUME NEW b \in CPU, NEW i \in 1 .. Len(q2[b])
      PROVE  \E x \in 1 .. Len(q[b]) : /\ q2[b][i] = q[b][x] /\ q[b][x] # t
                                        /\ x = IF b = c THEN i + 1 ELSE i
  <2>1. CASE b = c
    <3>1. i + 1 \in 1 .. Len(q[c]) /\ q2[c][i] = q[c][i + 1] /\ i + 1 # 1
      BY <2>1, <1>5
    <3> QED
      BY <2>1, <3>1, <1>4
  <2>2. CASE b # c
    BY <2>2, <1>4, <1>6
  <2> QED
    BY <2>1, <2>2
<1>10. ASSUME NEW b \in CPU, NEW i \in 1 .. Len(q2[b])
       PROVE  st2[q2[b][i]] = "TS_READY" /\ cpu2[q2[b][i]] = b
  <2>1. PICK x \in 1 .. Len(q[b]) : q2[b][i] = q[b][x] /\ q[b][x] # t
    BY <1>9
  <2>2. q[b][x] \in Thread \ {t} /\ st[q[b][x]] = "TS_READY" /\ cpu[q[b][x]] = b
    BY <2>1, <1>4
  <2> QED
    BY <2>1, <2>2, <1>7
<1>11. ASSUME NEW b \in CPU, NEW i \in 1 .. Len(q2[b]), NEW j \in 1 .. Len(q2[b]),
              q2[b][i] = q2[b][j]
       PROVE  i = j
  <2>1. PICK x \in 1 .. Len(q[b]) : q2[b][i] = q[b][x] /\ x = IF b = c THEN i + 1 ELSE i
    BY <1>9
  <2>2. PICK y \in 1 .. Len(q[b]) : q2[b][j] = q[b][y] /\ y = IF b = c THEN j + 1 ELSE j
    BY <1>9
  <2>3. x = y
    BY <2>1, <2>2, <1>11 DEF Queues
  <2> QED
    BY <2>1, <2>2, <2>3
<1>12. ASSUME NEW u \in Thread, st2[u] = "TS_READY"
       PROVE  \E i \in 1 .. Len(q2[cpu2[u]]) : q2[cpu2[u]][i] = u
  <2>1. u # t
    BY <1>7, <1>12
  <2>2. st[u] = "TS_READY" /\ cpu2[u] = cpu[u] /\ cpu[u] \in CPU
    BY <2>1, <1>7, <1>12
  <2>3. PICK i \in 1 .. Len(q[cpu[u]]) : q[cpu[u]][i] = u
    BY <2>2 DEF Queues
  <2>4. CASE cpu[u] = c
    <3>1. i # 1
      BY <2>1, <2>3, <2>4, <1>2
    <3>2. i - 1 \in 1 .. Len(q2[c])
      BY <2>3, <2>4, <3>1, <1>1, <1>5
    <3>3. q2[c][i - 1] = q[c][(i - 1) + 1]
      BY <3>2, <1>5
    <3>4. (i - 1) + 1 = i
      BY <2>3
    <3> QED
      BY <2>2, <2>3, <2>4, <3>2, <3>3, <3>4
  <2>5. CASE cpu[u] # c
    BY <2>2, <2>3, <2>5, <1>6
  <2> QED
    BY <2>4, <2>5
<1> QED
  BY <1>8, <1>10, <1>11, <1>12, Zenon DEF Queues, q2, len2, st2, cpu2, t

\* A BUG_ON whose condition is false changes nothing.
LEMMA BugOnFalse ==
    ASSUME NEW k \in Memory, NEW cond, ~cond
    PROVE  BugOn(cond, k) = k
BY Fields DEF BugOn, Memory

\* Changing a thread that is not ready, and does not become ready, leaves the
\* queues consistent.
LEMMA OtherKeeps ==
    ASSUME NEW q \in [CPU -> Seq(User \union Shadow)], NEW len \in [CPU -> Nat],
           NEW st \in [Thread -> ThreadState], NEW cpu \in [Thread -> CPU],
           Queues(q, len, st, cpu),
           NEW t \in Thread, st[t] # "TS_READY", NEW s, s # "TS_READY", NEW d
    PROVE  Queues(q, len, [st EXCEPT ![t] = s], [cpu EXCEPT ![t] = d])
<1> DEFINE st2 == [st EXCEPT ![t] = s]
           cpu2 == [cpu EXCEPT ![t] = d]
<1>1. st2[t] = s /\ \A u \in Thread \ {t} : st2[u] = st[u] /\ cpu2[u] = cpu[u]
  OBVIOUS
<1>2. \A b \in CPU : \A i \in 1 .. Len(q[b]) : q[b][i] \in Thread \ {t}
  BY Kinds DEF Queues
<1> HIDE DEF st2, cpu2
<1>3. ASSUME NEW b \in CPU, NEW i \in 1 .. Len(q[b])
      PROVE  st2[q[b][i]] = "TS_READY" /\ cpu2[q[b][i]] = b
  BY <1>1, <1>2 DEF Queues
<1>4. ASSUME NEW u \in Thread, st2[u] = "TS_READY"
      PROVE  \E i \in 1 .. Len(q[cpu2[u]]) : q[cpu2[u]][i] = u
  <2>1. u # t
    BY <1>1, <1>4
  <2> QED
    BY <2>1, <1>1, <1>4 DEF Queues
<1>5. Queues(q, len, st2, cpu2)
  BY <1>3, <1>4 DEF Queues
<1> QED
  BY <1>5 DEF st2, cpu2

\* switch_to_thread of a thread fit to run restores the invariant.
LEMMA Dispatch ==
    ASSUME NEW c \in CPU, NEW k, Vacant(c, k), NEW t \in Thread,
           k.state[t] # "TS_READY", k.thread_exit_state[t] = "TE_RUNNING", k.sc[t] # NULL,
           t \in Idle => t = idle_threads[c],
           t = k.current[c] => k.cpuid[t] = c,
           \A d \in CPU \ {c} : k.current[d] # t,
           c # 0 /\ k.current[0] = NULL => t # Root
    PROVE  MemoryInv(switch_to_thread(c, t, k))
<1> DEFINE e == switch_to_thread(c, t, k)
<1>k. k \in Memory
  BY DEF Vacant
<1>f. /\ k.state \in [Thread -> ThreadState] /\ k.cpuid \in [Thread -> CPU]
      /\ k.queue \in [CPU -> Seq(User \union Shadow)] /\ k.queue_len \in [CPU -> Nat]
      /\ k.current \in [CPU -> Thread \union {NULL}]
  BY <1>k, Fields
<1>s. Switched(c, t, k, e)
  BY <1>k, SwitchFields
<1> HIDE DEF e
<1>1. /\ e \in Memory
      /\ e.state = [k.state EXCEPT ![t] = "TS_RUNNING"]
      /\ e.cpuid = [k.cpuid EXCEPT ![t] = IF t = k.current[c] THEN @ ELSE c]
      /\ e.current = [k.current EXCEPT ![c] = t]
      /\ e.queue = k.queue /\ e.queue_len = k.queue_len
      /\ e.thread_exit_state = k.thread_exit_state /\ e.sc = k.sc
      /\ e.budget = k.budget
  BY <1>s DEF Switched
<1>2. e.cpuid = [k.cpuid EXCEPT ![t] = c]
  <2>1. CASE t = k.current[c]
    BY <2>1, <1>1, <1>f
  <2>2. CASE t # k.current[c]
    BY <2>2, <1>1, <1>f
  <2> QED
    BY <2>1, <2>2
<1>3. ~e.bug
  BY <1>s DEF Vacant, Switched
<1>4. QueueInv(e)
  <2>1. Queues(k.queue, k.queue_len, k.state, k.cpuid)
    BY QueueInvFields DEF Vacant
  <2>2. Queues(k.queue, k.queue_len, [k.state EXCEPT ![t] = "TS_RUNNING"],
               [k.cpuid EXCEPT ![t] = c])
    BY <2>1, <1>f, OtherKeeps, Zenon
  <2>3. Queues(e.queue, e.queue_len, e.state, e.cpuid)
    BY <2>2, <1>1, <1>2
  <2> QED
    BY <2>3, QueueInvFields
<1>5. ThreadInv(e)
  BY <1>1, <1>f DEF Vacant, ThreadInv
<1>6. ASSUME NEW d \in CPU PROVE CurrentInv(d, e)
  <2>1. CASE d = c
    BY <2>1, <1>1, <1>2, <1>f DEF CurrentInv
  <2>2. CASE d # c
    <3>1. e.current[d] = k.current[d] /\ k.current[d] # t /\ CurrentInv(d, k)
      BY <2>2, <1>1, <1>f DEF Vacant
    <3> QED
      BY <3>1, <1>1, <1>2, <1>f DEF CurrentInv
  <2> QED
    BY <2>1, <2>2
<1>7. e.current[0] = NULL => e.state[Root] = "TS_INIT"
  <2>1. 0 \in CPU /\ Root \in Thread
    BY CpuAssumption, Kinds DEF CPU
  <2>2. CASE c = 0
    BY <2>2, <1>1, <1>f, Kinds
  <2>3. CASE c # 0
    BY <2>1, <2>3, <1>1, <1>f DEF Vacant
  <2> QED
    BY <2>2, <2>3
<1> QED
  BY <1>1, <1>3, <1>4, <1>5, <1>6, <1>7 DEF MemoryInv, Vacant, e

\* A ready thread waits in a queue, so it is no idle thread.
LEMMA ReadyNotIdle ==
    ASSUME NEW k \in Memory, QueueInv(k), NEW t \in Thread, k.state[t] = "TS_READY"
    PROVE  t \in User \union Shadow /\ t \notin Idle
<1>1. k.queue \in [CPU -> Seq(User \union Shadow)] /\ k.cpuid[t] \in CPU
  BY Fields
<1>2. PICK i \in 1 .. Len(k.queue[k.cpuid[t]]) : k.queue[k.cpuid[t]][i] = t
  BY DEF QueueInv
<1>3. t \in User \union Shadow
  BY <1>1, <1>2
<1> QED
  BY <1>3, Kinds

\* rr_sched_dequeue of the head of a queue leaves a memory to dispatch it from.
LEMMA DequeueVacant ==
    ASSUME NEW c \in CPU, NEW k, Vacant(c, k), k.queue_len[c] # 0, NEW t, t = Head(k.queue[c])
    PROVE  /\ t \in User \union Shadow /\ k.state[t] = "TS_READY"
           /\ Dequeued(c, t, k, rr_sched_dequeue(c, t, k))
           /\ Vacant(c, rr_sched_dequeue(c, t, k))
<1> DEFINE e == rr_sched_dequeue(c, t, k)
<1>k. k \in Memory
  BY DEF Vacant
<1>f. /\ k.state \in [Thread -> ThreadState] /\ k.cpuid \in [Thread -> CPU]
      /\ k.queue \in [CPU -> Seq(User \union Shadow)] /\ k.queue_len \in [CPU -> Nat]
      /\ k.current \in [CPU -> Thread \union {NULL}]
  BY <1>k, Fields
<1>1. k.queue_len[c] = Len(k.queue[c]) /\ k.queue[c] \in Seq(User \union Shadow)
  BY <1>f DEF Vacant, QueueInv
<1>2. k.queue[c] # <<>> /\ t = k.queue[c][1] /\ 1 \in 1 .. Len(k.queue[c]) /\ t \in User \union Shadow
  BY <1>1
<1>3. k.state[t] = "TS_READY"
  BY <1>2 DEF Vacant, QueueInv
<1>4. Dequeued(c, t, k, e)
  BY <1>k, <1>1, <1>2, <1>3, DequeueFields
<1>5. t \in Thread /\ t \notin Idle
  BY <1>2, Kinds
<1> HIDE DEF e
<1>6. /\ \A u \in Thread \ {t} : e.state[u] = k.state[u] /\ e.cpuid[u] = k.cpuid[u]
      /\ e.state[t] = "TS_INTER"
  BY <1>4, <1>5, <1>f DEF Dequeued
<1>7. QueueInv(e)
  <2>1. Queues(k.queue, k.queue_len, k.state, k.cpuid)
    BY QueueInvFields DEF Vacant
  <2>2. Queues([k.queue EXCEPT ![c] = Tail(@)], [k.queue_len EXCEPT ![c] = @ - 1],
               [k.state EXCEPT ![Head(k.queue[c])] = "TS_INTER"],
               [k.cpuid EXCEPT ![Head(k.queue[c])] = c])
    BY <2>1, <1>2, <1>f, TailKeeps, Zenon
  <2>3. Queues(e.queue, e.queue_len, e.state, e.cpuid)
    BY <2>2, <1>4 DEF Dequeued
  <2> QED
    BY <2>3, QueueInvFields
<1>8. ThreadInv(e)
  BY <1>4, <1>6 DEF Vacant, ThreadInv, Dequeued
<1>9. ASSUME NEW d \in CPU \ {c} PROVE CurrentInv(d, e)
  <2>1. CurrentInv(d, k) /\ k.current[d] \in Thread \union {NULL} /\ e.current[d] = k.current[d]
    BY <1>4, <1>f DEF Vacant, Dequeued
  <2>2. k.current[d] # t
    BY <2>1, <1>3, <1>5, Kinds DEF CurrentInv
  <2> QED
    BY <2>1, <2>2, <1>4, <1>6 DEF CurrentInv, Dequeued
<1>10. e.current[c] = idle_threads[c] => e.cpuid[idle_threads[c]] = c
  BY <1>4, <1>5, <1>6, Kinds DEF Vacant, Dequeued
<1>11. c # 0 /\ e.current[0] = NULL => e.state[Root] = "TS_INIT"
  BY <1>3, <1>4, <1>6, Kinds DEF Vacant, Dequeued
<1>12. Vacant(c, e)
  BY <1>4, <1>7, <1>8, <1>9, <1>10, <1>11 DEF Vacant, Dequeued
<1> QED
  BY <1>2, <1>3, <1>4, <1>12 DEF e

\* rr_sched_choose_thread and switch_to_thread restore the invariant.
LEMMA ChooseSwitch ==
    ASSUME NEW c \in CPU, NEW k, Vacant(c, k)
    PROVE  MemoryInv(SwitchToChosen(c, k))
<1>k. k \in Memory
  BY DEF Vacant
<1>f. k.current \in [CPU -> Thread \union {NULL}]
  BY <1>k, Fields
<1>1. CASE k.queue_len[c] = 0
  <2> DEFINE t == idle_threads[c]
  <2>1. t \in Idle /\ t \in Context /\ t \in Thread /\ t # Root /\ t # NULL
    BY Kinds
  <2>2. k.state[t] # "TS_READY"
    BY <2>1, <1>k, ReadyNotIdle DEF Vacant
  <2>3. k.thread_exit_state[t] = "TE_RUNNING" /\ k.sc[t] # NULL
    BY <2>1 DEF Vacant, ThreadInv
  <2>4. ASSUME NEW d \in CPU \ {c} PROVE k.current[d] # t
    BY <2>1, IdleAssumption DEF Vacant, CurrentInv
  <2>5. MemoryInv(switch_to_thread(c, t, k))
    <3>1. t = k.current[c] => k.cpuid[t] = c
      BY DEF Vacant
    <3> HIDE DEF t
    <3> QED
      BY <2>1, <2>2, <2>3, <2>4, <3>1, Dispatch DEF t
  <2> QED
    BY <1>1, <2>5 DEF SwitchToChosen
<1>2. CASE k.queue_len[c] # 0
  <2> DEFINE t == Head(k.queue[c])
             e == rr_sched_dequeue(c, t, k)
  <2>1. /\ t \in User \union Shadow /\ k.state[t] = "TS_READY"
        /\ Dequeued(c, t, k, e) /\ Vacant(c, e)
    BY <1>2, DequeueVacant
  <2>2. t \in Thread /\ t \notin Idle
    BY <2>1, Kinds
  <2>3. BugOn(DequeueRefuses(t, k), e) = e
    <3>1. ~DequeueRefuses(t, k) /\ e \in Memory
      BY <2>1, <2>2, <1>k, AffinityBound DEF DequeueRefuses, Dequeued
    <3> HIDE DEF e, t
    <3> QED
      BY <3>1, BugOnFalse
  <2>4. SwitchToChosen(c, k) = switch_to_thread(c, t, e)
    BY <1>2, <2>3 DEF SwitchToChosen
  <2> HIDE DEF t, e
  <2>5. e.state[t] # "TS_READY"
    BY <2>1, <2>2, <1>k, Fields DEF Dequeued
  <2>6. e.thread_exit_state[t] = "TE_RUNNING" /\ e.sc[t] # NULL
    BY <2>1, <2>2 DEF Vacant, ThreadInv, Dequeued
  <2>7. t = e.current[c] => e.cpuid[t] = c
    BY <2>1, <2>2, <1>k, Fields DEF Dequeued
  <2>8. ASSUME NEW d \in CPU \ {c} PROVE e.current[d] # t
    BY <2>1, <2>2, Kinds DEF Vacant, CurrentInv, Dequeued
  <2>9. c # 0 /\ e.current[0] = NULL => t # Root
    BY <2>1 DEF Vacant, Dequeued
  <2> QED
    BY <2>1, <2>2, <2>4, <2>5, <2>6, <2>7, <2>8, <2>9, Dispatch
<1> QED
  BY <1>1, <1>2

\* rr_sched_enqueue of a thread fit to run: what it keeps.
Joined(t, k, e) ==
    /\ e \in Memory /\ QueueInv(e) /\ ThreadInv(e)
    /\ e.state[t] = "TS_READY"
    /\ \A u \in Thread \ {t} : e.state[u] = k.state[u] /\ e.cpuid[u] = k.cpuid[u]
    /\ e.thread_exit_state = k.thread_exit_state /\ e.sc = k.sc
    /\ e.budget = k.budget /\ e.current = k.current /\ e.bug = k.bug

\* rr_sched_enqueue does not refuse such a thread: it keeps the rest, or
\* writes outside the queues, and the latter only for an invalid affinity.
LEMMA EnqueueJoins ==
    ASSUME NEW k \in Memory, QueueInv(k), ThreadInv(k),
           NEW c \in CPU, NEW t \in User \union Shadow,
           k.state[t] # "TS_READY", k.thread_exit_state[t] = "TE_RUNNING", k.sc[t] # NULL
    PROVE  LET e == BugOn(EnqueueRefuses(t, k), rr_sched_enqueue(c, t, k)) IN
           IF QueueIndex(c, t, k) \in CPU
           THEN Joined(t, k, e)
           ELSE Spoilt(e)
<1> DEFINE d == QueueIndex(c, t, k)
           e == rr_sched_enqueue(c, t, k)
<1>f. /\ k.state \in [Thread -> ThreadState] /\ k.cpuid \in [Thread -> CPU]
      /\ k.queue \in [CPU -> Seq(User \union Shadow)] /\ k.queue_len \in [CPU -> Nat]
  BY Fields
<1>0. ASSUME d \notin CPU
      PROVE  Spoilt(BugOn(EnqueueRefuses(t, k), e))
  <2>1. t \notin Idle /\ ~EnqueueRefuses(t, k)
    BY Kinds, AffinityBound DEF EnqueueRefuses
  <2>2. e = [k EXCEPT !.state[t] = "TS_READY", !.cpuid[t] = d, !.corrupt = TRUE]
    BY <1>0, <2>1 DEF rr_sched_enqueue
  <2>3. Spoilt(e)
    BY <2>2 DEF Memory, Spoilt
  <2> HIDE DEF e
  <2> QED
    BY <2>3, SwitchKeeps DEF Kept, Spoilt
<1> SUFFICES ASSUME d \in CPU PROVE Joined(t, k, BugOn(EnqueueRefuses(t, k), e))
  BY <1>0
<1>1. Enqueued(d, t, k, e)
  BY EnqueueFields
<1>2. BugOn(EnqueueRefuses(t, k), e) = e
  <2>1. ~EnqueueRefuses(t, k) /\ e \in Memory
    BY <1>1, Kinds, AffinityBound DEF EnqueueRefuses, Enqueued
  <2> HIDE DEF e
  <2> QED
    BY <2>1, BugOnFalse
<1>3. t \in Thread
  BY Kinds
<1> HIDE DEF d, e
<1>4. /\ \A u \in Thread \ {t} : e.state[u] = k.state[u] /\ e.cpuid[u] = k.cpuid[u]
      /\ e.state[t] = "TS_READY"
  BY <1>1, <1>3, <1>f DEF Enqueued
<1>5. QueueInv(e)
  <2>1. Queues(k.queue, k.queue_len, k.state, k.cpuid) /\ d \in CPU
    BY <1>1, QueueInvFields DEF Enqueued
  <2>2. Queues([k.queue EXCEPT ![d] = Append(@, t)], [k.queue_len EXCEPT ![d] = @ + 1],
               [k.state EXCEPT ![t] = "TS_READY"], [k.cpuid EXCEPT ![t] = d])
    BY <2>1, <1>f, AppendKeeps, Zenon
  <2>3. Queues(e.queue, e.queue_len, e.state, e.cpuid)
    BY <2>2, <1>1 DEF Enqueued
  <2> QED
    BY <2>3, QueueInvFields
<1>6. ThreadInv(e)
  BY <1>1, <1>3, <1>4 DEF ThreadInv, Enqueued
<1>7. Joined(t, k, e)
  BY <1>1, <1>4, <1>5, <1>6 DEF Joined, Enqueued
<1> QED
  BY <1>2, <1>7 DEF e

\* What rr_sched finds on CPU c: the invariant, except that the current
\* thread may wait or exit, or else be out of budget.
Transit(c, k) ==
    /\ k \in Memory /\ ~k.bug
    /\ QueueInv(k) /\ ThreadInv(k)
    /\ \A d \in CPU \ {c} : CurrentInv(d, k)
    /\ k.current[c] # NULL => /\ k.state[k.current[c]] \notin {"TS_READY", "TS_INIT"}
                              /\ k.cpuid[k.current[c]] = c
                              /\ k.sc[k.current[c]] # NULL
                              /\ k.current[c] \in Idle => k.current[c] = idle_threads[c]
                              /\ \A d \in CPU \ {c} : k.current[d] # k.current[c]
    /\ \A s \in Context : k.budget[s] = 0 => WantsCpu(c, k) /\ s = k.sc[k.current[c]]
    /\ c # 0 /\ k.current[0] = NULL => k.state[Root] = "TS_INIT"

\* Without an empty budget the CPU is free for the next thread.
LEMMA TransitVacant ==
    ASSUME NEW c \in CPU, NEW k, Transit(c, k),
           \A s \in Context : k.budget[s] # 0
    PROVE  Vacant(c, k)
<1>1. idle_threads[c] # NULL
  BY Kinds
<1> QED
  BY <1>1 DEF Transit, Vacant

\* A write to a budget (rr_sched_refill_budget, the timer, sys_yield).
Rebudgeted(s, v, k, e) ==
    /\ e \in Memory
    /\ e.budget = [k.budget EXCEPT ![s] = v]
    /\ e.state = k.state /\ e.cpuid = k.cpuid
    /\ e.queue = k.queue /\ e.queue_len = k.queue_len
    /\ e.thread_exit_state = k.thread_exit_state /\ e.sc = k.sc
    /\ e.current = k.current /\ e.bug = k.bug

\* Such a write keeps the memory's type and its other fields.
LEMMA BudgetFields ==
    ASSUME NEW k \in Memory, NEW s \in Context, NEW v \in 0 .. DEFAULT_BUDGET
    PROVE  Rebudgeted(s, v, k, [k EXCEPT !.budget[s] = v])
<1>1. [k.budget EXCEPT ![s] = v] \in [Context -> 0 .. DEFAULT_BUDGET]
  BY Fields
<1> QED
  BY <1>1, Fields, Zenon DEF Memory, Rebudgeted

\* The rest of the invariant does not depend on budgets.
LEMMA RebudgetKeeps ==
    ASSUME NEW s, NEW v, NEW k, NEW e, Rebudgeted(s, v, k, e)
    PROVE  /\ QueueInv(k) => QueueInv(e)
           /\ ThreadInv(k) => ThreadInv(e)
           /\ \A d \in CPU : CurrentInv(d, k) => CurrentInv(d, e)
<1>1. QueueInv(k) => QueueInv(e)
  <2>1. Queues(k.queue, k.queue_len, k.state, k.cpuid)
          => Queues(e.queue, e.queue_len, e.state, e.cpuid)
    BY DEF Rebudgeted
  <2> QED
    BY <2>1, QueueInvFields
<1>2. ThreadInv(k) => ThreadInv(e)
  BY DEF ThreadInv, Rebudgeted
<1>3. ASSUME NEW d \in CPU PROVE CurrentInv(d, k) => CurrentInv(d, e)
  BY DEF CurrentInv, Rebudgeted
<1> QED
  BY <1>1, <1>2, <1>3

\* The thread that is preempted goes back to its queue with a full budget, or
\* outside the queues.
LEMMA PutBackVacant ==
    ASSUME NEW c \in CPU, NEW k, Transit(c, k), WantsCpu(c, k)
    PROVE  Vacant(c, PutBack(c, k)) \/ Spoilt(PutBack(c, k))
<1> DEFINE t == k.current[c]
           s == k.sc[t]
           e == BugOn(EnqueueRefuses(t, k), rr_sched_enqueue(c, t, k))
           r == [e EXCEPT !.budget[s] = DEFAULT_BUDGET]
<1>k. k \in Memory
  BY DEF Transit
<1>f. /\ k.current \in [CPU -> Thread \union {NULL}] /\ k.sc \in [Thread -> Context \union {NULL}]
      /\ k.thread_exit_state \in [Thread -> ExitState]
      /\ k.budget \in [Context -> 0 .. DEFAULT_BUDGET]
  BY <1>k, Fields
<1>1. /\ t \in Thread /\ t # NULL /\ s \in Context
      /\ k.state[t] \notin {"TS_READY", "TS_INIT"} /\ k.cpuid[t] = c
      /\ t \in Idle => t = idle_threads[c]
      /\ \A d \in CPU \ {c} : k.current[d] # t
  BY <1>f DEF Transit, WantsCpu
<1>2. k.thread_exit_state[t] = "TE_RUNNING"
  BY <1>1, <1>f DEF Transit, WantsCpu, ThreadInv, ExitState
<1>3. PutBack(c, k) = r
  BY DEF PutBack
<1> HIDE DEF r
<1>4. ASSUME e \in Memory PROVE Rebudgeted(s, DEFAULT_BUDGET, e, r)
  <2>1. DEFAULT_BUDGET \in 0 .. DEFAULT_BUDGET
    BY BudgetAssumption
  <2> HIDE DEF e, s
  <2> QED
    BY <1>1, <1>4, <2>1, BudgetFields DEF r
<1>5. ASSUME e \in Memory, e.budget = k.budget, Rebudgeted(s, DEFAULT_BUDGET, e, r)
      PROVE  \A x \in Context : r.budget[x] # 0
  <2> HIDE DEF e, s
  <2>1. r.budget = [k.budget EXCEPT ![s] = DEFAULT_BUDGET]
    BY <1>5, SMTT(30) DEF Rebudgeted
  <2> QED
    BY <2>1, <1>1, <1>f, BudgetAssumption DEF Transit, s, t
<1>6. CASE t \in Idle
  <2>1. e = k
    <3>1. rr_sched_enqueue(c, t, k) = k /\ ~EnqueueRefuses(t, k)
      BY <1>1, <1>6 DEF rr_sched_enqueue, EnqueueRefuses
    <3> QED
      BY <3>1, <1>k, BugOnFalse
  <2> HIDE DEF e
  <2>2. Rebudgeted(s, DEFAULT_BUDGET, k, r) /\ \A x \in Context : r.budget[x] # 0
    BY <2>1, <1>k, <1>4, <1>5, SMTT(30)
  <2>3. QueueInv(r) /\ ThreadInv(r) /\ \A d \in CPU \ {c} : CurrentInv(d, r)
    BY <2>2, RebudgetKeeps DEF Transit
  <2>4. r.current[c] = idle_threads[c] => r.cpuid[idle_threads[c]] = c
    BY <2>2, <1>1 DEF Rebudgeted
  <2> QED
    BY <1>3, <2>2, <2>3, <2>4 DEF Vacant, Transit, Rebudgeted
<1>7. CASE t \notin Idle
  <2>1. t \in User \union Shadow
    BY <1>1, <1>7, SMTT(30) DEF Thread
  <2>0. IF QueueIndex(c, t, k) \in CPU THEN Joined(t, k, e) ELSE Spoilt(e)
    <3> HIDE DEF t
    <3> QED
      BY <2>1, <1>k, <1>1, <1>2, EnqueueJoins DEF Transit, s, t
  <2> HIDE DEF e
  <2>s. ASSUME Spoilt(e) PROVE Spoilt(PutBack(c, k))
    <3> HIDE DEF s
    <3>1. Spoilt(r)
      BY <2>s DEF Spoilt, r
    <3> QED
      BY <3>1, <1>3, Zenon
  <2> SUFFICES ASSUME Joined(t, k, e) PROVE Vacant(c, PutBack(c, k))
    BY <2>0, <2>s
  <2>2. Joined(t, k, e)
    OBVIOUS
  <2>3. Rebudgeted(s, DEFAULT_BUDGET, e, r) /\ \A x \in Context : r.budget[x] # 0
    BY <2>2, <1>4, <1>5, SMTT(30) DEF Joined
  <2> HIDE DEF s
  <2>4. QueueInv(r) /\ ThreadInv(r) /\ r \in Memory /\ ~r.bug
    <3>1. QueueInv(r) /\ ThreadInv(r)
      BY <2>2, <2>3, RebudgetKeeps DEF Joined
    <3>2. r \in Memory /\ ~r.bug
      BY <2>2, <2>3 DEF Transit, Rebudgeted, Joined
    <3> QED
      BY <3>1, <3>2
  <2>5. ASSUME NEW d \in CPU \ {c} PROVE CurrentInv(d, r)
    <3>1. CurrentInv(d, k) /\ r.current[d] = k.current[d] /\ k.current[d] # t
      BY <2>2, <2>3, <1>1 DEF Transit, Rebudgeted, Joined
    <3>2. k.current[d] \in Thread \union {NULL}
      BY <1>f
    <3> QED
      BY <2>2, <2>3, <3>1, <3>2, SMTT(30) DEF CurrentInv, Rebudgeted, Joined
  <2>6. r.current[c] # idle_threads[c]
    BY <2>2, <2>3, <1>7, Kinds, SMTT(30) DEF Rebudgeted, Joined
  <2>7. c # 0 /\ r.current[0] = NULL => r.state[Root] = "TS_INIT"
    BY <2>2, <2>3, <1>1, Kinds DEF Transit, Rebudgeted, Joined
  <2> QED
    BY <1>3, <2>3, <2>4, <2>5, <2>6, <2>7 DEF Vacant
<1> QED
  BY <1>6, <1>7

\* rr_sched restores the invariant, or has written outside the queues.
LEMMA SchedRestores ==
    ASSUME NEW c \in CPU, NEW k, Transit(c, k)
    PROVE  MemoryInv(rr_sched(c, k)) \/ rr_sched(c, k).corrupt
<1>1. CASE WantsCpu(c, k) /\ MayStay(c, k)
  <2> DEFINE t == k.current[c]
  <2>1. /\ t \in Thread /\ t # NULL /\ k.thread_exit_state[t] \in ExitState
    BY <1>1, Fields, SMTT(30) DEF Transit, WantsCpu
  <2>2. \A s \in Context : k.budget[s] # 0
    BY <1>1 DEF Transit, MayStay
  <2>3. Vacant(c, k)
    BY <2>2, TransitVacant, SMTT(30)
  <2>4. /\ k.state[t] # "TS_READY" /\ k.thread_exit_state[t] = "TE_RUNNING" /\ k.sc[t] # NULL
        /\ t \in Idle => t = idle_threads[c]
        /\ t = k.current[c] => k.cpuid[t] = c
        /\ \A d \in CPU \ {c} : k.current[d] # t
        /\ c # 0 /\ k.current[0] = NULL => t # Root
    BY <1>1, <2>1 DEF Transit, WantsCpu, ThreadInv, ExitState
  <2>5. MemoryInv(switch_to_thread(c, t, k))
    BY <2>1, <2>3, <2>4, Dispatch
  <2> QED
    BY <1>1, <2>5, SMTT(30) DEF rr_sched
<1>2. CASE WantsCpu(c, k) /\ ~MayStay(c, k)
  <2> DEFINE e == PutBack(c, k)
  <2>1. Vacant(c, e) \/ Spoilt(e)
    BY <1>2, PutBackVacant
  <2>2. rr_sched(c, k) = SwitchToChosen(c, e)
    BY <1>2 DEF rr_sched
  <2> HIDE DEF e
  <2>3. ASSUME Spoilt(e) PROVE SwitchToChosen(c, e).corrupt
    BY <2>3, SwitchKeeps DEF Kept, Spoilt
  <2> QED
    BY <2>1, <2>2, <2>3, ChooseSwitch
<1>3. CASE ~WantsCpu(c, k)
  <2>1. Vacant(c, k)
    BY <1>3, TransitVacant, SMTT(30) DEF Transit
  <2> QED
    BY <1>3, <2>1, ChooseSwitch, SMTT(30) DEF rr_sched
<1> QED
  BY <1>1, <1>2, <1>3

\* With valid affinities rr_sched_enqueue writes into the queues only.
LEMMA EnqueueKeeps ==
    ASSUME NEW c \in CPU, NEW k \in Memory, NEW t, QueueIndex(c, t, k) \in CPU
    PROVE  Kept(k, BugOn(EnqueueRefuses(t, k), rr_sched_enqueue(c, t, k)))
<1> DEFINE e == rr_sched_enqueue(c, t, k)
<1>1. Kept(k, e)
  BY DEF Kept, rr_sched_enqueue, Memory
<1> HIDE DEF e
<1>2. Kept(e, BugOn(EnqueueRefuses(t, k), e))
  BY <1>1, SwitchKeeps DEF Kept
<1> QED
  BY <1>1, <1>2 DEF Kept, e

\* No affinity is below NO_AFF.
Bounded(k) == \A t \in Thread : k.affinity[t] >= NO_AFF

\* Then every queue index is that of a CPU.
LEMMA BoundedIndex ==
    ASSUME NEW c \in CPU, NEW k \in Memory, Bounded(k), NEW t \in Thread
    PROVE  QueueIndex(c, t, k) \in CPU
BY AffinityBound, CpuAssumption DEF Bounded, QueueIndex, CPU, NO_AFF

\* Then rr_sched does not write outside the queues.
LEMMA SchedKeeps ==
    ASSUME NEW c \in CPU, NEW k \in Memory, Bounded(k)
    PROVE  Kept(k, rr_sched(c, k))
<1> DEFINE t == k.current[c]
           e == BugOn(EnqueueRefuses(t, k), rr_sched_enqueue(c, t, k))
           r == PutBack(c, k)
<1>0. {"corrupt", "affinity"} \subseteq DOMAIN k
  BY DEF Memory
<1>1. Kept(k, switch_to_thread(c, t, k)) /\ Kept(k, SwitchToChosen(c, k))
  BY <1>0, SwitchKeeps, Zenon
<1>2. ASSUME WantsCpu(c, k) PROVE Kept(k, SwitchToChosen(c, r))
  <2>1. t \in Thread
    BY <1>2, Fields DEF WantsCpu
  <2>2. Kept(k, e)
    BY <2>1, BoundedIndex, EnqueueKeeps
  <2>3. r = [e EXCEPT !.budget[k.sc[t]] = DEFAULT_BUDGET]
    BY DEF PutBack
  <2> HIDE DEF e, r
  <2>4. Kept(k, r)
    BY <2>2, <2>3 DEF Kept
  <2>5. Kept(r, SwitchToChosen(c, r))
    BY <2>4, SwitchKeeps, Zenon DEF Kept
  <2> QED
    BY <2>4, <2>5 DEF Kept
<1> QED
  BY <1>1, <1>2 DEF rr_sched
==============================================================================
