-------------------------------- MODULE Ipc ---------------------------------
(***************************************************************************)
(* IPC by thread migration (kernel/ipc/connection.c) over the scheduler    *)
(* and the semaphores, and the client side that drives it                  *)
(* (libchcore/src/ipc/ipc.c).  The handler thread of a connection is the   *)
(* TYPE_SHADOW thread target[n].  sys_ipc_call lends it the caller's CPU   *)
(* and scheduling context, sys_ipc_return gives them back.                 *)
(*                                                                         *)
(* clients[n] are the threads of the process that opened connection n;     *)
(* they share its struct ipc_struct, whose spinlock is ipc_lock[n] (the    *)
(* thread that has it, or NULL).  A handler may be a client of another     *)
(* connection, as the file system manager's are.  The kernel knows nothing *)
(* of the spinlock: who has a message has taken it, and a call with a NULL *)
(* message takes none (NullCalls says where such calls are made).          *)
(***************************************************************************)
EXTENDS Semaphore

CONSTANTS Conn,      \* established connections
          target,    \* conn->target
          clients,   \* threads with a capability of the connection
          NullCalls, \* connections on which calls with a NULL message are made
          CapCalls   \* whether calls carry capabilities: a set of BOOLEANs

ASSUME ConnAssumption == /\ target \in [Conn -> Shadow]
                         /\ \A m, n \in Conn : target[m] = target[n] => m = n
                         /\ clients \in [Conn -> SUBSET (User \union Shadow)]
                         /\ NULL \notin Conn
                         /\ NullCalls \subseteq Conn
                         /\ CapCalls \subseteq BOOLEAN

VARIABLES source,        \* conn->source, the last caller
          active_conn,   \* the connection a handler thread is serving
          ipc_lock

ipcvars == <<source, active_conn, ipc_lock>>
vars == <<svars, semvars, ipcvars>>

IpcTypeOK == /\ SemTypeOK
             /\ source \in [Conn -> User \union Shadow \union {NULL}]
             /\ active_conn \in [Thread -> Conn \union {NULL}]
             /\ ipc_lock \in [Conn -> User \union Shadow \union {NULL}]

IpcInit == /\ SemInit
           /\ source = [n \in Conn |-> NULL]
           /\ active_conn = [t \in Thread |-> NULL]
           /\ ipc_lock = [n \in Conn |-> NULL]

\* ipc_create_msg takes the spinlock; a thread that finds it taken yields
\* (sys_yield) and tries again.
ipc_create_msg(c) ==
    /\ InUser(c)
    /\ \E n \in Conn : /\ current[c] \in clients[n]
                       /\ ipc_lock[n] = NULL
                       /\ ipc_lock' = [ipc_lock EXCEPT ![n] = current[c]]
    /\ UNCHANGED <<svars, semvars, source, active_conn>>

\* ipc_destroy_msg, called after a message's calls and after a NULL call,
\* unlocks whether or not the thread has the lock.
ipc_destroy_msg(c) ==
    /\ InUser(c)
    /\ \E n \in Conn : /\ \/ ipc_lock[n] = current[c]
                          \/ n \in NullCalls /\ current[c] \in clients[n]
                       /\ ipc_lock' = [ipc_lock EXCEPT ![n] = NULL]
    /\ UNCHANGED <<svars, semvars, source, active_conn>>

\* mutants: the caller is not suspended, is put into the ready queue
MigrateNoWait(c, n, k) ==
    switch_to_thread(c, target[n], [k EXCEPT !.sc[target[n]] = k.sc[k.current[c]]])

MigrateEnqueues(c, n, k) ==
    switch_to_thread(c, target[n],
        [rr_sched_enqueue(c, k.current[c], k) EXCEPT !.sc[target[n]] = k.sc[k.current[c]]])

\* thread_migrate_to_server: what the call makes of the scheduler's memory.
MigrateToServer(c, n, k) ==
    switch_to_thread(c, target[n],
        [k EXCEPT !.state[k.current[c]] = "TS_WAITING",
                  !.sc[target[n]] = k.sc[k.current[c]]])

\* ipc_send_cap reads conn->source, which is NULL until the connection's
\* first call has been made: the fault ends in do_page_fault's BUG_ON.
SendCap(n, k) == BugOn(source[n] = NULL, k)

\* The kernel's part of a call, for whoever has a capability of n: it does
\* not ask whether the handler is serving somebody already.
sys_ipc_call(c, n, caps) ==
    /\ current[c] \in clients[n]
    /\ source' = [source EXCEPT ![n] = current[c]]
    /\ active_conn' = [active_conn EXCEPT ![target[n]] = n]
    /\ Commit(MigrateToServer(c, n, IF caps THEN SendCap(n, K) ELSE K))
    /\ UNCHANGED <<semvars, ipc_lock>>

\* mutant: a call needs no message, and so no spinlock, on any connection
CallUnlocked(c) == InUser(c) /\ \E n \in Conn : sys_ipc_call(c, n, FALSE)

\* ipc_call: with a message, which its creator may fill with capabilities, or
\* with NULL, which carries none.
ipc_call(c) ==
    /\ InUser(c)
    /\ \E n \in Conn :
         \/ ipc_lock[n] = current[c] /\ \E caps \in CapCalls : sys_ipc_call(c, n, caps)
         \/ n \in NullCalls /\ sys_ipc_call(c, n, FALSE)

\* thread_migrate_to_client, and the caller's state and budget set before it.
MigrateToClient(c, t) ==
    switch_to_thread(c, t, [K EXCEPT !.state[t] = "TS_INTER",
                                     !.budget[sc[t]] = DEFAULT_BUDGET])

\* mutant: the connection stays active
ReturnStaysActive(c) ==
    /\ InUser(c)
    /\ active_conn[current[c]] # NULL
    /\ Commit(MigrateToClient(c, source[active_conn[current[c]]]))
    /\ UNCHANGED <<semvars, source, active_conn, ipc_lock>>

sys_ipc_return(c) ==
    /\ InUser(c)
    /\ active_conn[current[c]] # NULL
    /\ active_conn' = [active_conn EXCEPT ![current[c]] = NULL]
    /\ Commit(MigrateToClient(c, source[active_conn[current[c]]]))
    /\ UNCHANGED <<semvars, source, ipc_lock>>

IpcStep(c) == \/ ipc_create_msg(c) \/ ipc_destroy_msg(c)
              \/ ipc_call(c) \/ sys_ipc_return(c)

IpcNext == \/ SemNext /\ UNCHANGED ipcvars
           \/ \E c \in CPU : IpcStep(c)

IpcSpec == IpcInit /\ [][IpcNext]_vars /\ TimerFairness
-----------------------------------------------------------------------------
Active(n) == active_conn[target[n]] = n

\* t has called a handler that has exited, or a thread that waits for one:
\* sys_thread_exit leaves active_conn and the caller as they are, and nobody
\* will return to it.
Stranded(t) ==
    \A S \in SUBSET (User \union Shadow) :
        (\A n \in Conn : /\ Active(n)
                         /\ Exited(target[n]) \/ target[n] \in S
                         => source[n] \in S)
        => t \in S

\* Connections on which t waits for an answer that can still come.
ServedAt(t) == {n \in Conn : /\ Active(n) /\ source[n] = t
                             /\ ~Exited(target[n]) /\ ~Stranded(target[n])}

Alive(t) == /\ ~Exited(t)
            /\ IF t \in Shadow THEN active_conn[t] # NULL ELSE Exists(t)

\* No thread is lost or duplicated by IPC: a user thread that exists and has
\* not exited, and a handler that serves a call, is in exactly one place
\* (current, ready, waiting for a semaphore or for an answer), unless the
\* chain of calls it started has been cut by the exit of a handler.  The
\* callers of that chain are in no place any more; nobody else is lost with
\* them (thread_migrate_to_server, thread_migrate_to_client, sys_thread_exit).
NoThreadLostIpc == corrupt \/ \A t \in User \union Shadow :
    Places(t) + Cardinality(ServedAt(t)) = IF Alive(t) /\ ~Stranded(t) THEN 1 ELSE 0

\* A caller stays suspended until its call returns, whatever other threads
\* wake, exit, preempt or call meanwhile: it is TS_WAITING, and the handler
\* has its scheduling context (thread_migrate_to_server).
CallerSuspended == corrupt \/ \A n \in Conn : Active(n) =>
    state[source[n]] = "TS_WAITING" /\ sc[target[n]] = sc[source[n]]

\* A scheduling context serves one thread at a time: of the threads that
\* share one through IPC only one is current or ready.
OneThreadPerContext == corrupt \/ \A t, u \in User \union Shadow :
    /\ RunsOn(t) # {} \/ state[t] = "TS_READY"
    /\ RunsOn(u) # {} \/ state[u] = "TS_READY"
    /\ sc[t] = sc[u]
    => t = u
=============================================================================
