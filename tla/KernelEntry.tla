---------------------------- MODULE KernelEntry -----------------------------
(***************************************************************************)
(* How CPUs start, enter the kernel and leave it under big_kernel_lock:    *)
(* irq_entry.S, irq_entry.c, main.c and smp.c over the ticket lock.        *)
(*                                                                         *)
(* where[c] is the path CPU c is on: "hang" (an AP before its boot flag),  *)
(* "boot" (main or secondary_start up to its lock_kernel), "start" (from   *)
(* there to its eret_to_thread), "el0" (a user thread), "idle" (the idle   *)
(* loop, EL1 with interrupts enabled), the handlers "syscall", "sync" and  *)
(* "irq", and "stopped" (the endless loop of a BUG_ON).  Interrupts are    *)
(* masked from exception entry to eret, so an IRQ arrives at "el0" or      *)
(* "idle" only.                                                            *)
(* `nested` holds the CPUs whose system call has faulted on a user page    *)
(* (copy_to_user and the like) and is inside sync_el1h.                    *)
(***************************************************************************)
EXTENDS TicketLock

\* CPUs are numbered from 0, the one that runs main.
ASSUME CpuNumbering == CPU = 0 .. Cardinality(CPU) - 1 /\ 0 \in CPU

VARIABLES where, nested, boot_flag, cpu_status, waiting_for, bug

kvars == <<where, nested, boot_flag, cpu_status, waiting_for, bug>>
evars == <<lvars, kvars>>

Handler == {"syscall", "sync", "irq"}

EntryTypeOK == /\ LockTypeOK
               /\ where \in [CPU -> Handler \union {"hang", "boot", "start", "el0",
                                                    "idle", "stopped"}]
               /\ nested \in SUBSET CPU
               /\ boot_flag \in SUBSET CPU
               /\ cpu_status \in [CPU -> {"cpu_hang", "cpu_run"}]
               /\ waiting_for \in 0 .. Cardinality(CPU)
               /\ bug \in BOOLEAN

\* main has initialised the lock and the scheduler and enters enable_smp_cores.
EntryInit == /\ LockInit
             /\ where = [c \in CPU |-> IF c = 0 THEN "boot" ELSE "hang"]
             /\ nested = {}
             /\ boot_flag = {0}
             /\ cpu_status = [c \in CPU |-> IF c = 0 THEN "cpu_run" ELSE "cpu_hang"]
             /\ waiting_for = 0
             /\ bug = FALSE

Go(c, to) == where' = [where EXCEPT ![c] = to]

\* lock() has been called and has returned.
LockReturned(c) == pc[c] \notin {"ldaxr", "stxr", "spin"}

\* lock_kernel, called on the way into handler h.
lock_kernel(c, h) == /\ CallLock(c)
                     /\ Go(c, h)
                     /\ UNCHANGED <<nested, boot_flag, cpu_status, waiting_for, bug>>

\* unlock_kernel on the way out to `to`.  It asks only that somebody has the
\* lock, and moves owner on whoever calls it.
unlock_kernel(c, to) == /\ bug' = (bug \/ ~is_locked)
                        /\ owner' = Inc(owner)
                        /\ pc' = [pc EXCEPT ![c] = "out"]
                        /\ Go(c, to)
                        /\ UNCHANGED <<next, lockval, monitor>>
                        /\ UNCHANGED <<nested, boot_flag, cpu_status, waiting_for>>
-----------------------------------------------------------------------------
\* mutants: the flags are raised without waiting, the flag is not raised
EnableNoWait ==
    /\ where[0] = "boot" /\ waiting_for < Cardinality(CPU)
    /\ waiting_for' = waiting_for + 1
    /\ boot_flag' = boot_flag \union ({waiting_for + 1} \intersect CPU)
    /\ UNCHANGED <<lvars, where, nested, cpu_status, bug>>

EnableNoFlag ==
    /\ where[0] = "boot" /\ waiting_for < Cardinality(CPU)
    /\ waiting_for' = IF cpu_status[waiting_for] = "cpu_run" THEN waiting_for + 1 ELSE waiting_for
    /\ UNCHANGED <<lvars, where, nested, boot_flag, cpu_status, bug>>

\* enable_smp_cores: the boot CPU waits for one CPU, then raises the flag of
\* the following one.
enable_smp_cores ==
    /\ where[0] = "boot" /\ waiting_for < Cardinality(CPU)
    /\ cpu_status[waiting_for] = "cpu_run"
    /\ waiting_for' = waiting_for + 1
    /\ boot_flag' = boot_flag \union ({waiting_for + 1} \intersect CPU)
    /\ UNCHANGED <<lvars, where, nested, cpu_status, bug>>

\* secondary_start of an AP whose flag is up.
secondary_start(c) == /\ where[c] = "hang" /\ c \in boot_flag
                      /\ cpu_status' = [cpu_status EXCEPT ![c] = "cpu_run"]
                      /\ Go(c, "boot")
                      /\ UNCHANGED <<lvars, nested, boot_flag, waiting_for, bug>>

\* mutant: main and secondary_start without lock_kernel
BootUnlocked(c) == /\ where[c] = "boot"
                   /\ c = 0 => waiting_for = Cardinality(CPU)
                   /\ Go(c, "start")
                   /\ UNCHANGED <<lvars, nested, boot_flag, cpu_status, waiting_for, bug>>

\* main after enable_smp_cores, and secondary_start, take the lock to create
\* the root thread and to schedule.
BootLock(c) == /\ where[c] = "boot"
               /\ c = 0 => waiting_for = Cardinality(CPU)
               /\ lock_kernel(c, "start")

\* sync_el0_64 with a system call: el0_syscall.
el0_syscall(c) == where[c] = "el0" /\ lock_kernel(c, "syscall")

\* sync_el0_64 with an abort: handle_entry_c takes the lock.
sync_el0_64(c) == where[c] = "el0" /\ lock_kernel(c, "sync")

\* irq_el0_64: handle_irq takes the lock, the interrupt is from EL0.
irq_el0_64(c) == where[c] = "el0" /\ lock_kernel(c, "irq")

\* irq_el1h: handle_irq takes the lock, the interrupted thread is idle.
irq_el1h(c) == where[c] = "idle" /\ lock_kernel(c, "irq")

\* The instructions of lock().
LockInstruction(c) == Lock(c) /\ UNCHANGED kvars

\* sync_el1h: an abort taken inside a system call; handle_entry_c does not
\* lock, and the way back does not unlock.
sync_el1h(c) == /\ where[c] = "syscall" /\ LockReturned(c) /\ c \notin nested
                /\ nested' = nested \union {c}
                /\ UNCHANGED <<lvars, where, boot_flag, cpu_status, waiting_for, bug>>

\* A BUG_ON fires and the CPU loops, with the lock held: in handle_entry_c for
\* an exception it does not support, in do_page_fault for an address that
\* cannot be mapped or accessed, and anywhere in a handler.
BugStops(c) == /\ where[c] \in Handler \union {"start"} /\ LockReturned(c)
               /\ Go(c, "stopped")
               /\ UNCHANGED <<lvars, nested, boot_flag, cpu_status, waiting_for, bug>>

\* for (;;) of BUG_ON
BugLoops(c) == where[c] = "stopped" /\ UNCHANGED evars

\* mutants: sync_el1h unlocks, the access faults for ever
ExitUnlocks(c) == /\ where[c] = "syscall" /\ c \in nested
                  /\ nested' = nested \ {c}
                  /\ bug' = (bug \/ ~is_locked)
                  /\ owner' = Inc(owner)
                  /\ UNCHANGED <<next, pc, lockval, monitor, where, boot_flag, cpu_status, waiting_for>>


exit_el1h(c) == /\ where[c] = "syscall" /\ c \in nested
                /\ nested' = nested \ {c}
                /\ UNCHANGED <<lvars, where, boot_flag, cpu_status, waiting_for, bug>>

\* mutant: sync_el0_64 without bl unlock_kernel
ReturnKeepsLock(c) == /\ where[c] \in {"syscall", "sync"} /\ LockReturned(c) /\ c \notin nested
                      /\ Go(c, "el0")
                      /\ UNCHANGED <<lvars, nested, boot_flag, cpu_status, waiting_for, bug>>

\* The end of el0_syscall and of sync_el0_64: back to the same thread.
ReturnToUser(c) == /\ where[c] \in {"syscall", "sync"} /\ LockReturned(c) /\ c \notin nested
                   /\ unlock_kernel(c, "el0")

\* sched(); eret_to_thread(switch_context()): at the end of every IRQ, of the
\* system calls that give the CPU away, and of booting.
eret_to_thread(c) == /\ where[c] \in {"syscall", "irq", "start"} /\ LockReturned(c)
                     /\ c \notin nested
                     /\ \E to \in {"el0", "idle"} : unlock_kernel(c, to)

Enter(c) == el0_syscall(c) \/ sync_el0_64(c) \/ irq_el0_64(c) \/ irq_el1h(c)

Leave(c) == ReturnToUser(c) \/ eret_to_thread(c) \/ exit_el1h(c)

EntryNext == \/ enable_smp_cores
             \/ \E c \in CPU : \/ secondary_start(c) \/ BootLock(c) \/ Enter(c)
                               \/ LockInstruction(c) \/ sync_el1h(c) \/ Leave(c)
                               \/ BugStops(c) \/ BugLoops(c)

(***************************************************************************)
(* Fairness: a CPU goes on executing the kernel, whose handlers end or     *)
(* stop in a BUG_ON and whose copy loops fault finitely often; a           *)
(* store-exclusive succeeds at last.  Nothing is assumed of user threads,  *)
(* and none of them need keep from causing a BUG_ON.                       *)
(***************************************************************************)
EntryFairness ==
    /\ WF_evars(enable_smp_cores)
    /\ \A c \in CPU :
         /\ WF_evars(secondary_start(c)) /\ WF_evars(BootLock(c))
         /\ WF_evars(LockInstruction(c)) /\ WF_evars(exit_el1h(c))
         /\ SF_evars(LockInstruction(c) /\ StoreNext(c, "stxr", "spin"))
         /\ SF_evars(ReturnToUser(c) \/ eret_to_thread(c))

EntrySpec == EntryInit /\ [][EntryNext]_evars /\ EntryFairness
-----------------------------------------------------------------------------
\* A CPU executes the body of a handler, of a nested abort, and of main and
\* secondary_start after lock_kernel (the creation of the root thread and the
\* first sched), and loops in a BUG_ON, only while it holds the lock.
HandlersHoldLock ==
    \A c \in CPU : \/ where[c] \in Handler \union {"start", "stopped"} /\ LockReturned(c)
                   \/ c \in nested
                   => pc[c] = "held"

\* Every exit path releases the lock: no CPU is back in user space, in the
\* idle loop or not yet started while it holds the lock or a ticket.
NothingHeldOutside ==
    \A c \in CPU : where[c] \in {"hang", "el0", "idle"} => pc[c] = "out"

\* unlock_kernel's BUG_ON(!is_locked(&big_kernel_lock)) never fires.
UnlockFindsLocked == ~bug

\* main creates the root thread after every CPU has announced itself.
AllActiveBeforeRoot == where[0] # "boot" => \A c \in CPU : cpu_status[c] = "cpu_run"

\* A CPU has stopped in a BUG_ON, and keeps the lock.
Stopped == \E c \in CPU : where[c] = "stopped"

\* enable_smp_cores and secondary_start: every CPU comes up and runs a thread,
\* unless one stops in a BUG_ON before.
BootCompletes == \A c \in CPU : <>(where[c] \notin {"hang", "boot", "start"} \/ Stopped)

=============================================================================
