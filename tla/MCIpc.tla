------------------------------- MODULE MCIpc --------------------------------
\* One or two CPUs, one or two connections.  Connection n1 is opened by the
\* process of all user threads; n2, where it is used, by the server process
\* whose handler h1 is.  The handler of n2 is then a client of n1 as well, so
\* that it can call back into a connection that is busy.
EXTENDS Ipc

CONSTANTS i0, i1, h1, h2, n1, n2

MCIdle == [c \in CPU |-> IF c = 0 THEN i0 ELSE i1]
MCTarget == [n \in Conn |-> IF n = n1 THEN h1 ELSE h2]
MCClients == [n \in Conn |-> IF n = n1 THEN User \union (Shadow \ {h1}) ELSE {h1}]

\* An affinity that sys_set_affinity accepts and no CPU has, a CPU, and one that
\* it refuses; the threads start with CPU 0 (the root thread) or with NO_AFF.
MCAffArg == {NO_AFF - 1, PLAT_CPU_NUM - 1, PLAT_CPU_NUM}
=============================================================================
