---------------------------- MODULE MCSemaphore -----------------------------
\* Two CPUs and one semaphore, no connections.  The user threads other than
\* the root thread are interchangeable.
EXTENDS Semaphore, TLC

CONSTANTS i0, i1

MCIdle == [c \in {0, 1} |-> IF c = 0 THEN i0 ELSE i1]

\* A value below NO_AFF, NO_AFF, one of the two CPUs and one too many; the root
\* thread is bound to CPU 0 at first.
MCAffArg == {NO_AFF - 1, NO_AFF, 1, PLAT_CPU_NUM}

MCSymmetry == Permutations(User \ {Root})
=============================================================================
