---------------------------- MODULE MCKernelEntry ---------------------------
\* Two CPUs and three tickets, one more than there are CPUs.
EXTENDS KernelEntry
=============================================================================
