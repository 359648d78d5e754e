---------------------------- MODULE MCTicketLock ----------------------------
\* Three CPUs and four tickets: the counters wrap around all the time.
EXTENDS TicketLock
=============================================================================
