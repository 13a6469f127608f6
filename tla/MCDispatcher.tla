---------------------------- MODULE MCDispatcher -----------------------------
EXTENDS Dispatcher

CONSTANTS c1, c2, c3, c4, c5

CellSet == {c1, c2, c3, c4, c5}

\* SIGINT is not delivered to a thread while that thread holds mConList
\* (the handler would then block on the mutex it holds).
SignalNotToHolder ==
  \A t \in Threads : (hpc[t] = "none" /\ hpc'[t] = "check") => mtx # t

\* Linux hands a process-directed signal to the main thread when it does
\* not block it: SIGINT runs the handler on the main thread only.
SignalToMain ==
  \A t \in Threads : (hpc[t] = "none" /\ hpc'[t] = "check") => t = Main
=============================================================================
