------------------------------ MODULE WorkQueue ------------------------------
(***************************************************************************)
(* What the connection list of headers/conList.c promises the threads that *)
(* share it: a first-in first-out queue of work items.  An item is put at  *)
(* the back and taken from the front; nothing else changes the queue.      *)
(***************************************************************************)
EXTENDS Sequences

CONSTANT Items          \* the work items that may be queued

VARIABLE queue

Put(x) == queue' = Append(queue, x)

Take == /\ queue # <<>>
        /\ queue' = Tail(queue)

Next == (\E x \in Items : Put(x)) \/ Take

Spec == queue = <<>> /\ [][Next]_queue

=============================================================================
