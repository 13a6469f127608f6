------------------------------- MODULE ConList -------------------------------
(***************************************************************************)
(* headers/conList.c: the singly linked list of {conn, action} blocks the  *)
(* server and the proxy use as their work queue, at the level of pointers. *)
(* The heap is the set Cells of blocks malloc may return; next and cell    *)
(* are the fields of each block, allocated the blocks in use.  The list    *)
(* field numNodes is incremented by addTail and never read, so it is left  *)
(* out.  Callers hold mConList around every operation, so each operation   *)
(* is one step of the thread that calls it.                                *)
(***************************************************************************)
EXTENDS Naturals, Sequences, FiniteSets

CONSTANTS Cells, NULL

ASSUME NULL \notin Cells

VARIABLES head, tail, next, cell, allocated

listVars == <<head, tail, next, cell, allocated>>

\* enum instruction (conList.h)
Instructions == {"PROCESS", "SHARED", "TERMINATE"}

\* newConList(): head = tail = NULL.  The fields of free blocks hold no
\* meaning; they are given fixed values.
newConList ==
  /\ head = NULL /\ tail = NULL
  /\ next = [b \in Cells |-> NULL]
  /\ cell = [b \in Cells |-> [conn |-> 0, action |-> "PROCESS"]]
  /\ allocated = {}

isEmpty == head = NULL

\* The blocks reached from b along next, at most k of them.
RECURSIVE Chain(_, _)
Chain(b, k) == IF b = NULL \/ k = 0 THEN <<>> ELSE <<b>> \o Chain(next[b], k - 1)

Linked == Chain(head, Cardinality(Cells))

\* The items the list holds, head first: what printList would walk.
Contents == [i \in 1..Len(Linked) |-> cell[Linked[i]]]

\* Mutant: the non-empty branch forgets list->tail = newTail.
addTailKeepTail(conID, a) ==
  IF allocated = Cells
  THEN UNCHANGED listVars
  ELSE LET n == CHOOSE b \in Cells \ allocated : TRUE IN
       /\ allocated' = allocated \cup {n}
       /\ cell' = [cell EXCEPT ![n] = [conn |-> conID, action |-> a]]
       /\ next' = IF head = NULL THEN [next EXCEPT ![n] = NULL]
                  ELSE [next EXCEPT ![n] = NULL, ![tail] = n]
       /\ head' = IF head = NULL THEN n ELSE head
       /\ tail' = IF head = NULL THEN n ELSE tail

\* addTail(conID, a, list): newConnection() mallocs a block; when malloc
\* returns NULL the item is dropped without a word.  The block becomes the
\* head of an empty list, or is linked after tail; either way it is the
\* new tail.
addTail(conID, a) ==
  IF allocated = Cells
  THEN UNCHANGED listVars
  ELSE LET n == CHOOSE b \in Cells \ allocated : TRUE IN
       /\ allocated' = allocated \cup {n}
       /\ cell' = [cell EXCEPT ![n] = [conn |-> conID, action |-> a]]
       /\ next' = IF head = NULL THEN [next EXCEPT ![n] = NULL]
                  ELSE [next EXCEPT ![n] = NULL, ![tail] = n]
       /\ head' = IF head = NULL THEN n ELSE head
       /\ tail' = n

\* removeHead(list) on a non-empty list (both callers test isEmpty first):
\* a one-block list becomes empty, otherwise head moves to next.  The
\* block is returned to the caller, which frees it.
removeHead ==
  /\ head # NULL
  /\ head' = IF head = tail THEN NULL ELSE next[head]
  /\ tail' = IF head = tail THEN NULL ELSE tail
  /\ UNCHANGED <<next, cell, allocated>>

\* free(c) of a block removeHead returned.
freeBlock(b) ==
  /\ allocated' = allocated \ {b}
  /\ UNCHANGED <<head, tail, next, cell>>

\* destroyAll(list): frees every block still linked; head and tail are
\* left dangling (the list struct is freed next).
destroyAll ==
  /\ allocated' = allocated \ {Linked[i] : i \in 1..Len(Linked)}
  /\ UNCHANGED <<head, tail, next, cell>>

=============================================================================
