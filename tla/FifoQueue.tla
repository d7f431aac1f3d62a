------------------------------ MODULE FifoQueue ------------------------------
(***************************************************************************)
(* What a blocking FIFO queue promises its callers: a push appends in one  *)
(* step, a pop waits until the queue holds something and then removes the  *)
(* oldest value in one step, handing it to the thread that called it, and  *)
(* empty answers for the instant it looked.  ThreadSafeQueue.tla shows     *)
(* that the mutex and condition variable of inc/CThreadSafeQueue.hpp       *)
(* implement this; the recording and streaming modules use a queue the way *)
(* it is described here.                                                   *)
(***************************************************************************)
EXTENDS Naturals, Sequences

CONSTANTS
  Consumers,  \* the threads that call pop and empty
  Values,     \* what the queue may hold
  None        \* a consumer that has received nothing yet

VARIABLES
  items,      \* the contents, oldest first
  received,   \* received[c]: the value c's last pop returned
  answer      \* answer[c]: what c's last call of empty returned

vars == <<items, received, answer>>

Init ==
  /\ items = <<>>
  /\ received = [c \in Consumers |-> None]
  /\ answer = [c \in Consumers |-> TRUE]

Push ==
  /\ \E v \in Values : items' = Append(items, v)
  /\ UNCHANGED <<received, answer>>

Pop(c) ==
  /\ items # <<>>
  /\ received' = [received EXCEPT ![c] = Head(items)]
  /\ items' = Tail(items)
  /\ UNCHANGED answer

Empty(c) ==
  /\ answer' = [answer EXCEPT ![c] = items = <<>>]
  /\ UNCHANGED <<items, received>>

Next == Push \/ \E c \in Consumers : Pop(c) \/ Empty(c)

Spec == Init /\ [][Next]_vars
==============================================================================
