--------------------------- MODULE ThreadSafeQueue ---------------------------
(***************************************************************************)
(* ThreadSafeQueue<T> of inc/CThreadSafeQueue.hpp: a std::queue guarded by *)
(* a std::mutex, with a std::condition_variable on which pop waits.  Each  *)
(* statement of a call is a step: taking the mutex, each access to the     *)
(* queue, notify_one, releasing the mutex; that no other access comes in   *)
(* between is what the mutex is for.  A thread inside wait() is in         *)
(* cond_var_; a notification or a spurious wake-up takes it out, and it    *)
(* must own the mutex again before it re-tests its predicate.              *)
(***************************************************************************)
EXTENDS Naturals, Sequences, FiniteSets

CONSTANTS
  Producers,  \* threads that call push
  Consumers,  \* threads that call pop and empty
  Values,     \* the values pushed
  None,       \* no value, no thread
  MaxLen      \* bound on the length of the queue (the code has none)

ASSUME ThreadAssumption ==
  /\ IsFiniteSet(Producers) /\ IsFiniteSet(Consumers)
  /\ Producers \cap Consumers = {}
  /\ None \notin Producers \cup Consumers

ASSUME BoundAssumption == MaxLen \in Nat

Threads == Producers \cup Consumers

VARIABLES
  queue_,     \* the underlying std::queue, oldest first
  mutex_,     \* the thread that owns the mutex, or None
  cond_var_,  \* the threads blocked in cond_var_.wait
  pc,         \* where each thread is in its call
  value,      \* value[c]: what the last pop of c stored in its argument
  answer      \* answer[c]: what the last empty of c returned

vars == <<queue_, mutex_, cond_var_, pc, value, answer>>

(***************************************************************************)
(* Where a thread is: outside the queue (idle); in push, about to append   *)
(* (pushing) or to notify (notifying); in pop, about to evaluate wait's    *)
(* predicate (testing), to move the front out (taking) or to remove it     *)
(* (removing); in empty (probing); about to release the mutex (leaving);   *)
(* blocked in wait (waiting); out of the wait set and wanting the mutex    *)
(* back (woken).                                                           *)
(***************************************************************************)
Inside ==
  {"pushing", "notifying", "testing", "taking", "removing", "probing",
   "leaving"}
Positions == Inside \cup {"idle", "waiting", "woken"}

Init ==
  /\ queue_ = <<>>
  /\ mutex_ = None
  /\ cond_var_ = {}
  /\ pc = [t \in Threads |-> "idle"]
  /\ value = [c \in Consumers |-> None]
  /\ answer = [c \in Consumers |-> TRUE]

(* Mutant: a thread that goes on without owning the mutex. *)
LockFree(t, from, to) ==
  /\ pc[t] = from
  /\ mutex_' = t
  /\ pc' = [pc EXCEPT ![t] = to]

(* std::lock_guard or std::unique_lock: take the mutex when it is free. *)
Lock(t, from, to) ==
  /\ pc[t] = from
  /\ mutex_ = None
  /\ mutex_' = t
  /\ pc' = [pc EXCEPT ![t] = to]

(* The guard's destructor at the end of every call. *)
Unlock(t) ==
  /\ pc[t] = "leaving"
  /\ mutex_' = None
  /\ pc' = [pc EXCEPT ![t] = "idle"]
  /\ UNCHANGED <<queue_, cond_var_, value, answer>>

(* Mutant: push that forgets to notify. *)
NoNotify(t) ==
  /\ pc' = [pc EXCEPT ![t] = "leaving"]
  /\ UNCHANGED cond_var_

(* Mutant: push waits on the condition variable instead of notifying. *)
WaitInstead(t) ==
  /\ pc' = [pc EXCEPT ![t] = "leaving"]
  /\ cond_var_' = cond_var_ \cup {t}

(* notify_one: some waiter, if there is one, leaves the wait set. *)
NotifyOne(t) ==
  IF cond_var_ = {}
  THEN /\ pc' = [pc EXCEPT ![t] = "leaving"]
       /\ UNCHANGED cond_var_
  ELSE \E w \in cond_var_ :
         /\ pc' = [pc EXCEPT ![t] = "leaving", ![w] = "woken"]
         /\ cond_var_' = cond_var_ \ {w}

PushLock(p) ==
  /\ Len(queue_) < MaxLen
  /\ Lock(p, "idle", "pushing")
  /\ UNCHANGED <<queue_, cond_var_, value, answer>>

PushItem(p) ==
  /\ pc[p] = "pushing"
  /\ \E v \in Values : queue_' = Append(queue_, v)
  /\ pc' = [pc EXCEPT ![p] = "notifying"]
  /\ UNCHANGED <<mutex_, cond_var_, value, answer>>

PushNotify(p) ==
  /\ pc[p] = "notifying"
  /\ NotifyOne(p)
  /\ UNCHANGED <<queue_, mutex_, value, answer>>

PopLock(c) ==
  /\ Lock(c, "idle", "testing")
  /\ UNCHANGED <<queue_, cond_var_, value, answer>>

(* wait's predicate is false: release the mutex and block, in one step. *)
PopWait(c) ==
  /\ pc[c] = "testing"
  /\ queue_ = <<>>
  /\ cond_var_' = cond_var_ \cup {c}
  /\ mutex_' = None
  /\ pc' = [pc EXCEPT ![c] = "waiting"]
  /\ UNCHANGED <<queue_, value, answer>>

SpuriousWake(c) ==
  /\ c \in cond_var_
  /\ cond_var_' = cond_var_ \ {c}
  /\ pc' = [pc EXCEPT ![c] = "woken"]
  /\ UNCHANGED <<queue_, mutex_, value, answer>>

(* Mutant: a wait that does not test its predicate again. *)
WaitOnce(c) ==
  /\ Lock(c, "woken", "taking")
  /\ UNCHANGED <<queue_, cond_var_, value, answer>>

Reacquire(c) ==
  /\ Lock(c, "woken", "testing")
  /\ UNCHANGED <<queue_, cond_var_, value, answer>>

(* wait's predicate is true. *)
PopTest(c) ==
  /\ pc[c] = "testing"
  /\ queue_ # <<>>
  /\ pc' = [pc EXCEPT ![c] = "taking"]
  /\ UNCHANGED <<queue_, mutex_, cond_var_, value, answer>>

PopFront(c) ==
  /\ pc[c] = "taking"
  /\ value' = [value EXCEPT ![c] = Head(queue_)]
  /\ pc' = [pc EXCEPT ![c] = "removing"]
  /\ UNCHANGED <<queue_, mutex_, cond_var_, answer>>

(* Mutant: another end of the queue than the one that was read. *)
RemoveNewest(c) ==
  /\ pc[c] = "removing"
  /\ queue_' = SubSeq(queue_, 1, Len(queue_) - 1)
  /\ pc' = [pc EXCEPT ![c] = "leaving"]
  /\ UNCHANGED <<mutex_, cond_var_, value, answer>>

PopRemove(c) ==
  /\ pc[c] = "removing"
  /\ queue_' = Tail(queue_)
  /\ pc' = [pc EXCEPT ![c] = "leaving"]
  /\ UNCHANGED <<mutex_, cond_var_, value, answer>>

EmptyLock(c) ==
  /\ Lock(c, "idle", "probing")
  /\ UNCHANGED <<queue_, cond_var_, value, answer>>

EmptyRead(c) ==
  /\ pc[c] = "probing"
  /\ answer' = [answer EXCEPT ![c] = queue_ = <<>>]
  /\ pc' = [pc EXCEPT ![c] = "leaving"]
  /\ UNCHANGED <<queue_, mutex_, cond_var_, value>>

ProducerStep(p) == PushLock(p) \/ PushItem(p) \/ PushNotify(p) \/ Unlock(p)

ConsumerStep(c) ==
  \/ PopLock(c)   \/ PopWait(c)   \/ SpuriousWake(c) \/ Reacquire(c)
  \/ PopTest(c)   \/ PopFront(c)  \/ PopRemove(c)
  \/ EmptyLock(c) \/ EmptyRead(c) \/ Unlock(c)

Next ==
  \/ \E p \in Producers : ProducerStep(p)
  \/ \E c \in Consumers : ConsumerStep(c)

Spec == Init /\ [][Next]_vars

(***************************************************************************)
(* A thread that owns the mutex goes on.  A woken thread that finds the    *)
(* mutex free again and again gets it in the end (strong fairness: others  *)
(* may hold it in between).  Nobody is obliged to call push, pop or empty, *)
(* and spurious wake-ups are not obliged to happen.                        *)
(***************************************************************************)
Fairness ==
  /\ \A t \in Threads : WF_vars(Unlock(t))
  /\ \A p \in Producers : WF_vars(PushItem(p) \/ PushNotify(p))
  /\ \A c \in Consumers :
       /\ WF_vars(PopWait(c) \/ PopTest(c) \/ PopFront(c) \/ PopRemove(c)
                    \/ EmptyRead(c))
       /\ SF_vars(Reacquire(c))

FairSpec == Spec /\ Fairness

-----------------------------------------------------------------------------
(* The type invariant. *)
TypeOK ==
  /\ queue_ \in Seq(Values)
  /\ mutex_ \in Threads \cup {None}
  /\ cond_var_ \in SUBSET Consumers
  /\ pc \in [Threads -> Positions]
  /\ value \in [Consumers -> Values \cup {None}]
  /\ answer \in [Consumers -> BOOLEAN]

(* Exactly the owner of the mutex is between its lock and its unlock, wait
   included: lock_guard, unique_lock and wait hand the mutex over correctly. *)
MutualExclusion ==
  \A t \in Threads : pc[t] \in Inside <=> mutex_ = t

(* front and pop of std::queue are only defined on a queue that holds
   something: what a consumer has seen in wait's predicate, once it has the
   mutex back, is still there when it takes the front and when it removes it,
   whoever else was woken or came in first. *)
FrontIsThere ==
  \A c \in Consumers : pc[c] \in {"taking", "removing"} => queue_ # <<>>

(* The consumers that will take a value without a further notification, and
   the producer whose notification is still to come. *)
Alert ==
  {t \in Threads :
     pc[t] \in {"woken", "testing", "taking", "removing", "notifying"}}

(* No wake-up is lost: while a consumer sleeps in wait, every value in the
   queue has a consumer of its own that is awake and will test for it, or a
   producer that is about to wake one.  This is why notify_one is enough for
   push, one value at a time. *)
NoLostWakeup ==
  cond_var_ # {} => Len(queue_) <= Cardinality(Alert)

(* The queue as its callers see it: a pop has happened once the value has
   been moved out, although the slot is still to be removed. *)
Removing == \E c \in Consumers : pc[c] = "removing"
Contents == IF Removing THEN Tail(queue_) ELSE queue_

(* push, pop and empty take effect in one step each, in FIFO order, however
   the mutex and the condition variable interleave their parts. *)
Fifo == INSTANCE FifoQueue WITH items <- Contents, received <- value

ImplementsFifo == Fifo!Spec

(* If again and again a consumer sleeps while the queue holds a value, then
   again and again some pop returns: waiters and values never stay apart. *)
WaitersAreServed ==
  []<>(queue_ # <<>> /\ cond_var_ # {})
    => []<><<\E c \in Consumers : PopRemove(c)>>_vars
==============================================================================
