------------------------ MODULE ThreadSafeQueueProofs ------------------------
(***************************************************************************)
(* Proofs about ThreadSafeQueue, for any finite sets of threads, any set   *)
(* of values and any bound on the length of the queue.                     *)
(***************************************************************************)
EXTENDS ThreadSafeQueue, FiniteSetTheorems, SequenceTheorems, TLAPS

(* The consumers blocked in wait are those the condition variable knows. *)
WaitSet == \A c \in Consumers : c \in cond_var_ <=> pc[c] = "waiting"

IInv == TypeOK /\ MutualExclusion /\ WaitSet /\ FrontIsThere /\ NoLostWakeup

(* One step of each kind, as the disjunction the step proofs split on. *)
LEMMA StepCases ==
  ASSUME [Next]_vars
  PROVE  \/ \E p \in Producers : PushLock(p) \/ PushItem(p) \/ PushNotify(p)
         \/ \E c \in Consumers :
              \/ PopLock(c) \/ PopWait(c) \/ SpuriousWake(c) \/ Reacquire(c)
              \/ PopTest(c) \/ PopFront(c) \/ PopRemove(c)
              \/ EmptyLock(c) \/ EmptyRead(c)
         \/ \E t \in Threads : Unlock(t)
         \/ UNCHANGED vars
BY DEF Next, ProducerStep, ConsumerStep, Threads

-----------------------------------------------------------------------------
(* Every step keeps the types; the two that read the front of the queue need
   it to be there. *)
LEMMA TypeStep ==
  ASSUME TypeOK, FrontIsThere, [Next]_vars
  PROVE  TypeOK'
<1> USE DEF TypeOK, Positions, Inside, Threads
<1>1. ASSUME NEW p \in Producers, PushLock(p) PROVE TypeOK'
  BY <1>1 DEF PushLock, Lock
<1>2. ASSUME NEW p \in Producers, PushItem(p) PROVE TypeOK'
  <2>1. queue_' \in Seq(Values)
    BY <1>2, AppendProperties DEF PushItem
  <2> QED
    BY <1>2, <2>1 DEF PushItem
<1>3. ASSUME NEW p \in Producers, PushNotify(p) PROVE TypeOK'
  <2>1. /\ cond_var_' \in SUBSET Consumers
        /\ pc' \in [Threads -> Positions]
    BY <1>3 DEF PushNotify, NotifyOne
  <2> QED
    BY <1>3, <2>1 DEF PushNotify
<1>4. ASSUME NEW c \in Consumers, PopLock(c) PROVE TypeOK'
  BY <1>4 DEF PopLock, Lock
<1>5. ASSUME NEW c \in Consumers, PopWait(c) PROVE TypeOK'
  BY <1>5 DEF PopWait
<1>6. ASSUME NEW c \in Consumers, SpuriousWake(c) PROVE TypeOK'
  BY <1>6 DEF SpuriousWake
<1>7. ASSUME NEW c \in Consumers, Reacquire(c) PROVE TypeOK'
  BY <1>7 DEF Reacquire, Lock
<1>8. ASSUME NEW c \in Consumers, PopTest(c) PROVE TypeOK'
  BY <1>8 DEF PopTest
<1>9. ASSUME NEW c \in Consumers, PopFront(c) PROVE TypeOK'
  <2>1. Head(queue_) \in Values
    BY <1>9, HeadTailProperties DEF PopFront, FrontIsThere
  <2> QED
    BY <1>9, <2>1 DEF PopFront
<1>10. ASSUME NEW c \in Consumers, PopRemove(c) PROVE TypeOK'
  <2>1. Tail(queue_) \in Seq(Values)
    BY <1>10, HeadTailProperties DEF PopRemove, FrontIsThere
  <2> QED
    BY <1>10, <2>1 DEF PopRemove
<1>11. ASSUME NEW c \in Consumers, EmptyLock(c) PROVE TypeOK'
  BY <1>11 DEF EmptyLock, Lock
<1>12. ASSUME NEW c \in Consumers, EmptyRead(c) PROVE TypeOK'
  BY <1>12 DEF EmptyRead
<1>13. ASSUME NEW t \in Threads, Unlock(t) PROVE TypeOK'
  BY <1>13 DEF Unlock
<1>14. CASE UNCHANGED vars
  BY <1>14 DEF vars
<1> QED
  BY StepCases, <1>1, <1>2, <1>3, <1>4, <1>5, <1>6, <1>7, <1>8, <1>9,
     <1>10, <1>11, <1>12, <1>13, <1>14

-----------------------------------------------------------------------------
(* Only the owner of the mutex is inside a critical section. *)
LEMMA ExclusionStep ==
  ASSUME TypeOK, MutualExclusion, WaitSet, [Next]_vars
  PROVE  MutualExclusion' /\ WaitSet'
<1> USE ThreadAssumption
    DEF TypeOK, MutualExclusion, WaitSet, Inside, Positions, Threads
<1>1. ASSUME NEW p \in Producers, PushLock(p)
      PROVE MutualExclusion' /\ WaitSet'
  BY <1>1 DEF PushLock, Lock
<1>2. ASSUME NEW p \in Producers, PushItem(p)
      PROVE MutualExclusion' /\ WaitSet'
  BY <1>2 DEF PushItem
<1>3. ASSUME NEW p \in Producers, PushNotify(p)
      PROVE MutualExclusion' /\ WaitSet'
  BY <1>3 DEF PushNotify, NotifyOne
<1>4. ASSUME NEW c \in Consumers, PopLock(c)
      PROVE MutualExclusion' /\ WaitSet'
  BY <1>4 DEF PopLock, Lock
<1>5. ASSUME NEW c \in Consumers, PopWait(c)
      PROVE MutualExclusion' /\ WaitSet'
  BY <1>5 DEF PopWait
<1>6. ASSUME NEW c \in Consumers, SpuriousWake(c)
      PROVE MutualExclusion' /\ WaitSet'
  BY <1>6 DEF SpuriousWake
<1>7. ASSUME NEW c \in Consumers, Reacquire(c)
      PROVE MutualExclusion' /\ WaitSet'
  BY <1>7 DEF Reacquire, Lock
<1>8. ASSUME NEW c \in Consumers, PopTest(c) \/ PopFront(c) \/ PopRemove(c)
      PROVE MutualExclusion' /\ WaitSet'
  BY <1>8 DEF PopTest, PopFront, PopRemove
<1>9. ASSUME NEW c \in Consumers, EmptyLock(c)
      PROVE MutualExclusion' /\ WaitSet'
  BY <1>9 DEF EmptyLock, Lock
<1>10. ASSUME NEW c \in Consumers, EmptyRead(c)
       PROVE MutualExclusion' /\ WaitSet'
  BY <1>10 DEF EmptyRead
<1>11. ASSUME NEW t \in Threads, Unlock(t)
       PROVE MutualExclusion' /\ WaitSet'
  BY <1>11 DEF Unlock
<1>12. CASE UNCHANGED vars
  BY <1>12 DEF vars
<1> QED
  BY StepCases, <1>1, <1>2, <1>3, <1>4, <1>5, <1>6, <1>7, <1>8, <1>9,
     <1>10, <1>11, <1>12

-----------------------------------------------------------------------------
(* A consumer that removes the front is the only one in its critical
   section. *)
LEMMA OneInside ==
  ASSUME MutualExclusion, NEW t \in Threads, NEW u \in Threads,
         pc[t] \in Inside, pc[u] \in Inside
  PROVE  t = u
BY DEF MutualExclusion

(* Nobody empties the queue between a consumer's test and its removal. *)
LEMMA FrontStep ==
  ASSUME TypeOK, MutualExclusion, FrontIsThere, [Next]_vars
  PROVE  FrontIsThere'
<1> USE DEF TypeOK, FrontIsThere, Positions, Threads
<1>1. ASSUME NEW p \in Producers, PushLock(p) PROVE FrontIsThere'
  BY <1>1 DEF PushLock, Lock
<1>2. ASSUME NEW p \in Producers, PushItem(p) PROVE FrontIsThere'
  BY <1>2, AppendProperties DEF PushItem
<1>3. ASSUME NEW p \in Producers, PushNotify(p) PROVE FrontIsThere'
  BY <1>3 DEF PushNotify, NotifyOne
<1>4. ASSUME NEW c \in Consumers,
             PopLock(c) \/ Reacquire(c) \/ EmptyLock(c)
      PROVE FrontIsThere'
  BY <1>4 DEF PopLock, Reacquire, EmptyLock, Lock
<1>5. ASSUME NEW c \in Consumers,
             PopWait(c) \/ SpuriousWake(c) \/ EmptyRead(c)
      PROVE FrontIsThere'
  BY <1>5 DEF PopWait, SpuriousWake, EmptyRead
<1>6. ASSUME NEW c \in Consumers, PopTest(c) \/ PopFront(c)
      PROVE FrontIsThere'
  BY <1>6 DEF PopTest, PopFront
<1>7. ASSUME NEW c \in Consumers, PopRemove(c) PROVE FrontIsThere'
  <2>1. \A d \in Consumers : pc[d] \in {"taking", "removing"} => d = c
    BY <1>7, OneInside DEF PopRemove, Inside
  <2> QED
    BY <1>7, <2>1 DEF PopRemove
<1>8. ASSUME NEW t \in Threads, Unlock(t) PROVE FrontIsThere'
  BY <1>8 DEF Unlock
<1>9. CASE UNCHANGED vars
  BY <1>9 DEF vars
<1> QED
  BY StepCases, <1>1, <1>2, <1>3, <1>4, <1>5, <1>6, <1>7, <1>8, <1>9

-----------------------------------------------------------------------------
(* The size of the set of alert threads is a natural number, and one thread
   more or less changes it by one. *)
LEMMA AlertFinite ==
  ASSUME NEW S \in SUBSET Threads
  PROVE  IsFiniteSet(S) /\ Cardinality(S) \in Nat
BY ThreadAssumption, FS_Union, FS_Subset, FS_CardinalityType DEF Threads

LEMMA AlertGrows ==
  ASSUME NEW S \in SUBSET Threads, NEW t \in Threads, t \notin S
  PROVE  Cardinality(S \cup {t}) = Cardinality(S) + 1
BY AlertFinite, FS_AddElement

LEMMA AlertShrinks ==
  ASSUME NEW S \in SUBSET Threads, NEW t \in S
  PROVE  Cardinality(S \ {t}) = Cardinality(S) - 1
BY AlertFinite, FS_RemoveElement

(* A producer that has appended a value is alert, and a notification passes
   that on to the thread it wakes. *)
LEMMA PushKeepsWakeups ==
  ASSUME IInv, NEW p \in Producers,
         PushLock(p) \/ PushItem(p) \/ PushNotify(p)
  PROVE  NoLostWakeup'
<1> USE DEF IInv
<1> DEFINE A == Alert
           B == Alert'
<1>0. /\ A \in SUBSET Threads /\ B \in SUBSET Threads /\ p \in Threads
      /\ Cardinality(A) \in Nat /\ Cardinality(B) \in Nat
  BY AlertFinite DEF Alert, Threads
<1>l. Len(queue_) \in Nat
  BY LenProperties DEF TypeOK
<1>1. CASE PushLock(p)
  <2>1. B = A
    BY <1>1 DEF PushLock, Lock, Alert, TypeOK, Threads
  <2> QED
    BY <1>1, <2>1 DEF PushLock, NoLostWakeup
<1>2. CASE PushItem(p)
  <2>1. B = A \cup {p} /\ p \notin A
    BY <1>0, <1>2 DEF PushItem, Alert, TypeOK
  <2>2. Cardinality(B) = Cardinality(A) + 1
    BY <1>0, <2>1, AlertGrows
  <2>3. PICK v \in Values : queue_' = Append(queue_, v)
    BY <1>2 DEF PushItem
  <2>4. Len(queue_') = Len(queue_) + 1
    BY <2>3, AppendProperties DEF TypeOK
  <2> QED
    BY <1>0, <1>l, <1>2, <2>2, <2>4 DEF PushItem, NoLostWakeup
<1>3. CASE PushNotify(p)
  <2>1. CASE cond_var_ = {}
    BY <1>3, <2>1 DEF PushNotify, NotifyOne, NoLostWakeup
  <2>2. CASE cond_var_ # {}
    <3>1. PICK w \in cond_var_ :
            pc' = [pc EXCEPT ![p] = "leaving", ![w] = "woken"]
      BY <1>3, <2>2 DEF PushNotify, NotifyOne
    <3>2. w \in Threads /\ w # p /\ pc[w] = "waiting"
      BY ThreadAssumption DEF TypeOK, WaitSet, Threads
    <3>3. B = (A \ {p}) \cup {w} /\ p \in A /\ w \notin A
      BY <1>0, <1>3, <3>1, <3>2 DEF PushNotify, Alert, TypeOK
    <3>4. /\ Cardinality(A \ {p}) = Cardinality(A) - 1
          /\ Cardinality(B) = Cardinality(A \ {p}) + 1
      BY <1>0, <3>2, <3>3, AlertShrinks, AlertGrows
    <3>5. Cardinality(B) = Cardinality(A)
      BY <1>0, <3>4
    <3> QED
      BY <1>3, <2>2, <3>5 DEF PushNotify, NoLostWakeup
  <2> QED
    BY <2>1, <2>2
<1> QED
  BY <1>1, <1>2, <1>3

(* No step leaves a value behind with nobody awake to take it. *)
LEMMA WakeupStep ==
  ASSUME IInv, [Next]_vars
  PROVE  NoLostWakeup'
<1> USE DEF IInv
<1> DEFINE A == Alert
           B == Alert'
<1>0. /\ A \in SUBSET Threads /\ B \in SUBSET Threads
      /\ Consumers \subseteq Threads
      /\ Cardinality(A) \in Nat /\ Cardinality(B) \in Nat
  BY AlertFinite DEF Alert, Threads
<1>l. Len(queue_) \in Nat
  BY LenProperties DEF TypeOK
<1>1. ASSUME NEW c \in Consumers, PopLock(c) PROVE NoLostWakeup'
  <2>1. B = A \cup {c} /\ c \notin A
    BY <1>0, <1>1 DEF PopLock, Lock, Alert, TypeOK
  <2>2. Cardinality(B) = Cardinality(A) + 1
    BY <1>0, <2>1, AlertGrows
  <2> QED
    BY <1>0, <1>l, <1>1, <2>2 DEF PopLock, NoLostWakeup
<1>2. ASSUME NEW c \in Consumers, PopWait(c) PROVE NoLostWakeup'
  BY <1>0, <1>2, EmptySeq DEF PopWait, NoLostWakeup
<1>3. ASSUME NEW c \in Consumers, SpuriousWake(c) PROVE NoLostWakeup'
  <2>1. B = A \cup {c} /\ c \notin A
    BY <1>0, <1>3 DEF SpuriousWake, Alert, TypeOK, WaitSet
  <2>2. Cardinality(B) = Cardinality(A) + 1
    BY <1>0, <2>1, AlertGrows
  <2> QED
    BY <1>0, <1>l, <1>3, <2>2 DEF SpuriousWake, NoLostWakeup
<1>4. ASSUME NEW c \in Consumers, Reacquire(c) PROVE NoLostWakeup'
  <2>1. B = A
    BY <1>4 DEF Reacquire, Lock, Alert, TypeOK, Threads
  <2> QED
    BY <1>4, <2>1 DEF Reacquire, NoLostWakeup
<1>5. ASSUME NEW c \in Consumers, PopTest(c) \/ PopFront(c)
      PROVE NoLostWakeup'
  <2>1. B = A
    BY <1>5 DEF PopTest, PopFront, Alert, TypeOK, Threads
  <2> QED
    BY <1>5, <2>1 DEF PopTest, PopFront, NoLostWakeup
<1>6. ASSUME NEW c \in Consumers, PopRemove(c) PROVE NoLostWakeup'
  <2>1. B = A \ {c} /\ c \in A
    BY <1>0, <1>6 DEF PopRemove, Alert, TypeOK
  <2>2. Cardinality(B) = Cardinality(A) - 1
    BY <1>0, <2>1, AlertShrinks
  <2>3. Len(queue_') = Len(queue_) - 1
    BY <1>6, HeadTailProperties DEF PopRemove, FrontIsThere, TypeOK
  <2> QED
    BY <1>0, <1>l, <1>6, <2>2, <2>3 DEF PopRemove, NoLostWakeup
<1>7. ASSUME NEW c \in Consumers, EmptyLock(c) PROVE NoLostWakeup'
  <2>1. B = A
    BY <1>7 DEF EmptyLock, Lock, Alert, TypeOK, Threads
  <2> QED
    BY <1>7, <2>1 DEF EmptyLock, NoLostWakeup
<1>8. ASSUME NEW c \in Consumers, EmptyRead(c) PROVE NoLostWakeup'
  <2>1. B = A
    BY <1>8 DEF EmptyRead, Alert, TypeOK, Threads
  <2> QED
    BY <1>8, <2>1 DEF EmptyRead, NoLostWakeup
<1>9. ASSUME NEW t \in Threads, Unlock(t) PROVE NoLostWakeup'
  <2>1. B = A
    BY <1>9 DEF Unlock, Alert, TypeOK, Threads
  <2> QED
    BY <1>9, <2>1 DEF Unlock, NoLostWakeup
<1>10. CASE UNCHANGED vars
  BY <1>10 DEF vars, NoLostWakeup, Alert
<1> QED
  BY StepCases, PushKeepsWakeups, <1>1, <1>2, <1>3, <1>4, <1>5, <1>6, <1>7,
     <1>8, <1>9, <1>10

LEMMA Inductive == Spec => []IInv
<1>1. Init => IInv
  BY ThreadAssumption, EmptySeq
  DEF Init, IInv, TypeOK, MutualExclusion, WaitSet, FrontIsThere,
      NoLostWakeup, Positions, Inside, Threads
<1>2. IInv /\ [Next]_vars => IInv'
  BY TypeStep, ExclusionStep, FrontStep, WakeupStep DEF IInv
<1> QED
  BY <1>1, <1>2, PTL DEF Spec

(* The variables keep their types through every call of the queue; that the
   reads of the front are of a queue that has one is part of this. *)
THEOREM TypeCorrect == Spec => []TypeOK
BY Inductive, PTL DEF IInv

(* At any time at most one thread is inside the queue, and the mutex says
   which one. *)
THEOREM Exclusive == Spec => []MutualExclusion
BY Inductive, PTL DEF IInv

(* The front that a consumer has seen is there until that consumer removes
   it. *)
THEOREM FrontStays == Spec => []FrontIsThere
BY Inductive, PTL DEF IInv

(* A sleeping consumer never sleeps next to a value nobody else will take. *)
THEOREM WakeupsAreKept == Spec => []NoLostWakeup
BY Inductive, PTL DEF IInv

-----------------------------------------------------------------------------
(* While a thread is inside the queue, nobody else is about to remove. *)
LEMMA NobodyRemoving ==
  ASSUME MutualExclusion, NEW t \in Threads,
         pc[t] \in Inside, pc[t] # "removing"
  PROVE  ~Removing
BY OneInside DEF Removing, Inside, Threads

(* A step that leaves the queue alone, and that neither starts nor ends a
   removal, is invisible. *)
LEMMA StepUnseen ==
  ASSUME TypeOK, NEW t \in Threads, UNCHANGED <<queue_, value, answer>>,
         pc[t] # "removing", pc'[t] # "removing",
         \A u \in Threads \ {t} :
           \/ pc'[u] = pc[u]
           \/ pc[u] # "removing" /\ pc'[u] # "removing"
  PROVE  UNCHANGED Fifo!vars
<1>1. \A c \in Consumers : pc[c] = "removing" <=> pc'[c] = "removing"
  BY DEF Threads
<1>2. Removing <=> Removing'
  BY <1>1 DEF Removing
<1> QED
  BY <1>2 DEF Fifo!vars, Contents

(* The queue refines the blocking FIFO queue: a push takes effect when the
   value is appended, a pop when the front is moved out, empty when it
   looks; every other step is invisible. *)
THEOREM RefinesFifo == Spec => ImplementsFifo
<1>1. Init => Fifo!Init
  BY DEF Init, Fifo!Init, Contents, Removing, Threads
<1>2. IInv /\ [Next]_vars => [Fifo!Next]_(Fifo!vars)
  <2> SUFFICES ASSUME IInv, [Next]_vars PROVE [Fifo!Next]_(Fifo!vars)
    OBVIOUS
  <2>0. TypeOK /\ MutualExclusion /\ WaitSet /\ FrontIsThere
    BY DEF IInv
  <2> USE DEF Threads
  <2>1. ASSUME NEW p \in Producers, PushItem(p) PROVE Fifo!Push
    <3>1. ~Removing
      BY <2>0, <2>1, NobodyRemoving DEF PushItem, Inside
    <3>2. ~Removing'
      BY <2>0, <2>1, <3>1 DEF PushItem, Removing, TypeOK
    <3> QED
      BY <2>1, <3>1, <3>2 DEF PushItem, Fifo!Push, Contents
  <2>2. ASSUME NEW c \in Consumers, PopFront(c) PROVE Fifo!Pop(c)
    <3>1. ~Removing
      BY <2>0, <2>2, NobodyRemoving DEF PopFront, Inside
    <3>2. Removing'
      BY <2>0, <2>2 DEF PopFront, Removing, TypeOK
    <3>3. queue_ # <<>>
      BY <2>0, <2>2 DEF PopFront, FrontIsThere
    <3> QED
      BY <2>2, <3>1, <3>2, <3>3 DEF PopFront, Fifo!Pop, Contents
  <2>3. ASSUME NEW c \in Consumers, PopRemove(c) PROVE UNCHANGED Fifo!vars
    <3>1. Removing
      BY <2>3 DEF PopRemove, Removing
    <3>2. \A d \in Consumers : pc[d] = "removing" => d = c
      BY <2>0, <2>3, OneInside DEF PopRemove, Inside
    <3>3. ~Removing'
      BY <2>0, <2>3, <3>2 DEF PopRemove, Removing, TypeOK
    <3> QED
      BY <2>3, <3>1, <3>3 DEF PopRemove, Fifo!vars, Contents
  <2>4. ASSUME NEW c \in Consumers, EmptyRead(c) PROVE Fifo!Empty(c)
    <3>1. ~Removing
      BY <2>0, <2>4, NobodyRemoving DEF EmptyRead, Inside
    <3>2. ~Removing'
      BY <2>0, <2>4, <3>1 DEF EmptyRead, Removing, TypeOK
    <3> QED
      BY <2>4, <3>1, <3>2 DEF EmptyRead, Fifo!Empty, Contents
  <2>5. ASSUME NEW p \in Producers, PushLock(p) \/ PushNotify(p)
        PROVE  UNCHANGED Fifo!vars
    <3>1. CASE PushLock(p)
      BY <2>0, <3>1, StepUnseen DEF PushLock, Lock, TypeOK
    <3>2. CASE PushNotify(p)
      BY <2>0, <3>2, StepUnseen DEF PushNotify, NotifyOne, TypeOK, WaitSet
    <3> QED
      BY <2>5, <3>1, <3>2
  <2>6. ASSUME NEW c \in Consumers,
               PopLock(c) \/ Reacquire(c) \/ EmptyLock(c)
        PROVE  UNCHANGED Fifo!vars
    BY <2>0, <2>6, StepUnseen DEF PopLock, Reacquire, EmptyLock, Lock, TypeOK
  <2>7. ASSUME NEW c \in Consumers,
               PopWait(c) \/ SpuriousWake(c) \/ PopTest(c)
        PROVE  UNCHANGED Fifo!vars
    BY <2>0, <2>7, StepUnseen
    DEF PopWait, SpuriousWake, PopTest, TypeOK, WaitSet
  <2>8. ASSUME NEW t \in Threads, Unlock(t) PROVE UNCHANGED Fifo!vars
    BY <2>0, <2>8, StepUnseen DEF Unlock, TypeOK
  <2>9. CASE UNCHANGED vars
    BY <2>9 DEF vars, Fifo!vars, Contents, Removing
  <2> QED
    BY StepCases, <2>1, <2>2, <2>3, <2>4, <2>5, <2>6, <2>7, <2>8, <2>9
    DEF Fifo!Next
<1> QED
  BY <1>1, <1>2, Inductive, PTL DEF Spec, ImplementsFifo, Fifo!Spec
==============================================================================
