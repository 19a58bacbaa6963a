------------------------------- MODULE Deque -------------------------------
(***************************************************************************)
(* What the work stealing queues promise.  A queue is a sequence of tasks. *)
(* Its owner works at one end, last in first out; every other thread takes *)
(* from the other end, first in first out.  Each operation is one step,    *)
(* and a task is always in exactly one place.                              *)
(***************************************************************************)
EXTENDS Sequences, Naturals

CONSTANTS
  Threads,   \* the threads, each with its queue
  Task,      \* the tasks
  None       \* not a task: an empty hand

VARIABLES
  free,      \* tasks no thread and no queue has
  hand,      \* hand[t] : the task thread t has, or None
  deque      \* deque[q] : the tasks of queue q, oldest first

Init ==
  /\ free = Task
  /\ hand = [t \in Threads |-> None]
  /\ deque = [q \in Threads |-> << >>]

Obtain(t, k) ==
  /\ hand[t] = None
  /\ k \in free
  /\ free' = free \ {k}
  /\ hand' = [hand EXCEPT ![t] = k]
  /\ UNCHANGED deque

Push(t) ==
  /\ hand[t] # None
  /\ deque' = [deque EXCEPT ![t] = Append(@, hand[t])]
  /\ hand' = [hand EXCEPT ![t] = None]
  /\ UNCHANGED free

\* The private, last in first out end.
PopHead(t) ==
  /\ hand[t] = None
  /\ deque[t] # << >>
  /\ hand' = [hand EXCEPT ![t] = deque[t][Len(deque[t])]]
  /\ deque' = [deque EXCEPT ![t] = SubSeq(@, 1, Len(@) - 1)]
  /\ UNCHANGED free

\* The public, first in first out end.
PopTail(t, q) ==
  /\ hand[t] = None
  /\ deque[q] # << >>
  /\ hand' = [hand EXCEPT ![t] = Head(deque[q])]
  /\ deque' = [deque EXCEPT ![q] = Tail(@)]
  /\ UNCHANGED free

Release(t) ==
  /\ hand[t] # None
  /\ free' = free \cup {hand[t]}
  /\ hand' = [hand EXCEPT ![t] = None]
  /\ UNCHANGED deque

Next ==
  \E t \in Threads :
    \/ \E k \in Task : Obtain(t, k)
    \/ Push(t)
    \/ PopHead(t)
    \/ \E q \in Threads : PopTail(t, q)
    \/ Release(t)

Spec == Init /\ [][Next]_<<free, hand, deque>>
=============================================================================
