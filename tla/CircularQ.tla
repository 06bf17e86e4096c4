----------------------------- MODULE CircularQ -----------------------------
(***************************************************************************)
(* spdlog's circular_q: a queue in a vector with one slot more than it has *)
(* room for.  A queue is a record of the members of the class; max is      *)
(* max_items_, 0 for a queue that is disabled.                              *)
(***************************************************************************)
EXTENDS Integers, Sequences

\* A slot that nothing was moved into yet, or whose item was moved out.
NoItem == [type |-> "none"]

\* The queues with room for n items out of S.
Queue(n, S) ==
  [max : {n + 1}, head : 0 .. n, tail : 0 .. n,
   overrun : Nat, v : [0 .. n -> S \cup {NoItem}]]

NewQueue(max_items) ==
  [max |-> max_items + 1, head |-> 0, tail |-> 0, overrun |-> 0,
   v |-> [i \in 0 .. max_items |-> NoItem]]

Size(q) ==
  IF q.tail >= q.head THEN q.tail - q.head ELSE q.max - (q.head - q.tail)

At(q, i) == q.v[(q.head + i) % q.max]

\* Mutants: the tail does not wrap around; the head stays when it is overrun.
PushBackPastEnd(q, x) == [q EXCEPT !.v[q.tail] = x, !.tail = @ + 1]

PushBackOverHead(q, x) ==
  [q EXCEPT !.v[q.tail] = x, !.tail = (@ + 1) % q.max]

\* push_back: the oldest item is overrun if there is no room left.
PushBack(q, x) ==
  LET tail == (q.tail + 1) % q.max
      lost == tail = q.head
  IN  IF q.max = 0
      THEN q
      ELSE [max     |-> q.max,
            head    |-> IF lost THEN (q.head + 1) % q.max ELSE q.head,
            tail    |-> tail,
            overrun |-> IF lost THEN q.overrun + 1 ELSE q.overrun,
            v       |-> [q.v EXCEPT ![q.tail] = x]]

FrontItem(q) == q.v[q.head]

\* The item is moved out of front() and pop_front() passes over its slot.
PopFront(q) ==
  [max |-> q.max, head |-> (q.head + 1) % q.max, tail |-> q.tail,
   overrun |-> q.overrun, v |-> [q.v EXCEPT ![q.head] = NoItem]]

IsEmpty(q) == q.tail = q.head

IsFull(q) == q.max > 0 /\ (q.tail + 1) % q.max = q.head
=============================================================================
