-------------------------- MODULE AsyncLogHistory --------------------------
(***************************************************************************)
(* The asynchronous log with the order of its items written down, to show  *)
(* that the circular buffer, its mutex and its two condition variables     *)
(* implement the queue of FifoLog.                                         *)
(***************************************************************************)
EXTENDS AsyncLog

CONSTANT MaxPosted  \* bound: items posted

ASSUME AsyncLogHistoryAssumption == MaxPosted \in Nat

VARIABLES
  posted,    \* history variable: the items that went into the queue
  delivered  \* history variable: the items the worker took out of it

hvars == <<vars, posted, delivered>>

HInit == Init /\ posted = <<>> /\ delivered = <<>>

HNext ==
  \/ /\ Len(posted) < MaxPosted
     /\ \E t \in Posters : EnqueueOk(t) /\ posted' = Append(posted, item[t])
     /\ UNCHANGED delivered
  \/ /\ Dequeue
     /\ delivered' = Append(delivered, FrontItem(q))
     /\ UNCHANGED posted
  \/ OtherStep /\ UNCHANGED <<posted, delivered>>

HSpec == HInit /\ [][HNext]_hvars

\* Items are taken in the order in which they were posted, each once, and
\* only a queue that may be overrun gives up items, the oldest ones: the
\* queue of the pool implements FifoLog.
Fifo == INSTANCE FifoLog
  WITH Capacity <- QueueSize, MayOverrun <- OverflowPolicy = "overrun_oldest",
       taken <- Len(posted) - Size(q)

InOrder == Fifo!Spec

\* overrun_counter() is the number of items that were lost.
LossIsCounted == Len(posted) = Len(delivered) + Size(q) + q.overrun

\* The inductive invariant: the items in the queue are the newest ones that
\* were posted, in their order, and a thread in a call has an item to post.
QueueInv ==
  /\ CallsInv
  /\ posted \in Seq(PostItems) /\ delivered \in Seq(PostItems)
  /\ Size(q) <= Len(posted)
  /\ \A i \in 1 .. Size(q) : At(q, i - 1) = posted[Len(posted) - Size(q) + i]
  /\ LossIsCounted
=============================================================================
