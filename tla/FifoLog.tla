------------------------------ MODULE FifoLog ------------------------------
(***************************************************************************)
(* What an asynchronous logger promises: items are posted in some order    *)
(* and handed to the worker in that order, each once.  At most Capacity    *)
(* items wait.  When the queue may be overrun, posting to a full one gives *)
(* up the oldest item that waits, and no other.                            *)
(***************************************************************************)
EXTENDS Integers, Sequences

CONSTANTS PostItems, Capacity, MayOverrun

VARIABLES
  posted,    \* the items, in the order in which they were accepted
  taken,     \* how many of them have left the queue
  delivered  \* the items the worker was handed, in that order

vars == <<posted, taken, delivered>>

Init == posted = <<>> /\ taken = 0 /\ delivered = <<>>

Post(x) ==
  /\ Len(posted) - taken < Capacity
  /\ posted' = Append(posted, x)
  /\ UNCHANGED <<taken, delivered>>

Overrun(x) ==
  /\ MayOverrun
  /\ Len(posted) - taken = Capacity
  /\ posted' = Append(posted, x)
  /\ taken' = taken + 1
  /\ UNCHANGED delivered

Deliver ==
  /\ taken < Len(posted)
  /\ taken' = taken + 1
  /\ delivered' = Append(delivered, posted[taken + 1])
  /\ UNCHANGED posted

Next == (\E x \in PostItems : Post(x) \/ Overrun(x)) \/ Deliver

Spec == Init /\ [][Next]_vars
=============================================================================
