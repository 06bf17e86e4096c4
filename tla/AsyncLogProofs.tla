--------------------------- MODULE AsyncLogProofs ---------------------------
(***************************************************************************)
(* For any number of threads and any size of the queue: the queue of the   *)
(* thread pool is first in, first out, and counts what it loses; its       *)
(* worker ends with nobody left behind; and with a queue that blocks, the  *)
(* end of the program loses no message.                                    *)
(***************************************************************************)
EXTENDS AsyncLogHistory, TLAPS

-----------------------------------------------------------------------------
(* What the operations of a circular_q do to its items, for any size.      *)

\* An index that went at most once past the end of the ring.
LEMMA RingIndex ==
  ASSUME NEW m \in Nat \ {0}, NEW x \in 0 .. 2 * m - 1
  PROVE  x % m = IF x < m THEN x ELSE x - m
<1>1. CASE x < m
  BY <1>1
<1>2. CASE x >= m
  <2> DEFINE y == x - m
  <2>1. y \in 0 .. m - 1 /\ x = y + m
    BY <1>2
  <2>2. (y + m) % m = y
    BY <2>1
  <2> QED
    BY <1>2, <2>1, <2>2
<1> QED
  BY <1>1, <1>2

\* The slot after slot x.
LEMMA NextSlot ==
  ASSUME NEW n \in Nat, NEW x \in 0 .. n
  PROVE  (x + 1) % (n + 1) = IF x = n THEN 0 ELSE x + 1
<1> DEFINE m == n + 1
           y == x + 1
<1>1. m \in Nat \ {0} /\ y \in 0 .. 2 * m - 1
  OBVIOUS
<1>2. m = n + 1 /\ y = x + 1
  OBVIOUS
<1> HIDE DEF m, y
<1>3. y % m = IF y < m THEN y ELSE y - m
  BY <1>1, RingIndex, Zenon
<1> QED
  BY <1>2, <1>3

\* What the size of a queue is, and when it is full.
LEMMA QSize ==
  ASSUME NEW n \in Nat \ {0}, NEW S, NEW r \in Queue(n, S)
  PROVE  /\ Size(r) \in 0 .. n
         /\ IsFull(r) <=> Size(r) = n
         /\ IsEmpty(r) <=> Size(r) = 0
<1>1. (r.tail + 1) % (n + 1) = IF r.tail = n THEN 0 ELSE r.tail + 1
  BY NextSlot DEF Queue
<1>2. /\ n \in Nat \ {0} /\ r.max = n + 1
      /\ r.head \in 0 .. n /\ r.tail \in 0 .. n
  BY DEF Queue
<1>3. Size(r) = IF r.tail >= r.head THEN r.tail - r.head
                ELSE n + 1 - (r.head - r.tail)
  BY <1>2 DEF Size
<1>4. IsFull(r) <=> r.head = IF r.tail = n THEN 0 ELSE r.tail + 1
  BY <1>1, <1>2 DEF IsFull
<1>5. Size(r) \in 0 .. n /\ (IsEmpty(r) <=> Size(r) = 0)
  BY <1>2, <1>3 DEF IsEmpty
<1>6. IsFull(r) <=> Size(r) = n
  BY <1>2, <1>3, <1>4
<1> QED
  BY <1>5, <1>6

\* The slot of item i of a queue, without arithmetic modulo its length.
LEMMA QSlot ==
  ASSUME NEW n \in Nat \ {0}, NEW S, NEW r \in Queue(n, S), NEW i \in 0 .. n
  PROVE  At(r, i) = r.v[IF r.head + i <= n THEN r.head + i
                        ELSE r.head + i - (n + 1)]
<1> DEFINE m == n + 1
           y == r.head + i
<1>1. m \in Nat \ {0} /\ y \in 0 .. 2 * m - 1
  BY DEF Queue
<1>2. m = n + 1 /\ y = r.head + i /\ r.max = m
  BY DEF Queue
<1> HIDE DEF m, y
<1>3. y % m = IF y < m THEN y ELSE y - m
  BY <1>1, RingIndex, Zenon
<1>4. y % m = IF y <= n THEN y ELSE y - m
  BY <1>1, <1>2, <1>3
<1>5. At(r, i) = r.v[y % m]
  BY <1>2 DEF At
<1>6. CASE y <= n
  BY <1>2, <1>4, <1>5, <1>6
<1>7. CASE ~(y <= n)
  <2>1. y - m = r.head + i - (n + 1) /\ ~(r.head + i <= n)
    BY <1>2, <1>7 DEF Queue
  <2> QED
    BY <1>4, <1>5, <1>7, <2>1
<1> QED
  BY <1>6, <1>7

\* push_back on a queue that has room: the item comes last, the rest stays.
LEMMA QPushRoom ==
  ASSUME NEW n \in Nat \ {0}, NEW S, NEW r \in Queue(n, S), NEW x \in S, ~IsFull(r),
         NEW s, s = PushBack(r, x)
  PROVE  /\ s \in Queue(n, S)
         /\ Size(s) = Size(r) + 1
         /\ s.overrun = r.overrun
         /\ \A i \in 1 .. Size(r) : At(s, i - 1) = At(r, i - 1)
         /\ At(s, Size(r)) = x
<1> DEFINE tail == IF r.tail = n THEN 0 ELSE r.tail + 1
<1>0. (r.tail + 1) % (n + 1) = tail
  BY NextSlot DEF Queue
<1>1. tail # r.head /\ tail \in 0 .. n
  BY <1>0 DEF IsFull, Queue
<1>2. s = [max |-> n + 1, head |-> r.head, tail |-> tail,
           overrun |-> r.overrun, v |-> [r.v EXCEPT ![r.tail] = x]]
  BY <1>0, <1>1 DEF PushBack, Queue
<1>3. s \in Queue(n, S) /\ s.tail = tail /\ s.head = r.head /\ s.overrun = r.overrun
  BY <1>1, <1>2 DEF Queue
<1>4. s.v = [r.v EXCEPT ![r.tail] = x]
  BY <1>2 DEF Queue
<1>5. Size(s) = Size(r) + 1
  <2>1. s.max = n + 1 /\ r.max = n + 1
    BY <1>3 DEF Queue
  <2>2. r.head \in 0 .. n /\ r.tail \in 0 .. n
    BY DEF Queue
  <2> QED
    BY <1>1, <1>3, <2>1, <2>2 DEF Size
<1>6. ASSUME NEW i \in 1 .. Size(r) PROVE At(s, i - 1) = At(r, i - 1)
  <2> DEFINE k == IF r.head + (i - 1) <= n THEN r.head + (i - 1)
                  ELSE r.head + (i - 1) - (n + 1)
  <2>1. i - 1 \in 0 .. n
    BY QSize
  <2>2. At(s, i - 1) = s.v[k] /\ At(r, i - 1) = r.v[k]
    BY <2>1, <1>3, QSlot
  <2>3. k \in 0 .. n /\ k # r.tail
    BY <2>1 DEF Size, Queue
  <2> QED
    BY <2>2, <2>3, <1>4 DEF Queue
<1>7. At(s, Size(r)) = x
  <2> DEFINE k == IF r.head + Size(r) <= n THEN r.head + Size(r)
                  ELSE r.head + Size(r) - (n + 1)
  <2>1. Size(r) \in 0 .. n
    BY QSize
  <2>2. At(s, Size(r)) = s.v[k]
    BY <2>1, <1>3, QSlot
  <2>3. k = r.tail
    BY DEF Size, Queue
  <2> QED
    BY <2>2, <2>3, <1>4, Zenon DEF Queue
<1> QED
  BY <1>3, <1>5, <1>6, <1>7

\* push_back on a full queue: the oldest item goes, and is counted.
LEMMA QPushFull ==
  ASSUME NEW n \in Nat \ {0}, NEW S, NEW r \in Queue(n, S), NEW x \in S, IsFull(r),
         NEW s, s = PushBack(r, x)
  PROVE  /\ s \in Queue(n, S)
         /\ Size(s) = n
         /\ s.overrun = r.overrun + 1
         /\ \A i \in 1 .. n - 1 : At(s, i - 1) = At(r, i)
         /\ At(s, n - 1) = x
<1> DEFINE tail == IF r.tail = n THEN 0 ELSE r.tail + 1
           head == IF r.head = n THEN 0 ELSE r.head + 1
<1>0. /\ (r.tail + 1) % (n + 1) = tail
      /\ (r.head + 1) % (n + 1) = head
  BY NextSlot DEF Queue
<1>1. tail = r.head /\ tail \in 0 .. n /\ head \in 0 .. n
  BY <1>0 DEF IsFull, Queue
<1>2. s = [max |-> n + 1, head |-> head, tail |-> tail,
           overrun |-> r.overrun + 1, v |-> [r.v EXCEPT ![r.tail] = x]]
  <2>1. r.max = n + 1 /\ r.max # 0
    BY DEF Queue
  <2> HIDE DEF tail, head
  <2> QED
    BY <1>0, <1>1, <2>1 DEF PushBack
<1>3. s \in Queue(n, S) /\ s.tail = tail /\ s.head = head /\ s.overrun = r.overrun + 1
  BY <1>1, <1>2 DEF Queue
<1>4. s.v = [r.v EXCEPT ![r.tail] = x]
  BY <1>2 DEF Queue
<1>5. Size(s) = n
  <2>1. s.max = n + 1
    BY <1>3 DEF Queue
  <2>2. r.head \in 0 .. n /\ r.tail \in 0 .. n
    BY DEF Queue
  <2>3. s.tail = r.head /\ s.head = IF r.head = n THEN 0 ELSE r.head + 1
    BY <1>1, <1>3
  <2> QED
    BY <2>1, <2>2, <2>3 DEF Size
<1>6. ASSUME NEW i \in 1 .. n - 1 PROVE At(s, i - 1) = At(r, i)
  <2> DEFINE k == IF r.head + i <= n THEN r.head + i
                  ELSE r.head + i - (n + 1)
  <2>1. At(r, i) = r.v[k]
    BY QSlot
  <2>2. At(s, i - 1) = s.v[k]
    <3> DEFINE j == i - 1
               l == IF s.head + j <= n THEN s.head + j
                    ELSE s.head + j - (n + 1)
    <3>1. j \in 0 .. n /\ l = k
      BY <1>3 DEF Queue
    <3>2. At(s, j) = s.v[l]
      BY <3>1, <1>3, QSlot
    <3> QED
      BY <3>1, <3>2
  <2>3. k \in 0 .. n /\ k # r.tail
    BY <1>1 DEF Queue
  <2> QED
    BY <2>1, <2>2, <2>3, <1>4 DEF Queue
<1>7. At(s, n - 1) = x
  <2> DEFINE j == n - 1
             l == IF s.head + j <= n THEN s.head + j
                  ELSE s.head + j - (n + 1)
  <2>0. j \in 0 .. n /\ l = r.tail
    BY <1>1, <1>3, SMTT(30) DEF Queue
  <2>1. At(s, n - 1) = s.v[r.tail]
    BY <2>0, <1>3, QSlot
  <2> QED
    BY <2>1, <1>4, Zenon DEF Queue
<1> QED
  BY <1>3, <1>5, <1>6, <1>7

\* front() is the first item.
LEMMA FrontIsFirst ==
  ASSUME NEW n \in Nat \ {0}, NEW S, NEW r \in Queue(n, S)
  PROVE  FrontItem(r) = At(r, 0)
<1>1. 0 \in 0 .. n /\ r.head + 0 <= n /\ r.head + 0 = r.head
  BY DEF Queue
<1> QED
  BY <1>1, QSlot DEF FrontItem

\* pop_front takes the oldest item.
LEMMA QPopFront ==
  ASSUME NEW n \in Nat \ {0}, NEW S, NEW r \in Queue(n, S), ~IsEmpty(r), NEW s, s = PopFront(r)
  PROVE  /\ s \in Queue(n, S)
         /\ Size(s) = Size(r) - 1
         /\ s.overrun = r.overrun
         /\ FrontItem(r) = At(r, 0)
         /\ \A i \in 1 .. Size(s) : At(s, i - 1) = At(r, i)
<1> DEFINE head == IF r.head = n THEN 0 ELSE r.head + 1
<1>0. (r.head + 1) % (n + 1) = head
  BY NextSlot DEF Queue
<1>1. head \in 0 .. n /\ r.head # r.tail
  BY DEF IsEmpty, Queue
<1>2. s = [max |-> n + 1, head |-> head, tail |-> r.tail,
           overrun |-> r.overrun, v |-> [r.v EXCEPT ![r.head] = NoItem]]
  BY <1>0 DEF PopFront, Queue
<1>3. s \in Queue(n, S) /\ s.head = head /\ s.tail = r.tail /\ s.overrun = r.overrun
  BY <1>1, <1>2 DEF Queue
<1>4. s.v = [r.v EXCEPT ![r.head] = NoItem]
  BY <1>2 DEF Queue
<1>5. Size(s) = Size(r) - 1
  BY <1>1, <1>3 DEF Size, Queue
<1>6. FrontItem(r) = At(r, 0)
  BY FrontIsFirst
<1>7. ASSUME NEW i \in 1 .. Size(s) PROVE At(s, i - 1) = At(r, i)
  <2> DEFINE k == IF r.head + i <= n THEN r.head + i
                  ELSE r.head + i - (n + 1)
  <2>1. i \in 1 .. n /\ i < Size(r)
    BY <1>5, QSize
  <2>2. At(r, i) = r.v[k]
    BY <2>1, QSlot
  <2>3. At(s, i - 1) = s.v[k]
    <3> DEFINE j == i - 1
               l == IF s.head + j <= n THEN s.head + j
                    ELSE s.head + j - (n + 1)
    <3>1. j \in 0 .. n /\ l = k
      BY <2>1, <1>3 DEF Queue
    <3>2. At(s, j) = s.v[l]
      BY <3>1, <1>3, QSlot
    <3> QED
      BY <3>1, <3>2
  <2>4. k \in 0 .. n /\ k # r.head
    BY <2>1 DEF Queue
  <2> QED
    BY <2>2, <2>3, <2>4, <1>4 DEF Queue
<1> QED
  BY <1>3, <1>5, <1>6, <1>7

-----------------------------------------------------------------------------
(* The queue of the thread pool.                                           *)

\* What the operations of the queue do to its items, for the queue of the pool.
LEMMA SizeFacts ==
  ASSUME NEW r \in Queues
  PROVE  /\ Size(r) \in 0 .. QueueSize
         /\ IsFull(r) <=> Size(r) = QueueSize
         /\ IsEmpty(r) <=> Size(r) = 0
BY QSize, AsyncLogAssumption DEF Queues

\* push_back into a queue that has room.
LEMMA PushBackRoom ==
  ASSUME NEW r \in Queues, NEW x \in PostItems, ~IsFull(r),
         NEW s, s = PushBack(r, x)
  PROVE  /\ s \in Queues
         /\ Size(s) = Size(r) + 1
         /\ s.overrun = r.overrun
         /\ \A i \in 1 .. Size(r) : At(s, i - 1) = At(r, i - 1)
         /\ At(s, Size(r)) = x
BY QPushRoom, AsyncLogAssumption DEF Queues

\* push_back into a full queue drops the oldest item.
LEMMA PushBackFull ==
  ASSUME NEW r \in Queues, NEW x \in PostItems, IsFull(r),
         NEW s, s = PushBack(r, x)
  PROVE  /\ s \in Queues
         /\ Size(s) = QueueSize
         /\ s.overrun = r.overrun + 1
         /\ \A i \in 1 .. QueueSize - 1 : At(s, i - 1) = At(r, i)
         /\ At(s, QueueSize - 1) = x
BY QPushFull, AsyncLogAssumption DEF Queues

\* pop_front takes the oldest item.
LEMMA PopFrontNext ==
  ASSUME NEW r \in Queues, ~IsEmpty(r), NEW s, s = PopFront(r)
  PROVE  /\ s \in Queues
         /\ Size(s) = Size(r) - 1
         /\ s.overrun = r.overrun
         /\ FrontItem(r) = At(r, 0)
         /\ \A i \in 1 .. Size(s) : At(s, i - 1) = At(r, i)
BY QPopFront, AsyncLogAssumption DEF Queues

-----------------------------------------------------------------------------
(* The invariant.                                                          *)

\* The queue starts empty, with nothing posted or delivered.
LEMMA InitQueueInv == HInit => QueueInv
<1> SUFFICES ASSUME HInit PROVE QueueInv
  OBVIOUS
<1>1. q \in Queues /\ q.overrun = 0
  BY AsyncLogAssumption, SMTT(30) DEF HInit, Init, NewQueue, Queues, Queue
<1>2. Size(q) = 0
  BY AsyncLogAssumption DEF HInit, Init, NewQueue, Size
<1>3. posted = <<>> /\ delivered = <<>>
  BY DEF HInit
<1>4. \A t \in Posters : pc[t] = "idle" /\ item[t] = NoItem
  BY DEF HInit, Init
<1>5. pc \in [Posters -> InCall \cup {"idle", "join", "out"}]
  BY DEF HInit, Init
<1>6. item \in [Posters -> PostItems \cup {NoItem}]
  BY DEF HInit, Init
<1>7. logged \in [Threads -> 0 .. MaxLogs]
  BY AsyncLogAssumption DEF HInit, Init
<1> QED
  BY <1>1, <1>2, <1>3, <1>4, <1>5, <1>6, <1>7 DEF QueueInv, CallsInv, LossIsCounted, InCall

\* What the steps that leave the queue alone do to the calls of the threads.
CallsOK ==
  /\ pc' \in [Posters -> InCall \cup {"idle", "join", "out"}]
  /\ item' \in [Posters -> PostItems \cup {NoItem}]
  /\ \A t \in Posters : pc'[t] \in InCall => item'[t] \in PostItems
  /\ logged' \in [Threads -> 0 .. MaxLogs]

\* A call begins with an item to post.
LEMMA StartPostOK ==
  ASSUME CallsInv, NEW t \in Posters, NEW x \in PostItems, StartPost(t, x),
         logged' \in [Threads -> 0 .. MaxLogs]
  PROVE  CallsOK
BY DEF CallsInv, StartPost, CallsOK, InCall

\* A thread moves on with the item it has.
LEMMA MovesOn ==
  ASSUME CallsInv, NEW t \in Posters, pc[t] \in InCall, UNCHANGED <<item, logged>>,
         NEW where \in InCall, pc' = [pc EXCEPT ![t] = where]
  PROVE  CallsOK
BY DEF CallsInv, CallsOK

\* A thread leaves a call, or is not in one.
LEMMA Leaves ==
  ASSUME CallsInv, NEW t \in Posters, NEW where \in {"idle", "join", "out"},
         pc' = [pc EXCEPT ![t] = where], UNCHANGED logged,
         \/ UNCHANGED item
         \/ item' = [item EXCEPT ![t] = NoItem]
  PROVE  CallsOK
BY DEF CallsInv, CallsOK, InCall

\* A step that concerns no call leaves all calls in order.
LEMMA StaysOK ==
  ASSUME CallsInv, UNCHANGED <<pc, item>>, logged' \in [Threads -> 0 .. MaxLogs]
  PROVE  CallsOK
BY DEF CallsInv, CallsOK

\* Both threads of the program post.
LEMMA GuiPosts == Gui \in Posters /\ Flusher \in Posters
BY AsyncLogAssumption DEF Posters

\* Messages and the two requests are what is posted.
LEMMA Requests ==
  /\ FlushItem \in PostItems /\ TerminateItem \in PostItems
  /\ \A m \in Messages : LogItem(m) \in PostItems
BY DEF PostItems

\* Every step but the two that move an item keeps the calls in order.
LEMMA OtherStepCalls == CallsInv /\ OtherStep => CallsOK /\ UNCHANGED q
<1> SUFFICES ASSUME CallsInv, OtherStep PROVE CallsOK /\ UNCHANGED q
  OBVIOUS
<1>0. UNCHANGED logged => logged' \in [Threads -> 0 .. MaxLogs]
  BY DEF CallsInv
<1>1. ASSUME NEW t \in Posters, EnqueueWaits(t) PROVE CallsOK /\ UNCHANGED q
  BY <1>1, MovesOn, Zenon DEF EnqueueWaits, InCall
<1>2. ASSUME NEW t \in Posters, PostDone(t) PROVE CallsOK /\ UNCHANGED q
  <2>1. CASE StartPost(t, TerminateItem)
    BY <1>0, <1>2, <2>1, StartPostOK, Requests DEF PostDone
  <2>2. CASE /\ pc' = [pc EXCEPT ![t] = IF item[t] = TerminateItem THEN "join" ELSE "idle"]
             /\ item' = [item EXCEPT ![t] = NoItem]
    BY <1>2, <2>2, Leaves, Zenon DEF PostDone
  <2> QED
    BY <1>2, <2>1, <2>2 DEF PostDone
<1>3. ASSUME NEW t \in Posters, Joined(t) PROVE CallsOK /\ UNCHANGED q
  BY <1>3, Leaves, Zenon DEF Joined
<1>4. ASSUME NEW t \in Posters, NotifyPoster(t) PROVE CallsOK /\ UNCHANGED q
  BY <1>4, MovesOn, Zenon DEF NotifyPoster, Waiting, InCall
<1>5. ASSUME NEW t \in Threads, Log(t) PROVE CallsOK /\ UNCHANGED q
  <2>1. UNCHANGED q /\ t \in Posters
    BY <1>5 DEF Log, Posters
  <2>2. logged[t] + 1 \in 1 .. MaxLogs /\ logged' \in [Threads -> 0 .. MaxLogs]
    BY <1>5, AsyncLogAssumption DEF Log, CallsInv
  <2>3. PICK m \in Messages : StartPost(t, LogItem(m)) \/ UNCHANGED <<pc, item>>
    BY <1>5, <2>2 DEF Log, Messages
  <2>4. CASE StartPost(t, LogItem(m))
    BY <2>1, <2>2, <2>4, StartPostOK, Requests
  <2>5. CASE UNCHANGED <<pc, item>>
    BY <2>1, <2>2, <2>5, StaysOK
  <2> QED
    BY <2>3, <2>4, <2>5
<1>6. CASE DequeueWaits \/ NotifyNobody \/ SinkIt \/ BackendFlush \/ Terminate
  BY <1>0, <1>6, StaysOK DEF DequeueWaits, NotifyNobody, SinkIt, BackendFlush, Terminate
<1>7. CASE SpuriousWakeup
  <2>1. CASE \E t \in Waiting : pc' = [pc EXCEPT ![t] = "enqueue"]
    <3>1. PICK t \in Waiting : pc' = [pc EXCEPT ![t] = "enqueue"]
      BY <2>1, Zenon
    <3> QED
      BY <1>7, <3>1, MovesOn, Zenon DEF SpuriousWakeup, Waiting, InCall
  <2>2. CASE UNCHANGED pc
    BY <1>0, <1>7, <2>2, StaysOK DEF SpuriousWakeup
  <2> QED
    BY <1>7, <2>1, <2>2 DEF SpuriousWakeup
<1>8. CASE FlushAll
  BY <1>0, <1>8, StartPostOK, Requests, GuiPosts DEF FlushAll
<1>9. CASE FlusherReturns
  BY <1>9, Leaves, GuiPosts, Zenon DEF FlusherReturns
<1>10. CASE ReleaseLog \/ Exit \/ StopFlusher \/ JoinFlusher \/ Unload
  BY <1>0, <1>10, StaysOK DEF ReleaseLog, Exit, StopFlusher, JoinFlusher, Unload, queue
<1>11. CASE ResetPool
  <2>1. CASE StartPost(Gui, TerminateItem)
    BY <1>0, <1>11, <2>1, StartPostOK, Requests, GuiPosts DEF ResetPool
  <2>2. CASE UNCHANGED <<pc, item>>
    BY <1>0, <1>11, <2>2, StaysOK DEF ResetPool
  <2> QED
    BY <1>11, <2>1, <2>2 DEF ResetPool
<1> QED
  BY <1>1, <1>2, <1>3, <1>4, <1>5, <1>6, <1>7, <1>8, <1>9, <1>10, <1>11 DEF OtherStep

\* What is left of the queue when it keeps its newest items: the part of the
\* invariant that ties it to the history.
Newest(r, s) ==
  /\ Size(r) <= Len(s)
  /\ \A i \in 1 .. Size(r) : At(r, i - 1) = s[Len(s) - Size(r) + i]

\* What a posted item leaves of those before it.
LEMMA AppendFacts ==
  ASSUME NEW s \in Seq(PostItems), NEW x \in PostItems, NEW u, u = Append(s, x)
  PROVE  /\ u \in Seq(PostItems)
         /\ Len(u) = Len(s) + 1
         /\ \A i \in 1 .. Len(s) : u[i] = s[i]
         /\ u[Len(s) + 1] = x
BY DEF PostItems

\* After a push_back the queue still holds the newest items posted.
LEMMA NewestAfterPush ==
  ASSUME NEW r \in Queues, NEW s \in Seq(PostItems), NEW x \in PostItems, Newest(r, s),
         NEW r2, r2 = PushBack(r, x), NEW s2, s2 = Append(s, x)
  PROVE  Newest(r2, s2)
<1>0. /\ s2 \in Seq(PostItems) /\ Len(s2) = Len(s) + 1
      /\ \A i \in 1 .. Len(s) : s2[i] = s[i]
      /\ s2[Len(s) + 1] = x
  BY AppendFacts
<1>1. /\ Len(s) \in Nat /\ Size(r) \in Nat /\ Size(r) <= Len(s)
      /\ \A i \in 1 .. Size(r) : At(r, i - 1) = s[Len(s) - Size(r) + i]
  BY SizeFacts DEF Newest
<1>2. CASE ~IsFull(r)
  <2>1. /\ Size(r2) = Size(r) + 1
        /\ \A i \in 1 .. Size(r) : At(r2, i - 1) = At(r, i - 1)
        /\ At(r2, Size(r)) = x
    BY <1>2, PushBackRoom
  <2>2. ASSUME NEW i \in 1 .. Size(r2)
        PROVE  At(r2, i - 1) = s2[Len(s2) - Size(r2) + i]
    <3>1. CASE i = Size(r2)
      <4>1. i - 1 = Size(r) /\ Len(s2) - Size(r2) + i = Len(s) + 1
        BY <1>0, <1>1, <2>1, <3>1
      <4> QED
        BY <1>0, <2>1, <4>1
    <3>2. CASE i # Size(r2)
      <4> DEFINE j == Len(s) - Size(r) + i
      <4>1. /\ i \in 1 .. Size(r) /\ j \in 1 .. Len(s)
            /\ Len(s2) - Size(r2) + i = j
        BY <1>0, <1>1, <2>1, <3>2
      <4>2. s2[j] = s[j] /\ At(r, i - 1) = s[j] /\ At(r2, i - 1) = At(r, i - 1)
        BY <1>0, <1>1, <2>1, <4>1
      <4> QED
        BY <4>1, <4>2
    <3> QED
      BY <3>1, <3>2, Zenon
  <2>3. Size(r2) <= Len(s2)
    BY <1>0, <1>1, <2>1
  <2> QED
    BY <2>2, <2>3, Zenon DEF Newest
<1>3. CASE IsFull(r)
  <2>1. /\ Size(r2) = QueueSize
        /\ \A i \in 1 .. QueueSize - 1 : At(r2, i - 1) = At(r, i)
        /\ At(r2, QueueSize - 1) = x
    BY <1>3, PushBackFull
  <2>2. Size(r) = QueueSize /\ QueueSize \in Nat \ {0}
    BY <1>3, SizeFacts, AsyncLogAssumption
  <2>3. ASSUME NEW i \in 1 .. Size(r2)
        PROVE  At(r2, i - 1) = s2[Len(s2) - Size(r2) + i]
    <3>1. CASE i = Size(r2)
      <4>1. i - 1 = QueueSize - 1 /\ Len(s2) - Size(r2) + i = Len(s) + 1
        BY <1>0, <1>1, <2>1, <2>2, <3>1
      <4> QED
        BY <1>0, <2>1, <4>1
    <3>2. CASE i # Size(r2)
      <4> DEFINE j == Len(s) - Size(r) + (i + 1)
      <4>1. /\ i \in 1 .. QueueSize - 1 /\ i + 1 \in 1 .. Size(r)
            /\ (i + 1) - 1 = i /\ j \in 1 .. Len(s)
            /\ Len(s2) - Size(r2) + i = j
        BY <1>0, <1>1, <2>1, <2>2, <3>2
      <4>2. s2[j] = s[j] /\ At(r, (i + 1) - 1) = s[j] /\ At(r2, i - 1) = At(r, i)
        BY <1>0, <1>1, <2>1, <4>1
      <4> QED
        BY <4>1, <4>2
    <3> QED
      BY <3>1, <3>2, Zenon
  <2>4. Size(r2) <= Len(s2)
    BY <1>0, <1>1, <2>1, <2>2
  <2> QED
    BY <2>3, <2>4, Zenon DEF Newest
<1> QED
  BY <1>2, <1>3

\* So it does after a pop_front, which takes the oldest of them.
LEMMA NewestAfterPop ==
  ASSUME NEW r \in Queues, NEW s \in Seq(PostItems), Newest(r, s), ~IsEmpty(r),
         NEW r2, r2 = PopFront(r)
  PROVE  /\ Newest(r2, s)
         /\ Size(r) > 0
         /\ FrontItem(r) = s[Len(s) - Size(r) + 1]
<1>1. /\ Len(s) \in Nat /\ Size(r) \in Nat /\ Size(r) <= Len(s)
      /\ \A i \in 1 .. Size(r) : At(r, i - 1) = s[Len(s) - Size(r) + i]
      /\ Size(r) # 0
  BY SizeFacts DEF Newest
<1>2. /\ Size(r2) = Size(r) - 1
      /\ FrontItem(r) = At(r, 0)
      /\ \A i \in 1 .. Size(r2) : At(r2, i - 1) = At(r, i)
  BY PopFrontNext
<1>3. FrontItem(r) = s[Len(s) - Size(r) + 1]
  <2>1. 1 \in 1 .. Size(r) /\ 1 - 1 = 0
    BY <1>1
  <2>2. At(r, 1 - 1) = s[Len(s) - Size(r) + 1]
    BY <1>1, <2>1
  <2> QED
    BY <1>2, <2>1, <2>2
<1>4. ASSUME NEW i \in 1 .. Size(r2)
      PROVE  At(r2, i - 1) = s[Len(s) - Size(r2) + i]
  <2>1. /\ i + 1 \in 1 .. Size(r) /\ (i + 1) - 1 = i
        /\ Len(s) - Size(r2) + i = Len(s) - Size(r) + (i + 1)
    BY <1>1, <1>2
  <2>2. At(r, (i + 1) - 1) = s[Len(s) - Size(r) + (i + 1)]
    BY <1>1, <2>1
  <2> QED
    BY <1>2, <2>1, <2>2
<1> QED
  BY <1>1, <1>2, <1>3, <1>4 DEF Newest

-----------------------------------------------------------------------------
(* The two steps that move an item.                                        *)

\* A push_back is a post of the lossy queue.
LEMMA PostStep ==
  ASSUME QueueInv, NEW t \in Posters, EnqueueOk(t),
         posted' = Append(posted, item[t]), UNCHANGED delivered
  PROVE  QueueInv' /\ Fifo!Next
<1> DEFINE x == item[t]
<1>1. x \in PostItems
  BY DEF QueueInv, CallsInv, EnqueueOk, InCall
<1>2. q \in Queues /\ posted \in Seq(PostItems) /\ Newest(q, posted)
  BY DEF QueueInv, CallsInv, Newest
<1>3. q' = PushBack(q, x) /\ UNCHANGED item
  BY DEF EnqueueOk
<1> HIDE DEF x
<1>4. Newest(q', posted')
  BY <1>1, <1>2, <1>3, NewestAfterPush, Zenon DEF x
<1>5. posted' \in Seq(PostItems) /\ Len(posted') = Len(posted) + 1 /\ Len(posted) \in Nat
  BY <1>1, <1>2, AppendFacts DEF x
<1>6. Size(q) \in 0 .. QueueSize /\ (IsFull(q) <=> Size(q) = QueueSize)
  BY <1>2, SizeFacts
<1>7. CallsOK
  <2>1. CallsInv
    BY DEF QueueInv
  <2> QED
    BY <2>1, MovesOn, Zenon DEF EnqueueOk, InCall
<1>8. q' \in Queues /\ LossIsCounted' /\ Fifo!Next
  <2>1. CASE ~IsFull(q)
    <3>1. q' \in Queues /\ Size(q') = Size(q) + 1 /\ q'.overrun = q.overrun
      BY <1>1, <1>2, <1>3, <2>1, PushBackRoom
    <3>2. LossIsCounted'
      <4>1. Len(posted) = Len(delivered) + Size(q) + q.overrun
        BY DEF QueueInv, CallsInv, LossIsCounted
      <4>2. Len(delivered) \in Nat /\ q.overrun \in Nat
        BY DEF QueueInv, CallsInv, Queues, Queue
      <4>3. Len(posted') = Len(delivered) + Size(q') + q'.overrun
        BY <3>1, <4>1, <4>2, <1>5, <1>6
      <4> QED
        BY <4>3 DEF LossIsCounted
    <3>3. Fifo!Post(x)
      <4>1. Len(posted) - (Len(posted) - Size(q)) < QueueSize
        BY <1>5, <1>6, <2>1, AsyncLogAssumption
      <4>2. Len(posted') - Size(q') = Len(posted) - Size(q)
        BY <1>5, <1>6, <3>1
      <4> QED
        BY <4>1, <4>2 DEF Fifo!Post, x
    <3> QED
      BY <1>1, <3>1, <3>2, <3>3 DEF Fifo!Next
  <2>2. CASE IsFull(q)
    <3>1. q' \in Queues /\ Size(q') = Size(q) /\ q'.overrun = q.overrun + 1
      BY <1>1, <1>2, <1>3, <1>6, <2>2, PushBackFull
    <3>2. LossIsCounted'
      <4>1. Len(posted) = Len(delivered) + Size(q) + q.overrun
        BY DEF QueueInv, CallsInv, LossIsCounted
      <4>2. Len(delivered) \in Nat /\ q.overrun \in Nat
        BY DEF QueueInv, CallsInv, Queues, Queue
      <4>3. Len(posted') = Len(delivered) + Size(q') + q'.overrun
        BY <3>1, <4>1, <4>2, <1>5, <1>6
      <4> QED
        BY <4>3 DEF LossIsCounted
    <3>3. Fifo!Overrun(x)
      <4>1. Len(posted) - (Len(posted) - Size(q)) = QueueSize
        BY <1>5, <1>6, <2>2, AsyncLogAssumption
      <4>2. Len(posted') - Size(q') = (Len(posted) - Size(q)) + 1
        BY <1>5, <1>6, <3>1
      <4>3. OverflowPolicy = "overrun_oldest"
        BY <2>2, AsyncLogAssumption DEF EnqueueOk, Blocked
      <4> QED
        BY <4>1, <4>2, <4>3 DEF Fifo!Overrun, x
    <3> QED
      BY <1>1, <3>1, <3>2, <3>3 DEF Fifo!Next
  <2> QED
    BY <2>1, <2>2
<1> QED
  BY <1>4, <1>5, <1>7, <1>8, Zenon DEF QueueInv, CallsInv, CallsOK, Newest

\* A pop_front is a delivery of the lossy queue.
LEMMA DeliverStep ==
  ASSUME QueueInv, Dequeue, delivered' = Append(delivered, FrontItem(q)), UNCHANGED posted
  PROVE  QueueInv' /\ Fifo!Next
<1>1. /\ q \in Queues /\ posted \in Seq(PostItems) /\ Newest(q, posted)
      /\ delivered \in Seq(PostItems)
  BY DEF QueueInv, CallsInv, Newest
<1>2. q' = PopFront(q) /\ ~IsEmpty(q)
  BY DEF Dequeue
<1>3. /\ Newest(q', posted) /\ Size(q) > 0
      /\ FrontItem(q) = posted[Len(posted) - Size(q) + 1]
  BY <1>1, <1>2, NewestAfterPop
<1>4. q' \in Queues /\ Size(q') = Size(q) - 1 /\ q'.overrun = q.overrun
  BY <1>1, <1>2, PopFrontNext
<1>5. /\ Len(posted) \in Nat /\ Size(q) \in Nat /\ Size(q) <= Len(posted)
      /\ Len(posted) - Size(q) + 1 \in 1 .. Len(posted)
  BY <1>1, <1>3, SizeFacts DEF Newest
<1>6. FrontItem(q) \in PostItems
  BY <1>1, <1>3, <1>5
<1>7. delivered' \in Seq(PostItems) /\ Len(delivered') = Len(delivered) + 1
  BY <1>1, <1>6, AppendFacts
<1>8. CallsOK
  <2>1. /\ CallsInv /\ UNCHANGED <<pc, item, logged>>
        /\ logged \in [Threads -> 0 .. MaxLogs]
    BY DEF Dequeue, QueueInv, CallsInv
  <2> QED
    BY <2>1, StaysOK
<1>9. LossIsCounted'
  <2>1. Len(posted) = Len(delivered) + Size(q) + q.overrun
    BY DEF QueueInv, CallsInv, LossIsCounted
  <2>2. Len(delivered) \in Nat /\ q.overrun \in Nat
    BY SMTT(30) DEF QueueInv, CallsInv, Queues, Queue
  <2>3. Len(posted) = Len(delivered') + Size(q') + q'.overrun
    BY <2>1, <2>2, <1>4, <1>5, <1>7
  <2> QED
    BY <2>3 DEF LossIsCounted
<1>10. Fifo!Deliver
  <2>1. Len(posted) - Size(q) < Len(posted)
    BY <1>3, <1>5
  <2>2. Len(posted') - Size(q') = (Len(posted) - Size(q)) + 1
    BY <1>4, <1>5
  <2> QED
    BY <2>1, <2>2, <1>3 DEF Fifo!Deliver
<1> QED
  BY <1>3, <1>4, <1>7, <1>8, <1>9, <1>10, <1>1 DEF QueueInv, CallsInv, CallsOK, Newest, Fifo!Next

\* Any other step is a stutter of the lossy queue.
LEMMA OtherStepKeeps ==
  ASSUME QueueInv, OtherStep \/ UNCHANGED vars, UNCHANGED <<posted, delivered>>
  PROVE  QueueInv' /\ UNCHANGED Fifo!vars
<1>1. CallsOK /\ UNCHANGED q
  <2>0. CallsInv /\ logged \in [Threads -> 0 .. MaxLogs]
    BY DEF QueueInv, CallsInv
  <2>1. CASE UNCHANGED vars
    BY <2>0, <2>1, StaysOK DEF vars, queue
  <2> QED
    BY <2>0, <2>1, OtherStepCalls
<1>2. UNCHANGED Fifo!vars
  BY <1>1 DEF Fifo!vars
<1> QED
  BY <1>1, <1>2 DEF QueueInv, CallsInv, CallsOK, LossIsCounted

\* A step of the log keeps the invariant and is a step of the queue or none.
LEMMA HStep == QueueInv /\ [HNext]_hvars => QueueInv' /\ [Fifo!Next]_Fifo!vars
<1> SUFFICES ASSUME QueueInv, [HNext]_hvars PROVE QueueInv' /\ [Fifo!Next]_Fifo!vars
  OBVIOUS
<1>1. CASE /\ \E t \in Posters : EnqueueOk(t) /\ posted' = Append(posted, item[t])
           /\ UNCHANGED delivered
  BY <1>1, PostStep
<1>2. CASE Dequeue /\ delivered' = Append(delivered, FrontItem(q)) /\ UNCHANGED posted
  BY <1>2, DeliverStep
<1>3. CASE OtherStep /\ UNCHANGED <<posted, delivered>>
  BY <1>3, OtherStepKeeps
<1>4. CASE UNCHANGED hvars
  BY <1>4, OtherStepKeeps DEF hvars
<1> QED
  BY <1>1, <1>2, <1>3, <1>4 DEF HNext

\* Whatever the threads do, the circular buffer holds the newest items that
\* were posted, in their order.
THEOREM QueueInvariant == HSpec => []QueueInv
<1>1. QueueInv /\ [HNext]_hvars => QueueInv'
  BY HStep
<1> QED
  BY InitQueueInv, <1>1, PTL DEF HSpec

\* overrun_counter() is the number of items lost, for every size of the queue.
THEOREM LossCounted == HSpec => []LossIsCounted
<1>1. QueueInv => LossIsCounted
  BY DEF QueueInv, CallsInv
<1> QED
  BY QueueInvariant, <1>1, PTL

\* The log's queue implements a first-in-first-out queue, for any number of
\* threads, any size and both overflow policies: nothing is reordered, nothing
\* is delivered twice, and a blocking queue loses nothing.
THEOREM LogInOrder == HSpec => InOrder
<1>1. HInit => Fifo!Init
  <2> SUFFICES ASSUME HInit PROVE Fifo!Init
    OBVIOUS
  <2>1. Size(q) = 0
    BY AsyncLogAssumption DEF HInit, Init, NewQueue, Size
  <2> QED
    BY <2>1 DEF HInit, Fifo!Init
<1>2. QueueInv /\ [HNext]_hvars => [Fifo!Next]_Fifo!vars
  BY HStep
<1> QED
  BY <1>1, <1>2, QueueInvariant, PTL DEF HSpec, InOrder, Fifo!Spec

-----------------------------------------------------------------------------
(* The end of the worker.                                                  *)

\* What tells the items apart.
LEMMA ItemTypes ==
  /\ TerminateItem.type = "terminate" /\ FlushItem.type = "flush" /\ NoItem.type = "none"
  /\ \A m : LogItem(m).type = "log" /\ LogItem(m).msg = m
  /\ \A x \in PostItems \cup {NoItem} : x.type = "terminate" => x = TerminateItem
BY DEF TerminateItem, FlushItem, NoItem, LogItem, PostItems

\* The items after a push: the new one comes last, the others were there.
LEMMA PushedItems ==
  ASSUME NEW r \in Queues, NEW x \in PostItems, NEW s, s = PushBack(r, x)
  PROVE  /\ s \in Queues
         /\ Size(s) \in 1 .. QueueSize /\ At(s, Size(s) - 1) = x
         /\ \A i \in 1 .. Size(s) :
              i = Size(s) \/ \E j \in 1 .. Size(r) : At(s, i - 1) = At(r, j - 1)
<1>0. Size(r) \in 0 .. QueueSize /\ (IsFull(r) <=> Size(r) = QueueSize)
  BY SizeFacts
<1>1. CASE ~IsFull(r)
  <2>1. /\ s \in Queues /\ Size(s) = Size(r) + 1
        /\ \A i \in 1 .. Size(r) : At(s, i - 1) = At(r, i - 1)
        /\ At(s, Size(r)) = x
    BY <1>1, PushBackRoom
  <2>2. /\ Size(s) \in 1 .. QueueSize /\ Size(s) - 1 = Size(r)
        /\ \A i \in 1 .. Size(s) : i = Size(s) \/ i \in 1 .. Size(r)
    BY <1>0, <1>1, <2>1, AsyncLogAssumption
  <2> QED
    BY <2>1, <2>2
<1>2. CASE IsFull(r)
  <2>1. /\ s \in Queues /\ Size(s) = QueueSize
        /\ \A i \in 1 .. QueueSize - 1 : At(s, i - 1) = At(r, i)
        /\ At(s, QueueSize - 1) = x
    BY <1>2, PushBackFull
  <2>2. Size(r) = QueueSize /\ QueueSize \in Nat \ {0}
    BY <1>0, <1>2, AsyncLogAssumption
  <2>3. ASSUME NEW i \in 1 .. Size(s), i # Size(s)
        PROVE  \E j \in 1 .. Size(r) : At(s, i - 1) = At(r, j - 1)
    <3>1. i \in 1 .. QueueSize - 1 /\ i + 1 \in 1 .. Size(r) /\ (i + 1) - 1 = i
      BY <2>1, <2>2, <2>3
    <3> QED
      BY <2>1, <3>1
  <2> QED
    BY <2>1, <2>2, <2>3
<1> QED
  BY <1>1, <1>2

\* The invariants at the start.
LEMMA InitEnd == Init => CallsInv /\ WorkerInv /\ StageInv /\ TerminateInv /\ KeptInv
<1> SUFFICES ASSUME Init PROVE CallsInv /\ WorkerInv /\ StageInv /\ TerminateInv /\ KeptInv
  OBVIOUS
<1>1. q \in Queues
  BY AsyncLogAssumption DEF Init, NewQueue, Queues, Queue
<1>2. Size(q) = 0
  BY AsyncLogAssumption DEF Init, NewQueue, Size
<1>3. \A t \in Posters : pc[t] = "idle" /\ item[t] = NoItem
  BY DEF Init
<1>4. CallsInv
  <2>1. pc \in [Posters -> InCall \cup {"idle", "join", "out"}]
    BY DEF Init
  <2>2. item \in [Posters -> PostItems \cup {NoItem}]
    BY DEF Init
  <2>3. logged \in [Threads -> 0 .. MaxLogs]
    BY AsyncLogAssumption DEF Init
  <2> QED
    BY <1>1, <1>3, <2>1, <2>2, <2>3 DEF CallsInv, InCall
<1>5. WorkerInv
  BY DEF Init, WorkerInv
<1>6. StageInv
  BY <1>3, GuiPosts DEF Init, StageInv
<1>7. TerminateInv
  <2>1. PoolExists /\ witem # TerminateItem /\ worker # "dead"
    BY ItemTypes DEF Init, PoolExists
  <2>2. ~InQueue(TerminateItem) /\ 1 .. Size(q) = {}
    BY <1>2 DEF InQueue
  <2> QED
    BY <1>3, <2>1, <2>2 DEF TerminateInv, Posting
<1>8. KeptInv
  BY DEF Init, KeptInv
<1> QED
  BY <1>4, <1>5, <1>6, <1>7, <1>8

\* One step of the log, whichever it is, leaves the worker in a known state.
LEMMA WorkerStep == CallsInv /\ WorkerInv /\ [Next]_vars => WorkerInv'
<1> SUFFICES ASSUME CallsInv, WorkerInv, [Next]_vars PROVE WorkerInv'
  OBVIOUS
<1>1. CASE Dequeue
  <2>1. FrontItem(q) \in PostItems \cup {NoItem}
    BY Zenon DEF CallsInv, Queues, Queue, FrontItem
  <2> QED
    BY <1>1, <2>1 DEF Dequeue, WorkerInv
<1>2. CASE DequeueWaits \/ NotifyNobody \/ SinkIt \/ BackendFlush \/ Terminate
  BY <1>2 DEF WorkerInv, WorkerAt, DequeueWaits, NotifyNobody, SinkIt, BackendFlush, Terminate
<1>3. ASSUME NEW t \in Posters, EnqueueOk(t) \/ EnqueueWaits(t) \/ PostDone(t) \/ Joined(t)
      PROVE  WorkerInv'
  BY <1>3 DEF WorkerInv, EnqueueOk, EnqueueWaits, PostDone, Joined
<1>4. ASSUME NEW t \in Posters, NotifyPoster(t) PROVE WorkerInv'
  BY <1>4 DEF WorkerInv, WorkerAt, NotifyPoster
<1>5. ASSUME NEW t \in Threads, Log(t) PROVE WorkerInv'
  BY <1>5 DEF WorkerInv, Log
<1>6. CASE SpuriousWakeup
  BY <1>6 DEF WorkerInv, SpuriousWakeup
<1>7. CASE FlushAll \/ FlusherReturns \/ ResetPool
  BY <1>7 DEF WorkerInv, FlushAll, FlusherReturns, ResetPool
<1>8. CASE ReleaseLog \/ Exit \/ StopFlusher \/ JoinFlusher \/ Unload \/ UNCHANGED vars
  BY <1>8 DEF WorkerInv, ReleaseLog, Exit, StopFlusher, JoinFlusher, Unload, queue, vars
<1> QED
  BY <1>1, <1>2, <1>3, <1>4, <1>5, <1>6, <1>7, <1>8 DEF Next, OtherStep

\* While the program is up, a step that moves neither Gui out of main() nor
\* a flusher that has returned keeps the order of ~registry.
LEMMA StageStays ==
  ASSUME StageInv, Alive, UNCHANGED <<stage, tp>>,
         pc[Flusher] = "out" => pc'[Flusher] = "out",
         stage \in {"stopFlusher", "joinFlusher", "resetPool"} /\ pc[Gui] = "idle"
           => pc'[Gui] = "idle"
  PROVE  StageInv'
BY DEF StageInv, Alive

\* Every step keeps the stages of shutdown in order.
LEMMA StageStep == CallsInv /\ StageInv /\ [Next]_vars => StageInv'
<1> SUFFICES ASSUME CallsInv, StageInv, [Next]_vars PROVE StageInv'
  OBVIOUS
<1>0. Gui # Flusher /\ Gui \in Posters /\ Flusher \in Posters /\ Threads \subseteq Posters
  BY GuiPosts, AsyncLogAssumption DEF Posters
<1>1. ASSUME NEW t \in Posters,
             EnqueueOk(t) \/ EnqueueWaits(t) \/ PostDone(t) \/ Joined(t) \/ NotifyPoster(t)
      PROVE  StageInv'
  <2>1. Alive /\ UNCHANGED <<stage, tp>> /\ pc[t] \notin {"idle", "out"}
    BY <1>1 DEF EnqueueOk, EnqueueWaits, PostDone, Joined, NotifyPoster, WorkerAt, Waiting
  <2>2. \A u \in Posters \ {t} : pc'[u] = pc[u]
    BY <1>1 DEF CallsInv, EnqueueOk, EnqueueWaits, PostDone, Joined, NotifyPoster, StartPost
  <2>3. /\ pc[Flusher] = "out" => pc'[Flusher] = "out"
        /\ pc[Gui] = "idle" => pc'[Gui] = "idle"
    BY <1>0, <2>1, <2>2
  <2> QED
    BY <2>1, <2>3, StageStays
<1>2. ASSUME NEW t \in Threads, Log(t) PROVE StageInv'
  <2>1. Alive /\ UNCHANGED <<stage, tp>> /\ (t = Gui => stage = "running")
    BY <1>2 DEF Log
  <2>2. \A u \in Posters \ {t} : pc'[u] = pc[u]
    BY <1>2 DEF Log, StartPost, CallsInv
  <2>3. t # Flusher
    BY AsyncLogAssumption
  <2> QED
    BY <1>0, <2>1, <2>2, <2>3, StageStays
<1>3. CASE Dequeue \/ DequeueWaits \/ NotifyNobody \/ SinkIt \/ BackendFlush \/ Terminate
  <2>1. Alive /\ UNCHANGED <<stage, tp, pc>>
    BY <1>3 DEF WorkerAt, Dequeue, DequeueWaits, NotifyNobody, SinkIt, BackendFlush, Terminate
  <2> QED
    BY <2>1, StageStays
<1>4. CASE SpuriousWakeup
  <2>1. Alive /\ UNCHANGED <<stage, tp>>
    BY <1>4 DEF SpuriousWakeup
  <2>2. /\ pc[Flusher] = "out" => pc'[Flusher] = "out"
        /\ pc[Gui] = "idle" => pc'[Gui] = "idle"
    BY <1>0, <1>4 DEF SpuriousWakeup, Waiting, CallsInv
  <2> QED
    BY <2>1, <2>2, StageStays
<1>5. CASE FlushAll \/ FlusherReturns
  <2>1. Alive /\ UNCHANGED <<stage, tp>> /\ pc[Flusher] = "idle"
    BY <1>5 DEF FlushAll, FlusherReturns
  <2>2. pc'[Gui] = pc[Gui]
    BY <1>0, <1>5 DEF FlushAll, FlusherReturns, StartPost, CallsInv
  <2> QED
    BY <2>1, <2>2, StageStays
<1>6. CASE ReleaseLog \/ Exit \/ StopFlusher \/ JoinFlusher \/ UNCHANGED vars
  BY <1>6 DEF StageInv, ReleaseLog, Exit, StopFlusher, JoinFlusher, queue, file, vars
<1>7. CASE ResetPool
  <2>1. pc'[Flusher] = pc[Flusher]
    BY <1>0, <1>7 DEF ResetPool, StartPost, CallsInv
  <2> QED
    BY <1>7, <2>1 DEF ResetPool, StageInv
<1>8. CASE Unload
  BY <1>8 DEF Unload, StageInv, queue
<1> QED
  BY <1>1, <1>2, <1>3, <1>4, <1>5, <1>6, <1>7, <1>8 DEF Next, OtherStep

\* A step after which every thread is as far with its call as before.
LEMMA SameCalls ==
  ASSUME TerminateInv, UNCHANGED <<q, item, tp>>,
         \A t \in Posters : /\ Posting(t)' <=> Posting(t)
                            /\ pc'[t] \in InCall <=> pc[t] \in InCall
                            /\ pc'[t] = "join" <=> pc[t] = "join",
         witem' = TerminateItem \/ worker' = "dead" <=> witem = TerminateItem \/ worker = "dead",
         worker = "dead" => worker' = "dead"
  PROVE  TerminateInv'
<1>1. \A t \in Posters : (Holds(t)' <=> Holds(t)) /\ (Destroys(t)' <=> Destroys(t))
  BY DEF Holds, Destroys
<1>2. (PoolExists' <=> PoolExists) /\ (InQueue(TerminateItem)' <=> InQueue(TerminateItem))
  BY <1>1 DEF PoolExists, InQueue
<1> QED
  BY <1>1, <1>2 DEF TerminateInv

\* Nobody has asked the worker to stop while the pool has an owner.
LEMMA NoRequestYet ==
  ASSUME TerminateInv, PoolExists
  PROVE  /\ ~InQueue(TerminateItem) /\ witem # TerminateItem /\ worker # "dead"
         /\ \A t \in Posters : Posting(t) => item[t] # TerminateItem
BY DEF TerminateInv

\* A thread that does not destroy the pool starts a call or ends one.
LEMMA CallWithPool ==
  ASSUME TerminateInv, NEW t \in Posters, PoolExists, PoolExists',
         UNCHANGED <<q, tp, witem>>, worker' # "dead",
         \A u \in Posters \ {t} : pc'[u] = pc[u] /\ item'[u] = item[u],
         item'[t] # TerminateItem
  PROVE  TerminateInv'
<1>1. ~InQueue(TerminateItem)' /\ witem' # TerminateItem
  BY NoRequestYet DEF InQueue
<1>2. \A u \in Posters : Posting(u)' => item'[u] # TerminateItem
  BY NoRequestYet DEF Posting
<1>3. \A i \in 1 .. Size(q') : At(q', i - 1) # TerminateItem
  BY <1>1 DEF InQueue
<1> QED
  BY <1>1, <1>2, <1>3 DEF TerminateInv

\* The last owner lets go of the pool and asks the worker to stop.
LEMMA LastOwner ==
  ASSUME CallsInv, TerminateInv, NEW t \in Posters, PoolExists,
         tp' = FALSE, \A u \in Posters \ {t} : ~Holds(u),
         StartPost(t, TerminateItem), UNCHANGED <<q, witem>>, worker' # "dead"
  PROVE  TerminateInv'
<1>1. /\ pc'[t] = "enqueue" /\ item'[t] = TerminateItem
      /\ \A u \in Posters \ {t} : pc'[u] = pc[u] /\ item'[u] = item[u]
  BY DEF StartPost, CallsInv
<1>2. ~InQueue(TerminateItem)' /\ witem' # TerminateItem
  BY NoRequestYet DEF InQueue
<1>3. \A u \in Posters \ {t} : ~Posting(u) /\ ~Posting(u)'
  BY <1>1, NoRequestYet DEF Posting, Holds, InCall
<1>4. ~PoolExists'
  BY <1>1 DEF PoolExists, Holds
<1>5. Destroys(t)'
  BY <1>1 DEF Destroys, InCall
<1>6. \A i \in 1 .. Size(q') : At(q', i - 1) # TerminateItem
  BY <1>2 DEF InQueue
<1> QED
  BY <1>2, <1>3, <1>4, <1>5, <1>6 DEF TerminateInv

\* Posting keeps the terminate request last.
LEMMA EnqueueKeepsEnd ==
  ASSUME CallsInv, TerminateInv, NEW t \in Posters, EnqueueOk(t)
  PROVE  TerminateInv'
<1>1. /\ pc[t] = "enqueue" /\ Posting(t) /\ ~Blocked(t)
      /\ q' = PushBack(q, item[t]) /\ UNCHANGED <<item, worker, witem, tp>>
  BY DEF EnqueueOk, Posting
<1>2. pc'[t] = "notify" /\ \A u \in Posters \ {t} : pc'[u] = pc[u]
  BY DEF EnqueueOk, CallsInv
<1>3. q \in Queues /\ item[t] \in PostItems
  BY <1>1 DEF CallsInv, InCall
<1>4. /\ q' \in Queues /\ Size(q') \in 1 .. QueueSize /\ At(q', Size(q') - 1) = item[t]
      /\ \A i \in 1 .. Size(q') :
           i = Size(q') \/ \E j \in 1 .. Size(q) : At(q', i - 1) = At(q, j - 1)
  BY <1>1, <1>3, PushedItems
<1>5. ~InQueue(TerminateItem) /\ witem # TerminateItem /\ worker # "dead"
  BY <1>1 DEF TerminateInv
<1>6. \A u \in Posters : (Holds(u)' <=> Holds(u)) /\ (Destroys(u)' <=> Destroys(u))
  BY <1>1, <1>2 DEF Holds, Destroys, InCall
<1>7. PoolExists' <=> PoolExists
  BY <1>1, <1>6 DEF PoolExists
<1>8. ~Posting(t)' /\ \A u \in Posters \ {t} : Posting(u)' <=> Posting(u)
  BY <1>2 DEF Posting
<1>9. \A i \in 1 .. Size(q') : At(q', i - 1) = TerminateItem => i = Size(q')
  BY <1>4, <1>5 DEF InQueue
<1>10. InQueue(TerminateItem)' => item[t] = TerminateItem
  BY <1>4, <1>5, SMTT(30) DEF InQueue
<1>11. ~PoolExists' => worker' = "dead" \/ \E u \in Posters : Destroys(u)'
  BY <1>1, <1>6, <1>7, Zenon DEF TerminateInv
<1>12. witem' # TerminateItem /\ worker' # "dead"
  BY <1>1, <1>5
<1>13. CASE item[t] = TerminateItem
  <2>1. ~PoolExists /\ \A u \in Posters \ {t} : ~Posting(u)
    BY <1>1, <1>13, Zenon DEF TerminateInv
  <2>2. ~PoolExists' /\ \A u \in Posters : ~Posting(u)'
    BY <1>7, <1>8, <2>1
  <2> QED
    BY <1>9, <1>11, <1>12, <2>2, Zenon DEF TerminateInv
<1>14. CASE item[t] # TerminateItem
  <2>1. ~InQueue(TerminateItem)'
    BY <1>10, <1>14
  <2>2. ASSUME NEW u \in Posters, Posting(u)', item'[u] = TerminateItem PROVE FALSE
    <3>1. u # t /\ Posting(u) /\ item[u] = TerminateItem
      BY <1>1, <1>8, <2>2
    <3> QED
      BY <1>1, <3>1, Zenon DEF TerminateInv
  <2> QED
    BY <1>9, <1>11, <1>12, <2>1, <2>2, Zenon DEF TerminateInv
<1> QED
  BY <1>13, <1>14

\* Taking an item keeps the terminate request last.
LEMMA DequeueKeepsEnd ==
  ASSUME CallsInv, TerminateInv, Dequeue
  PROVE  TerminateInv'
<1>1. /\ worker # "dead" /\ worker' # "dead" /\ ~IsEmpty(q) /\ q' = PopFront(q)
      /\ witem' = FrontItem(q) /\ UNCHANGED <<pc, item, tp>>
  BY DEF Dequeue, WorkerAt
<1>2. q \in Queues
  BY DEF CallsInv
<1>3. /\ q' \in Queues /\ Size(q') = Size(q) - 1 /\ FrontItem(q) = At(q, 0)
      /\ \A i \in 1 .. Size(q') : At(q', i - 1) = At(q, i)
  BY <1>1, <1>2, PopFrontNext
<1>4. Size(q) \in Nat /\ Size(q) # 0
  BY <1>1, <1>2, SizeFacts
<1>5. \A i \in 1 .. Size(q) : At(q, i - 1) = TerminateItem => i = Size(q)
  BY DEF TerminateInv
<1>6. witem' = TerminateItem => InQueue(TerminateItem) /\ Size(q') = 0
  <2>1. 1 \in 1 .. Size(q) /\ 1 - 1 = 0
    BY <1>4
  <2>2. witem' = At(q, 1 - 1)
    BY <1>1, <1>3, <2>1
  <2>3. witem' = TerminateItem => Size(q) = 1
    BY <1>5, <2>1, <2>2
  <2> QED
    BY <1>3, <2>1, <2>2, <2>3 DEF InQueue
<1>7. ASSUME NEW i \in 1 .. Size(q'), At(q', i - 1) = TerminateItem
      PROVE  i = Size(q') /\ InQueue(TerminateItem)
  <2>1. i + 1 \in 1 .. Size(q) /\ (i + 1) - 1 = i
    BY <1>3, <1>4
  <2>2. At(q, (i + 1) - 1) = TerminateItem
    BY <1>3, <1>7, <2>1
  <2>3. i + 1 = Size(q)
    BY <1>5, <2>1, <2>2
  <2> QED
    BY <1>3, <1>4, <2>1, <2>2, <2>3 DEF InQueue
<1>8. InQueue(TerminateItem)' => InQueue(TerminateItem)
  BY <1>7 DEF InQueue
<1>9. /\ PoolExists' <=> PoolExists
      /\ \A t \in Posters : /\ Posting(t)' <=> Posting(t)
                            /\ Destroys(t)' <=> Destroys(t)
  BY <1>1 DEF PoolExists, Holds, Posting, Destroys
<1> QED
  BY <1>1, <1>6, <1>7, <1>8, <1>9 DEF TerminateInv

\* Leaving a call keeps the terminate request last.
LEMMA PostDoneKeepsEnd ==
  ASSUME CallsInv, TerminateInv, NEW t \in Posters, PostDone(t)
  PROVE  TerminateInv'
<1>1. /\ pc[t] = "notify" /\ UNCHANGED <<q, witem, tp>>
      /\ worker' = "dead" <=> worker = "dead"
  BY DEF PostDone
<1>2. CASE item[t] # TerminateItem /\ ~tp /\ \A u \in Posters \ {t} : ~Holds(u)
  <2>1. Holds(t) /\ PoolExists /\ tp' = FALSE /\ StartPost(t, TerminateItem)
    BY <1>1, <1>2 DEF PostDone, Holds, PoolExists, InCall
  <2>2. worker' # "dead"
    BY <1>1, <2>1, NoRequestYet
  <2> QED
    BY <1>1, <1>2, <2>1, <2>2, LastOwner, Zenon
<1>3. CASE ~(item[t] # TerminateItem /\ ~tp /\ \A u \in Posters \ {t} : ~Holds(u))
  <2>1. /\ pc' = [pc EXCEPT ![t] = IF item[t] = TerminateItem THEN "join" ELSE "idle"]
        /\ item' = [item EXCEPT ![t] = NoItem]
    BY <1>3 DEF PostDone
  <2>2. /\ pc'[t] = IF item[t] = TerminateItem THEN "join" ELSE "idle"
        /\ item'[t] = NoItem /\ item'[t] # TerminateItem
        /\ \A u \in Posters \ {t} : pc'[u] = pc[u] /\ item'[u] = item[u]
    BY <2>1, ItemTypes DEF CallsInv
  <2>3. \A u \in Posters \ {t} : /\ Posting(u)' <=> Posting(u)
                                 /\ Holds(u)' <=> Holds(u)
                                 /\ Destroys(u)' <=> Destroys(u)
    BY <2>2, SMTT(30) DEF Posting, Holds, Destroys
  <2>4. CASE item[t] = TerminateItem
    <3>1. Destroys(t) /\ Destroys(t)' /\ ~Holds(t) /\ ~Holds(t)' /\ ~Posting(t) /\ ~Posting(t)'
      BY <1>1, <2>2, <2>4 DEF Destroys, Holds, Posting, InCall
    <3>2. PoolExists' <=> PoolExists
      BY <1>1, <2>3, <3>1 DEF PoolExists
    <3>3. InQueue(TerminateItem)' <=> InQueue(TerminateItem)
      BY <1>1 DEF InQueue
    <3> QED
      BY <1>1, <2>2, <2>3, <3>1, <3>2, <3>3, ZenonT(30) DEF TerminateInv
  <2>5. CASE item[t] # TerminateItem
    <3>1. PoolExists /\ PoolExists'
      BY <1>1, <1>3, <2>3, <2>5 DEF PoolExists
    <3>2. worker' # "dead"
      BY <1>1, <3>1, NoRequestYet
    <3> QED
      BY <1>1, <2>2, <3>1, <3>2, CallWithPool
  <2> QED
    BY <2>4, <2>5
<1> QED
  BY <1>2, <1>3

\* Every step keeps the terminate request last.
LEMMA TerminateStep ==
  CallsInv /\ WorkerInv /\ StageInv /\ TerminateInv /\ [Next]_vars => TerminateInv'
<1> SUFFICES ASSUME CallsInv, WorkerInv, StageInv, TerminateInv, [Next]_vars
             PROVE  TerminateInv'
  OBVIOUS
<1>1. ASSUME NEW t \in Posters, EnqueueWaits(t) \/ NotifyPoster(t) PROVE TerminateInv'
  <2>1. /\ UNCHANGED <<q, item, tp, witem>> /\ pc[t] \in {"enqueue", "wait"}
        /\ worker' = "dead" <=> worker = "dead"
    BY <1>1 DEF EnqueueWaits, NotifyPoster, Waiting, WorkerAt
  <2>2. pc'[t] \in {"enqueue", "wait"} /\ \A u \in Posters \ {t} : pc'[u] = pc[u]
    BY <1>1 DEF EnqueueWaits, NotifyPoster, CallsInv
  <2> QED
    BY <2>1, <2>2, SameCalls DEF Posting, InCall
<1>2. ASSUME NEW t \in Posters, Joined(t) PROVE TerminateInv'
  <2>1. UNCHANGED <<q, item, tp, worker, witem>> /\ pc[t] = "join" /\ worker = "dead"
    BY <1>2 DEF Joined
  <2>2. pc'[t] = "idle" /\ \A u \in Posters \ {t} : pc'[u] = pc[u]
    BY <1>2 DEF Joined, CallsInv
  <2>3. \A u \in Posters : (Posting(u)' <=> Posting(u)) /\ (Holds(u)' <=> Holds(u))
    BY <2>1, <2>2 DEF Posting, Holds, InCall
  <2>4. /\ PoolExists' <=> PoolExists
        /\ InQueue(TerminateItem)' <=> InQueue(TerminateItem)
    BY <2>1, <2>3 DEF PoolExists, InQueue
  <2> QED
    BY <2>1, <2>3, <2>4 DEF TerminateInv
<1>3. ASSUME NEW t \in Threads, Log(t) PROVE TerminateInv'
  <2>1. t \in Posters /\ pc[t] = "idle" /\ UNCHANGED <<q, worker, witem, tp>>
    BY <1>3 DEF Log, Posters
  <2>2. CASE PoolExists
    <3>1. PICK m : StartPost(t, LogItem(m))
      BY <1>3, <2>2 DEF Log
    <3>2. /\ pc'[t] = "enqueue" /\ item'[t] # TerminateItem
          /\ \A u \in Posters \ {t} : pc'[u] = pc[u] /\ item'[u] = item[u]
      BY <2>1, <3>1, ItemTypes DEF StartPost, CallsInv
    <3>3. PoolExists'
      BY <2>1, <3>2 DEF PoolExists, Holds, InCall
    <3>4. worker' # "dead"
      BY <2>1, <2>2, NoRequestYet
    <3> QED
      BY <2>1, <2>2, <3>2, <3>3, <3>4, CallWithPool
  <2>3. CASE ~PoolExists
    <3>1. UNCHANGED <<pc, item>>
      BY <1>3, <2>3 DEF Log
    <3> QED
      BY <2>1, <3>1, SameCalls DEF Posting
  <2> QED
    BY <2>2, <2>3
<1>4. CASE DequeueWaits \/ NotifyNobody \/ SinkIt \/ BackendFlush \/ Terminate
  <2>1. UNCHANGED <<q, pc, item, tp>> /\ worker # "dead"
    BY <1>4 DEF WorkerAt, DequeueWaits, NotifyNobody, SinkIt, BackendFlush, Terminate
  <2>2. witem' = TerminateItem \/ worker' = "dead" <=> witem = TerminateItem
    BY <1>4, ItemTypes
    DEF WorkerInv, WorkerAt, DequeueWaits, NotifyNobody, SinkIt, BackendFlush, Terminate
  <2> QED
    BY <2>1, <2>2, SameCalls DEF Posting
<1>5. CASE SpuriousWakeup
  <2>1. UNCHANGED <<q, item, tp, witem>> /\ (worker' = "dead" <=> worker = "dead")
    BY <1>5 DEF SpuriousWakeup
  <2>2. \A u \in Posters : \/ pc'[u] = pc[u]
                           \/ pc[u] = "wait" /\ pc'[u] = "enqueue"
    BY <1>5 DEF SpuriousWakeup, Waiting, CallsInv
  <2> QED
    BY <2>1, <2>2, SameCalls DEF Posting, InCall
<1>6. CASE FlushAll
  <2>1. /\ PoolExists /\ UNCHANGED <<q, worker, witem, tp>> /\ Flusher \in Posters
        /\ StartPost(Flusher, FlushItem)
    BY <1>6, GuiPosts DEF FlushAll
  <2>2. /\ pc'[Flusher] = "enqueue" /\ item'[Flusher] # TerminateItem
        /\ \A u \in Posters \ {Flusher} : pc'[u] = pc[u] /\ item'[u] = item[u]
    BY <2>1, ItemTypes DEF StartPost, CallsInv
  <2>3. PoolExists' /\ worker' # "dead"
    BY <2>1, <2>2, NoRequestYet DEF PoolExists, Holds, InCall
  <2> QED
    BY <2>1, <2>2, <2>3, CallWithPool
<1>7. CASE FlusherReturns
  <2>1. UNCHANGED <<q, item, tp, worker, witem>> /\ pc[Flusher] = "idle"
    BY <1>7 DEF FlusherReturns
  <2>2. pc'[Flusher] = "out" /\ \A u \in Posters \ {Flusher} : pc'[u] = pc[u]
    BY <1>7, GuiPosts DEF FlusherReturns, CallsInv
  <2> QED
    BY <2>1, <2>2, SameCalls DEF Posting, InCall
<1>8. CASE ReleaseLog \/ Exit \/ StopFlusher \/ JoinFlusher \/ Unload \/ UNCHANGED vars
  <2>1. UNCHANGED <<q, pc, item, tp, worker, witem>>
    BY <1>8 DEF ReleaseLog, Exit, StopFlusher, JoinFlusher, Unload, queue, vars
  <2> QED
    BY <2>1, SameCalls DEF Posting
<1>9. CASE ResetPool
  <2>1. tp /\ PoolExists /\ tp' = FALSE /\ UNCHANGED <<q, worker, witem>> /\ Gui \in Posters
    BY <1>9, GuiPosts DEF ResetPool, StageInv, PoolExists
  <2>2. worker' # "dead"
    BY <2>1, NoRequestYet
  <2>3. CASE \E t \in Posters : Holds(t)
    <3>1. UNCHANGED <<pc, item>>
      BY <1>9, <2>3 DEF ResetPool
    <3>2. PoolExists'
      BY <2>3, <3>1 DEF PoolExists, Holds
    <3>3. /\ ~InQueue(TerminateItem)' /\ witem' # TerminateItem
          /\ \A t \in Posters : Posting(t)' => item'[t] # TerminateItem
      BY <2>1, <3>1, NoRequestYet DEF InQueue, Posting
    <3>4. \A i \in 1 .. Size(q') : At(q', i - 1) # TerminateItem
      BY <3>3 DEF InQueue
    <3> QED
      BY <2>2, <3>2, <3>3, <3>4 DEF TerminateInv
  <2>4. CASE ~\E t \in Posters : Holds(t)
    <3>1. StartPost(Gui, TerminateItem)
      BY <1>9, <2>4 DEF ResetPool
    <3> QED
      BY <2>1, <2>2, <2>4, <3>1, LastOwner, Zenon
  <2> QED
    BY <2>3, <2>4
<1> QED
  BY <1>1, <1>2, <1>3, <1>4, <1>5, <1>6, <1>7, <1>8, <1>9,
     EnqueueKeepsEnd, DequeueKeepsEnd, PostDoneKeepsEnd
  DEF Next, OtherStep

\* The parts of the invariant that hold whatever the policy of the queue.
EndInv == CallsInv /\ WorkerInv /\ StageInv /\ TerminateInv

\* Every step keeps each call with an item to post.
LEMMA CallsStep == CallsInv /\ [Next]_vars => CallsInv'
<1> SUFFICES ASSUME CallsInv, [Next]_vars PROVE CallsInv'
  OBVIOUS
<1>1. q \in Queues /\ logged \in [Threads -> 0 .. MaxLogs]
  BY DEF CallsInv
<1>2. ASSUME NEW t \in Posters, EnqueueOk(t) PROVE CallsInv'
  <2>1. item[t] \in PostItems /\ q' = PushBack(q, item[t])
    BY <1>2 DEF EnqueueOk, CallsInv, InCall
  <2>2. q' \in Queues
    BY <1>1, <2>1, PushedItems
  <2>3. CallsOK
    BY <1>2, MovesOn, Zenon DEF EnqueueOk, InCall
  <2> QED
    BY <2>2, <2>3 DEF CallsInv, CallsOK
<1>3. CASE Dequeue
  <2>1. q' \in Queues
    BY <1>1, <1>3, PopFrontNext DEF Dequeue
  <2>2. CallsOK
    BY <1>1, <1>3, StaysOK DEF Dequeue
  <2> QED
    BY <2>1, <2>2 DEF CallsInv, CallsOK
<1>4. CASE OtherStep
  BY <1>1, <1>4, OtherStepCalls DEF CallsInv, CallsOK
<1>5. CASE UNCHANGED vars
  BY <1>5 DEF CallsInv, vars, queue
<1> QED
  BY <1>2, <1>3, <1>4, <1>5 DEF Next

\* Nothing that was logged is lost in a step that moves no message.
LEMMA StaysSomewhere ==
  ASSUME KeptInv, UNCHANGED logged,
         \A m \in Messages : Somewhere(m) => Somewhere(m)'
  PROVE  KeptInv'
BY DEF KeptInv

\* ... as long as the threads that are posting keep their items.
LEMMA CallsKeep ==
  ASSUME KeptInv, UNCHANGED <<logged, q, witem, file>>,
         \A t \in Threads : Posting(t) => Posting(t)' /\ item'[t] = item[t]
  PROVE  KeptInv'
<1>1. ASSUME NEW m \in Messages, Somewhere(m) PROVE Somewhere(m)'
  BY <1>1 DEF Somewhere, InQueue, file, Messages
<1> QED
  BY <1>1, StaysSomewhere, SMTT(30)

\* With the policy "block" every step keeps each message somewhere.
LEMMA KeptStep ==
  ASSUME OverflowPolicy = "block", EndInv, KeptInv, [Next]_vars
  PROVE  KeptInv'
<1>0. CallsInv /\ WorkerInv /\ StageInv /\ Threads \subseteq Posters
  BY DEF EndInv, Posters
<1>1. ASSUME NEW t \in Posters, EnqueueOk(t) PROVE KeptInv'
  <2>1. /\ ~IsFull(q) /\ q' = PushBack(q, item[t]) /\ item[t] \in PostItems /\ q \in Queues
        /\ pc' = [pc EXCEPT ![t] = "notify"]
        /\ UNCHANGED <<item, witem, logged, buffer, disk, dropped>>
    BY <1>0, <1>1 DEF EnqueueOk, Blocked, CallsInv, InCall, file
  <2>2. /\ Size(q') = Size(q) + 1 /\ At(q', Size(q)) = item[t]
        /\ \A i \in 1 .. Size(q) : At(q', i - 1) = At(q, i - 1)
        /\ Size(q) \in Nat
    BY <2>1, PushBackRoom, SizeFacts
  <2>3. \A x : InQueue(x) => InQueue(x)'
    BY <2>2 DEF InQueue
  <2>4. \A x : item[t] = x => InQueue(x)'
    <3>1. Size(q') \in 1 .. Size(q') /\ Size(q') - 1 = Size(q)
      BY <2>2
    <3> QED
      BY <2>2, <3>1 DEF InQueue
  <2>5. \A u \in Threads \ {t} : Posting(u)' <=> Posting(u)
    BY <1>0, <2>1, SMTT(30) DEF Posting, CallsInv
  <2>6. ASSUME NEW m \in Messages, Somewhere(m) PROVE Somewhere(m)'
    <3>1. m.from \in Threads
      BY DEF Messages
    <3>2. CASE Posting(m.from) /\ item[m.from] = LogItem(m)
      <4>1. CASE m.from = t
        <5>1. InQueue(LogItem(m))'
          BY <2>4, <3>2, <4>1, SMTT(30)
        <5> QED
          BY <5>1, Zenon DEF Somewhere
      <4>2. CASE m.from # t
        BY <2>1, <2>5, <3>1, <3>2, <4>2 DEF Somewhere
      <4> QED
        BY <4>1, <4>2
    <3>3. CASE InQueue(LogItem(m))
      BY <2>3, <3>3 DEF Somewhere
    <3>4. CASE m \in disk \cup dropped \cup buffer \/ witem = LogItem(m)
      BY <2>1, <3>4 DEF Somewhere
    <3> QED
      BY <2>6, <3>2, <3>3, <3>4 DEF Somewhere
  <2> QED
    BY <2>1, <2>6, StaysSomewhere
<1>2. CASE Dequeue
  <2>1. /\ ~IsEmpty(q) /\ q' = PopFront(q) /\ q \in Queues
        /\ witem = NoItem /\ witem' = FrontItem(q)
        /\ UNCHANGED <<pc, item, logged, buffer, disk, dropped>>
    BY <1>0, <1>2 DEF Dequeue, WorkerAt, CallsInv, WorkerInv, file
  <2>2. /\ Size(q') = Size(q) - 1 /\ FrontItem(q) = At(q, 0) /\ Size(q) \in Nat
        /\ \A i \in 1 .. Size(q') : At(q', i - 1) = At(q, i)
    BY <2>1, PopFrontNext, SizeFacts
  <2>3. ASSUME NEW x, InQueue(x) PROVE witem' = x \/ InQueue(x)'
    <3>1. PICK i \in 1 .. Size(q) : At(q, i - 1) = x
      BY <2>3 DEF InQueue
    <3>2. CASE i = 1
      BY <2>1, <2>2, <3>1, <3>2
    <3>3. CASE i # 1
      <4>1. i - 1 \in 1 .. Size(q')
        BY <2>2, <3>3
      <4>2. At(q', (i - 1) - 1) = x
        BY <2>2, <3>1, <4>1
      <4> QED
        BY <4>1, <4>2 DEF InQueue
    <3> QED
      BY <3>2, <3>3
  <2>4. ASSUME NEW m \in Messages, Somewhere(m) PROVE Somewhere(m)'
    <3>1. witem # LogItem(m)
      BY <2>1, ItemTypes
    <3>2. CASE InQueue(LogItem(m))
      BY <2>3, <3>2, ZenonT(30) DEF Somewhere
    <3>3. CASE ~InQueue(LogItem(m))
      BY <2>1, <2>4, <3>1, <3>3, ZenonT(30) DEF Somewhere, Posting
    <3> QED
      BY <3>2, <3>3
  <2> QED
    BY <2>1, <2>4, StaysSomewhere
<1>3. ASSUME NEW t \in Posters, EnqueueWaits(t) \/ NotifyPoster(t) PROVE KeptInv'
  <2>1. UNCHANGED <<logged, q, witem, file, item>>
    BY <1>3 DEF EnqueueWaits, NotifyPoster
  <2>2. \A u \in Threads : Posting(u) => Posting(u)'
    BY <1>0, <1>3 DEF EnqueueWaits, NotifyPoster, Waiting, Posting, CallsInv
  <2> QED
    BY <2>1, <2>2, CallsKeep
<1>4. ASSUME NEW t \in Posters, PostDone(t) \/ Joined(t) PROVE KeptInv'
  <2>1. UNCHANGED <<logged, q, witem, file>> /\ ~Posting(t)
    BY <1>4 DEF PostDone, Joined, Posting
  <2>2. \A u \in Threads \ {t} : pc'[u] = pc[u] /\ item'[u] = item[u]
    BY <1>0, <1>4 DEF PostDone, Joined, StartPost, CallsInv
  <2> QED
    BY <2>1, <2>2, CallsKeep DEF Posting
<1>5. ASSUME NEW t \in Threads, Log(t) PROVE KeptInv'
  <2>1. /\ UNCHANGED <<q, witem, buffer, disk>> /\ ~Posting(t) /\ t \in Posters
        /\ logged' = [logged EXCEPT ![t] = @ + 1] /\ logged[t] < MaxLogs
        /\ dropped \subseteq dropped'
    BY <1>0, <1>5 DEF Log, Posting
  <2>2. logged[t] \in Nat /\ logged'[t] = logged[t] + 1 /\ MaxLogs \in Nat
        /\ \A u \in Threads \ {t} : logged'[u] = logged[u]
    BY <1>0, <2>1, AsyncLogAssumption DEF CallsInv
  <2>3. \A u \in Threads \ {t} : pc'[u] = pc[u] /\ item'[u] = item[u]
    BY <1>0, <1>5, SMTT(30) DEF Log, StartPost, CallsInv
  <2>4. ASSUME NEW m \in Messages, Somewhere(m) PROVE Somewhere(m)'
    <3>1. m.from \in Threads
      BY SMTT(30) DEF Messages
    <3>2. CASE Posting(m.from) /\ item[m.from] = LogItem(m)
      BY <2>1, <2>3, <3>1, <3>2, ZenonT(30) DEF Somewhere, Posting
    <3>3. CASE m \in disk \cup dropped \cup buffer \/ witem = LogItem(m) \/ InQueue(LogItem(m))
      BY <2>1, <3>3, ZenonT(30) DEF Somewhere, InQueue
    <3> QED
      BY <2>4, <3>2, <3>3 DEF Somewhere
  <2>5. \E m \in Messages : m.from = t /\ m.num = logged[t] + 1 /\ Somewhere(m)'
    <3>1. PICK level \in Levels :
            LET m == [from |-> t, num |-> logged[t] + 1, level |-> level]
            IN  IF PoolExists
                THEN StartPost(t, LogItem(m))
                ELSE dropped' = dropped \cup {m}
      BY <1>5 DEF Log
    <3> DEFINE m == [from |-> t, num |-> logged[t] + 1, level |-> level]
    <3>2. m \in Messages /\ m.from = t /\ m.num = logged[t] + 1
      BY <2>1, <2>2 DEF Messages
    <3>3. StartPost(t, LogItem(m)) \/ m \in dropped'
      BY <3>1
    <3>4. CASE StartPost(t, LogItem(m))
      <4> HIDE DEF m
      <4>1. pc'[t] = "enqueue" /\ item'[t] = LogItem(m)
        BY <1>0, <2>1, <3>4 DEF StartPost, CallsInv
      <4> QED
        BY <3>2, <4>1 DEF Somewhere, Posting
    <3>5. CASE m \in dropped'
      <4> HIDE DEF m
      <4> QED
        BY <3>2, <3>5 DEF Somewhere
    <3> QED
      BY <3>3, <3>4, <3>5, ZenonT(30)
  <2>6. ASSUME NEW u \in Threads, NEW n \in 1 .. logged'[u]
        PROVE  \E m \in Messages : m.from = u /\ m.num = n /\ Somewhere(m)'
    <3>1. CASE u = t /\ n = logged[t] + 1
      BY <2>5, <3>1
    <3>2. CASE ~(u = t /\ n = logged[t] + 1)
      <4>1. n \in 1 .. logged[u]
        BY <2>2, <3>2
      <4> QED
        BY <2>4, <4>1 DEF KeptInv
    <3> QED
      BY <3>1, <3>2
  <2> QED
    BY <2>6 DEF KeptInv
<1>6. CASE SinkIt \/ BackendFlush \/ Terminate
  <2>1. UNCHANGED <<q, pc, item, logged>>
    BY <1>6 DEF SinkIt, BackendFlush, Terminate
  <2>2. \A m \in Messages : m \in disk \cup dropped \cup buffer => m \in (disk \cup dropped \cup buffer)'
    BY <1>6 DEF SinkIt, BackendFlush, Terminate, file
  <2>3. ASSUME NEW m \in Messages, witem = LogItem(m)
        PROVE  m \in (disk \cup dropped \cup buffer)'
    <3>1. witem.type = "log" /\ witem.msg = m /\ witem # NoItem
      BY <2>3, ItemTypes
    <3>2. SinkIt
      BY <1>0, <1>6, <3>1, SMTT(30) DEF BackendFlush, Terminate, WorkerAt, WorkerInv
    <3> QED
      BY <3>1, <3>2 DEF SinkIt
  <2>4. ASSUME NEW m \in Messages, Somewhere(m) PROVE Somewhere(m)'
    BY <2>1, <2>2, <2>3, <2>4 DEF Somewhere, InQueue, Posting
  <2> QED
    BY <2>1, <2>4, StaysSomewhere
<1>7. CASE DequeueWaits \/ NotifyNobody
  BY <1>7, CallsKeep DEF DequeueWaits, NotifyNobody, Posting
<1>8. CASE SpuriousWakeup
  <2>1. UNCHANGED <<logged, q, witem, file, item>>
    BY <1>8 DEF SpuriousWakeup
  <2>2. \A u \in Threads : Posting(u) => Posting(u)'
    BY <1>0, <1>8 DEF SpuriousWakeup, Waiting, Posting, CallsInv
  <2> QED
    BY <2>1, <2>2, CallsKeep
<1>9. CASE FlushAll \/ FlusherReturns
  <2>1. UNCHANGED <<logged, q, witem, file>>
    BY <1>9 DEF FlushAll, FlusherReturns
  <2>2. \A u \in Threads : pc'[u] = pc[u] /\ item'[u] = item[u]
    BY <1>0, <1>9, AsyncLogAssumption DEF FlushAll, FlusherReturns, StartPost, CallsInv
  <2> QED
    BY <2>1, <2>2, CallsKeep DEF Posting
<1>10. CASE ReleaseLog \/ Exit \/ StopFlusher \/ JoinFlusher \/ UNCHANGED vars
  <2>1. UNCHANGED <<logged, q, witem, file, pc, item>>
    BY <1>10 DEF ReleaseLog, Exit, StopFlusher, JoinFlusher, queue, vars
  <2> QED
    BY <2>1, CallsKeep DEF Posting
<1>11. CASE ResetPool
  <2>1. UNCHANGED <<logged, q, witem, file>> /\ ~Posting(Gui)
    BY <1>0, <1>11 DEF ResetPool, StageInv, Posting
  <2>2. \A u \in Threads \ {Gui} : pc'[u] = pc[u] /\ item'[u] = item[u]
    BY <1>0, <1>11 DEF ResetPool, StartPost, CallsInv
  <2> QED
    BY <2>1, <2>2, CallsKeep DEF Posting
<1>12. CASE Unload
  <2>1. UNCHANGED <<q, pc, item, witem, logged>>
    BY <1>12 DEF Unload, queue
  <2>2. ASSUME NEW m \in Messages, Somewhere(m) PROVE Somewhere(m)'
    BY <1>12, <2>1, <2>2 DEF Unload, Somewhere, InQueue, Posting
  <2> QED
    BY <2>1, <2>2, StaysSomewhere
<1> QED
  BY <1>1, <1>2, <1>3, <1>4, <1>5, <1>6, <1>7, <1>8, <1>9, <1>10, <1>11, <1>12
  DEF Next, OtherStep

\* The invariants together, in every run.
LEMMA EndInvariant == Spec => []EndInv
<1>1. Init => EndInv
  BY InitEnd DEF EndInv
<1>2. EndInv /\ [Next]_vars => EndInv'
  BY CallsStep, WorkerStep, StageStep, TerminateStep, Zenon DEF EndInv
<1> QED
  BY <1>1, <1>2, PTL DEF Spec

\* Whatever the threads, the flusher and the end of main() do: when the worker
\* of the pool ends, the queue is empty and no thread is on its way into it.
THEOREM NobodyIsLeftBehind == Spec => []NobodyLeftBehind
<1>1. EndInv => NobodyLeftBehind
  <2> SUFFICES ASSUME EndInv, worker = "dead"
               PROVE  IsEmpty(q) /\ \A t \in Posters : pc[t] \notin {"enqueue", "wait"}
    BY DEF NobodyLeftBehind
  <2>1. Size(q) = 0 /\ \A t \in Posters : ~Posting(t)
    BY DEF EndInv, TerminateInv
  <2> QED
    BY <2>1, SizeFacts DEF EndInv, CallsInv, Posting
<1> QED
  BY EndInvariant, <1>1, PTL

\* With a queue that blocks, every message of a program that ends while no
\* other thread is logging is in the file or was counted as an error, for any
\* number of threads and messages and any size of the queue.
THEOREM ExitKeepsEveryMessage ==
  ASSUME OverflowPolicy = "block"
  PROVE  Spec => []ExitKeepsMessages
<1>1. Init => KeptInv
  BY InitEnd
<1>2. EndInv /\ KeptInv /\ [Next]_vars => KeptInv'
  BY KeptStep
<1>3. EndInv /\ KeptInv => ExitKeepsMessages
  <2> SUFFICES ASSUME EndInv, KeptInv, stage = "exited",
                      \A t \in Threads \ {Gui} : pc[t] = "idle",
                      NEW t \in Threads, NEW n \in 1 .. logged[t]
               PROVE  Posted(t, n)
    BY DEF ExitKeepsMessages
  <2>1. ~tp /\ buffer = {} /\ \A u \in Posters : pc[u] \in {"idle", "out"}
    BY DEF EndInv, StageInv, Posters
  <2>2. ~PoolExists /\ \A u \in Posters : ~Destroys(u) /\ ~Posting(u)
    BY <2>1 DEF PoolExists, Holds, Destroys, Posting, InCall
  <2>3. worker = "dead" /\ Size(q) = 0 /\ witem = NoItem
    BY <2>2 DEF EndInv, TerminateInv, WorkerInv
  <2>4. PICK m \in Messages : m.from = t /\ m.num = n /\ Somewhere(m)
    BY DEF KeptInv
  <2>5. ~InQueue(LogItem(m)) /\ witem # LogItem(m)
    BY <2>3, ItemTypes, SMTT(30) DEF InQueue
  <2>6. m \in disk \cup dropped
    BY <2>1, <2>2, <2>4, <2>5 DEF Somewhere, Posters
  <2> QED
    BY <2>4, <2>6 DEF Posted
<1> QED
  BY EndInvariant, <1>1, <1>2, <1>3, PTL DEF Spec
=============================================================================
