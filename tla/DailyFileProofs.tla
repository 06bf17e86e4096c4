-------------------------- MODULE DailyFileProofs --------------------------
(***************************************************************************)
(* For any length of the day, any rotation time and any number of files    *)
(* kept: the sink writes only to an open file, its files hold the messages *)
(* in their order, and with rotation at midnight each in that of its day.  *)
(***************************************************************************)
EXTENDS DailyFile, FiniteSetTheorems, TLAPS

-----------------------------------------------------------------------------
(* What the operations of a circular_q do to its items, for any size.      *)

\* An index that went at most once past the end of the ring.
LEMMA RingIndex ==
  ASSUME NEW m \in Nat \ {0}, NEW x \in 0 .. 2 * m - 1
  PROVE  x % m = IF x < m THEN x ELSE x - m
<1>1. CASE x < m
  BY <1>1
<1>2. CASE x >= m
  <2> DEFINE y == x - m
  <2>1. y \in 0 .. m - 1 /\ x = y + m
    BY <1>2
  <2>2. (y + m) % m = y
    BY <2>1
  <2> QED
    BY <1>2, <2>1, <2>2
<1> QED
  BY <1>1, <1>2

\* The slot after slot x.
LEMMA NextSlot ==
  ASSUME NEW n \in Nat, NEW x \in 0 .. n
  PROVE  (x + 1) % (n + 1) = IF x = n THEN 0 ELSE x + 1
<1> DEFINE m == n + 1
           y == x + 1
<1>1. m \in Nat \ {0} /\ y \in 0 .. 2 * m - 1
  OBVIOUS
<1>2. m = n + 1 /\ y = x + 1
  OBVIOUS
<1> HIDE DEF m, y
<1>3. y % m = IF y < m THEN y ELSE y - m
  BY <1>1, RingIndex, Zenon
<1> QED
  BY <1>2, <1>3

\* What the size of a queue is, and when it is full.
LEMMA QSize ==
  ASSUME NEW n \in Nat \ {0}, NEW S, NEW r \in Queue(n, S)
  PROVE  /\ Size(r) \in 0 .. n
         /\ IsFull(r) <=> Size(r) = n
         /\ IsEmpty(r) <=> Size(r) = 0
<1>1. (r.tail + 1) % (n + 1) = IF r.tail = n THEN 0 ELSE r.tail + 1
  BY NextSlot DEF Queue
<1>2. /\ n \in Nat \ {0} /\ r.max = n + 1
      /\ r.head \in 0 .. n /\ r.tail \in 0 .. n
  BY DEF Queue
<1>3. Size(r) = IF r.tail >= r.head THEN r.tail - r.head
                ELSE n + 1 - (r.head - r.tail)
  BY <1>2 DEF Size
<1>4. IsFull(r) <=> r.head = IF r.tail = n THEN 0 ELSE r.tail + 1
  BY <1>1, <1>2 DEF IsFull
<1>5. Size(r) \in 0 .. n /\ (IsEmpty(r) <=> Size(r) = 0)
  BY <1>2, <1>3 DEF IsEmpty
<1>6. IsFull(r) <=> Size(r) = n
  BY <1>2, <1>3, <1>4
<1> QED
  BY <1>5, <1>6

\* The slot of item i of a queue, without arithmetic modulo its length.
LEMMA QSlot ==
  ASSUME NEW n \in Nat \ {0}, NEW S, NEW r \in Queue(n, S), NEW i \in 0 .. n
  PROVE  At(r, i) = r.v[IF r.head + i <= n THEN r.head + i
                        ELSE r.head + i - (n + 1)]
<1> DEFINE m == n + 1
           y == r.head + i
<1>1. m \in Nat \ {0} /\ y \in 0 .. 2 * m - 1
  BY DEF Queue
<1>2. m = n + 1 /\ y = r.head + i /\ r.max = m
  BY DEF Queue
<1> HIDE DEF m, y
<1>3. y % m = IF y < m THEN y ELSE y - m
  BY <1>1, RingIndex, Zenon
<1>4. y % m = IF y <= n THEN y ELSE y - m
  BY <1>1, <1>2, <1>3
<1>5. At(r, i) = r.v[y % m]
  BY <1>2 DEF At
<1>6. CASE y <= n
  BY <1>2, <1>4, <1>5, <1>6
<1>7. CASE ~(y <= n)
  <2>1. y - m = r.head + i - (n + 1) /\ ~(r.head + i <= n)
    BY <1>2, <1>7 DEF Queue
  <2> QED
    BY <1>4, <1>5, <1>7, <2>1
<1> QED
  BY <1>6, <1>7

\* push_back on a queue that has room: the item comes last, the rest stays.
LEMMA QPushRoom ==
  ASSUME NEW n \in Nat \ {0}, NEW S, NEW r \in Queue(n, S), NEW x \in S, ~IsFull(r),
         NEW s, s = PushBack(r, x)
  PROVE  /\ s \in Queue(n, S)
         /\ Size(s) = Size(r) + 1
         /\ s.overrun = r.overrun
         /\ \A i \in 1 .. Size(r) : At(s, i - 1) = At(r, i - 1)
         /\ At(s, Size(r)) = x
<1> DEFINE tail == IF r.tail = n THEN 0 ELSE r.tail + 1
<1>0. (r.tail + 1) % (n + 1) = tail
  BY NextSlot DEF Queue
<1>1. tail # r.head /\ tail \in 0 .. n
  BY <1>0 DEF IsFull, Queue
<1>2. s = [max |-> n + 1, head |-> r.head, tail |-> tail,
           overrun |-> r.overrun, v |-> [r.v EXCEPT ![r.tail] = x]]
  BY <1>0, <1>1 DEF PushBack, Queue
<1>3. s \in Queue(n, S) /\ s.tail = tail /\ s.head = r.head /\ s.overrun = r.overrun
  BY <1>1, <1>2 DEF Queue
<1>4. s.v = [r.v EXCEPT ![r.tail] = x]
  BY <1>2 DEF Queue
<1>5. Size(s) = Size(r) + 1
  <2>1. s.max = n + 1 /\ r.max = n + 1
    BY <1>3 DEF Queue
  <2>2. r.head \in 0 .. n /\ r.tail \in 0 .. n
    BY DEF Queue
  <2> QED
    BY <1>1, <1>3, <2>1, <2>2 DEF Size
<1>6. ASSUME NEW i \in 1 .. Size(r) PROVE At(s, i - 1) = At(r, i - 1)
  <2> DEFINE k == IF r.head + (i - 1) <= n THEN r.head + (i - 1)
                  ELSE r.head + (i - 1) - (n + 1)
  <2>1. i - 1 \in 0 .. n
    BY QSize
  <2>2. At(s, i - 1) = s.v[k] /\ At(r, i - 1) = r.v[k]
    BY <2>1, <1>3, QSlot
  <2>3. k \in 0 .. n /\ k # r.tail
    BY <2>1 DEF Size, Queue
  <2> QED
    BY <2>2, <2>3, <1>4 DEF Queue
<1>7. At(s, Size(r)) = x
  <2> DEFINE k == IF r.head + Size(r) <= n THEN r.head + Size(r)
                  ELSE r.head + Size(r) - (n + 1)
  <2>1. Size(r) \in 0 .. n
    BY QSize
  <2>2. At(s, Size(r)) = s.v[k]
    BY <2>1, <1>3, QSlot
  <2>3. k = r.tail
    BY DEF Size, Queue
  <2> QED
    BY <2>2, <2>3, <1>4, Zenon DEF Queue
<1> QED
  BY <1>3, <1>5, <1>6, <1>7

\* front() is the first item.
LEMMA FrontIsFirst ==
  ASSUME NEW n \in Nat \ {0}, NEW S, NEW r \in Queue(n, S)
  PROVE  FrontItem(r) = At(r, 0)
<1>1. 0 \in 0 .. n /\ r.head + 0 <= n /\ r.head + 0 = r.head
  BY DEF Queue
<1> QED
  BY <1>1, QSlot DEF FrontItem

\* pop_front takes the oldest item.
LEMMA QPopFront ==
  ASSUME NEW n \in Nat \ {0}, NEW S, NEW r \in Queue(n, S), ~IsEmpty(r), NEW s, s = PopFront(r)
  PROVE  /\ s \in Queue(n, S)
         /\ Size(s) = Size(r) - 1
         /\ s.overrun = r.overrun
         /\ FrontItem(r) = At(r, 0)
         /\ \A i \in 1 .. Size(s) : At(s, i - 1) = At(r, i)
<1> DEFINE head == IF r.head = n THEN 0 ELSE r.head + 1
<1>0. (r.head + 1) % (n + 1) = head
  BY NextSlot DEF Queue
<1>1. head \in 0 .. n /\ r.head # r.tail
  BY DEF IsEmpty, Queue
<1>2. s = [max |-> n + 1, head |-> head, tail |-> r.tail,
           overrun |-> r.overrun, v |-> [r.v EXCEPT ![r.head] = NoItem]]
  BY <1>0 DEF PopFront, Queue
<1>3. s \in Queue(n, S) /\ s.head = head /\ s.tail = r.tail /\ s.overrun = r.overrun
  BY <1>1, <1>2 DEF Queue
<1>4. s.v = [r.v EXCEPT ![r.head] = NoItem]
  BY <1>2 DEF Queue
<1>5. Size(s) = Size(r) - 1
  BY <1>1, <1>3 DEF Size, Queue
<1>6. FrontItem(r) = At(r, 0)
  BY FrontIsFirst
<1>7. ASSUME NEW i \in 1 .. Size(s) PROVE At(s, i - 1) = At(r, i)
  <2> DEFINE k == IF r.head + i <= n THEN r.head + i
                  ELSE r.head + i - (n + 1)
  <2>1. i \in 1 .. n /\ i < Size(r)
    BY <1>5, QSize
  <2>2. At(r, i) = r.v[k]
    BY <2>1, QSlot
  <2>3. At(s, i - 1) = s.v[k]
    <3> DEFINE j == i - 1
               l == IF s.head + j <= n THEN s.head + j
                    ELSE s.head + j - (n + 1)
    <3>1. j \in 0 .. n /\ l = k
      BY <2>1, <1>3 DEF Queue
    <3>2. At(s, j) = s.v[l]
      BY <3>1, <1>3, QSlot
    <3> QED
      BY <3>1, <3>2
  <2>4. k \in 0 .. n /\ k # r.head
    BY <2>1 DEF Queue
  <2> QED
    BY <2>2, <2>3, <2>4, <1>4 DEF Queue
<1> QED
  BY <1>3, <1>5, <1>6, <1>7

-----------------------------------------------------------------------------
(* Numbers.                                                                *)

\* A product grows with its first factor.
LEMMA TimesMonotone ==
  ASSUME NEW a \in Int, NEW b \in Int, NEW c \in Nat, a <= b
  PROVE  a * c <= b * c
OBVIOUS

\* One more day is one DayLen more.
LEMMA TimesNext ==
  ASSUME NEW a \in Nat, NEW b \in Nat
  PROVE  a * b \in Nat /\ (a + 1) * b = a * b + b
BY SMTT(30)

\* A time lies in its day.
LEMMA DayBounds ==
  ASSUME NEW t \in Nat
  PROVE  /\ Day(t) \in Nat
         /\ Day(t) * DayLen <= t /\ t < (Day(t) + 1) * DayLen
BY DailyFileAssumption DEF Day

\* A time before the end of a day is not in a later one.
LEMMA DayBefore ==
  ASSUME NEW t \in Nat, NEW d \in Int, t < (d + 1) * DayLen
  PROVE  Day(t) <= d
<1>1. Day(t) \in Nat /\ Day(t) * DayLen <= t /\ DayLen \in Nat \ {0}
  BY DayBounds, DailyFileAssumption
<1>2. ASSUME d + 1 <= Day(t) PROVE FALSE
  <2>1. (d + 1) * DayLen <= Day(t) * DayLen
    BY <1>1, <1>2, TimesMonotone
  <2>2. (d + 1) * DayLen \in Int /\ Day(t) * DayLen \in Int
    BY <1>1
  <2> QED
    BY <1>1, <2>1, <2>2
<1> QED
  BY <1>1, <1>2

\* A later time is not in an earlier day.
LEMMA DayMonotone ==
  ASSUME NEW t \in Nat, NEW u \in Nat, t <= u
  PROVE  Day(t) <= Day(u)
<1>1. Day(u) \in Nat /\ u < (Day(u) + 1) * DayLen /\ (Day(u) + 1) * DayLen \in Int
  BY DayBounds, DailyFileAssumption
<1>2. t < (Day(u) + 1) * DayLen
  BY <1>1
<1> QED
  BY <1>1, <1>2, DayBefore

\* Each time of the clock lies in one of the days.
LEMMA DayInDays ==
  ASSUME NEW t \in 0 .. MaxTime
  PROVE  Day(t) \in Days /\ Day(t) \in Nat
<1>1. MaxTime \in Nat /\ t \in Nat /\ t <= MaxTime
  BY DailyFileAssumption
<1>2. Day(t) \in Nat /\ Day(MaxTime) \in Nat /\ Day(t) <= Day(MaxTime)
  BY <1>1, DayBounds, DayMonotone
<1> QED
  BY <1>2 DEF Days

\* next_rotation_tp_: for midnight, the end of the day of the clock.
LEMMA NextRotationType ==
  ASSUME TypeInv
  PROVE  /\ NextRotation \in Nat
         /\ RotationTick = 0 => NextRotation = (Day(now) + 1) * DayLen
<1>1. /\ now \in Nat /\ Day(now) \in Nat /\ DayLen \in Nat \ {0} /\ RotationTick \in Nat
      /\ Day(now) * DayLen <= now
  <2>1. now \in Nat
    BY DailyFileAssumption, SMTT(30) DEF TypeInv
  <2> QED
    BY <2>1, DayBounds, DailyFileAssumption
<1>2. Day(now) * DayLen \in Nat /\ (Day(now) + 1) * DayLen = Day(now) * DayLen + DayLen
  BY <1>1, TimesNext, SMTT(30)
<1> DEFINE midnight == Day(now) * DayLen
<1>3. NextRotation = IF midnight + RotationTick > now THEN midnight + RotationTick
                     ELSE midnight + RotationTick + DayLen
  BY DEF NextRotation
<1>4. midnight \in Nat /\ midnight <= now
  BY <1>1, <1>2
<1> HIDE DEF midnight
<1>5. NextRotation \in Nat /\ (RotationTick = 0 => NextRotation = midnight + DayLen)
  BY <1>1, <1>3, <1>4
<1> QED
  BY <1>2, <1>5 DEF midnight

\* The messages left when the first one is done with.
LEMMA TailFacts ==
  ASSUME NEW s \in Seq(Messages), s # <<>>
  PROVE  /\ Len(s) \in Nat \ {0} /\ Head(s) = s[1] /\ Head(s) \in Messages
         /\ Tail(s) \in Seq(Messages) /\ Len(Tail(s)) = Len(s) - 1
         /\ \A i \in 1 .. Len(s) - 1 : Tail(s)[i] = s[i + 1]
OBVIOUS

\* What a message at the end of the queue leaves as it was.
LEMMA AppendFacts ==
  ASSUME NEW s \in Seq(Messages), NEW x \in Messages, NEW u, u = Append(s, x)
  PROVE  /\ u \in Seq(Messages) /\ Len(u) = Len(s) + 1 /\ u # <<>>
         /\ \A i \in 1 .. Len(s) : u[i] = s[i]
         /\ u[Len(s) + 1] = x
<1>1. u \in Seq(Messages) /\ Len(u) = Len(s) + 1 /\ Len(s) \in Nat
  OBVIOUS
<1> QED
  BY <1>1

\* What a step of the sink may do to the files: nothing, give one up, or add
\* the message at hand to the one that is open.
Adds == content' = [content EXCEPT ![fd] = @ \cup {Head(pending)}]

Shrinks == \A d \in Days : content'[d] \subseteq content[d]

\* A write changes the open file and no other.
LEMMA AddsFacts ==
  ASSUME TypeInv, Adds, pending # <<>>, fd # Closed
  PROVE  /\ fd \in Days /\ Head(pending) \in Messages
         /\ content' \in [Days -> SUBSET Messages]
         /\ \A d \in Days \ {fd} : content'[d] = content[d]
         /\ content'[fd] = content[fd] \cup {Head(pending)}
<1>1. fd \in Days /\ Head(pending) \in Messages
  BY TailFacts DEF TypeInv
<1> QED
  BY <1>1 DEF TypeInv, Adds

\* delete_old_ puts nothing into a file.
LEMMA DeleteShrinks ==
  ASSUME TypeInv, DeleteOld
  PROVE  Shrinks /\ content' \in [Days -> SUBSET Messages]
BY DEF TypeInv, DeleteOld, Shrinks, disk

\* The types at the start.
LEMMA TypeInit == Init => TypeInv
<1> SUFFICES ASSUME Init PROVE TypeInv
  OBVIOUS
<1>1. <<>> \in Seq(Messages) /\ content \in [Days -> SUBSET Messages]
  BY DEF Init
<1>2. max_files \in Nat /\ now \in 0 .. MaxTime /\ num \in 0 .. MaxMsgs
  BY DailyFileAssumption DEF Init
<1> QED
  BY <1>1, <1>2, ZenonT(30) DEF Init, TypeInv

\* Every step keeps the types.
LEMMA TypeStep == TypeInv /\ OrderInv /\ OpenInv /\ [Next]_vars => TypeInv'
<1> SUFFICES ASSUME TypeInv, OrderInv, OpenInv, [Next]_vars PROVE TypeInv'
  OBVIOUS
<1>1. NextRotation \in Nat
  BY NextRotationType
<1>2. Day(now) \in Days
  BY DayInDays DEF TypeInv
<1>3. pending # <<>> => Tail(pending) \in Seq(Messages) /\ FileName \in Days
  <2> SUFFICES ASSUME pending # <<>> PROVE Tail(pending) \in Seq(Messages) /\ FileName \in Days
    OBVIOUS
  <2>1. Tail(pending) \in Seq(Messages) /\ Head(pending) \in Messages
    BY TailFacts DEF TypeInv
  <2> QED
    BY <2>1, DayInDays DEF FileName, Messages
<1>4. CASE Tick
  BY <1>4, DailyFileAssumption DEF Tick, TypeInv, sink, disk
<1>5. CASE Log
  <2> DEFINE m == [num |-> num + 1, time |-> now]
  <2>1. m \in Messages /\ num + 1 \in 0 .. MaxMsgs
    BY <1>5, DailyFileAssumption DEF Log, TypeInv, Messages
  <2>2. pending' \in Seq(Messages)
    BY <1>5, <2>1, AppendFacts DEF Log, TypeInv
  <2> QED
    BY <1>5, <2>1, <2>2 DEF Log, TypeInv, sink, disk
<1>6. CASE Stop
  BY <1>6 DEF Stop, TypeInv, disk
<1>7. CASE Construct
  BY <1>2, <1>7 DEF Construct, Open, OpenFails, TypeInv, disk
<1>8. CASE SetRotation \/ InitFilenamesQ
  BY <1>1, <1>8, SMTT(30) DEF SetRotation, InitFilenamesQ, TypeInv, disk
<1>9. CASE SinkIt
  BY <1>3, <1>9, SMTT(30) DEF SinkIt, Open, OpenFails, GiveUp, TypeInv, disk
<1>10. CASE Write \/ Rotate
  <2>1. pending # <<>> /\ fd # Closed
    BY <1>10 DEF Write, Rotate, OrderInv, OpenInv
  <2>2. content' \in [Days -> SUBSET Messages]
    BY <1>10, <2>1, AddsFacts DEF Write, Rotate, Adds, TypeInv
  <2> QED
    BY <1>1, <1>3, <1>10, <2>1, <2>2, Zenon DEF Write, Rotate, GiveUp, TypeInv, sink
<1>11. CASE DeleteOld
  BY <1>3, <1>11, DeleteShrinks DEF DeleteOld, GiveUp, OrderInv, TypeInv
<1>12. CASE UNCHANGED vars
  BY <1>12 DEF vars, sink, disk, TypeInv
<1> QED
  BY <1>4, <1>5, <1>6, <1>7, <1>8, <1>9, <1>10, <1>11, <1>12 DEF Next

\* What the types say of a message.
LEMMA MessageTypes ==
  ASSUME TypeInv
  PROVE  /\ now \in Nat /\ num \in Nat /\ Len(pending) \in Nat
         /\ \A m \in Messages : m.num \in Nat /\ m.time \in Nat /\ Day(m.time) \in Nat
         /\ \A i \in 1 .. Len(pending) : pending[i] \in Messages
         /\ \A d \in Days : \A m \in content[d] : m \in Messages
<1>1. \A m \in Messages : m.num \in Nat /\ m.time \in Nat
  BY DailyFileAssumption DEF Messages
<1>2. \A m \in Messages : Day(m.time) \in Nat
  BY <1>1, DayBounds
<1>3. now \in Nat /\ num \in Nat
  BY DailyFileAssumption DEF TypeInv
<1> QED
  BY <1>1, <1>2, <1>3 DEF TypeInv

-----------------------------------------------------------------------------
(* The order of the messages.                                              *)

\* A step that moves no message.
LEMMA OrderSame ==
  ASSUME OrderInv, UNCHANGED <<content, num, now, pending>>,
         pc # "delete", pc' # "delete",
         pc' \in {"down", "ctor", "initq"} => pending = <<>>,
         pc' \in {"write", "rotate"} => pending # <<>>
  PROVE  OrderInv'
BY DEF OrderInv, FirstUnwritten

\* The message at hand is done with, written or not.
LEMMA OrderAfterGiveUp ==
  ASSUME TypeInv, OrderInv, pending # <<>>, GiveUp, UNCHANGED <<num, now>>,
         \A d \in Days : \A m \in content'[d] :
           m \in content[d] \/ (m = Head(pending) /\ d <= Day(m.time))
  PROVE  OrderInv'
<1>1. /\ Len(pending) \in Nat \ {0} /\ Head(pending) = pending[1]
      /\ pending' = Tail(pending) /\ Len(pending') = Len(pending) - 1
      /\ \A i \in 1 .. Len(pending) - 1 : pending'[i] = pending[i + 1]
  BY TailFacts DEF GiveUp, TypeInv
<1>2. pc' = "idle" /\ FirstUnwritten' = 1 /\ FirstUnwritten \in {1, 2}
  BY DEF GiveUp, FirstUnwritten
<1>3. ASSUME NEW i \in 1 .. Len(pending')
      PROVE  i + 1 \in 2 .. Len(pending) /\ pending'[i] = pending[i + 1]
  BY <1>1
<1>4. \A i \in 1 .. Len(pending') : pending'[i].num <= num' /\ pending'[i].time <= now'
  BY <1>1, <1>3 DEF OrderInv
<1>5. ASSUME NEW i \in 1 .. Len(pending'), NEW j \in 1 .. Len(pending'), i < j
      PROVE  pending'[i].num < pending'[j].num /\ pending'[i].time <= pending'[j].time
  <2>1. i + 1 \in 1 .. Len(pending) /\ j + 1 \in 1 .. Len(pending) /\ i + 1 < j + 1
    BY <1>1, <1>5
  <2> QED
    BY <1>3, <2>1, SMTT(30) DEF OrderInv
<1>6. ASSUME NEW d \in Days, NEW m \in content'[d]
      PROVE  /\ m.num <= num' /\ m.time <= now' /\ d <= Day(m.time)
             /\ \A i \in 1 .. Len(pending') :
                  m.num < pending'[i].num /\ m.time <= pending'[i].time
  <2>1. CASE m \in content[d]
    <3>1. ASSUME NEW i \in 1 .. Len(pending')
          PROVE  m.num < pending'[i].num /\ m.time <= pending'[i].time
      <4>1. i + 1 \in FirstUnwritten .. Len(pending)
        BY <1>1, <1>2
      <4> QED
        BY <1>3, <2>1, <4>1 DEF OrderInv
    <3> QED
      BY <2>1, <3>1 DEF OrderInv
  <2>2. CASE m = pending[1] /\ d <= Day(m.time)
    <3>1. 1 \in 1 .. Len(pending)
      BY <1>1
    <3>2. ASSUME NEW i \in 1 .. Len(pending')
          PROVE  m.num < pending'[i].num /\ m.time <= pending'[i].time
      <4>1. i + 1 \in 1 .. Len(pending) /\ 1 < i + 1
        BY <1>1
      <4> QED
        BY <1>3, <2>2, <3>1, <4>1 DEF OrderInv
    <3> QED
      BY <2>2, <3>1, <3>2 DEF OrderInv
  <2> QED
    BY <1>1, <2>1, <2>2
<1> QED
  BY <1>2, <1>4, <1>5, <1>6 DEF OrderInv

\* What is written goes into a file that is not newer than the message.
LEMMA AddsOld ==
  ASSUME TypeInv, OrderInv, OpenInv, Adds, pc \in {"write", "rotate"}
  PROVE  /\ pending # <<>> /\ fd # Closed
         /\ \A d \in Days : \A m \in content'[d] :
              m \in content[d] \/ (m = Head(pending) /\ d = fd /\ d <= Day(m.time))
<1>1. pending # <<>> /\ fd # Closed
  BY DEF OrderInv, OpenInv
<1>2. Head(pending) = pending[1] /\ 1 \in 1 .. Len(pending)
  BY <1>1, TailFacts DEF TypeInv
<1>3. fd <= Day(Head(pending).time)
  BY <1>2 DEF OpenInv
<1> QED
  BY <1>1, <1>3, AddsFacts

\* Every step keeps the messages and the files in order.
LEMMA OrderStep == TypeInv /\ OrderInv /\ OpenInv /\ [Next]_vars => OrderInv'
<1> SUFFICES ASSUME TypeInv, OrderInv, OpenInv, [Next]_vars PROVE OrderInv'
  OBVIOUS
<1>0. /\ now \in Nat /\ num \in Nat /\ Len(pending) \in Nat
      /\ \A m \in Messages : m.num \in Nat /\ m.time \in Nat
      /\ \A i \in 1 .. Len(pending) : pending[i] \in Messages
      /\ \A d \in Days : \A m \in content[d] : m \in Messages
  BY MessageTypes
<1>1. CASE Tick
  <2>1. now' = now + 1 /\ UNCHANGED <<pc, pending, content, num>>
    BY <1>1 DEF Tick, disk
  <2> QED
    BY <1>0, <2>1 DEF OrderInv, FirstUnwritten
<1>2. CASE Log
  <2> DEFINE x == [num |-> num + 1, time |-> now]
             n == Len(pending)
  <2>1. /\ pc \notin {"down", "ctor", "initq"} /\ num' = num + 1
        /\ pending' = Append(pending, x) /\ UNCHANGED <<now, pc, content>>
    BY <1>2 DEF Log, disk
  <2>2. x \in Messages /\ x.num = num + 1 /\ x.time = now
    BY <1>2, DailyFileAssumption DEF Log, TypeInv, Messages
  <2> HIDE DEF x
  <2>3. /\ Len(pending') = n + 1 /\ pending' # <<>> /\ pending'[n + 1] = x
        /\ \A i \in 1 .. n : pending'[i] = pending[i]
    BY <2>1, <2>2, AppendFacts DEF TypeInv
  <2>4. \A i \in 1 .. n + 1 : i \in 1 .. n \/ i = n + 1
    BY <1>0
  <2>5. \A i \in 1 .. n : pending[i].num <= num /\ pending[i].time <= now
    BY DEF OrderInv
  <2>6. \A i \in 1 .. n + 1 : pending'[i].num <= num' /\ pending'[i].time <= now'
    BY <1>0, <2>1, <2>2, <2>3, <2>4, <2>5
  <2>7. ASSUME NEW i \in 1 .. n + 1, NEW j \in 1 .. n + 1, i < j
        PROVE  pending'[i].num < pending'[j].num /\ pending'[i].time <= pending'[j].time
    <3>1. i \in 1 .. n
      BY <1>0, <2>7
    <3>2. CASE j = n + 1
      BY <1>0, <2>2, <2>3, <2>5, <3>1, <3>2
    <3>3. CASE j \in 1 .. n
      BY <2>3, <2>7, <3>1, <3>3 DEF OrderInv
    <3> QED
      BY <2>4, <3>2, <3>3
  <2>8. ASSUME NEW d \in Days, NEW m \in content[d]
        PROVE  /\ m.num <= num' /\ m.time <= now' /\ d <= Day(m.time)
               /\ \A i \in FirstUnwritten' .. n + 1 :
                    m.num < pending'[i].num /\ m.time <= pending'[i].time
    <3>1. m.num <= num /\ m.time <= now /\ d <= Day(m.time) /\ m.num \in Nat
      BY <1>0, <2>8 DEF OrderInv
    <3>2. ASSUME NEW i \in FirstUnwritten' .. n + 1
          PROVE  m.num < pending'[i].num /\ m.time <= pending'[i].time
      <4>1. CASE i = n + 1
        BY <1>0, <2>2, <2>3, <3>1, <4>1
      <4>2. CASE i # n + 1
        <5>1. i \in FirstUnwritten .. n /\ i \in 1 .. n
          BY <1>0, <2>1, <4>2 DEF FirstUnwritten
        <5> QED
          BY <2>3, <5>1 DEF OrderInv
      <4> QED
        BY <4>1, <4>2
    <3>3. m.num <= num' /\ m.time <= now'
      BY <1>0, <2>1, <3>1
    <3> QED
      BY <3>1, <3>2, <3>3
  <2> QED
    BY <2>1, <2>3, <2>6, <2>7, <2>8, Zenon DEF OrderInv
<1>3. CASE Stop
  <2>1. pc' = "down" /\ pending' = <<>> /\ UNCHANGED <<now, num, content>>
    BY <1>3 DEF Stop, disk
  <2>2. Len(pending') = 0 /\ FirstUnwritten' = 1
    BY <2>1 DEF FirstUnwritten
  <2> QED
    BY <2>1, <2>2 DEF OrderInv
<1>4. CASE Construct \/ SetRotation \/ InitFilenamesQ
  <2>1. /\ pc \in {"down", "ctor", "initq"} /\ pc' \notin {"delete", "write", "rotate"}
        /\ UNCHANGED <<content, num, now, pending>>
    BY <1>4 DEF Construct, SetRotation, InitFilenamesQ, Open, OpenFails, disk
  <2>2. pending = <<>>
    BY <2>1 DEF OrderInv
  <2> QED
    BY <2>1, <2>2, OrderSame
<1>5. CASE SinkIt
  <2>1. pc = "idle" /\ pending # <<>> /\ UNCHANGED <<content, num, now>>
    BY <1>5 DEF SinkIt, Open, OpenFails, disk
  <2>2. CASE GiveUp
    BY <2>1, <2>2, OrderAfterGiveUp
  <2>3. CASE ~GiveUp
    <3>1. UNCHANGED pending /\ pc' \in {"rotate", "write"}
      BY <1>5, <2>3 DEF SinkIt
    <3> QED
      BY <2>1, <3>1, OrderSame
  <2> QED
    BY <2>2, <2>3
<1>6. CASE Write
  <2>1. pc = "write" /\ pending # <<>> /\ GiveUp /\ UNCHANGED <<num, now>>
    BY <1>6 DEF Write, OrderInv
  <2>2. CASE Adds
    BY <2>1, <2>2, AddsOld, OrderAfterGiveUp
  <2>3. CASE UNCHANGED content
    BY <2>1, <2>3, OrderAfterGiveUp
  <2> QED
    BY <1>6, <2>2, <2>3 DEF Write, Adds
<1>7. CASE Rotate
  <2>1. pc = "rotate" /\ pending # <<>> /\ UNCHANGED <<num, now>>
    BY <1>7 DEF Rotate, OrderInv
  <2>2. CASE GiveUp /\ Adds
    BY <2>1, <2>2, AddsOld, OrderAfterGiveUp
  <2>3. CASE GiveUp /\ UNCHANGED content
    BY <2>1, <2>3, OrderAfterGiveUp
  <2>4. CASE pc' = "delete" /\ UNCHANGED pending /\ Adds
    <3>1. \A d \in Days : \A m \in content'[d] :
            m \in content[d] \/ (m = Head(pending) /\ d <= Day(m.time))
      BY <2>1, <2>4, AddsOld
    <3>2. Head(pending) = pending[1] /\ 1 \in 1 .. Len(pending)
      BY <2>1, TailFacts DEF TypeInv
    <3>3. FirstUnwritten = 1 /\ FirstUnwritten' = 2
      BY <2>1, <2>4 DEF FirstUnwritten
    <3>4. ASSUME NEW d \in Days, NEW m \in content'[d]
          PROVE  /\ m.num <= num /\ m.time <= now /\ d <= Day(m.time)
                 /\ \A i \in 2 .. Len(pending) :
                      m.num < pending[i].num /\ m.time <= pending[i].time
      <4>1. CASE m \in content[d]
        <5>1. \A i \in 2 .. Len(pending) : i \in FirstUnwritten .. Len(pending)
          BY <1>0, <3>3
        <5> QED
          BY <4>1, <5>1 DEF OrderInv
      <4>2. CASE m = pending[1] /\ d <= Day(m.time)
        <5>1. \A i \in 2 .. Len(pending) : i \in 1 .. Len(pending) /\ 1 < i
          BY <1>0
        <5> QED
          BY <3>2, <4>2, <5>1 DEF OrderInv
      <4> QED
        BY <3>1, <3>2, <4>1, <4>2
    <3> QED
      BY <2>1, <2>4, <3>3, <3>4 DEF OrderInv
  <2> QED
    BY <1>7, <2>2, <2>3, <2>4 DEF Rotate, Adds
<1>8. CASE DeleteOld
  <2>1. pending # <<>> /\ GiveUp /\ UNCHANGED <<num, now>>
    BY <1>8 DEF DeleteOld, OrderInv
  <2>2. \A d \in Days : \A m \in content'[d] : m \in content[d]
    BY <1>8, DeleteShrinks DEF Shrinks
  <2> QED
    BY <2>1, <2>2, OrderAfterGiveUp
<1>9. CASE UNCHANGED vars
  BY <1>9 DEF vars, disk, OrderInv, FirstUnwritten
<1> QED
  BY <1>1, <1>2, <1>3, <1>4, <1>5, <1>6, <1>7, <1>8, <1>9 DEF Next

-----------------------------------------------------------------------------
(* The open file.                                                          *)

\* The first message comes before the others.
LEMMA HeadFirst ==
  ASSUME TypeInv, OrderInv, pending # <<>>
  PROVE  /\ Head(pending) = pending[1] /\ 1 \in 1 .. Len(pending)
         /\ Head(pending) \in Messages
         /\ Head(pending).time <= now
         /\ \A i \in 1 .. Len(pending) : Head(pending).time <= pending[i].time
<1>1. Head(pending) = pending[1] /\ 1 \in 1 .. Len(pending) /\ Head(pending) \in Messages
  BY TailFacts DEF TypeInv
<1>2. pending[1].time \in Nat
  BY <1>1, MessageTypes
<1>3. ASSUME NEW i \in 1 .. Len(pending) PROVE pending[1].time <= pending[i].time
  <2>1. CASE i = 1
    BY <1>2, <2>1
  <2>2. CASE i # 1
    BY <1>1, <2>2 DEF OrderInv
  <2> QED
    BY <2>1, <2>2
<1> QED
  BY <1>1, <1>3 DEF OrderInv

\* The messages left when the first is done with were there before.
LEMMA GiveUpLeaves ==
  ASSUME TypeInv, pending # <<>>, GiveUp
  PROVE  \A i \in 1 .. Len(pending') :
           \E j \in 1 .. Len(pending) : pending'[i] = pending[j] /\ j = i + 1
<1>1. /\ Len(pending) \in Nat \ {0}
      /\ pending' = Tail(pending) /\ Len(pending') = Len(pending) - 1
      /\ \A i \in 1 .. Len(pending) - 1 : pending'[i] = pending[i + 1]
  BY TailFacts DEF GiveUp, TypeInv
<1>2. ASSUME NEW i \in 1 .. Len(pending')
      PROVE  i + 1 \in 1 .. Len(pending) /\ pending'[i] = pending[i + 1]
  BY <1>1
<1> QED
  BY <1>2

\* A step that goes on with the file that is open.
LEMMA OpenSame ==
  ASSUME TypeInv, OpenInv, fd # Closed, UNCHANGED <<fd, now>>, pc' # "down",
         \A i \in 1 .. Len(pending') : \E j \in 1 .. Len(pending) : pending'[i] = pending[j],
         \A d \in Days : content'[d] # {} => content[d] # {} \/ d = fd
  PROVE  OpenInv'
<1>1. fd \in Int
  BY DEF TypeInv, Days, Closed
<1> QED
  BY <1>1 DEF OpenInv

\* Every step keeps what is known of the open file.
LEMMA OpenStep == TypeInv /\ OrderInv /\ OpenInv /\ [Next]_vars => OpenInv'
<1> SUFFICES ASSUME TypeInv, OrderInv, OpenInv, [Next]_vars PROVE OpenInv'
  OBVIOUS
<1>0. /\ now \in Nat /\ Len(pending) \in Nat
      /\ \A m \in Messages : m.time \in Nat /\ Day(m.time) \in Nat
      /\ \A i \in 1 .. Len(pending) : pending[i] \in Messages
      /\ \A d \in Days : \A m \in content[d] : m \in Messages
  BY MessageTypes
<1>1. Day(now) \in Nat /\ fd \in Int /\ rotation_tp \in Nat /\ Closed \in Int /\ Closed < 0
  BY <1>0, DayBounds DEF TypeInv, Days, Closed
<1>2. Days \subseteq Nat
  BY DEF Days
<1>3. CASE Tick
  <2>1. now' = now + 1 /\ UNCHANGED <<pc, pending, fd, rotation_tp, content>>
    BY <1>3 DEF Tick, sink, disk
  <2>2. Day(now') \in Nat /\ Day(now) <= Day(now')
    <3>1. now + 1 \in Nat /\ now <= now + 1
      BY <1>0
    <3>2. Day(now + 1) \in Nat /\ Day(now) <= Day(now + 1)
      BY <1>0, <3>1, DayBounds, DayMonotone, Zenon
    <3> QED
      BY <2>1, <3>2
  <2> QED
    BY <1>0, <1>1, <2>1, <2>2 DEF OpenInv
<1>4. CASE Log
  <2> DEFINE x == [num |-> num + 1, time |-> now]
             n == Len(pending)
  <2>1. /\ pending' = Append(pending, x) /\ UNCHANGED <<now, pc, fd, rotation_tp, content>>
    BY <1>4 DEF Log, sink, disk
  <2>2. x \in Messages /\ x.time = now
    BY <1>4, DailyFileAssumption DEF Log, TypeInv, Messages
  <2> HIDE DEF x
  <2>3. /\ Len(pending') = n + 1 /\ pending'[n + 1] = x
        /\ \A i \in 1 .. n : pending'[i] = pending[i]
    BY <2>1, <2>2, AppendFacts DEF TypeInv
  <2>4. \A i \in 1 .. n + 1 : i \in 1 .. n \/ i = n + 1
    BY <1>0
  <2>5. \A i \in 1 .. n + 1 : fd <= Day(pending'[i].time)
    BY <2>2, <2>3, <2>4 DEF OpenInv
  <2>6. pc = "idle" /\ fd = Closed => \A i \in 1 .. n + 1 : rotation_tp <= pending'[i].time
    BY <2>2, <2>3, <2>4 DEF OpenInv
  <2> QED
    BY <2>1, <2>3, <2>5, <2>6 DEF OpenInv
<1>5. CASE Stop
  <2>1. pc' = "down" /\ Len(pending') = 0 /\ fd' = Closed /\ UNCHANGED now
    BY <1>5 DEF Stop
  <2> QED
    BY <1>1, <2>1 DEF OpenInv
<1>6. CASE Construct
  <2>1. /\ pc = "down" /\ fd = Closed /\ pending' = <<>> /\ Len(pending') = 0
        /\ UNCHANGED <<now, content>>
    BY <1>6 DEF Construct, Open, OpenFails, disk, OrderInv, OpenInv
  <2>2. CASE Open(Day(now)) /\ pc' = "ctor"
    <3>1. ASSUME NEW d \in Days, content[d] # {} PROVE d <= Day(now)
      <4>1. PICK m \in content[d] : TRUE
        BY <3>1
      <4>2. m.time \in Nat /\ Day(m.time) \in Nat /\ m.time <= now /\ d <= Day(m.time)
        BY <1>0, <4>1 DEF OrderInv
      <4>3. Day(m.time) <= Day(now)
        BY <1>0, <4>2, DayMonotone
      <4> QED
        BY <1>1, <1>2, <4>2, <4>3
    <3>2. fd' = Day(now) /\ fd' # Closed
      BY <1>1, <2>2 DEF Open
    <3> QED
      BY <1>1, <2>1, <2>2, <3>1, <3>2 DEF OpenInv
  <2>3. CASE OpenFails /\ UNCHANGED pc
    BY <1>1, <2>1, <2>3 DEF OpenFails, OpenInv
  <2> QED
    BY <1>6, <2>2, <2>3 DEF Construct
<1>7. CASE SetRotation \/ InitFilenamesQ
  <2>1. /\ pc \in {"ctor", "initq"} /\ pc' # "down"
        /\ UNCHANGED <<fd, now, pending, content>>
    BY <1>7 DEF SetRotation, InitFilenamesQ, disk
  <2>2. fd # Closed
    BY <2>1 DEF OpenInv
  <2> QED
    BY <2>1, <2>2, OpenSame
<1>8. CASE SinkIt
  <2>1. /\ pc = "idle" /\ pending # <<>> /\ UNCHANGED <<now, content, rotation_tp>>
        /\ FirstUnwritten = 1
    BY <1>8 DEF SinkIt, Open, OpenFails, disk, FirstUnwritten
  <2>2. /\ Head(pending) = pending[1] /\ 1 \in 1 .. Len(pending)
        /\ Head(pending).time \in Nat /\ Head(pending).time <= now
        /\ \A i \in 1 .. Len(pending) : Head(pending).time <= pending[i].time
    BY <1>0, <2>1, HeadFirst
  <2>3. CASE Open(FileName) /\ pc' = "rotate" /\ UNCHANGED pending
    <3>1. fd' = Day(Head(pending).time) /\ fd' \in Nat /\ fd' # Closed
      BY <1>1, <2>2, <2>3, DayBounds DEF Open, FileName
    <3>2. fd' <= Day(now) /\ \A i \in 1 .. Len(pending) : fd' <= Day(pending[i].time)
      BY <1>0, <2>2, <3>1, DayMonotone
    <3>3. ASSUME NEW d \in Days, content[d] # {} PROVE d <= fd'
      <4>1. PICK m \in content[d] : TRUE
        BY <3>3
      <4>2. /\ m.time \in Nat /\ Day(m.time) \in Nat /\ m.time <= Head(pending).time
            /\ d <= Day(m.time)
        BY <1>0, <2>1, <2>2, <4>1 DEF OrderInv
      <4>3. Day(m.time) <= fd'
        BY <2>2, <3>1, <4>2, DayMonotone, SMTT(30)
      <4> QED
        BY <1>2, <3>1, <4>2, <4>3
    <3> QED
      BY <2>1, <2>3, <3>1, <3>2, <3>3 DEF OpenInv
  <2>4. CASE OpenFails /\ GiveUp /\ ShouldRotate
    <3>1. fd' = Closed /\ pc' = "idle" /\ rotation_tp <= Head(pending).time
      BY <2>4 DEF OpenFails, GiveUp, ShouldRotate
    <3>2. \A i \in 1 .. Len(pending') : \E j \in 1 .. Len(pending) : pending'[i] = pending[j]
      BY <2>1, <2>4, GiveUpLeaves
    <3>3. \A j \in 1 .. Len(pending) :
            rotation_tp <= pending[j].time /\ Closed <= Day(pending[j].time)
      BY <1>0, <1>1, <2>2, <3>1
    <3>4. rotation_tp <= now /\ Closed <= Day(now)
      BY <1>0, <1>1, <2>2, <3>1
    <3> QED
      BY <2>1, <3>1, <3>2, <3>3, <3>4, SMTT(30) DEF OpenInv
  <2>5. CASE ~ShouldRotate /\ pc' = "write" /\ UNCHANGED <<pending, fd>>
    <3>1. fd # Closed
      BY <1>1, <2>1, <2>2, <2>5 DEF OpenInv, ShouldRotate
    <3> QED
      BY <2>1, <2>5, <3>1, OpenSame
  <2> QED
    BY <1>8, <2>3, <2>4, <2>5 DEF SinkIt
<1>9. CASE Write \/ Rotate
  <2>1. /\ pc \in {"write", "rotate"} /\ pc' # "down" /\ UNCHANGED <<fd, now>>
        /\ pending # <<>> /\ fd # Closed
    BY <1>9 DEF Write, Rotate, GiveUp, sink, OrderInv, OpenInv
  <2>2. Adds \/ UNCHANGED content
    BY <1>9 DEF Write, Rotate, Adds
  <2>3. \A d \in Days : content'[d] # {} => content[d] # {} \/ d = fd
    BY <2>1, <2>2, AddsFacts
  <2>4. GiveUp \/ UNCHANGED pending
    BY <1>9 DEF Write, Rotate
  <2>5. \A i \in 1 .. Len(pending') : \E j \in 1 .. Len(pending) : pending'[i] = pending[j]
    BY <2>1, <2>4, GiveUpLeaves
  <2> QED
    BY <2>1, <2>3, <2>5, OpenSame
<1>10. CASE DeleteOld
  <2>1. /\ pc = "delete" /\ pc' # "down" /\ UNCHANGED <<fd, now>>
        /\ pending # <<>> /\ fd # Closed /\ GiveUp
    BY <1>10 DEF DeleteOld, GiveUp, OrderInv, OpenInv
  <2>2. \A d \in Days : content'[d] # {} => content[d] # {}
    BY <1>10, DeleteShrinks DEF Shrinks
  <2>3. \A i \in 1 .. Len(pending') : \E j \in 1 .. Len(pending) : pending'[i] = pending[j]
    BY <2>1, GiveUpLeaves
  <2> QED
    BY <2>1, <2>2, <2>3, OpenSame
<1>11. CASE UNCHANGED vars
  BY <1>11 DEF vars, sink, disk, OpenInv
<1> QED
  BY <1>3, <1>4, <1>5, <1>6, <1>7, <1>8, <1>9, <1>10, <1>11 DEF Next

-----------------------------------------------------------------------------
(* The order of the files.                                                 *)

\* Before the first start there is no file and no message.
LEMMA InitFiles == Init => OrderInv /\ OpenInv /\ FilesInOrder
<1> SUFFICES ASSUME Init PROVE OrderInv /\ OpenInv /\ FilesInOrder
  OBVIOUS
<1>1. Len(pending) = 0 /\ \A d \in Days : content[d] = {}
  BY DEF Init
<1>2. Closed <= Day(now)
  BY DayBounds DEF Init, Closed
<1> QED
  BY <1>1, <1>2 DEF Init, OrderInv, OpenInv, FilesInOrder

\* Every step keeps the files in order for their reader.
LEMMA FilesStep ==
  TypeInv /\ OrderInv /\ OpenInv /\ FilesInOrder /\ [Next]_vars => FilesInOrder'
<1> SUFFICES ASSUME TypeInv, OrderInv, OpenInv, FilesInOrder, [Next]_vars
             PROVE  FilesInOrder'
  OBVIOUS
<1>1. CASE Shrinks
  BY <1>1 DEF Shrinks, FilesInOrder
<1>2. CASE Adds /\ pc \in {"write", "rotate"}
  <2> DEFINE x == Head(pending)
  <2>1. /\ pending # <<>> /\ fd # Closed
        /\ \A d \in Days : \A m \in content'[d] :
             m \in content[d] \/ (m = x /\ d = fd /\ d <= Day(m.time))
    BY <1>2, AddsOld
  <2>2. x = pending[1] /\ 1 \in FirstUnwritten .. Len(pending) /\ x.num \in Nat
    BY <1>2, <2>1, HeadFirst, MessageTypes DEF FirstUnwritten
  <2> HIDE DEF x
  <2>3. \A d \in Days : \A m \in content[d] : m.num \in Nat /\ m.num < x.num
    BY <2>2, MessageTypes DEF OrderInv
  <2>4. \A d \in Days : content[d] # {} => d <= fd
    BY <2>1 DEF OpenInv
  <2>5. fd \in Int
    BY DEF TypeInv, Days, Closed
  <2>6. ASSUME NEW d \in Days, NEW e \in Days, NEW m \in content'[d], NEW o \in content'[e]
        PROVE  d <= Day(m.time) /\ (m.num < o.num => d <= e)
    <3>1. CASE m \in content[d] /\ o \in content[e]
      BY <3>1 DEF FilesInOrder
    <3>2. CASE m \in content[d] /\ o = x /\ e = fd
      BY <2>4, <3>2 DEF OrderInv
    <3>3. CASE m = x /\ d = fd /\ d <= Day(m.time) /\ o \in content[e]
      BY <2>2, <2>3, <3>3
    <3>4. CASE m = x /\ d = fd /\ d <= Day(m.time) /\ o = x
      BY <2>2, <3>4
    <3> QED
      BY <2>1, <3>1, <3>2, <3>3, <3>4
  <2> QED
    BY <2>6 DEF FilesInOrder
<1>3. Shrinks \/ (Adds /\ pc \in {"write", "rotate"})
  <2>1. UNCHANGED content => Shrinks
    BY DEF Shrinks
  <2>2. CASE DeleteOld
    BY <2>2, DeleteShrinks
  <2>3. CASE Write \/ Rotate
    BY <2>1, <2>3, SMTT(30) DEF Write, Rotate, Adds
  <2>4. CASE Tick \/ Log \/ Stop \/ Construct \/ SetRotation \/ InitFilenamesQ \/ SinkIt
             \/ UNCHANGED vars
    BY <2>1, <2>4
    DEF Tick, Log, Stop, Construct, SetRotation, InitFilenamesQ, SinkIt, Open, OpenFails,
        vars, disk
  <2> QED
    BY <2>2, <2>3, <2>4 DEF Next
<1> QED
  BY <1>1, <1>2, <1>3

FilesInv == TypeInv /\ OrderInv /\ OpenInv /\ FilesInOrder

\* The invariants together, in every run of the sink.
LEMMA FilesInvariant == Spec => []FilesInv
<1>1. Init => FilesInv
  BY TypeInit, InitFiles DEF FilesInv
<1>2. FilesInv /\ [Next]_vars => FilesInv'
  BY TypeStep, OrderStep, OpenStep, FilesStep, Zenon DEF FilesInv
<1> QED
  BY <1>1, <1>2, PTL DEF Spec

\* sink_it_ writes only to a file that is open, whatever opens fail and
\* whenever the program is stopped and started again.
THEOREM FileAlwaysOpen == Spec => []FileIsOpen
<1>1. FilesInv => FileIsOpen
  BY DEF FilesInv, OpenInv, FileIsOpen
<1> QED
  BY FilesInvariant, <1>1, PTL

\* The files, read by date, have the messages in the order in which they were
\* logged, and none in the file of a later day, for every rotation time.
THEOREM FilesAlwaysInOrder == Spec => []FilesInOrder
<1>1. FilesInv => FilesInOrder
  BY DEF FilesInv
<1> QED
  BY FilesInvariant, <1>1, PTL

-----------------------------------------------------------------------------
(* Rotation at midnight.                                                   *)

\* With rotation at midnight every step keeps each message in the file of its day.
LEMMA MidnightStep ==
  /\ TypeInv /\ OrderInv /\ OpenInv /\ MidnightInv /\ OwnDay
  /\ [Next]_vars
  => MidnightInv' /\ OwnDay'
<1> SUFFICES ASSUME TypeInv, OrderInv, OpenInv, MidnightInv, OwnDay, [Next]_vars,
                    RotationTick = 0, ~late'
             PROVE  MidnightInv' /\ OwnDay'
  BY ZenonT(30) DEF MidnightInv, OwnDay
<1> DEFINE Today == \A i \in 1 .. Len(pending) : Day(pending[i].time) = Day(now)
<1>0. ~late
  BY Zenon
  DEF Next, Tick, Log, Stop, Construct, SetRotation, InitFilenamesQ, SinkIt, Write, Rotate,
      DeleteOld, vars
<1>1. /\ Today
      /\ pc = "ctor" => fd = Day(now)
      /\ pc = "rotate" => fd = Day(Head(pending).time)
      /\ pc \in {"initq", "idle", "write", "delete"} /\ fd # Closed =>
           rotation_tp = (fd + 1) * DayLen
      /\ pc = "write" => Head(pending).time < rotation_tp
  BY <1>0, SMTT(30) DEF MidnightInv
<1>2. \A d \in Days : \A m \in content[d] : Day(m.time) = d
  BY <1>0, ZenonT(30) DEF OwnDay
<1>3. /\ now \in Nat /\ Len(pending) \in Nat /\ Day(now) \in Nat
      /\ \A i \in 1 .. Len(pending) : pending[i] \in Messages
      /\ \A m \in Messages : m.time \in Nat /\ Day(m.time) \in Nat
  BY MessageTypes, DayBounds
<1>4. UNCHANGED content => OwnDay'
  BY <1>2 DEF OwnDay
<1>5. NextRotation = (Day(now) + 1) * DayLen
  BY NextRotationType
<1>6. pending # <<>> =>
        Head(pending) = pending[1] /\ Head(pending).time \in Nat
        /\ Day(Head(pending).time) = Day(now) /\ fd <= Day(Head(pending).time)
  BY <1>1, <1>3, HeadFirst DEF OpenInv
<1>7. pending # <<>> /\ GiveUp /\ UNCHANGED now => Today'
  <2> SUFFICES ASSUME pending # <<>>, GiveUp, UNCHANGED now PROVE Today'
    OBVIOUS
  <2> QED
    BY <1>1, GiveUpLeaves
<1>8. ASSUME Adds, pc \in {"write", "rotate"}, fd = Day(Head(pending).time) PROVE OwnDay'
  <2>1. \A d \in Days : \A m \in content'[d] :
          m \in content[d] \/ (m = Head(pending) /\ d = fd)
    BY <1>8, AddsOld
  <2> QED
    BY <1>2, <1>8, <2>1 DEF OwnDay
<1>9. CASE Tick
  <2>1. now' = now + 1 /\ UNCHANGED <<pc, pending, fd, rotation_tp, content>>
    BY <1>9 DEF Tick, sink, disk
  <2>2. Day(now') = Day(now) \/ (pc \in {"down", "idle"} /\ pending = <<>>)
    BY <1>9, Zenon DEF Tick
  <2>3. Today'
    BY <1>1, <2>1, <2>2
  <2>4. pc = "ctor" => Day(now') = Day(now)
    BY <2>2
  <2> QED
    BY <1>1, <1>4, <2>1, <2>3, <2>4 DEF MidnightInv
<1>10. CASE Log
  <2> DEFINE x == [num |-> num + 1, time |-> now]
             n == Len(pending)
  <2>1. /\ pending' = Append(pending, x) /\ UNCHANGED <<now, pc, fd, rotation_tp, content>>
        /\ pc # "ctor"
    BY <1>10 DEF Log, sink, disk
  <2>2. x \in Messages /\ x.time = now
    BY <1>10, DailyFileAssumption DEF Log, TypeInv, Messages
  <2> HIDE DEF x
  <2>3. /\ Len(pending') = n + 1 /\ pending'[n + 1] = x /\ pending' \in Seq(Messages)
        /\ \A i \in 1 .. n : pending'[i] = pending[i]
    BY <2>1, <2>2, AppendFacts DEF TypeInv
  <2>4. \A i \in 1 .. n + 1 : i \in 1 .. n \/ i = n + 1
    BY <1>3, SMTT(30)
  <2>5. Today'
    BY <1>1, <2>1, <2>2, <2>3, <2>4
  <2>6. pending # <<>> => Head(pending') = Head(pending)
    <3> SUFFICES ASSUME pending # <<>> PROVE Head(pending') = Head(pending)
      OBVIOUS
    <3>1. 1 \in 1 .. n /\ Head(pending) = pending[1]
      BY HeadFirst
    <3>2. Head(pending') = pending'[1]
      BY <1>3, <2>3
    <3> QED
      BY <2>3, <3>1, <3>2
  <2>7. pc \in {"rotate", "write"} => pending # <<>>
    BY DEF OrderInv
  <2> QED
    BY <1>1, <1>4, <2>1, <2>5, <2>6, <2>7 DEF MidnightInv
<1>11. CASE Stop
  BY <1>4, <1>11 DEF Stop, disk, MidnightInv
<1>12. CASE Construct
  <2>1. pending' = <<>> /\ Len(pending') = 0 /\ UNCHANGED <<now, content>>
    BY <1>12 DEF Construct, Open, OpenFails, disk, OrderInv
  <2>2. (fd' = Day(now) /\ pc' = "ctor") \/ pc' = "down"
    BY <1>12 DEF Construct, Open
  <2> QED
    BY <1>4, <2>1, <2>2 DEF MidnightInv
<1>13. CASE SetRotation
  BY <1>1, <1>4, <1>5, <1>13 DEF SetRotation, disk, MidnightInv
<1>14. CASE InitFilenamesQ
  BY <1>1, <1>4, <1>14 DEF InitFilenamesQ, disk, MidnightInv
<1>15. CASE SinkIt
  <2>1. pc = "idle" /\ pending # <<>> /\ UNCHANGED <<now, content, rotation_tp>>
    BY <1>15 DEF SinkIt, Open, OpenFails, disk
  <2>2. CASE Open(FileName) /\ pc' = "rotate" /\ UNCHANGED pending
    BY <1>1, <1>4, <2>1, <2>2 DEF Open, FileName, MidnightInv
  <2>3. CASE OpenFails /\ GiveUp
    <3>1. Today' /\ fd' = Closed /\ pc' = "idle"
      BY <1>7, <2>1, <2>3 DEF OpenFails, GiveUp
    <3> QED
      BY <1>4, <2>1, <3>1 DEF MidnightInv
  <2>4. CASE ~ShouldRotate /\ pc' = "write" /\ UNCHANGED <<pending, fd>>
    <3>1. Head(pending).time < rotation_tp
      BY <1>6, <2>1, <2>4 DEF ShouldRotate, TypeInv
    <3> QED
      BY <1>1, <1>4, <2>1, <2>4, <3>1 DEF MidnightInv
  <2> QED
    BY <1>15, <2>2, <2>3, <2>4 DEF SinkIt
<1>16. CASE Write
  <2>1. /\ pc = "write" /\ pc' = "idle" /\ GiveUp /\ UNCHANGED <<now, fd, rotation_tp>>
        /\ pending # <<>> /\ fd # Closed /\ fd \in Int
    BY <1>16 DEF Write, GiveUp, sink, OrderInv, OpenInv, TypeInv, Days, Closed
  <2>2. Head(pending).time < (fd + 1) * DayLen
    BY <1>1, <2>1
  <2>3. Day(Head(pending).time) <= fd
    BY <1>6, <2>1, <2>2, DayBefore
  <2>4. fd = Day(Head(pending).time)
    BY <1>3, <1>6, <2>1, <2>3
  <2>5. OwnDay'
    BY <1>4, <1>8, <1>16, <2>1, <2>4 DEF Write, Adds
  <2> QED
    BY <1>1, <1>7, <2>1, <2>5 DEF MidnightInv
<1>17. CASE Rotate
  <2>1. /\ pc = "rotate" /\ UNCHANGED <<now, fd>> /\ rotation_tp' = NextRotation
        /\ pending # <<>> /\ pc' \in {"idle", "delete"}
    BY <1>17 DEF Rotate, GiveUp, OrderInv
  <2>2. fd = Day(Head(pending).time) /\ rotation_tp' = (fd + 1) * DayLen
    BY <1>1, <1>5, <1>6, <2>1
  <2>3. OwnDay'
    BY <1>4, <1>8, <1>17, <2>1, <2>2 DEF Rotate, Adds
  <2>4. Today'
    BY <1>1, <1>7, <1>17, <2>1 DEF Rotate
  <2> QED
    BY <2>1, <2>2, <2>3, <2>4 DEF MidnightInv
<1>18. CASE DeleteOld
  <2>1. /\ pc = "delete" /\ GiveUp /\ pc' = "idle" /\ UNCHANGED <<now, fd, rotation_tp>>
        /\ pending # <<>>
    BY <1>18 DEF DeleteOld, GiveUp, OrderInv
  <2>2. OwnDay'
    BY <1>2, <1>18, DeleteShrinks DEF Shrinks, OwnDay
  <2> QED
    BY <1>1, <1>7, <2>1, <2>2 DEF MidnightInv
<1>19. CASE UNCHANGED vars
  BY <1>1, <1>4, <1>19 DEF vars, sink, disk, MidnightInv
<1> QED
  BY <1>9, <1>10, <1>11, <1>12, <1>13, <1>14, <1>15, <1>16, <1>17, <1>18, <1>19,
     SMTT(30) DEF Next

\* With rotation at midnight a message is in the file of its day, as long as
\* no midnight found the sink at work, for any length of the day.
THEOREM EachDayItsFile == Spec => []OwnDay
<1>1. Init => MidnightInv /\ OwnDay
  <2> SUFFICES ASSUME Init PROVE MidnightInv /\ OwnDay
    OBVIOUS
  <2>1. Len(pending) = 0 /\ \A d \in Days : content[d] = {}
    BY DEF Init
  <2> QED
    BY <2>1 DEF Init, MidnightInv, OwnDay
<1>2. FilesInv /\ MidnightInv /\ OwnDay /\ [Next]_vars => MidnightInv' /\ OwnDay'
  BY MidnightStep DEF FilesInv
<1> QED
  BY FilesInvariant, <1>1, <1>2, PTL DEF Spec

-----------------------------------------------------------------------------
(* The files that are kept.                                                *)

\* No file is newer than the open one, the clock or a message to come.
ExistsInv ==
  /\ exists \subseteq Days
  /\ \A d \in exists :
       d <= Day(now) /\ \A i \in 1 .. Len(pending) : d <= Day(pending[i].time)
  /\ fd # Closed => fd \in exists /\ \A d \in exists : d <= fd

\* The files of a queue are there, the oldest first.
Files(queue) ==
  /\ queue \in Queue(max_files, Days)
  /\ \A i \in 1 .. Size(queue) : At(queue, i - 1) \in exists
  /\ \A i, j \in 1 .. Size(queue) : i < j => At(queue, i - 1) < At(queue, j - 1)

\* With rotation at midnight the queue has none that could be opened again.
RetentionInv ==
  /\ pc \in {"initq", "idle", "write", "delete"} /\ fd # Closed =>
       (fd + 1) * DayLen <= rotation_tp
  /\ pc = "delete" => max_files > 0
  /\ max_files > 0 /\ pc \in {"idle", "write", "rotate", "delete"} =>
       /\ Files(filenames_q)
       /\ \A i \in 1 .. Size(filenames_q) :
            IF pc \in {"idle", "write"}
            THEN (At(filenames_q, i - 1) + 1) * DayLen <= rotation_tp
            ELSE At(filenames_q, i - 1) < fd

\* A time after the start of a day is not in an earlier one.
LEMMA DayAfter ==
  ASSUME NEW t \in Nat, NEW d \in Int, d * DayLen <= t
  PROVE  d <= Day(t)
<1>1. Day(t) \in Nat /\ t < (Day(t) + 1) * DayLen /\ DayLen \in Nat \ {0}
  BY DayBounds, DailyFileAssumption
<1>2. ASSUME Day(t) + 1 <= d PROVE FALSE
  <2>1. (Day(t) + 1) * DayLen <= d * DayLen
    BY <1>1, <1>2, TimesMonotone
  <2>2. (Day(t) + 1) * DayLen \in Int /\ d * DayLen \in Int
    BY <1>1
  <2> QED
    BY <1>1, <2>1, <2>2
<1> QED
  BY <1>1, <1>2

\* The queue that init_filenames_q_ makes.
LEMMA QueueWithFiles ==
  ASSUME max_files \in Nat \ {0}, NEW n \in 0 .. max_files, NEW f \in [1 .. n -> Days],
         NEW r, r = QueueWith(f)
  PROVE  /\ r \in Queue(max_files, Days) /\ Size(r) = n
         /\ \A i \in 1 .. n : At(r, i - 1) = f[i]
<1>1. Len(f) = n
  OBVIOUS
<1>2. /\ r \in Queue(max_files, Days) /\ r.head = 0 /\ r.tail = n
      /\ r.v = [i \in 0 .. max_files |-> IF i < n THEN f[i + 1] ELSE NoItem]
  <2>1. [i \in 0 .. max_files |-> IF i < n THEN f[i + 1] ELSE NoItem]
          \in [0 .. max_files -> Days \cup {NoItem}]
    <3>1. \A i \in 0 .. max_files : i < n => i + 1 \in 1 .. n
      OBVIOUS
    <3> QED
      BY <3>1
  <2> QED
    BY <1>1, <2>1 DEF QueueWith, Queue
<1>3. Size(r) = n
  BY <1>2 DEF Size
<1>4. ASSUME NEW i \in 1 .. n PROVE At(r, i - 1) = f[i]
  <2>1. i - 1 \in 0 .. max_files /\ r.head + (i - 1) = i - 1 /\ i - 1 <= max_files
        /\ i - 1 < n /\ (i - 1) + 1 = i
    BY <1>2
  <2>2. At(r, i - 1) = r.v[i - 1]
    BY <1>2, <2>1, QSlot
  <2> QED
    BY <1>2, <2>1, <2>2
<1> QED
  BY <1>2, <1>3, <1>4

\* A file that is pushed into a queue of older ones comes last.
LEMMA FilesPush ==
  ASSUME TypeInv, max_files > 0, exists \subseteq Days, NEW r, Files(r), ~IsFull(r),
         NEW d \in exists, \A i \in 1 .. Size(r) : At(r, i - 1) < d,
         NEW s, s = PushBack(r, d)
  PROVE  /\ Files(s) /\ Size(s) = Size(r) + 1 /\ Size(r) \in Nat
         /\ \A i \in 1 .. Size(s) : i \in 1 .. Size(r) \/ i = Size(s)
         /\ \A i \in 1 .. Size(r) : At(s, i - 1) = At(r, i - 1)
         /\ At(s, Size(s) - 1) = d
<1>1. max_files \in Nat \ {0} /\ r \in Queue(max_files, Days) /\ d \in Days
  BY DEF TypeInv, Files
<1>2. /\ s \in Queue(max_files, Days) /\ Size(s) = Size(r) + 1
      /\ \A i \in 1 .. Size(r) : At(s, i - 1) = At(r, i - 1)
      /\ At(s, Size(r)) = d
  BY <1>1, QPushRoom
<1>3. Size(r) \in Nat
  BY <1>1, QSize
<1>4. /\ \A i \in 1 .. Size(s) : i \in 1 .. Size(r) \/ i = Size(s)
      /\ At(s, Size(s) - 1) = d
  BY <1>2, <1>3
<1>5. \A i \in 1 .. Size(s) : At(s, i - 1) \in exists
  BY <1>2, <1>4 DEF Files
<1>6. ASSUME NEW i \in 1 .. Size(s), NEW j \in 1 .. Size(s), i < j
      PROVE  At(s, i - 1) < At(s, j - 1)
  <2>1. i \in 1 .. Size(r)
    BY <1>2, <1>3, <1>6
  <2>2. CASE j \in 1 .. Size(r)
    BY <1>2, <1>6, <2>1, <2>2 DEF Files
  <2>3. CASE j = Size(s)
    BY <1>2, <1>4, <2>1, <2>3
  <2> QED
    BY <1>4, <2>2, <2>3
<1> QED
  BY <1>2, <1>3, <1>4, <1>5, <1>6 DEF Files

\* A queue without its first file.
LEMMA FilesPop ==
  ASSUME TypeInv, max_files > 0, exists \subseteq Days, NEW r, Files(r), ~IsEmpty(r),
         NEW s, s = PopFront(r)
  PROVE  /\ s \in Queue(max_files, Days) /\ Size(s) = Size(r) - 1 /\ ~IsFull(s)
         /\ FrontItem(r) = At(r, 1 - 1) /\ 1 \in 1 .. Size(r) /\ Size(r) \in Nat
         /\ \A i \in 1 .. Size(s) :
              i + 1 \in 1 .. Size(r) /\ At(s, i - 1) = At(r, (i + 1) - 1)
         /\ \A i \in 1 .. Size(s) : At(s, i - 1) > FrontItem(r)
         /\ \A i, j \in 1 .. Size(s) : i < j => At(s, i - 1) < At(s, j - 1)
<1>1. max_files \in Nat \ {0} /\ r \in Queue(max_files, Days)
  BY DEF TypeInv, Files
<1>2. /\ s \in Queue(max_files, Days) /\ Size(s) = Size(r) - 1
      /\ FrontItem(r) = At(r, 0)
      /\ \A i \in 1 .. Size(s) : At(s, i - 1) = At(r, i)
  BY <1>1, QPopFront
<1>3. Size(r) \in 0 .. max_files /\ Size(r) # 0
  BY <1>1, QSize
<1>4. ~IsFull(s)
  BY <1>1, <1>2, <1>3, QSize
<1>5. FrontItem(r) = At(r, 1 - 1) /\ 1 \in 1 .. Size(r)
  BY <1>2, <1>3
<1>6. ASSUME NEW i \in 1 .. Size(s)
      PROVE  /\ i + 1 \in 1 .. Size(r) /\ At(s, i - 1) = At(r, (i + 1) - 1)
             /\ At(s, i - 1) > FrontItem(r)
  <2>1. i + 1 \in 1 .. Size(r) /\ (i + 1) - 1 = i /\ 1 < i + 1
    BY <1>2, <1>3
  <2>2. At(s, i - 1) = At(r, (i + 1) - 1)
    BY <1>2, <2>1
  <2>3. At(r, 1 - 1) < At(r, (i + 1) - 1)
    BY <1>5, <2>1 DEF Files
  <2>4. At(r, 1 - 1) \in Nat /\ At(r, (i + 1) - 1) \in Nat
    <3>1. Days \subseteq Nat
      BY DEF Days
    <3>2. At(r, 1 - 1) \in exists /\ At(r, (i + 1) - 1) \in exists
      BY <1>5, <2>1 DEF Files
    <3> QED
      BY <3>1, <3>2, Zenon
  <2> QED
    BY <1>5, <2>1, <2>2, <2>3, <2>4
<1>7. ASSUME NEW i \in 1 .. Size(s), NEW j \in 1 .. Size(s), i < j
      PROVE  At(s, i - 1) < At(s, j - 1)
  <2>1. i + 1 < j + 1
    BY <1>7
  <2> QED
    BY <1>6, <2>1 DEF Files
<1> QED
  BY <1>2, <1>3, <1>4, <1>5, <1>6, <1>7

\* Every step keeps the open file the newest, and there.
LEMMA ExistsStep ==
  TypeInv /\ OrderInv /\ OpenInv /\ ExistsInv /\ RetentionInv /\ [Next]_vars => ExistsInv'
<1> SUFFICES ASSUME TypeInv, OrderInv, OpenInv, ExistsInv, RetentionInv, [Next]_vars
             PROVE  ExistsInv'
  OBVIOUS
<1>0. /\ now \in Nat /\ Len(pending) \in Nat /\ Day(now) \in Days /\ Day(now) \in Nat
      /\ \A m \in Messages : m.time \in Nat /\ Day(m.time) \in Nat
      /\ \A i \in 1 .. Len(pending) : pending[i] \in Messages
  BY MessageTypes, DayInDays DEF TypeInv
<1>1. Days \subseteq Nat
  BY DEF Days
<1>2. CASE Tick
  <2>1. now' = now + 1 /\ UNCHANGED <<pending, fd, exists>>
    BY <1>2 DEF Tick, sink, disk
  <2>2. Day(now') \in Nat /\ Day(now) <= Day(now')
    <3>1. now + 1 \in Nat /\ now <= now + 1
      BY <1>0
    <3>2. Day(now + 1) \in Nat /\ Day(now) <= Day(now + 1)
      BY <1>0, <3>1, DayBounds, DayMonotone, Zenon
    <3> QED
      BY <2>1, <3>2
  <2>3. \A d \in exists : d <= Day(now')
    BY <1>0, <1>1, <2>2 DEF ExistsInv
  <2> QED
    BY <2>1, <2>3 DEF ExistsInv
<1>3. CASE Log
  <2> DEFINE x == [num |-> num + 1, time |-> now]
             n == Len(pending)
  <2>1. pending' = Append(pending, x) /\ UNCHANGED <<now, fd, exists>>
    BY <1>3 DEF Log, sink, disk
  <2>2. x \in Messages /\ x.time = now
    BY <1>3, DailyFileAssumption DEF Log, TypeInv, Messages
  <2> HIDE DEF x
  <2>3. /\ Len(pending') = n + 1 /\ pending'[n + 1] = x
        /\ \A i \in 1 .. n : pending'[i] = pending[i]
    BY <2>1, <2>2, AppendFacts DEF TypeInv
  <2>4. \A i \in 1 .. n + 1 : i \in 1 .. n \/ i = n + 1
    BY <1>0
  <2>5. \A d \in exists : \A i \in 1 .. n + 1 : d <= Day(pending'[i].time)
    BY <2>2, <2>3, <2>4 DEF ExistsInv
  <2> QED
    BY <2>1, <2>3, <2>5 DEF ExistsInv
<1>4. CASE Stop
  <2>1. Len(pending') = 0 /\ fd' = Closed /\ UNCHANGED <<now, exists>>
    BY <1>4 DEF Stop, disk
  <2> QED
    BY <2>1 DEF ExistsInv
<1>5. CASE Construct
  <2>1. pending' = <<>> /\ Len(pending') = 0 /\ UNCHANGED now
    BY <1>5 DEF Construct, OrderInv
  <2>2. (fd' = Day(now) /\ exists' = exists \cup {Day(now)}) \/ (fd' = Closed /\ exists' = exists)
    BY <1>5 DEF Construct, Open, OpenFails, disk
  <2> QED
    BY <1>0, <2>1, <2>2 DEF ExistsInv
<1>6. CASE SetRotation \/ InitFilenamesQ \/ UNCHANGED vars
  BY <1>6 DEF SetRotation, InitFilenamesQ, vars, sink, disk, ExistsInv
<1>7. CASE SinkIt
  <2>1. pc = "idle" /\ pending # <<>> /\ UNCHANGED now
    BY <1>7 DEF SinkIt
  <2>2. /\ Head(pending) = pending[1] /\ 1 \in 1 .. Len(pending) /\ Head(pending) \in Messages
        /\ Head(pending).time \in Nat /\ Head(pending).time <= now
        /\ \A i \in 1 .. Len(pending) : Head(pending).time <= pending[i].time
    BY <1>0, <2>1, HeadFirst
  <2>3. CASE Open(FileName) /\ UNCHANGED pending
    <3>1. fd' = Day(Head(pending).time) /\ fd' \in Days /\ exists' = exists \cup {fd'}
      BY <2>2, <2>3, DayInDays DEF Open, FileName, Messages
    <3>2. fd' <= Day(now) /\ \A i \in 1 .. Len(pending) : fd' <= Day(pending[i].time)
      BY <1>0, <2>2, <3>1, DayMonotone
    <3>3. \A d \in exists : d <= fd'
      BY <2>2, <3>1 DEF ExistsInv
    <3>4. fd' <= fd'
      BY <1>1, <3>1
    <3> QED
      BY <2>1, <2>3, <3>1, <3>2, <3>3, <3>4, SMTT(30) DEF ExistsInv
  <2>4. CASE OpenFails /\ GiveUp
    <3>1. fd' = Closed /\ exists' = exists
      BY <2>4 DEF OpenFails, disk
    <3>2. \A i \in 1 .. Len(pending') : \E j \in 1 .. Len(pending) : pending'[i] = pending[j]
      BY <2>1, <2>4, GiveUpLeaves
    <3> QED
      BY <2>1, <3>1, <3>2 DEF ExistsInv
  <2>5. CASE UNCHANGED <<pending, fd, rotation_tp, disk>>
    BY <2>1, <2>5 DEF disk, ExistsInv
  <2> QED
    BY <1>7, <2>3, <2>4, <2>5 DEF SinkIt
<1>8. CASE Write \/ Rotate
  <2>1. pending # <<>> /\ UNCHANGED <<now, fd, exists>> /\ (GiveUp \/ UNCHANGED pending)
    BY <1>8 DEF Write, Rotate, sink, OrderInv
  <2>2. \A i \in 1 .. Len(pending') : \E j \in 1 .. Len(pending) : pending'[i] = pending[j]
    BY <2>1, GiveUpLeaves
  <2> QED
    BY <2>1, <2>2 DEF ExistsInv
<1>9. CASE DeleteOld
  <2>1. /\ pc = "delete" /\ pending # <<>> /\ UNCHANGED <<now, fd>> /\ GiveUp
        /\ max_files > 0 /\ fd # Closed
    BY <1>9 DEF DeleteOld, OrderInv, OpenInv, RetentionInv
  <2>2. \A i \in 1 .. Len(pending') : \E j \in 1 .. Len(pending) : pending'[i] = pending[j]
    BY <2>1, GiveUpLeaves
  <2>3. /\ filenames_q \in Queue(max_files, Days) /\ max_files \in Nat \ {0}
        /\ \A i \in 1 .. Size(filenames_q) : At(filenames_q, i - 1) < fd
    BY <2>1 DEF RetentionInv, Files, TypeInv
  <2>4. fd \in exists' /\ exists' \subseteq exists
    <3>1. CASE exists' = exists
      BY <2>1, <3>1 DEF ExistsInv
    <3>2. CASE IsFull(filenames_q) /\ exists' = exists \ {FrontItem(filenames_q)}
      <4>1. Size(filenames_q) = max_files /\ FrontItem(filenames_q) = At(filenames_q, 0)
        BY <2>3, <3>2, QSize, FrontIsFirst
      <4>2. 1 \in 1 .. Size(filenames_q) /\ 1 - 1 = 0
        BY <2>3, <4>1
      <4>3. At(filenames_q, 0) < fd
        BY <2>3, <4>2
      <4>4. fd \in exists /\ fd \in Nat
        BY <1>1, <2>1, Zenon DEF ExistsInv
      <4> QED
        BY <3>2, <4>1, <4>3, <4>4, SMTT(30)
    <3> QED
      BY <1>9, <3>1, <3>2 DEF DeleteOld, disk
  <2> QED
    BY <2>1, <2>2, <2>4, SMTT(30) DEF ExistsInv
<1> QED
  BY <1>2, <1>3, <1>4, <1>5, <1>6, <1>7, <1>8, <1>9 DEF Next

\* Setting the rotation time puts it after the day of every file.
LEMMA RotationAfterFiles ==
  ASSUME TypeInv, ExistsInv, RotationTick = 0, rotation_tp' = NextRotation,
         NEW d \in exists
  PROVE  (d + 1) * DayLen <= rotation_tp'
<1>1. now \in Nat /\ Day(now) \in Nat /\ Days \subseteq Nat
  BY MessageTypes, DayInDays DEF TypeInv, Days
<1>2. d \in Nat /\ d <= Day(now)
  BY <1>1, ZenonT(30) DEF ExistsInv
<1>3. d + 1 \in Int /\ Day(now) + 1 \in Int /\ d + 1 <= Day(now) + 1 /\ DayLen \in Nat
  BY <1>1, <1>2, DailyFileAssumption
<1>4. (d + 1) * DayLen <= (Day(now) + 1) * DayLen
  BY <1>3, TimesMonotone, Zenon
<1> QED
  BY <1>4, NextRotationType, Zenon

\* Nothing but these matters to the invariant.
LEMMA RetentionSame ==
  ASSUME TypeInv, RetentionInv, UNCHANGED <<pc, max_files, fd, rotation_tp, filenames_q, exists>>
  PROVE  RetentionInv'
BY DEF RetentionInv, Files

\* The files that init_filenames_q_ queues exist and are in order.
LEMMA InitQueueFiles ==
  ASSUME TypeInv, ExistsInv, max_files > 0, InitFilenamesQ
  PROVE  Files(filenames_q')
<1>1. max_files \in Nat \ {0} /\ now \in Nat /\ Day(now) \in Nat
  BY MessageTypes, DayInDays DEF TypeInv
<1>2. PICK n \in 0 .. max_files :
        LastFiles(n) /\ filenames_q' = QueueWith([i \in 1 .. n |-> Day(now) - n + i])
  BY Zenon DEF InitFilenamesQ
<1> DEFINE f == [i \in 1 .. n |-> Day(now) - n + i]
<1>3. ASSUME NEW i \in 1 .. n PROVE f[i] = Day(now) - n + i /\ f[i] \in exists
  <2>1. n - i + 1 \in 1 .. n /\ Day(now) - (n - i + 1) + 1 = Day(now) - n + i
    BY <1>1, <1>2
  <2> QED
    BY <1>2, <2>1 DEF LastFiles
<1>4. f \in [1 .. n -> Days]
  BY <1>3 DEF ExistsInv
<1>5. filenames_q' = QueueWith(f)
  BY <1>2
<1> HIDE DEF f
<1>6. /\ filenames_q' \in Queue(max_files, Days) /\ Size(filenames_q') = n
      /\ \A i \in 1 .. n : At(filenames_q', i - 1) = f[i]
  BY <1>1, <1>4, <1>5, QueueWithFiles
<1>7. \A i, j \in 1 .. n : i < j => f[i] < f[j]
  BY <1>1, <1>3, SMTT(30)
<1> QED
  BY <1>3, <1>6, <1>7, Zenon DEF Files

\* delete_old_: what the full queue gives up is older than all that it keeps,
\* and than the file that comes in; those are there afterwards.
LEMMA DeleteOldFiles ==
  ASSUME TypeInv, ExistsInv, OpenInv, RetentionInv, DeleteOld
  PROVE  /\ Files(filenames_q)'
         /\ exists' # exists =>
              /\ exists' = exists \ {FrontItem(filenames_q)}
              /\ FrontItem(filenames_q) \in Nat
              /\ Size(filenames_q') = max_files
              /\ \A i \in 1 .. max_files : At(filenames_q', i - 1) > FrontItem(filenames_q)
<1> DEFINE q == filenames_q
           front == FrontItem(q)
<1>1. /\ max_files > 0 /\ max_files \in Nat \ {0} /\ fd # Closed /\ UNCHANGED <<max_files, fd>>
      /\ fd \in exists /\ fd \in Nat /\ exists \subseteq Days /\ exists \subseteq Nat
      /\ Files(q) /\ q \in Queue(max_files, Days)
      /\ \A i \in 1 .. Size(q) : At(q, i - 1) < fd
  <2>1. Days \subseteq Nat
    BY SMTT(30) DEF Days
  <2>2. max_files > 0 /\ fd # Closed
    BY DEF DeleteOld, OpenInv, RetentionInv
  <2>3. Files(q) /\ \A i \in 1 .. Size(q) : At(q, i - 1) < fd
    BY <2>2 DEF DeleteOld, RetentionInv
  <2> QED
    BY <2>1, <2>2, <2>3 DEF DeleteOld, ExistsInv, Files, TypeInv
<1>2. CASE ~IsFull(q)
  <2>1. filenames_q' = PushBack(q, fd) /\ exists' = exists
    BY <1>2 DEF DeleteOld, disk
  <2>2. Files(filenames_q')
    BY <1>1, <1>2, <2>1, FilesPush
  <2> QED
    BY <1>1, <2>1, <2>2, Zenon DEF Files
<1>3. CASE IsFull(q)
  <2> DEFINE s == PopFront(q)
  <2>1. filenames_q' = PushBack(s, fd) /\ (exists' = exists \/ exists' = exists \ {front})
    BY <1>3 DEF DeleteOld, disk
  <2>2. Size(q) = max_files /\ ~IsEmpty(q)
    BY <1>1, <1>3, QSize, SMTT(30)
  <2>3. /\ s \in Queue(max_files, Days) /\ Size(s) = max_files - 1 /\ ~IsFull(s)
        /\ front = At(q, 1 - 1) /\ 1 \in 1 .. Size(q)
        /\ \A i \in 1 .. Size(s) :
             i + 1 \in 1 .. Size(q) /\ At(s, i - 1) = At(q, (i + 1) - 1) /\ At(s, i - 1) > front
        /\ \A i, j \in 1 .. Size(s) : i < j => At(s, i - 1) < At(s, j - 1)
    BY <1>1, <2>2, FilesPop, SMTT(30)
  <2> HIDE DEF s
  <2>4. Files(s) /\ \A i \in 1 .. Size(s) : At(s, i - 1) < fd
    BY <1>1, <2>3 DEF Files
  <2>5. /\ Files(filenames_q') /\ Size(filenames_q') = max_files
        /\ \A i \in 1 .. max_files : i \in 1 .. Size(s) \/ i = max_files
        /\ \A i \in 1 .. Size(s) : At(filenames_q', i - 1) = At(s, i - 1)
        /\ At(filenames_q', max_files - 1) = fd
    <3>1. /\ Files(filenames_q') /\ Size(filenames_q') = Size(s) + 1
          /\ \A i \in 1 .. Size(filenames_q') : i \in 1 .. Size(s) \/ i = Size(filenames_q')
          /\ \A i \in 1 .. Size(s) : At(filenames_q', i - 1) = At(s, i - 1)
          /\ At(filenames_q', Size(filenames_q') - 1) = fd
      BY <1>1, <2>1, <2>3, <2>4, FilesPush, SMTT(30)
    <3>2. Size(filenames_q') = max_files
      BY <1>1, <2>3, <3>1
    <3> QED
      BY <3>1, <3>2, Zenon
  <2>6. front \in exists /\ front \in Nat /\ front < fd
    BY <1>1, <2>3, Zenon DEF Files
  <2> HIDE DEF front
  <2>7. ASSUME NEW i \in 1 .. max_files
        PROVE  At(filenames_q', i - 1) > front /\ At(filenames_q', i - 1) \in exists
    <3>1. At(filenames_q', i - 1) \in exists
      BY <2>5 DEF Files
    <3>2. CASE i \in 1 .. Size(s)
      BY <2>3, <2>5, <3>1, <3>2, SMTT(30)
    <3>3. CASE i = max_files
      BY <1>1, <2>5, <2>6, <3>1, <3>3, SMTT(30)
    <3> QED
      BY <2>5, <3>2, <3>3
  <2>8. \A i \in 1 .. max_files : At(filenames_q', i - 1) \in exists'
    <3> TAKE i \in 1 .. max_files
    <3>1. At(filenames_q', i - 1) # front
      BY <2>6, <2>7
    <3> QED
      BY <2>1, <2>7, <3>1
  <2>9. Files(filenames_q)'
    BY <1>1, <2>5, <2>8, Zenon DEF Files
  <2> QED
    BY <2>1, <2>5, <2>6, <2>7, <2>9, Zenon DEF front
<1> QED
  BY <1>2, <1>3, SMTT(30)

\* The queue and the rotation time through a step, with rotation at midnight.
LEMMA RetentionStep ==
  ASSUME RotationTick = 0
  PROVE  TypeInv /\ OrderInv /\ OpenInv /\ ExistsInv /\ RetentionInv /\ [Next]_vars
           => RetentionInv'
<1> SUFFICES ASSUME TypeInv, OrderInv, OpenInv, ExistsInv, RetentionInv, [Next]_vars
             PROVE  RetentionInv'
  OBVIOUS
<1>0. Days \subseteq Nat /\ max_files \in Nat /\ rotation_tp \in Nat /\ exists \subseteq Nat
      /\ DayLen \in Nat
  BY DailyFileAssumption DEF Days, TypeInv, ExistsInv
<1>1. CASE Tick \/ Log \/ UNCHANGED vars
  BY <1>1, RetentionSame DEF Tick, Log, vars, sink, disk
<1>2. CASE Stop \/ Construct
  <2>1. pc' \in {"down", "ctor"}
    BY <1>2 DEF Stop, Construct
  <2> QED
    BY <2>1 DEF RetentionInv
<1>3. CASE SetRotation
  <2>1. /\ rotation_tp' = NextRotation /\ UNCHANGED <<max_files, fd>>
        /\ pc' = (IF max_files > 0 THEN "initq" ELSE "idle")
    BY <1>3 DEF SetRotation
  <2>2. fd # Closed => (fd + 1) * DayLen <= rotation_tp'
    BY <2>1, RotationAfterFiles, Zenon DEF ExistsInv
  <2> QED
    BY <2>1, <2>2 DEF RetentionInv
<1>4. CASE InitFilenamesQ
  <2>1. /\ pc = "initq" /\ pc' = "idle" /\ UNCHANGED <<max_files, fd, rotation_tp, exists>>
    BY <1>4, SMTT(30) DEF InitFilenamesQ, disk
  <2>2. fd # Closed /\ (fd + 1) * DayLen <= rotation_tp /\ fd \in exists
        /\ \A d \in exists : d <= fd
    BY <2>1 DEF RetentionInv, OpenInv, ExistsInv
  <2>3. ASSUME NEW d \in exists PROVE (d + 1) * DayLen <= rotation_tp
    <3>1. d + 1 \in Int /\ fd + 1 \in Int /\ d + 1 <= fd + 1
      BY <1>0, <2>2
    <3>2. (d + 1) * DayLen <= (fd + 1) * DayLen
      BY <1>0, <3>1, TimesMonotone
    <3>3. (d + 1) * DayLen \in Int /\ (fd + 1) * DayLen \in Int
      BY <1>0, <3>1
    <3> QED
      BY <1>0, <2>2, <3>2, <3>3
  <2>4. max_files > 0 => Files(filenames_q')
    BY <1>4, InitQueueFiles
  <2>5. max_files > 0 => Files(filenames_q)'
    BY <2>1, <2>4, Zenon DEF Files
  <2>6. max_files > 0 => \A i \in 1 .. Size(filenames_q') :
          (At(filenames_q', i - 1) + 1) * DayLen <= rotation_tp
    BY <2>3, <2>4, Zenon DEF Files
  <2> QED
    BY <2>1, <2>2, <2>5, <2>6 DEF RetentionInv
<1>5. CASE SinkIt
  <2>1. /\ pc = "idle" /\ pending # <<>>
        /\ UNCHANGED <<max_files, filenames_q, rotation_tp>>
        /\ exists \subseteq exists'
    BY <1>5 DEF SinkIt, Open, OpenFails, disk
  <2>2. max_files > 0 =>
          /\ Files(filenames_q)'
          /\ \A i \in 1 .. Size(filenames_q) :
               /\ At(filenames_q, i - 1) \in Nat
               /\ (At(filenames_q, i - 1) + 1) * DayLen <= rotation_tp
    BY <1>0, <2>1, Zenon DEF RetentionInv, Files
  <2>3. CASE Open(FileName) /\ pc' = "rotate" /\ ShouldRotate
    <3>1. Head(pending).time \in Nat /\ fd' = Day(Head(pending).time)
          /\ rotation_tp <= Head(pending).time
      BY <1>0, <2>1, <2>3, MessageTypes, HeadFirst DEF Open, FileName, ShouldRotate
    <3>2. ASSUME NEW d \in Nat, (d + 1) * DayLen <= rotation_tp PROVE d < fd'
      <4>1. d + 1 \in Int /\ (d + 1) * DayLen \in Int
        BY <1>0
      <4>2. (d + 1) * DayLen <= Head(pending).time
        BY <1>0, <3>1, <3>2, <4>1
      <4>3. d + 1 <= Day(Head(pending).time) /\ Day(Head(pending).time) \in Nat
        BY <3>1, <4>1, <4>2, DayAfter, DayBounds
      <4> QED
        BY <3>1, <4>3
    <3> QED
      BY <2>1, <2>2, <2>3, <3>2, SMTT(30) DEF RetentionInv
  <2>4. CASE OpenFails /\ pc' = "idle"
    BY <2>1, <2>2, <2>4 DEF RetentionInv, OpenFails
  <2>5. CASE pc' = "write" /\ UNCHANGED <<fd, rotation_tp>>
    BY <2>1, <2>2, <2>5 DEF RetentionInv
  <2> QED
    BY <1>5, <2>3, <2>4, <2>5 DEF SinkIt, GiveUp
<1>6. CASE Write
  <2>1. pc = "write" /\ pc' = "idle"
        /\ UNCHANGED <<max_files, filenames_q, rotation_tp, fd, exists>>
    BY <1>6 DEF Write, GiveUp, sink
  <2>2. Files(filenames_q)' <=> Files(filenames_q)
    BY <2>1 DEF Files
  <2> QED
    BY <2>1, <2>2 DEF RetentionInv
<1>7. CASE Rotate
  <2>1. /\ pc = "rotate" /\ rotation_tp' = NextRotation
        /\ UNCHANGED <<max_files, filenames_q, fd, exists>>
        /\ pc' = "idle" \/ (pc' = "delete" /\ max_files > 0)
    BY <1>7 DEF Rotate, GiveUp
  <2>2. fd # Closed => (fd + 1) * DayLen <= rotation_tp'
    BY <2>1, RotationAfterFiles, Zenon DEF ExistsInv
  <2>3. max_files > 0 =>
          /\ Files(filenames_q)'
          /\ \A i \in 1 .. Size(filenames_q) :
               /\ At(filenames_q, i - 1) \in exists
               /\ At(filenames_q, i - 1) < fd
    BY <2>1 DEF RetentionInv, Files
  <2>4. max_files > 0 => \A i \in 1 .. Size(filenames_q) :
          (At(filenames_q, i - 1) + 1) * DayLen <= rotation_tp'
    BY <2>1, <2>3, RotationAfterFiles, Zenon
  <2> QED
    BY <2>1, <2>2, <2>3, <2>4 DEF RetentionInv
<1>8. CASE DeleteOld
  <2>1. /\ pc = "delete" /\ pc' = "idle" /\ UNCHANGED <<max_files, fd, rotation_tp>>
        /\ fd # Closed /\ (fd + 1) * DayLen <= rotation_tp
    BY <1>8 DEF DeleteOld, GiveUp, OpenInv, RetentionInv
  <2>2. Files(filenames_q)'
    BY <1>8, DeleteOldFiles
  <2>3. \A d \in exists : (d + 1) * DayLen <= rotation_tp
    <3> TAKE d \in exists
    <3>1. fd \in exists /\ d <= fd
      BY <2>1 DEF ExistsInv
    <3>2. d + 1 \in Int /\ fd + 1 \in Int /\ d + 1 <= fd + 1
      BY <1>0, <3>1
    <3>3. (d + 1) * DayLen <= (fd + 1) * DayLen
      BY <1>0, <3>2, TimesMonotone
    <3>4. (d + 1) * DayLen \in Int /\ (fd + 1) * DayLen \in Int
      BY <1>0, <3>2
    <3> QED
      BY <1>0, <2>1, <3>3, <3>4
  <2>4. exists' \subseteq exists
    BY <1>8 DEF DeleteOld, disk
  <2>5. \A i \in 1 .. Size(filenames_q') :
          (At(filenames_q', i - 1) + 1) * DayLen <= rotation_tp
    BY <2>2, <2>3, <2>4, Zenon DEF Files
  <2> QED
    BY <2>1, <2>2, <2>5, SMTT(30) DEF RetentionInv
<1> QED
  BY <1>1, <1>2, <1>3, <1>4, <1>5, <1>6, <1>7, <1>8, SMTT(30) DEF Next

\* Only delete_old_ removes a file, and then as many newer ones are there as the
\* queue can hold: one for each of its places.
LEMMA RemovedLeavesNewer ==
  ASSUME TypeInv, OpenInv, ExistsInv, RetentionInv, ExistsInv', [Next]_vars,
         NEW d \in exists \ exists'
  PROVE  Cardinality({e \in exists' : e > d}) >= max_files
<1>1. DeleteOld
  BY DEF Next, Tick, Log, Stop, Construct, SetRotation, InitFilenamesQ, SinkIt, Write, Rotate,
         Open, OpenFails, vars, sink, disk
<1> DEFINE f == [i \in 1 .. max_files |-> At(filenames_q', i - 1)]
           newer == {e \in exists' : e > d}
<1>2. /\ Files(filenames_q)' /\ Size(filenames_q') = max_files
      /\ \A i \in 1 .. max_files : At(filenames_q', i - 1) > d
  BY <1>1, DeleteOldFiles
<1>3. /\ \A i \in 1 .. max_files : f[i] \in exists' /\ f[i] > d
      /\ \A i, j \in 1 .. max_files : i < j => f[i] < f[j]
  BY <1>2, SMTT(30) DEF Files
<1>4. max_files \in Nat /\ exists' \in SUBSET Days /\ Days \subseteq Int
  BY DEF TypeInv, ExistsInv, Days
<1>5. f \in [1 .. max_files -> newer]
  BY <1>3
<1>6. ASSUME NEW i \in 1 .. max_files, NEW j \in 1 .. max_files, f[i] = f[j]
      PROVE  i = j
  <2>1. f[i] \in Int /\ f[j] \in Int
    BY <1>3, <1>4, Zenon
  <2>2. i < j \/ j < i \/ i = j
    BY <1>4
  <2> HIDE DEF f
  <2> QED
    BY <1>3, <1>6, <2>1, <2>2
<1> HIDE DEF f
<1>7. f \in Injection(1 .. max_files, newer)
  BY <1>5, <1>6, Zenon DEF Injection, IsInjective
<1>8. IsFiniteSet(newer)
  <2>1. IsFiniteSet(Days)
    BY FS_Interval, DayBounds, DailyFileAssumption DEF Days
  <2>2. newer \in SUBSET Days
    BY <1>4, Zenon
  <2> QED
    BY <2>1, <2>2, FS_Subset
<1>9. Cardinality(1 .. max_files) = max_files
  BY <1>4, FS_Interval
<1>10. Cardinality(1 .. max_files) <= Cardinality(newer)
  BY <1>7, <1>8, FS_Injection
<1>11. Cardinality(newer) \in Nat
  BY <1>8, FS_CardinalityType
<1> QED
  BY <1>4, <1>9, <1>10, <1>11, SMTT(30)

\* With rotation at midnight, as the program sets the sink up, delete_old_ gives
\* up a file only when max_files newer ones are there.
THEOREM NewestFilesKept ==
  ASSUME RotationTick = 0
  PROVE  Spec => NewestKept
<1>1. Init => ExistsInv /\ RetentionInv
  BY DEF Init, ExistsInv, RetentionInv
<1>2. FilesInv /\ ExistsInv /\ RetentionInv /\ [Next]_vars => ExistsInv' /\ RetentionInv'
  BY ExistsStep, RetentionStep DEF FilesInv
<1>3. FilesInv /\ ExistsInv /\ RetentionInv /\ ExistsInv' /\ [Next]_vars
        => [\A d \in exists \ exists' : Cardinality({e \in exists' : e > d}) >= max_files]_vars
  BY RemovedLeavesNewer DEF FilesInv
<1> QED
  BY FilesInvariant, <1>1, <1>2, <1>3, PTL DEF Spec, NewestKept
=============================================================================
