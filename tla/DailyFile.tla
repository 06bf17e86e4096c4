----------------------------- MODULE DailyFile -----------------------------
(***************************************************************************)
(* spdlog's daily_file_sink, the sink of the program's log, with the       *)
(* file_helper under it: a file per day, named by the date, opened anew    *)
(* when a message is past the rotation time.                               *)
(*                                                                         *)
(* The clock runs while the worker works: the name of a file comes from    *)
(* the time of a message, the next rotation from a later look at the       *)
(* clock.  Time is counted in DayLen ticks a day and does not go back; the *)
(* change to summer time is left out.  Messages reach the sink in the      *)
(* order of their times, as those of one thread do: the program logs from  *)
(* its main thread only, and never truncates.  It may stop at any time and *)
(* be started again.                                                       *)
(***************************************************************************)
EXTENDS CircularQ, FiniteSets

CONSTANTS
  DayLen,        \* ticks of a day
  RotationTick,  \* rotation_hour and rotation_minute, as a tick of the day
  MaxFiles,      \* the values of max_files, 0 to keep all of them
  MaxTime,       \* bound: ticks
  MaxMsgs        \* bound: messages

ASSUME DailyFileAssumption ==
  /\ DayLen \in Nat \ {0} /\ RotationTick \in 0 .. DayLen - 1
  /\ MaxFiles \subseteq Nat
  /\ MaxTime \in Nat /\ MaxMsgs \in Nat

\* calc_filename: the date of a time.
Day(t) == t \div DayLen

Days == 0 .. Day(MaxTime)
Closed == -1

\* A message is its number and the time at which it was logged.
Messages == [num : 1 .. MaxMsgs, time : 0 .. MaxTime]

VARIABLES
  max_files,    \* how many files are kept, fixed by the caller
  now,          \* the clock
  late,         \* a midnight has found the sink at work (history)
  pc,           \* where the sink is; "down" when the program does not run
  pending,      \* the messages on their way to the sink
  fd,           \* the day of the open file, or Closed
  rotation_tp,  \* when the file is changed next
  filenames_q,  \* the files of the last rotations
  exists,       \* the files there are
  content,      \* per day: the messages in its file
  num           \* messages logged so far

sink == <<fd, rotation_tp, filenames_q>>
disk == <<exists, content>>
vars == <<max_files, now, late, pc, pending, sink, disk, num>>

NoQueue == [max |-> 0, head |-> 0, tail |-> 0, overrun |-> 0, v |-> <<>>]

Init ==
  /\ max_files \in MaxFiles
  /\ now = 0 /\ late = FALSE /\ num = 0
  /\ pc = "down" /\ pending = <<>>
  /\ fd = Closed /\ rotation_tp = 0 /\ filenames_q = NoQueue
  /\ exists = {} /\ content = [d \in Days |-> {}]

-----------------------------------------------------------------------------

Tick ==
  /\ now < MaxTime
  /\ now' = now + 1
  /\ late' = (late \/ (Day(now') # Day(now) /\ (pc \notin {"down", "idle"} \/ pending # <<>>)))
  /\ UNCHANGED <<max_files, pc, pending, sink, disk, num>>

\* A message gets its time from the clock and goes into the queue.
Log ==
  /\ pc \notin {"down", "ctor", "initq"}
  /\ num < MaxMsgs
  /\ num' = num + 1
  /\ pending' = Append(pending, [num |-> num + 1, time |-> now])
  /\ UNCHANGED <<max_files, now, late, pc, sink, disk>>

\* The program ends, or crashes with messages on their way.
Stop ==
  /\ pc # "down"
  /\ pc' = "down"
  /\ pending' = <<>>
  /\ fd' = Closed
  /\ UNCHANGED <<max_files, now, late, rotation_tp, filenames_q, disk, num>>

\* next_rotation_tp_.
NextRotation ==
  LET rotation_time == Day(now) * DayLen + RotationTick
  IN  IF rotation_time > now THEN rotation_time ELSE rotation_time + DayLen

\* file_helper::open for the file of day d.
Open(d) ==
  /\ fd' = d
  /\ exists' = exists \cup {d}
  /\ UNCHANGED <<rotation_tp, content>>

\* Mutant: the next rotation is set before the file is opened.
OpenFailsRotated == fd' = Closed /\ rotation_tp' = NextRotation /\ UNCHANGED disk

\* The last try of file_helper::open fails; the old file is closed by then.
OpenFails == fd' = Closed /\ UNCHANGED <<rotation_tp, disk>>

\* The constructor.  When the file cannot be opened the program does not start.
Construct ==
  /\ pc = "down"
  /\ \/ Open(Day(now)) /\ pc' = "ctor"
     \/ OpenFails /\ UNCHANGED pc
  /\ filenames_q' = NoQueue
  /\ UNCHANGED <<max_files, now, late, pending, num>>

SetRotation ==
  /\ pc = "ctor"
  /\ rotation_tp' = NextRotation
  /\ pc' = IF max_files > 0 THEN "initq" ELSE "idle"
  /\ UNCHANGED <<max_files, now, late, pending, fd, filenames_q, disk, num>>

\* The queue after a push_back of each of files, of which there are not too many.
QueueWith(files) ==
  [max |-> max_files + 1, head |-> 0, tail |-> Len(files), overrun |-> 0,
   v |-> [i \in 0 .. max_files |-> IF i < Len(files) THEN files[i + 1] ELSE NoItem]]

\* The n files of the last days are there, and no more of them, or enough.
LastFiles(n) ==
  /\ \A i \in 1 .. n : Day(now) - i + 1 \in exists
  /\ n = max_files \/ Day(now) - n \notin exists

\* Mutant: the files are queued newest first.
InitNewestFirst ==
  /\ pc = "initq"
  /\ \E n \in 0 .. max_files :
       LastFiles(n) /\ filenames_q' = QueueWith([i \in 1 .. n |-> Day(now) - i + 1])
  /\ pc' = "idle"
  /\ UNCHANGED <<max_files, now, late, pending, fd, rotation_tp, disk, num>>

\* init_filenames_q_: the files of the last days, up to a day that has none.
InitFilenamesQ ==
  /\ pc = "initq"
  /\ \E n \in 0 .. max_files :
       LastFiles(n) /\ filenames_q' = QueueWith([i \in 1 .. n |-> Day(now) - n + i])
  /\ pc' = "idle"
  /\ UNCHANGED <<max_files, now, late, pending, fd, rotation_tp, disk, num>>

-----------------------------------------------------------------------------
(* sink_it_: a message that cannot be written is reported and given up.    *)

GiveUp == pending' = Tail(pending) /\ pc' = "idle"

\* Mutants: a message at the rotation time itself is not past it; the file is
\* named after the time at which the message is written.
ShouldRotateLate == Head(pending).time > rotation_tp

FileNameByClock == Day(now)

ShouldRotate == Head(pending).time >= rotation_tp

FileName == Day(Head(pending).time)

SinkIt ==
  /\ pc = "idle" /\ pending # <<>>
  /\ IF ShouldRotate
     THEN \/ Open(FileName) /\ pc' = "rotate" /\ UNCHANGED pending
          \/ OpenFails /\ GiveUp
     ELSE pc' = "write" /\ UNCHANGED <<pending, fd, rotation_tp, disk>>
  /\ UNCHANGED <<max_files, now, late, filenames_q, num>>

\* Without a rotation: format and write, which may fail.
Write ==
  /\ pc = "write"
  /\ \/ content' = [content EXCEPT ![fd] = @ \cup {Head(pending)}]
     \/ UNCHANGED content
  /\ GiveUp
  /\ UNCHANGED <<max_files, now, late, sink, exists, num>>

\* The rest of a rotation: the next rotation time, then the message.
Rotate ==
  /\ pc = "rotate"
  /\ rotation_tp' = NextRotation
  /\ \/ content' = [content EXCEPT ![fd] = @ \cup {Head(pending)}]
        /\ IF max_files > 0 THEN pc' = "delete" /\ UNCHANGED pending ELSE GiveUp
     \/ UNCHANGED content /\ GiveUp
  /\ UNCHANGED <<max_files, now, late, fd, filenames_q, exists, num>>

\* delete_old_.  A file that cannot be removed is reported and forgotten.
DeleteOld ==
  /\ pc = "delete"
  /\ IF IsFull(filenames_q)
     THEN /\ \/ exists' = exists \ {FrontItem(filenames_q)}
                /\ content' = [content EXCEPT ![FrontItem(filenames_q)] = {}]
             \/ UNCHANGED disk
          /\ filenames_q' = PushBack(PopFront(filenames_q), fd)
     ELSE filenames_q' = PushBack(filenames_q, fd) /\ UNCHANGED disk
  /\ GiveUp
  /\ UNCHANGED <<max_files, now, late, fd, rotation_tp, num>>

Next ==
  \/ Tick \/ Log \/ Stop \/ Construct \/ SetRotation \/ InitFilenamesQ
  \/ SinkIt \/ Write \/ Rotate \/ DeleteOld

Spec == Init /\ [][Next]_vars

-----------------------------------------------------------------------------
(* Properties.                                                             *)

\* sink_it_ never writes to a file that is not open, also after an open that
\* failed: the rotation time stays, so the next message tries again.
FileIsOpen == pc \in {"write", "rotate", "delete"} => fd # Closed

\* Whoever reads the files by date reads the messages in their order, and no
\* message is in a file of a later day.
FilesInOrder ==
  \A d, e \in Days : \A m \in content[d], n \in content[e] :
    /\ d <= Day(m.time)
    /\ m.num < n.num => d <= e

\* "daily file sink which rotates on given time": with rotation at midnight a
\* message is in the file of its day, unless a midnight found the sink at work.
OwnDay ==
  RotationTick = 0 /\ ~late =>
    \A d \in Days : \A m \in content[d] : Day(m.time) = d

\* delete_old_ gives up a file only when max_files newer ones are there.
NewestKept ==
  [][\A d \in exists \ exists' : Cardinality({e \in exists' : e > d}) >= max_files]_vars

-----------------------------------------------------------------------------
(* The inductive invariants behind these properties.                       *)

TypeInv ==
  /\ max_files \in Nat /\ now \in 0 .. MaxTime /\ num \in 0 .. MaxMsgs
  /\ late \in BOOLEAN
  /\ pc \in {"down", "ctor", "initq", "idle", "write", "rotate", "delete"}
  /\ pending \in Seq(Messages)
  /\ fd \in Days \cup {Closed} /\ rotation_tp \in Nat
  /\ content \in [Days -> SUBSET Messages]

\* The message at hand is already in the file while old files are deleted.
FirstUnwritten == IF pc = "delete" THEN 2 ELSE 1

\* Messages come to the sink in the order of their numbers and times, after
\* all those that were written.
OrderInv ==
  /\ pc \in {"down", "ctor", "initq"} => pending = <<>>
  /\ pc \in {"write", "rotate", "delete"} => pending # <<>>
  /\ \A i \in 1 .. Len(pending) : pending[i].num <= num /\ pending[i].time <= now
  /\ \A i, j \in 1 .. Len(pending) : i < j =>
       pending[i].num < pending[j].num /\ pending[i].time <= pending[j].time
  /\ \A d \in Days : \A m \in content[d] :
       /\ m.num <= num /\ m.time <= now /\ d <= Day(m.time)
       /\ \A i \in FirstUnwritten .. Len(pending) :
            m.num < pending[i].num /\ m.time <= pending[i].time

\* The open file is the newest with anything in it, and is not newer than a
\* message to come; a file that could not be opened is tried for again.
OpenInv ==
  /\ pc = "down" => fd = Closed
  /\ fd = Closed => pc \in {"down", "idle"}
  /\ pc = "idle" /\ fd = Closed =>
       rotation_tp <= now /\ \A i \in 1 .. Len(pending) : rotation_tp <= pending[i].time
  /\ fd <= Day(now) /\ \A i \in 1 .. Len(pending) : fd <= Day(pending[i].time)
  /\ fd # Closed => \A d \in Days : content[d] # {} => d <= fd

\* With rotation at midnight, and no midnight that found the sink at work: the
\* rotation time is the end of the day of the open file.
MidnightInv ==
  RotationTick = 0 /\ ~late =>
    /\ \A i \in 1 .. Len(pending) : Day(pending[i].time) = Day(now)
    /\ pc = "ctor" => fd = Day(now)
    /\ pc = "rotate" => fd = Day(Head(pending).time)
    /\ pc \in {"initq", "idle", "write", "delete"} /\ fd # Closed =>
         rotation_tp = (fd + 1) * DayLen
    /\ pc = "write" => Head(pending).time < rotation_tp
=============================================================================
