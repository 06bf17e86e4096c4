------------------------------ MODULE AsyncLog ------------------------------
(***************************************************************************)
(* The program's log: what YLog::initLog sets up in spdlog.  Threads post  *)
(* to the blocking queue of a thread pool, its one worker hands the items  *)
(* to the sink, a periodic thread posts flush requests, and at the end of  *)
(* the program the destructor of the registry takes all of it down.        *)
(*                                                                         *)
(* A section under queue_mutex_ is one step, and so is each notify_one,    *)
(* which comes after the mutex is released.  A thread that waits on a      *)
(* condition variable goes on when it is notified or spuriously.           *)
(*                                                                         *)
(* The pool is shared: the registry owns it (tp_), and a thread holds it   *)
(* from the lock() of the logger's weak pointer to the end of the call.    *)
(* Whoever lets go of it last runs its destructor.                         *)
(*                                                                         *)
(* A program that is killed or crashes simply stops: what then remains of  *)
(* the log is disk.                                                        *)
(*                                                                         *)
(* A message is its thread, its number and its level; messages below the   *)
(* level of the logger never get as far as the queue and are left out.     *)
(***************************************************************************)
EXTENDS CircularQ, FiniteSets

CONSTANTS
  Threads,         \* the threads that log, Gui among them
  Gui,             \* the thread that runs main()
  QueueSize,       \* q_max_items
  MaxLogs,         \* bound: messages a thread logs
  Levels,          \* bound: the levels at which they log
  OverflowPolicy   \* "block" or "overrun_oldest"

Flusher == "flusher"

ASSUME AsyncLogAssumption ==
  /\ Gui \in Threads
  /\ Flusher \notin Threads
  /\ QueueSize \in Nat \ {0}
  /\ MaxLogs \in Nat
  /\ Levels \subseteq {"info", "err"}
  /\ OverflowPolicy \in {"block", "overrun_oldest"}

Posters == Threads \cup {Flusher}

Messages == [from : Threads, num : 1 .. MaxLogs, level : Levels]

LogItem(m) == [type |-> "log", msg |-> m]
FlushItem == [type |-> "flush"]
TerminateItem == [type |-> "terminate"]
PostItems == {LogItem(m) : m \in Messages} \cup {FlushItem, TerminateItem}

VARIABLES
  q,           \* the queue of the pool
  pc, item,    \* per poster: where it is in a call, and what it posts
  worker,      \* where the worker thread is
  witem,       \* the item the worker is dealing with
  logged,      \* per thread: how many messages it has logged
  tp,          \* the registry owns the pool
  registered,  \* the registry knows the logger
  active,      \* active_ of the periodic worker
  stage,       \* how far the program has come
  buffer,      \* messages in the buffer of the log file
  disk,        \* messages in the log file
  dropped      \* messages refused or not written, counted by err_handler_

queue == <<q, pc, item, worker, witem>>
file  == <<buffer, disk, dropped>>
vars  == <<queue, logged, tp, registered, active, stage, file>>

InCall == {"enqueue", "wait", "notify"}

Queues == Queue(QueueSize, PostItems)

\* YLog::initLog.
Init ==
  /\ q = NewQueue(QueueSize)
  /\ pc = [t \in Posters |-> "idle"] /\ item = [t \in Posters |-> NoItem]
  /\ worker = "dequeue" /\ witem = NoItem
  /\ logged = [t \in Threads |-> 0]
  /\ tp = TRUE /\ registered = TRUE /\ active = TRUE
  /\ stage = "running"
  /\ buffer = {} /\ disk = {} /\ dropped = {}

Alive == stage # "exited"

\* t holds a shared pointer to the pool.
Holds(t) == pc[t] \in InCall /\ item[t] # TerminateItem

PoolExists == tp \/ \E t \in Posters : Holds(t)

-----------------------------------------------------------------------------
(* Posting: mpmc_blocking_queue::enqueue and enqueue_nowait.               *)

StartPost(t, x) ==
  /\ pc' = [pc EXCEPT ![t] = "enqueue"]
  /\ item' = [item EXCEPT ![t] = x]

\* Only a call with the policy block waits for room.
Blocked(t) ==
  IsFull(q) /\ (OverflowPolicy = "block" \/ item[t] = TerminateItem)

EnqueueOk(t) ==
  /\ Alive
  /\ pc[t] = "enqueue" /\ ~Blocked(t)
  /\ q' = PushBack(q, item[t])
  /\ pc' = [pc EXCEPT ![t] = "notify"]
  /\ UNCHANGED <<item, worker, witem, logged, tp, registered, active, stage, file>>

\* pop_cv_.wait.
EnqueueWaits(t) ==
  /\ Alive
  /\ pc[t] = "enqueue" /\ Blocked(t)
  /\ pc' = [pc EXCEPT ![t] = "wait"]
  /\ UNCHANGED <<q, item, worker, witem, logged, tp, registered, active, stage, file>>

\* push_cv_.notify_one, and the end of the call: the pool pointer is dropped.
PostDone(t) ==
  /\ Alive /\ pc[t] = "notify"
  /\ worker' = IF worker = "wait" THEN "dequeue" ELSE worker
  /\ LET last == item[t] # TerminateItem /\ ~tp /\ \A u \in Posters \ {t} : ~Holds(u)
     IN  IF last
         THEN StartPost(t, TerminateItem)
         ELSE /\ pc' = [pc EXCEPT ![t] = IF item[t] = TerminateItem THEN "join" ELSE "idle"]
              /\ item' = [item EXCEPT ![t] = NoItem]
  /\ UNCHANGED <<q, witem, logged, tp, registered, active, stage, file>>

\* The end of ~thread_pool: the worker is joined.
Joined(t) ==
  /\ Alive /\ pc[t] = "join" /\ worker = "dead"
  /\ pc' = [pc EXCEPT ![t] = "idle"]
  /\ UNCHANGED <<q, item, worker, witem, logged, tp, registered, active, stage, file>>

\* logger::log and async_logger::sink_it_.  Gui logs only before main() ends.
Log(t) ==
  /\ Alive
  /\ pc[t] = "idle" /\ (t = Gui => stage = "running")
  /\ logged[t] < MaxLogs
  /\ logged' = [logged EXCEPT ![t] = @ + 1]
  /\ \E level \in Levels :
       LET m == [from |-> t, num |-> logged[t] + 1, level |-> level]
       IN  IF PoolExists
           THEN StartPost(t, LogItem(m)) /\ UNCHANGED dropped
           ELSE dropped' = dropped \cup {m} /\ UNCHANGED <<pc, item>>
  /\ UNCHANGED <<q, worker, witem, tp, registered, active, stage, buffer, disk>>

-----------------------------------------------------------------------------
(* The worker: thread_pool::worker_loop_.                                  *)

WorkerAt(where) == Alive /\ worker = where

\* mpmc_blocking_queue::dequeue.
Dequeue ==
  /\ WorkerAt("dequeue") /\ ~IsEmpty(q)
  /\ witem' = FrontItem(q)
  /\ q' = PopFront(q)
  /\ worker' = "notify"
  /\ UNCHANGED <<pc, item, logged, tp, registered, active, stage, file>>

DequeueWaits ==
  /\ WorkerAt("dequeue") /\ IsEmpty(q)
  /\ worker' = "wait"
  /\ UNCHANGED <<q, pc, item, witem, logged, tp, registered, active, stage, file>>

Waiting == {t \in Posters : pc[t] = "wait"}

\* Mutant: pop_cv_ is not notified.
NotifyPosterNot(t) ==
  /\ WorkerAt("notify") /\ t \in Waiting
  /\ worker' = "process"
  /\ UNCHANGED <<q, pc, item, witem, logged, tp, registered, active, stage, file>>

\* pop_cv_.notify_one wakes t, or nobody waits.
NotifyPoster(t) ==
  /\ WorkerAt("notify") /\ t \in Waiting
  /\ pc' = [pc EXCEPT ![t] = "enqueue"]
  /\ worker' = "process"
  /\ UNCHANGED <<q, item, witem, logged, tp, registered, active, stage, file>>

NotifyNobody ==
  /\ WorkerAt("notify") /\ Waiting = {}
  /\ worker' = "process"
  /\ UNCHANGED <<q, pc, item, witem, logged, tp, registered, active, stage, file>>

\* backend_sink_it_: the sink writes the message or throws, and err_handler_
\* counts it (it prints at most one report a second).
SinkIt ==
  /\ WorkerAt("process") /\ witem.type = "log"
  /\ \/ buffer' = buffer \cup {witem.msg} /\ UNCHANGED dropped
     \/ dropped' = dropped \cup {witem.msg} /\ UNCHANGED buffer
  /\ worker' = IF witem.msg.level = "err" THEN "flush" ELSE "dequeue"
  /\ witem' = NoItem
  /\ UNCHANGED <<q, pc, item, logged, tp, registered, active, stage, disk>>

\* Mutant: a flush request is taken off the queue and forgotten.
BackendFlushOnError ==
  /\ \/ WorkerAt("flush") /\ disk' = disk \cup buffer /\ buffer' = {}
     \/ WorkerAt("process") /\ witem.type = "flush" /\ UNCHANGED <<disk, buffer>>
  /\ worker' = "dequeue"
  /\ witem' = NoItem
  /\ UNCHANGED <<q, pc, item, logged, tp, registered, active, stage, dropped>>

\* backend_flush_, after an error message or for a flush request.
BackendFlush ==
  /\ \/ WorkerAt("flush")
     \/ WorkerAt("process") /\ witem.type = "flush"
  /\ disk' = disk \cup buffer /\ buffer' = {}
  /\ worker' = "dequeue"
  /\ witem' = NoItem
  /\ UNCHANGED <<q, pc, item, logged, tp, registered, active, stage, dropped>>

Terminate ==
  /\ WorkerAt("process") /\ witem.type = "terminate"
  /\ worker' = "dead"
  /\ witem' = NoItem
  /\ UNCHANGED <<q, pc, item, logged, tp, registered, active, stage, file>>

SpuriousWakeup ==
  /\ Alive
  /\ \/ /\ worker = "wait" /\ worker' = "dequeue"
        /\ UNCHANGED pc
     \/ /\ \E t \in Waiting : pc' = [pc EXCEPT ![t] = "enqueue"]
        /\ UNCHANGED worker
  /\ UNCHANGED <<q, item, witem, logged, tp, registered, active, stage, file>>

-----------------------------------------------------------------------------
(* The periodic flusher, YLog::releaseLog and the end of the program.      *)

\* The callback of the periodic worker is registry::flush_all.  It runs with
\* mutex_ and logger_map_mutex_ held, until the request is in the queue.
FlushAll ==
  /\ Alive
  /\ pc[Flusher] = "idle" /\ active
  /\ registered /\ PoolExists
  /\ StartPost(Flusher, FlushItem)
  /\ UNCHANGED <<q, worker, witem, logged, tp, registered, active, stage, file>>

FlusherReturns ==
  /\ Alive
  /\ pc[Flusher] = "idle" /\ ~active
  /\ pc' = [pc EXCEPT ![Flusher] = "out"]
  /\ UNCHANGED <<q, item, worker, witem, logged, tp, registered, active, stage, file>>

\* registry::drop_all needs logger_map_mutex_.  YLog::Logger stays as it is.
ReleaseLog ==
  /\ stage = "running" /\ pc[Gui] = "idle"
  /\ pc[Flusher] = "idle"
  /\ registered' = FALSE
  /\ UNCHANGED <<queue, logged, tp, active, stage, file>>

\* main() returns: ~registry destroys its members, the last one first.
Exit ==
  /\ stage = "running" /\ pc[Gui] = "idle"
  /\ stage' = "stopFlusher"
  /\ UNCHANGED <<queue, logged, tp, registered, active, file>>

\* ~periodic_worker needs mutex_, which the flusher has during a callback.
StopFlusher ==
  /\ stage = "stopFlusher" /\ pc[Flusher] = "idle"
  /\ active' = FALSE
  /\ stage' = "joinFlusher"
  /\ UNCHANGED <<queue, logged, tp, registered, file>>

JoinFlusher ==
  /\ stage = "joinFlusher" /\ pc[Flusher] = "out"
  /\ stage' = "resetPool"
  /\ UNCHANGED <<queue, logged, tp, registered, active, file>>

\* Mutants: the worker is joined without having been asked to stop; the pool
\* is destroyed while a thread is still in a call.
ResetPoolOnly ==
  /\ stage = "resetPool"
  /\ tp' = FALSE
  /\ IF \E t \in Posters : Holds(t)
     THEN UNCHANGED pc
     ELSE pc' = [pc EXCEPT ![Gui] = "join"]
  /\ stage' = "unload"
  /\ UNCHANGED <<q, item, worker, witem, logged, registered, active, file>>

ResetPoolAlways ==
  /\ stage = "resetPool"
  /\ tp' = FALSE
  /\ StartPost(Gui, TerminateItem)
  /\ stage' = "unload"
  /\ UNCHANGED <<q, worker, witem, logged, registered, active, file>>

\* tp_ is destroyed; if no thread is in a call this runs ~thread_pool.
ResetPool ==
  /\ stage = "resetPool"
  /\ tp' = FALSE
  /\ IF \E t \in Posters : Holds(t)
     THEN UNCHANGED <<pc, item>>
     ELSE StartPost(Gui, TerminateItem)
  /\ stage' = "unload"
  /\ UNCHANGED <<q, worker, witem, logged, registered, active, file>>

\* Mutant: the worker is not joined.
UnloadAtOnce ==
  /\ stage = "unload"
  /\ stage' = "exited"
  /\ registered' = FALSE
  /\ disk' = disk \cup buffer /\ buffer' = {}
  /\ UNCHANGED <<queue, logged, tp, active, dropped>>

\* The loggers go, YLog::Logger last, and the file is closed.
Unload ==
  /\ stage = "unload" /\ pc[Gui] = "idle"
  /\ stage' = "exited"
  /\ registered' = FALSE
  /\ disk' = disk \cup buffer /\ buffer' = {}
  /\ UNCHANGED <<queue, logged, tp, active, dropped>>

-----------------------------------------------------------------------------

\* Every step but the two that move an item into and out of the queue.
OtherStep ==
  \/ \E t \in Posters : EnqueueWaits(t) \/ PostDone(t) \/ Joined(t) \/ NotifyPoster(t)
  \/ \E t \in Threads : Log(t)
  \/ DequeueWaits \/ NotifyNobody \/ SinkIt \/ BackendFlush \/ Terminate
  \/ SpuriousWakeup
  \/ FlushAll \/ FlusherReturns \/ ReleaseLog
  \/ Exit \/ StopFlusher \/ JoinFlusher \/ ResetPool \/ Unload

Next == (\E t \in Posters : EnqueueOk(t)) \/ Dequeue \/ OtherStep

\* Threads that can run do run, the timer of the flusher goes off, and the
\* mutexes and condition variables starve nobody who competes for them.  No
\* fairness for logging, for releaseLog, for the end of the program and for
\* spurious wake-ups.
Fairness ==
  /\ \A t \in Posters :
       /\ SF_vars(EnqueueOk(t)) /\ SF_vars(NotifyPoster(t))
       /\ WF_vars(EnqueueWaits(t)) /\ WF_vars(PostDone(t)) /\ WF_vars(Joined(t))
  /\ WF_vars(Dequeue \/ DequeueWaits \/ NotifyNobody)
  /\ WF_vars(SinkIt \/ BackendFlush \/ Terminate)
  /\ SF_vars(FlushAll) /\ WF_vars(FlusherReturns)
  /\ SF_vars(StopFlusher) /\ WF_vars(JoinFlusher \/ ResetPool \/ Unload)

Spec == Init /\ [][Next]_vars

\* The flusher asks every three seconds: from some time on the worker has gone
\* through the queue whenever the next request comes.
TimerIsSlow == <>[][FlushAll => worker = "wait"]_vars

FairSpec == Spec /\ Fairness /\ TimerIsSlow

-----------------------------------------------------------------------------
(* Properties.                                                             *)

\* The worker ends only when nobody needs it: no item is left in the queue
\* and no thread is on its way into a queue that nobody empties.
NobodyLeftBehind ==
  worker = "dead" =>
    IsEmpty(q) /\ \A t \in Posters : pc[t] \notin {"enqueue", "wait"}

Posted(t, n) == \E m \in disk \cup dropped : m.from = t /\ m.num = n

\* A program that ends while no other thread is logging has every message in
\* the file, or has counted it as an error: nothing is left in queue or buffer.
ExitKeepsMessages ==
  stage = "exited" /\ (\A t \in Threads \ {Gui} : pc[t] = "idle") =>
    \A t \in Threads : \A n \in 1 .. logged[t] : Posted(t, n)

\* Every call into the log returns, also on a full queue and during exit.
CallsReturn ==
  \A t \in Posters : pc[t] # "idle" ~> pc[t] \in {"idle", "out"} \/ ~Alive

\* flush_every(3 s): a message in the queue gets into the file, or is an error,
\* while the program runs and the logger is registered.
MessagesReachDisk ==
  \A m \in Messages :
    (\E t \in Threads : pc[t] = "notify" /\ item[t] = LogItem(m))
      ~> (m \in disk \cup dropped \/ ~registered \/ ~Alive)

\* The end of the program comes: main() does not wait for the flusher or the
\* worker for ever, whatever they were doing and however full the queue is.
ExitEnds == stage = "stopFlusher" ~> ~Alive

-----------------------------------------------------------------------------
(* The inductive invariants behind NobodyLeftBehind and ExitKeepsMessages. *)

\* A thread that is in a call has an item to post.
CallsInv ==
  /\ q \in Queues
  /\ pc \in [Posters -> InCall \cup {"idle", "join", "out"}]
  /\ item \in [Posters -> PostItems \cup {NoItem}]
  /\ logged \in [Threads -> 0 .. MaxLogs]
  /\ \A t \in Posters : pc[t] \in InCall => item[t] \in PostItems

\* The worker has an item only between dequeue() and the end of its round.
WorkerInv ==
  /\ witem \in PostItems \cup {NoItem}
  /\ worker \in {"dequeue", "wait", "notify", "process", "flush", "dead"}
  /\ worker \notin {"notify", "process"} => witem = NoItem

\* The order in which ~registry takes its members down.
StageInv ==
  /\ stage \in {"running", "stopFlusher", "joinFlusher", "resetPool", "unload", "exited"}
  /\ tp <=> stage \notin {"unload", "exited"}
  /\ stage \in {"stopFlusher", "joinFlusher", "resetPool"} => pc[Gui] = "idle"
  /\ stage \in {"resetPool", "unload", "exited"} => pc[Flusher] = "out"
  /\ stage = "exited" => pc[Gui] = "idle" /\ buffer = {}

\* t has still to put its item into the queue.
Posting(t) == pc[t] \in {"enqueue", "wait"}

InQueue(x) == \E i \in 1 .. Size(q) : At(q, i - 1) = x

\* t runs ~thread_pool.
Destroys(t) == (pc[t] \in InCall /\ item[t] = TerminateItem) \/ pc[t] = "join"

\* The request to terminate is the last item ever posted, by the only thread
\* that still posts, and only when the pool has no owner left; a pool without
\* an owner is being destroyed or has lost its worker.
TerminateInv ==
  /\ ~PoolExists => worker = "dead" \/ \E t \in Posters : Destroys(t)
  /\ \A t \in Posters : Posting(t) /\ item[t] = TerminateItem =>
       ~PoolExists /\ \A u \in Posters \ {t} : ~Posting(u)
  /\ InQueue(TerminateItem) \/ witem = TerminateItem \/ worker = "dead" =>
       ~PoolExists /\ \A t \in Posters : ~Posting(t)
  /\ \A i \in 1 .. Size(q) : At(q, i - 1) = TerminateItem => i = Size(q)
  /\ witem = TerminateItem \/ worker = "dead" => Size(q) = 0

\* Every message that was logged is in its thread's call, in the queue, with
\* the worker, in the file or its buffer, or counted as an error.
Somewhere(m) ==
  \/ m \in disk \cup dropped \cup buffer
  \/ witem = LogItem(m) \/ InQueue(LogItem(m))
  \/ Posting(m.from) /\ item[m.from] = LogItem(m)

KeptInv ==
  \A t \in Threads : \A n \in 1 .. logged[t] :
    \E m \in Messages : m.from = t /\ m.num = n /\ Somewhere(m)
=============================================================================
