----------------------------- MODULE DiskWriter -----------------------------
(***************************************************************************)
(* SpscDiskWriter: a ring of kCapacity slots between the event loop, which *)
(* calls enqueue, drain and stop, and one worker thread.                   *)
(*                                                                         *)
(* One action is one access to a variable both threads use (a head_,       *)
(* tail_, busy_, stopping_ or queue_ access), so every interleaving of the *)
(* two threads is a behaviour.  Each index has one writer, stores that     *)
(* publish something are releases and the loads that look for them         *)
(* acquires, so sequentially consistent steps show what the hardware can.  *)
(***************************************************************************)
EXTENDS Integers, Sequences

CONSTANTS kCapacity, \* slots of the ring; one always stays free
          MaxTasks   \* bound: calls of enqueue

ASSUME CapacityAssumption == kCapacity \in Nat \ {0, 1}
ASSUME TaskAssumption == MaxTasks \in Nat

Task == 1..MaxTasks
NoTask == 0
Slots == 0..(kCapacity - 1)

VARIABLES
  queue,     \* queue_
  head, tail, busy, stopping, failed,
  loop,      \* where the event loop is: "idle" or inside one of the calls
  newTask,   \* the argument of the last enqueue, counting the calls
  worker,    \* where run() is
  task,      \* run()'s local task
  accepted,  \* tasks for which enqueue returned true, oldest first
  ran        \* tasks that were executed, oldest first

loopVars   == <<tail, stopping, loop, newTask, accepted>>
workerVars == <<head, busy, failed, worker, task, ran>>
vars       == <<queue, loopVars, workerVars>>

\* Mutant of increment: the index does not wrap.
incrementNoWrap(value) == value + 1

increment(value) == (value + 1) % kCapacity

-----------------------------------------------------------------------------
(* The event loop's calls.                                                  *)

\* enqueue: a writer that is stopping refuses ...
EnqueueCall ==
  /\ loop = "idle"
  /\ newTask < MaxTasks
  /\ newTask' = newTask + 1
  /\ loop' = IF stopping THEN "idle" ELSE "checkFull"
  /\ UNCHANGED <<queue, tail, stopping, accepted, workerVars>>

\* Mutant of EnqueueCheckFull: all slots are used, none stays free.
EnqueueNoGap ==
  /\ loop = "checkFull"
  /\ loop' = "store"
  /\ UNCHANGED <<queue, tail, stopping, newTask, accepted, workerVars>>

\* ... and so does a full ring.  tail_ is the event loop's own.
EnqueueCheckFull ==
  /\ loop = "checkFull"
  /\ loop' = IF increment(tail) = head THEN "idle" ELSE "store"
  /\ UNCHANGED <<queue, tail, stopping, newTask, accepted, workerVars>>

\* Mutant of EnqueueStore: the task goes into the slot after the tail.
EnqueueStoreNext ==
  /\ loop = "store"
  /\ queue' = [queue EXCEPT ![increment(tail)] = newTask]
  /\ loop' = "publish"
  /\ UNCHANGED <<tail, stopping, newTask, accepted, workerVars>>

EnqueueStore ==
  /\ loop = "store"
  /\ queue' = [queue EXCEPT ![tail] = newTask]
  /\ loop' = "publish"
  /\ UNCHANGED <<tail, stopping, newTask, accepted, workerVars>>

EnqueuePublish ==
  /\ loop = "publish"
  /\ tail' = increment(tail)
  /\ accepted' = Append(accepted, newTask)
  /\ loop' = "idle"
  /\ UNCHANGED <<queue, stopping, newTask, workerVars>>

DrainCall ==
  /\ loop = "idle"
  /\ loop' = "drainEmpty"
  /\ UNCHANGED <<queue, tail, stopping, newTask, accepted, workerVars>>

\* drain looks at the ring, then at busy_, and starts over until both are
\* quiet.
DrainEmpty ==
  /\ loop = "drainEmpty"
  /\ head = tail
  /\ loop' = "drainBusy"
  /\ UNCHANGED <<queue, tail, stopping, newTask, accepted, workerVars>>

DrainBusy ==
  /\ loop = "drainBusy"
  /\ loop' = IF busy THEN "drainEmpty" ELSE "idle"
  /\ UNCHANGED <<queue, tail, stopping, newTask, accepted, workerVars>>

\* stop: only the first call joins the worker.
StopCall ==
  /\ loop = "idle"
  /\ stopping' = TRUE
  /\ loop' = IF stopping THEN "idle" ELSE "join"
  /\ UNCHANGED <<queue, tail, newTask, accepted, workerVars>>

StopJoin ==
  /\ loop = "join"
  /\ worker = "exited"
  /\ loop' = "idle"
  /\ UNCHANGED <<queue, tail, stopping, newTask, accepted, workerVars>>

Loop == EnqueueCall \/ EnqueueCheckFull \/ EnqueueStore \/ EnqueuePublish
        \/ DrainCall \/ DrainEmpty \/ DrainBusy \/ StopCall \/ StopJoin

-----------------------------------------------------------------------------
(* run, the worker thread.                                                  *)

\* Mutant of WorkerLoad: the flag is looked at before the ring.
WorkerLoadStopFirst ==
  /\ worker = "load"
  /\ worker' = IF stopping THEN "exited" ELSE IF head = tail THEN "checkStop" ELSE "setBusy"
  /\ UNCHANGED <<queue, loopVars, head, busy, failed, task, ran>>

WorkerLoad ==
  /\ worker = "load"
  /\ worker' = IF head = tail THEN "checkStop" ELSE "setBusy"
  /\ UNCHANGED <<queue, loopVars, head, busy, failed, task, ran>>

\* Mutant of WorkerCheckStop: the worker sleeps on although it was stopped.
WorkerNeverStops ==
  /\ worker = "checkStop"
  /\ worker' = "load"
  /\ UNCHANGED <<queue, loopVars, head, busy, failed, task, ran>>

\* stopping_ is read after the ring was found empty.
WorkerCheckStop ==
  /\ worker = "checkStop"
  /\ worker' = IF stopping THEN "exited" ELSE "load"
  /\ UNCHANGED <<queue, loopVars, head, busy, failed, task, ran>>

\* Mutant of WorkerSetBusy: busy_ is not set.
WorkerNotBusy ==
  /\ worker = "setBusy"
  /\ worker' = "move"
  /\ UNCHANGED <<queue, loopVars, head, busy, failed, task, ran>>

WorkerSetBusy ==
  /\ worker = "setBusy"
  /\ busy' = TRUE
  /\ worker' = "move"
  /\ UNCHANGED <<queue, loopVars, head, failed, task, ran>>

WorkerMove ==
  /\ worker = "move"
  /\ task' = queue[head]
  /\ queue' = [queue EXCEPT ![head] = NoTask]
  /\ worker' = "advance"
  /\ UNCHANGED <<loopVars, head, busy, failed, ran>>

WorkerAdvance ==
  /\ worker = "advance"
  /\ head' = increment(head)
  /\ worker' = "run"
  /\ UNCHANGED <<queue, loopVars, busy, failed, task, ran>>

\* Mutant of WorkerRun: an exception ends the thread.
WorkerRunUncaught ==
  /\ worker = "run"
  /\ ran' = Append(ran, task)
  /\ task' = NoTask
  /\ \E throws \in BOOLEAN :
       /\ failed' = (failed \/ throws)
       /\ worker' = IF throws THEN "exited" ELSE "clearBusy"
  /\ UNCHANGED <<queue, loopVars, head, busy>>

\* A task that throws is recorded and counts as executed.
WorkerRun ==
  /\ worker = "run"
  /\ ran' = Append(ran, task)
  /\ task' = NoTask
  /\ \E throws \in BOOLEAN : failed' = (failed \/ throws)
  /\ worker' = "clearBusy"
  /\ UNCHANGED <<queue, loopVars, head, busy>>

WorkerClearBusy ==
  /\ worker = "clearBusy"
  /\ busy' = FALSE
  /\ worker' = "load"
  /\ UNCHANGED <<queue, loopVars, head, failed, task, ran>>

Worker == WorkerLoad \/ WorkerCheckStop \/ WorkerSetBusy \/ WorkerMove \/ WorkerAdvance
          \/ WorkerRun \/ WorkerClearBusy

-----------------------------------------------------------------------------
Init ==
  /\ queue = [i \in Slots |-> NoTask]
  /\ head = 0
  /\ tail = 0
  /\ busy = FALSE
  /\ stopping = FALSE
  /\ failed = FALSE
  /\ loop = "idle"
  /\ newTask = 0
  /\ worker = "load"
  /\ task = NoTask
  /\ accepted = <<>>
  /\ ran = <<>>

Next == Loop \/ Worker

\* Both threads keep running; the event loop need not make another call.
Fairness ==
  /\ WF_vars(Worker)
  /\ WF_vars(EnqueueCheckFull \/ EnqueueStore \/ EnqueuePublish \/ DrainEmpty \/ DrainBusy
             \/ StopJoin)

Spec == Init /\ [][Next]_vars /\ Fairness

-----------------------------------------------------------------------------
(* Properties.                                                              *)

\* Indices stay inside the ring and every variable in its type.
TypeOK ==
  /\ queue \in [Slots -> Nat]
  /\ head \in Slots
  /\ tail \in Slots
  /\ busy \in BOOLEAN
  /\ stopping \in BOOLEAN
  /\ failed \in BOOLEAN
  /\ loop \in {"idle", "checkFull", "store", "publish", "drainEmpty", "drainBusy", "join"}
  /\ newTask \in 0..MaxTasks
  /\ worker \in {"load", "checkStop", "setBusy", "move", "advance", "run", "clearBusy", "exited"}
  /\ task \in Nat
  /\ accepted \in Seq(Task)
  /\ ran \in Seq(Nat)

\* The two threads never touch the same slot at the same time: storing a task
\* and moving one out are plain accesses, a clash would be a data race.
NoSlotClash == ~(loop = "store" /\ worker = "move" /\ tail = head)

\* Every accepted task is executed at most once and in the order of the calls,
\* across the wrap of both indices.
Fifo ==
  /\ Len(ran) <= Len(accepted)
  /\ \A i \in 1..Len(ran) : ran[i] = accepted[i]

\* When drain returns, everything accepted before has been executed.
DrainComplete == [][loop = "drainBusy" /\ loop' = "idle" => ran = accepted]_vars

\* The ring read from head: how far slot i is behind it, how many tasks wait,
\* and the i-th of them.  The task the worker has moved out but not yet passed
\* with head_ still waits.
Dist(h, i) == IF i >= h THEN i - h ELSE i - h + kCapacity
Count      == Dist(head, tail)
SlotOf(i)  == IF head + i - 1 < kCapacity THEN head + i - 1 ELSE head + i - 1 - kCapacity
Holds(i)   == IF worker = "advance" /\ i = head THEN task ELSE queue[i]

Pending == [i \in 1..Count |-> Holds(SlotOf(i))]
Held == IF worker = "run" THEN task ELSE NoTask

\* The ring behaves like the bounded queue that the receiver's model uses.
Abstract == INSTANCE TaskQueue WITH Capacity <- kCapacity - 1, None <- NoTask,
                                    pending <- Pending, running <- Held
ImplementsTaskQueue == Abstract!Spec

\* An accepted task is eventually executed unless the writer is stopped.
AcceptedRuns ==
  \A n \in Task : (Len(accepted) >= n) ~> (Len(ran) >= n \/ stopping)

\* stop always returns; enqueue and drain return unless the writer was stopped
\* (a worker that has exited leaves a drain of a non-empty ring waiting).
CallsReturn ==
  /\ (loop = "join") ~> (loop = "idle")
  /\ (loop # "idle") ~> (loop = "idle" \/ stopping)

\* stop lets the worker finish: a worker that sees the flag only after another
\* look at the ring executes every accepted task before it exits.  A task that
\* is accepted, and stop called, between those two looks is left behind.
StopRunsAccepted ==
  (stopping /\ worker \notin {"checkStop", "exited"}) ~> (ran = accepted)
=============================================================================
