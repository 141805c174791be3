-------------------------- MODULE DiskWriterProofs --------------------------
(***************************************************************************)
(* The disk writer's ring for every capacity and every number of tasks.    *)
(* The inductive invariant ties the contents of the ring to the history of *)
(* accepted tasks through the distance of a slot from head.                *)
(***************************************************************************)
EXTENDS DiskWriter, SequenceTheorems, TLAPS

\* Tasks that left the ring: executed, or with the worker.
Taken == Len(ran) + (IF worker = "run" THEN 1 ELSE 0)

\* Room for the task being stored; a drain that saw an empty ring.
LoopInv ==
  /\ loop \in {"store", "publish"} => increment(tail) # head
  /\ loop \in {"checkFull", "store", "publish"} => newTask \in Task
  /\ loop = "publish" => queue[tail] = newTask
  /\ loop = "drainBusy" => head = tail

\* The worker is past its emptiness test only while there is a task.
WorkerInv ==
  /\ worker \in {"setBusy", "move", "advance"} => head # tail
  /\ worker \in {"move", "advance", "run", "clearBusy"} => busy
  /\ worker = "run" => task = accepted[Len(ran) + 1]

\* Slot i holds the task that was accepted Dist(head, i) after the oldest one.
RingInv ==
  /\ Len(accepted) = Taken + Count
  /\ \A i \in Slots : Dist(head, i) < Count => Holds(i) = accepted[Taken + Dist(head, i) + 1]

IInv == TypeOK /\ LoopInv /\ WorkerInv /\ RingInv /\ Fifo

\* increment (the ring's index step) is the successor that wraps at the end.
LEMMA IncrementWraps ==
  ASSUME NEW v \in Slots
  PROVE  /\ increment(v) = (IF v = kCapacity - 1 THEN 0 ELSE v + 1)
         /\ increment(v) \in Slots
<1>1. CASE v = kCapacity - 1
  BY <1>1, CapacityAssumption DEF increment, Slots
<1>2. CASE v # kCapacity - 1
  <2>1. v + 1 \in Nat /\ v + 1 < kCapacity /\ kCapacity \in Nat /\ kCapacity > 0
    BY <1>2, CapacityAssumption DEF Slots
  <2>2. (v + 1) % kCapacity = v + 1
    BY <2>1
  <2> QED BY <2>1, <2>2, <1>2 DEF increment, Slots
<1> QED BY <1>1, <1>2

\* The invariant holds initially: the ring is empty.
LEMMA InitIInv == Init => IInv
<1> SUFFICES ASSUME Init PROVE IInv
  OBVIOUS
<1> USE CapacityAssumption, TaskAssumption DEF Init
<1>1. TypeOK
  <2>1. queue \in [Slots -> Nat] BY DEF NoTask
  <2>2. accepted \in Seq(Task) /\ ran \in Seq(Nat) OBVIOUS
  <2>3. head \in Slots /\ tail \in Slots /\ newTask \in 0..MaxTasks /\ task \in Nat
    BY DEF Slots, NoTask
  <2> QED BY <2>1, <2>2, <2>3 DEF TypeOK
<1>2. LoopInv /\ WorkerInv BY DEF LoopInv, WorkerInv
<1>3. RingInv BY DEF RingInv, Count, Dist, Taken, Slots
<1>4. Fifo BY DEF Fifo
<1> QED BY <1>1, <1>2, <1>3, <1>4 DEF IInv

\* Every step of the event loop keeps it.
LEMMA LoopKeepsIInv == IInv /\ Loop => IInv'
<1> SUFFICES ASSUME IInv, Loop PROVE IInv'
  OBVIOUS
<1> USE CapacityAssumption, TaskAssumption DEF IInv, loopVars, workerVars
<1>w. increment(tail) = (IF tail = kCapacity - 1 THEN 0 ELSE tail + 1) /\ increment(tail) \in Slots
  BY IncrementWraps DEF TypeOK
<1>1. CASE EnqueueCall
  BY <1>1 DEF EnqueueCall, Task, TypeOK, LoopInv, WorkerInv, RingInv, Fifo, Count, Taken, Holds
<1>2. CASE EnqueueCheckFull
  BY <1>2 DEF EnqueueCheckFull, TypeOK, LoopInv, WorkerInv, RingInv, Fifo, Count, Taken, Holds,
              increment
<1>3. CASE EnqueueStore
  <2>1. TypeOK' BY <1>3 DEF EnqueueStore, TypeOK
  <2>2. LoopInv' /\ WorkerInv' /\ Fifo'
    BY <1>3 DEF EnqueueStore, TypeOK, LoopInv, WorkerInv, Fifo, increment
  <2>3. RingInv'
    <3>1. ASSUME NEW i \in Slots, Dist(head, i) < Count
          PROVE  Holds(i)' = Holds(i)
      BY <1>3, <3>1 DEF EnqueueStore, TypeOK, Holds, Dist, Count, Slots
    <3> QED BY <1>3, <3>1 DEF EnqueueStore, RingInv, Taken, Count
  <2> QED BY <2>1, <2>2, <2>3
<1>4. CASE EnqueuePublish
  <2>1. TypeOK' BY <1>4, <1>w DEF EnqueuePublish, TypeOK, LoopInv
  <2>2. Count' = Count + 1 /\ Count \in Nat
    BY <1>4, <1>w DEF EnqueuePublish, TypeOK, LoopInv, Count, Dist, Slots
  <2>3. Len(accepted') = Len(accepted) + 1 /\ accepted'[Len(accepted) + 1] = newTask
        /\ \A j \in 1..Len(accepted) : accepted'[j] = accepted[j]
    BY <1>4 DEF EnqueuePublish, TypeOK, LoopInv
  <2>3a. UNCHANGED <<queue, head, worker, task, ran, busy>> /\ loop' = "idle"
    BY <1>4 DEF EnqueuePublish
  <2>4. LoopInv' BY <2>3a DEF LoopInv
  <2>4a. Taken \in Nat /\ Taken' = Taken /\ Len(accepted) \in Nat /\ Len(ran) \in Nat
    BY <2>3a DEF Taken, TypeOK
  <2>5. WorkerInv'
    <3>1. worker \in {"setBusy", "move", "advance"} => head' # tail'
      BY <1>4, <1>w DEF EnqueuePublish, LoopInv
    <3>2. worker = "run" => Len(ran) + 1 \in 1..Len(accepted)
      BY <2>2, <2>4a DEF RingInv, Taken
    <3> QED BY <2>3, <2>3a, <3>1, <3>2 DEF WorkerInv
  <2>6. RingInv'
    <3>1. ASSUME NEW i \in Slots, Dist(head, i) < Count + 1
          PROVE  Holds(i)' = accepted'[Taken + Dist(head, i) + 1]
      <4>1. CASE i = tail
        <5>1. Dist(head, i) = Count BY <4>1 DEF Count
        <5>2. Holds(i)' = newTask
          BY <1>4, <4>1, <2>3a DEF Holds, LoopInv, WorkerInv, EnqueuePublish
        <5> QED BY <5>1, <5>2, <2>3 DEF RingInv
      <4>2. CASE i # tail
        <5>1. Dist(head, i) \in Nat /\ Dist(head, i) < Count
          BY <3>1, <4>2 DEF Count, Dist, Slots, TypeOK
        <5>2. Taken + Dist(head, i) + 1 \in 1..Len(accepted)
          BY <5>1, <2>2, <2>4a DEF RingInv
        <5> QED BY <5>1, <5>2, <2>3, <2>3a DEF RingInv, Holds
      <4> QED BY <4>1, <4>2
    <3> QED BY <3>1, <2>2, <2>3, <2>3a, <2>4a DEF RingInv
  <2>7. Fifo' BY <2>3, <2>3a, <2>4a DEF Fifo
  <2> QED BY <2>1, <2>4, <2>5, <2>6, <2>7
<1>5. CASE DrainCall
  BY <1>5 DEF DrainCall, TypeOK, LoopInv, WorkerInv, RingInv, Fifo, Count, Taken, Holds
<1>6. CASE DrainEmpty
  BY <1>6 DEF DrainEmpty, TypeOK, LoopInv, WorkerInv, RingInv, Fifo, Count, Taken, Holds
<1>7. CASE DrainBusy
  BY <1>7 DEF DrainBusy, TypeOK, LoopInv, WorkerInv, RingInv, Fifo, Count, Taken, Holds
<1>8. CASE StopCall
  BY <1>8 DEF StopCall, TypeOK, LoopInv, WorkerInv, RingInv, Fifo, Count, Taken, Holds
<1>9. CASE StopJoin
  BY <1>9 DEF StopJoin, TypeOK, LoopInv, WorkerInv, RingInv, Fifo, Count, Taken, Holds
<1> QED BY <1>1, <1>2, <1>3, <1>4, <1>5, <1>6, <1>7, <1>8, <1>9 DEF Loop

\* Every step of the worker keeps it.
LEMMA WorkerKeepsIInv == IInv /\ Worker => IInv'
<1> SUFFICES ASSUME IInv, Worker PROVE IInv'
  OBVIOUS
<1> USE CapacityAssumption, TaskAssumption DEF IInv, loopVars, workerVars
<1>w. /\ increment(head) = (IF head = kCapacity - 1 THEN 0 ELSE head + 1)
      /\ increment(head) \in Slots
      /\ increment(tail) = (IF tail = kCapacity - 1 THEN 0 ELSE tail + 1)
  BY IncrementWraps DEF TypeOK
<1>t. Taken \in Nat /\ Len(ran) \in Nat /\ Count \in Nat
  BY DEF Taken, TypeOK, Count, Dist, Slots
<1>1. CASE WorkerLoad
  BY <1>1 DEF WorkerLoad, TypeOK, LoopInv, WorkerInv, RingInv, Fifo, Count, Taken, Holds, increment
<1>2. CASE WorkerCheckStop
  BY <1>2 DEF WorkerCheckStop, TypeOK, LoopInv, WorkerInv, RingInv, Fifo, Count, Taken, Holds,
              increment
<1>3. CASE WorkerSetBusy
  BY <1>3 DEF WorkerSetBusy, TypeOK, LoopInv, WorkerInv, RingInv, Fifo, Count, Taken, Holds,
              increment
<1>4. CASE WorkerMove
  <2>1. TypeOK' BY <1>4 DEF WorkerMove, TypeOK, NoTask
  <2>2. LoopInv' /\ WorkerInv' /\ Fifo'
    BY <1>4 DEF WorkerMove, TypeOK, LoopInv, WorkerInv, Fifo, increment
  <2>3. \A i \in Slots : Holds(i)' = Holds(i)
    BY <1>4 DEF WorkerMove, TypeOK, Holds
  <2>4. RingInv' BY <1>4, <2>3 DEF WorkerMove, RingInv, Taken, Count
  <2> QED BY <2>1, <2>2, <2>4
<1>5. CASE WorkerAdvance
  <2>1. TypeOK' BY <1>5, <1>w DEF WorkerAdvance, TypeOK
  <2>2. head # tail BY <1>5 DEF WorkerAdvance, WorkerInv
  <2>3. LoopInv'
    <3>1. increment(tail)' = increment(tail) BY <1>5 DEF WorkerAdvance, increment
    <3>2. increment(tail) # increment(head) BY <1>w, <2>2 DEF TypeOK, Slots
    <3> QED BY <1>5, <2>2, <3>1, <3>2 DEF WorkerAdvance, LoopInv
  <2>4. Count > 0 /\ Dist(head, head) = 0
    BY <2>2 DEF Count, Dist, Slots, TypeOK
  <2>5. task = accepted[Taken + 1]
    <3>1. Holds(head) = accepted[Taken + 0 + 1] BY <2>4 DEF RingInv, TypeOK
    <3>2. Holds(head) = task BY <1>5 DEF WorkerAdvance, Holds
    <3>3. Taken + 0 + 1 = Taken + 1 BY <1>t
    <3> QED BY <3>1, <3>2, <3>3
  <2>6. WorkerInv'
    BY <1>5, <2>5 DEF WorkerAdvance, WorkerInv, Taken
  <2>7. Count' = Count - 1 /\ Taken' = Taken + 1
    BY <1>5, <1>w, <2>2 DEF WorkerAdvance, Count, Dist, Taken, TypeOK, Slots
  <2>8. ASSUME NEW i \in Slots, Dist(head', i) < Count'
        PROVE  Holds(i)' = accepted[Taken' + Dist(head', i) + 1]
    <3>1. i # head /\ Dist(head, i) = Dist(head', i) + 1
      BY <1>5, <1>w, <2>2, <2>8 DEF WorkerAdvance, Count, Dist, TypeOK, Slots
    <3>1a. Dist(head, i) \in Int /\ Dist(head', i) \in Int
      BY <1>5, <1>w DEF WorkerAdvance, Dist, Slots, TypeOK
    <3>2. Dist(head, i) < Count BY <3>1, <3>1a, <2>7, <2>8, <1>t
    <3>3. Holds(i)' = Holds(i) BY <1>5, <3>1 DEF WorkerAdvance, Holds
    <3>4. Holds(i) = accepted[Taken + Dist(head, i) + 1] BY <3>2 DEF RingInv
    <3>5. Taken + Dist(head, i) + 1 = Taken' + Dist(head', i) + 1
      BY <3>1, <3>1a, <2>7, <1>t
    <3> QED BY <3>3, <3>4, <3>5
  <2>9. RingInv' BY <1>5, <2>7, <2>8, <1>t DEF WorkerAdvance, RingInv
  <2>10. Fifo' BY <1>5 DEF WorkerAdvance, Fifo
  <2> QED BY <2>1, <2>3, <2>6, <2>9, <2>10
<1>6. CASE WorkerRun
  <2>1. TypeOK' BY <1>6 DEF WorkerRun, TypeOK, NoTask
  <2>2. LoopInv' /\ WorkerInv' BY <1>6 DEF WorkerRun, LoopInv, WorkerInv, increment
  <2>3. Len(ran') = Len(ran) + 1 /\ ran'[Len(ran) + 1] = task
        /\ \A j \in 1..Len(ran) : ran'[j] = ran[j]
    BY <1>6 DEF WorkerRun, TypeOK
  <2>4. Taken' = Taken /\ Count' = Count /\ Taken = Len(ran) + 1
    BY <1>6, <2>3 DEF WorkerRun, Taken, Count
  <2>5. RingInv' BY <1>6, <2>4 DEF WorkerRun, RingInv, Holds
  <2>6. Fifo'
    BY <1>6, <2>3, <2>4, <1>t DEF WorkerRun, Fifo, WorkerInv, RingInv
  <2> QED BY <2>1, <2>2, <2>5, <2>6
<1>7. CASE WorkerClearBusy
  BY <1>7 DEF WorkerClearBusy, TypeOK, LoopInv, WorkerInv, RingInv, Fifo, Count, Taken, Holds,
              increment
<1> QED BY <1>1, <1>2, <1>3, <1>4, <1>5, <1>6, <1>7 DEF Worker

\* The inductive invariant of the ring.
THEOREM InvariantHolds == Spec => []IInv
<1>1. IInv /\ [Next]_vars => IInv'
  <2> SUFFICES ASSUME IInv, [Next]_vars PROVE IInv'
    OBVIOUS
  <2>1. CASE Next BY <2>1, LoopKeepsIInv, WorkerKeepsIInv DEF Next
  <2>2. CASE UNCHANGED vars
    BY <2>2 DEF vars, loopVars, workerVars, IInv, TypeOK, LoopInv, WorkerInv, RingInv, Fifo, Count,
                Taken, Holds, increment
  <2> QED BY <2>1, <2>2
<1> QED BY <1>1, InitIInv, PTL DEF Spec

\* The indices stay in the ring.
THEOREM TypeCorrect == Spec => []TypeOK
<1>1. IInv => TypeOK BY DEF IInv
<1> QED BY <1>1, InvariantHolds, PTL

\* enqueue's store and run's move never meet in a slot: the queue_ array,
\* which is not atomic, has no data race.
THEOREM RaceFree == Spec => []NoSlotClash
<1>1. IInv => NoSlotClash BY DEF IInv, WorkerInv, NoSlotClash
<1> QED BY <1>1, InvariantHolds, PTL

\* Tasks run in the order in which enqueue accepted them, each once.
THEOREM FifoOrder == Spec => []Fifo
<1>1. IInv => Fifo BY DEF IInv
<1> QED BY <1>1, InvariantHolds, PTL

\* drain returns only when everything that was accepted has been executed.
THEOREM DrainIsComplete == Spec => DrainComplete
<1>1. IInv /\ [Next]_vars => [loop = "drainBusy" /\ loop' = "idle" => ran = accepted]_vars
  <2> SUFFICES ASSUME IInv, Next, loop = "drainBusy", loop' = "idle" PROVE ran = accepted
    BY DEF vars, loopVars
  <2>1. ~busy
    BY DEF Next, Loop, Worker, EnqueueCall, EnqueueCheckFull, EnqueueStore, EnqueuePublish,
           DrainCall, DrainEmpty, DrainBusy, StopCall, StopJoin, WorkerLoad, WorkerCheckStop,
           WorkerSetBusy, WorkerMove, WorkerAdvance, WorkerRun, WorkerClearBusy, loopVars
  <2>2. Count = 0 BY CapacityAssumption DEF IInv, LoopInv, TypeOK, Count, Dist, Slots
  <2>3. Len(ran) = Len(accepted)
    BY <2>1, <2>2 DEF IInv, WorkerInv, RingInv, Taken, TypeOK
  <2> QED BY <2>3 DEF IInv, Fifo, TypeOK, Task
<1> QED BY <1>1, InvariantHolds, PTL DEF Spec, DrainComplete

-----------------------------------------------------------------------------
(* The ring implements the bounded queue of TaskQueue.                      *)

\* Read from head, the ring shows the accepted tasks that were not taken.
LEMMA PendingIsAccepted ==
  IInv => Pending = [i \in 1..Count |-> accepted[Taken + i]]
<1> SUFFICES ASSUME IInv PROVE Pending = [i \in 1..Count |-> accepted[Taken + i]]
  OBVIOUS
<1> USE CapacityAssumption DEF IInv
<1>1. Count \in Nat /\ Count < kCapacity BY DEF Count, Dist, TypeOK, Slots
<1>2. Taken \in Nat BY DEF Taken, TypeOK
<1>3. ASSUME NEW i \in 1..Count PROVE Holds(SlotOf(i)) = accepted[Taken + i]
  <2>1. SlotOf(i) \in Slots /\ Dist(head, SlotOf(i)) = i - 1
    BY <1>1 DEF SlotOf, Dist, TypeOK, Slots
  <2>2. Taken + (i - 1) + 1 = Taken + i BY <1>1, <1>2
  <2>3. i - 1 < Count BY <1>1
  <2> QED BY <2>1, <2>2, <2>3 DEF RingInv
<1> QED BY <1>1, <1>2, <1>3 DEF Pending

\* An empty ring is an empty queue.
LEMMA InitRefines == Init => Abstract!Init
<1> SUFFICES ASSUME Init PROVE Abstract!Init
  OBVIOUS
<1>1. Count = 0 BY DEF Init, Count, Dist
<1>2. Pending = <<>> BY <1>1 DEF Pending
<1> QED BY <1>2 DEF Init, Held, Abstract!Init

\* Publishing the tail adds a task, advancing the head takes one, running it
\* ends it, and every other access is invisible to the queue.
LEMMA StepRefines ==
  ASSUME IInv, IInv', [Next]_vars
  PROVE  [Abstract!Next]_(<<Pending, Held, ran>>)
<1> USE CapacityAssumption, TaskAssumption
<1>p. Pending = [i \in 1..Count |-> accepted[Taken + i]] BY PendingIsAccepted
<1>q. Pending' = [i \in 1..Count' |-> accepted'[Taken' + i]]
  <2>1. (Pending = [i \in 1..Count |-> accepted[Taken + i]])'
    BY PendingIsAccepted, PTL
  <2> QED BY <2>1
<1>t. Count \in Nat /\ Taken \in Nat /\ accepted \in Seq(Task) /\ Len(accepted) = Taken + Count
      /\ Len(ran) \in Nat
  <2>1. TypeOK /\ RingInv BY DEF IInv
  <2>2. Count \in Nat BY <2>1 DEF TypeOK, Count, Dist, Slots
  <2>3. Len(ran) \in Nat /\ Taken \in Nat BY <2>1 DEF TypeOK, Taken
  <2> QED BY <2>1, <2>2, <2>3 DEF TypeOK, RingInv
<1>s. ASSUME Count' = Count, Taken' = Taken, accepted' = accepted, Held' = Held, ran' = ran
      PROVE  UNCHANGED <<Pending, Held, ran>>
  BY <1>p, <1>q, <1>s
<1>1. CASE EnqueuePublish
  <2>1. Count' = Count + 1 /\ Count < kCapacity - 1
    <3>1. increment(tail) = IF tail = kCapacity - 1 THEN 0 ELSE tail + 1
      BY IncrementWraps DEF IInv, TypeOK
    <3> QED BY <1>1, <3>1 DEF EnqueuePublish, IInv, TypeOK, LoopInv, Count, Dist, Slots, workerVars
  <2>2. UNCHANGED <<Held, ran>> /\ Taken' = Taken
    BY <1>1 DEF EnqueuePublish, workerVars, Held, Taken
  <2>3. newTask \in Task /\ accepted' = Append(accepted, newTask)
    BY <1>1 DEF EnqueuePublish, IInv, LoopInv
  <2>4. Len(Pending) = Count BY <1>p, <1>t
  <2>5. Pending' = Append(Pending, newTask)
    BY <1>p, <1>q, <1>t, <2>1, <2>2, <2>3
  <2> QED BY <2>1, <2>2, <2>3, <2>4, <2>5 DEF Abstract!Next, Abstract!Put
<1>2. CASE WorkerAdvance
  <2>1. Count' = Count - 1 /\ Count > 0
    <3>1. increment(head) = IF head = kCapacity - 1 THEN 0 ELSE head + 1
      BY IncrementWraps DEF IInv, TypeOK
    <3> QED BY <1>2, <3>1 DEF WorkerAdvance, IInv, TypeOK, WorkerInv, Count, Dist, Slots, loopVars
  <2>2. UNCHANGED <<accepted, ran>> /\ Taken' = Taken + 1 /\ Taken = Len(ran)
    BY <1>2, <1>t DEF WorkerAdvance, loopVars, Taken
  <2>3. Held = NoTask /\ Held' = accepted[Taken + 1]
    BY <1>2, <2>2 DEF WorkerAdvance, Held, IInv, WorkerInv
  <2>4. Pending # <<>> /\ Head(Pending) = accepted[Taken + 1]
    BY <1>p, <1>t, <2>1
  <2>5. Pending' = Tail(Pending)
    <3>1. \A i \in 1..Count : accepted[Taken + i] \in Task BY <1>t
    <3>2. Pending \in Seq(Task) /\ Len(Pending) = Count BY <1>p, <1>t, <3>1
    <3>3. /\ Tail(Pending) \in Seq(Task)
          /\ Len(Tail(Pending)) = Len(Pending) - 1
          /\ \A i \in 1..Len(Tail(Pending)) : Tail(Pending)[i] = Pending[i + 1]
      BY <3>2, <2>4, HeadTailProperties, Zenon
    <3>4. Len(Tail(Pending)) = Count' BY <3>2, <3>3, <2>1, <1>t
    <3>5. ASSUME NEW i \in 1..Count' PROVE Tail(Pending)[i] = Pending'[i] /\ Pending'[i] \in Task
      <4>1. i + 1 \in 1..Count /\ Taken' + i = Taken + (i + 1) BY <1>t, <2>1, <2>2
      <4>2. Pending[i + 1] = accepted[Taken + (i + 1)] BY <1>p, <4>1
      <4>3. Pending'[i] = accepted[Taken + (i + 1)] BY <1>q, <2>2, <4>1
      <4>4. Tail(Pending)[i] = Pending[i + 1] BY <3>3, <3>4
      <4> QED BY <3>1, <4>1, <4>2, <4>3, <4>4
    <3>6. Pending' \in Seq(Task) /\ Len(Pending') = Count'
      <4>1. Count' \in Nat BY <1>t, <2>1
      <4> QED BY <1>q, <3>5, <4>1
    <3> QED BY <3>3, <3>4, <3>5, <3>6, SeqEqual
  <2> QED BY <2>2, <2>3, <2>4, <2>5 DEF Abstract!Next, Abstract!Take
<1>3. CASE WorkerRun
  <2>1. Count' = Count /\ accepted' = accepted BY <1>3 DEF WorkerRun, loopVars, Count
  <2>2. Taken = Len(ran) + 1 /\ Taken' = Taken
    BY <1>3, <1>t DEF WorkerRun, Taken, IInv, TypeOK
  <2>3. Pending' = Pending BY <1>p, <1>q, <2>1, <2>2
  <2>4. task \in Task /\ Held = task /\ Held' = NoTask /\ ran' = Append(ran, task)
    BY <1>3, <1>t, <2>2 DEF WorkerRun, Held, IInv, WorkerInv
  <2>5. task # NoTask BY <2>4 DEF Task, NoTask
  <2> QED BY <2>3, <2>4, <2>5 DEF Abstract!Next, Abstract!Run
<1>4. CASE Loop /\ ~EnqueuePublish
  <2>1. UNCHANGED <<head, tail, accepted, ran, worker, task>>
    BY <1>4 DEF Loop, EnqueueCall, EnqueueCheckFull, EnqueueStore, DrainCall, DrainEmpty,
                DrainBusy, StopCall, StopJoin, workerVars
  <2> QED BY <1>s, <2>1 DEF Count, Taken, Held
<1>5. CASE Worker /\ ~WorkerAdvance /\ ~WorkerRun
  <2>1. UNCHANGED <<head, tail, accepted, ran>> /\ worker # "run" /\ worker' # "run"
    BY <1>5 DEF Worker, WorkerLoad, WorkerCheckStop, WorkerSetBusy, WorkerMove, WorkerClearBusy,
                loopVars
  <2> QED BY <1>s, <2>1 DEF Count, Taken, Held
<1>6. CASE UNCHANGED vars
  BY <1>s, <1>6 DEF vars, loopVars, workerVars, Count, Taken, Held
<1> QED BY <1>1, <1>2, <1>3, <1>4, <1>5, <1>6 DEF Next

\* SpscDiskWriter implements the bounded FIFO queue with one worker.
THEOREM Refinement == Spec => ImplementsTaskQueue
<1>1. IInv /\ IInv' /\ [Next]_vars => [Abstract!Next]_(<<Pending, Held, ran>>)
  BY StepRefines
<1> QED BY <1>1, InitRefines, InvariantHolds, PTL DEF Spec, ImplementsTaskQueue, Abstract!Spec
=============================================================================
