----------------------------- MODULE TaskQueue ------------------------------
(***************************************************************************)
(* What the receiver relies on when it hands a task to the disk writer: a  *)
(* bounded FIFO queue whose single worker runs one task at a time.  The    *)
(* queue and the running task of Receiver are this queue; DiskWriter       *)
(* implements it with a ring that two threads share without a lock.        *)
(***************************************************************************)
EXTENDS Naturals, Sequences

CONSTANTS Capacity, \* tasks that may wait
          Task,     \* the tasks
          None      \* not a task

VARIABLES pending,  \* accepted and not yet taken, oldest first
          running,  \* the task being executed, or None
          ran       \* executed tasks, oldest first

Init == pending = <<>> /\ running = None /\ ran = <<>>

Put(t) ==
  /\ Len(pending) < Capacity
  /\ pending' = Append(pending, t)
  /\ UNCHANGED <<running, ran>>

Take ==
  /\ running = None
  /\ pending # <<>>
  /\ running' = Head(pending)
  /\ pending' = Tail(pending)
  /\ UNCHANGED ran

Run ==
  /\ running # None
  /\ ran' = Append(ran, running)
  /\ running' = None
  /\ UNCHANGED pending

Next == (\E t \in Task : Put(t)) \/ Take \/ Run

Spec == Init /\ [][Next]_<<pending, running, ran>>
=============================================================================
