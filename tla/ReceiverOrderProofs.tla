------------------------ MODULE ReceiverOrderProofs ------------------------
(***************************************************************************)
(* What heartbeats and manifests promise the sender, and the order in      *)
(* which entries become visible, for every number and size of files, every *)
(* ring capacity and any number of crashes and disk faults.                *)
(***************************************************************************)
EXTENDS ReceiverProofs

-----------------------------------------------------------------------------
(* Directories without gaps.                                                *)

Gapless(p) == \A k \in p : 1..k \subseteq p

\* scan_manifest_stream numbers the entries of a directory without gaps by
\* their own seq: the next seq is the first entry that is missing.
LEMMA GaplessScan ==
  ASSUME NEW S \in SUBSET Files, Gapless(S)
  PROVE  S = 1..(ScanNext(S) - 1)
<1> USE SizeAssumption DEF Files
<1>1. CASE S = {}
  <2>1. Cardinality(S) = 0 BY <1>1, FS_EmptySet
  <2> QED BY <1>1, <2>1 DEF ScanNext
<1>2. CASE S # {}
  <2> DEFINE n == Latest(S)
  <2>1. n \in S /\ \A j \in S : j <= n BY <1>2, LatestIsNewest
  <2> HIDE DEF n
  <2>2. n \in Nat /\ n >= 1 BY <2>1
  <2>3. S \subseteq 1..n BY <2>1
  <2>4. 1..n \subseteq S BY <2>1 DEF Gapless
  <2>5. S = 1..n BY <2>3, <2>4
  <2>6. Cardinality(1..n) = n BY <2>2, FS_Interval
  <2> QED BY <2>2, <2>5, <2>6 DEF ScanNext
<1> QED BY <1>1, <1>2

-----------------------------------------------------------------------------
(* The disk writer's ring.                                                  *)

\* Taking the oldest task.
LEMMA TakenTasks ==
  ASSUME queue \in Seq(Task), queue # <<>>
  PROVE  /\ Head(queue) = queue[1]
         /\ 1 \in 1..Len(queue)
         /\ \A n \in 1..Len(Tail(queue)) : /\ Tail(queue)[n] = queue[n + 1]
                                           /\ n + 1 \in 1..Len(queue)
                                           /\ n + 1 # 1
OBVIOUS

\* Adding a task.
LEMMA AddedTask ==
  ASSUME queue \in Seq(Task), NEW t \in Task
  PROVE  \A n \in 1..Len(Append(queue, t)) :
           \/ n \in 1..Len(queue) /\ Append(queue, t)[n] = queue[n]
           \/ n = Len(queue) + 1 /\ Append(queue, t)[n] = t
OBVIOUS

\* What maybe_enqueue_append_fsync leaves in the ring: at most one more fsync,
\* whose target is the one the context now waits for.
FsyncAdded(target) ==
  \A n \in 1..Len(queue') :
    \/ n \in 1..Len(queue) /\ queue'[n] = queue[n]
    \/ n = Len(queue) + 1 /\ queue'[n].kind = "fsync" /\ queue'[n].target = target

\* It adds nothing else.
LEMMA QueueFsyncAdds ==
  ASSUME TypeOK, NEW d \in DurType, NEW target \in Nat, queue' = QueueFsync(d, target)
  PROVE  FsyncAdded(FsyncTarget(d, target).target)
<1>1. FsyncTarget(d, target).target \in Nat
  BY DEF FsyncTarget, DurType, Larger
<1>2. CASE WantsFsync(d, target) /\ Len(queue) < QueueCap
  <2> DEFINE t == [kind |-> "fsync", file |-> d.path, target |-> FsyncTarget(d, target).target]
  <2>1. d.path \in Files BY <1>2, SizeAssumption DEF WantsFsync, DurType, Files
  <2>2. t \in Task BY <1>1, <2>1 DEF Task
  <2>3. queue' = Append(queue, t) BY <1>2 DEF QueueFsync
  <2>4. t.kind = "fsync" /\ t.target = FsyncTarget(d, target).target OBVIOUS
  <2>5. queue \in Seq(Task) BY DEF TypeOK
  <2> HIDE DEF t
  <2> QED BY <2>2, <2>3, <2>4, <2>5, AddedTask DEF FsyncAdded
<1>3. CASE ~(WantsFsync(d, target) /\ Len(queue) < QueueCap)
  BY <1>3 DEF QueueFsync, FsyncAdded
<1> QED BY <1>2, <1>3

-----------------------------------------------------------------------------
\* At most one commit is with the writer, in the ring or running, and the
\* stream's context waits for exactly that one.
Committing(t) == t.kind \in {"commit", "renamed"}

OneCommit ==
  /\ \A n \in 1..Len(queue) :
       /\ queue[n].kind # "renamed"
       /\ queue[n].kind = "commit" =>
            /\ cmt.state = "queued"
            /\ cmt.seq = queue[n].file
            /\ ~Committing(running)
            /\ \A m \in 1..Len(queue) : queue[m].kind = "commit" => m = n
  /\ Committing(running) => cmt.state = "queued" /\ cmt.seq = running.file

\* Steps that add at most an fsync to the ring.
LEMMA FsyncKeepsOneCommit ==
  ASSUME OneCommit, NEW target, FsyncAdded(target) \/ queue' = queue,
         cmt' = cmt, running' = running
  PROVE  OneCommit'
<1>1. ASSUME NEW n \in 1..Len(queue'), queue'[n].kind # "fsync"
      PROVE  n \in 1..Len(queue) /\ queue'[n] = queue[n]
  BY <1>1 DEF FsyncAdded
<1>2. ASSUME NEW n \in 1..Len(queue')
      PROVE  /\ queue'[n].kind # "renamed"
             /\ queue'[n].kind = "commit" =>
                  /\ cmt'.state = "queued"
                  /\ cmt'.seq = queue'[n].file
                  /\ ~Committing(running')
                  /\ \A m \in 1..Len(queue') : queue'[m].kind = "commit" => m = n
  <2>1. CASE queue'[n].kind = "fsync" BY <2>1
  <2>2. CASE queue'[n].kind # "fsync"
    <3>1. n \in 1..Len(queue) /\ queue'[n] = queue[n] BY <1>1, <2>2
    <3>2. ASSUME NEW m \in 1..Len(queue'), queue'[m].kind = "commit"
          PROVE  m \in 1..Len(queue) /\ queue[m].kind = "commit"
      BY <1>1, <3>2
    <3> QED BY <3>1, <3>2 DEF OneCommit
  <2> QED BY <2>1, <2>2
<1> QED BY <1>2 DEF OneCommit, Committing

\* poll_append_fsync adds at most an fsync.
LEMMA PollFsyncAdds ==
  ASSUME TypeOK, PollFsync
  PROVE  (\E target \in Nat : FsyncAdded(target)) \/ queue' = queue
<1>1. Harvest(dur) \in DurType /\ Harvest(dur).target \in Nat
  BY ZeroFile DEF Harvest, DurType, TypeOK, Larger
<1>2. FsyncTarget(Harvest(dur), Harvest(dur).target).target \in Nat
  BY <1>1 DEF FsyncTarget, DurType, Larger
<1> QED BY <1>1, <1>2, QueueFsyncAdds DEF PollFsync

\* The append receiver after a DATA it accepts.
AfterData(k, o) ==
  [AppendReceiver EXCEPT
     !.offset = o + DataLen(k, o), !.final = Size[k],
     !.expected = IF o + DataLen(k, o) < Size[k] THEN AppendReceiver.expected
                  ELSE Larger(AppendReceiver.expected, k + 1)]

\* Its fields.
LEMMA AfterDataFields ==
  ASSUME TypeOK, NEW k \in Files, NEW o \in 0..(Size[k] - 1)
  PROVE  /\ AfterData(k, o) \in AppType
         /\ AfterData(k, o).open = AppendReceiver.open
         /\ AfterData(k, o).file = AppendReceiver.file
         /\ AfterData(k, o).offset = o + DataLen(k, o)
         /\ AfterData(k, o).expected = IF o + DataLen(k, o) < Size[k]
                                       THEN AppendReceiver.expected
                                       ELSE Larger(AppendReceiver.expected, k + 1)
         /\ DataLen(k, o) \in Nat
         /\ o + DataLen(k, o) <= Size[k]
<1> USE SizeAssumption
<1>1. AppendReceiver \in AppType BY ReceiverTypes
<1>2. k \in Nat /\ Size[k] \in Nat /\ o \in Nat BY DEF Files
<1>3. DataLen(k, o) \in Nat /\ o + DataLen(k, o) <= Size[k] BY <1>2 DEF DataLen, Smaller
<1>4. AppendReceiver.expected \in Nat BY <1>1 DEF AppType
<1>5. (IF o + DataLen(k, o) < Size[k] THEN AppendReceiver.expected
       ELSE Larger(AppendReceiver.expected, k + 1)) \in Nat
  BY <1>2, <1>3, <1>4 DEF Larger
<1>6. o + DataLen(k, o) \in Nat BY <1>2, <1>3
<1>7. AfterData(k, o) \in AppType BY <1>1, <1>2, <1>5, <1>6, AppUpdate, ZeroFile DEF AfterData
<1> QED BY <1>1, <1>3, <1>7 DEF AfterData, AppType

\* apply_data after its message was accepted: the context of the file, and at
\* most one more fsync in the ring.
LEMMA DataAcceptedAdds ==
  ASSUME TypeOK, NEW k \in Files, NEW o \in 0..(Size[k] - 1), NEW a \in AppType,
         DataAccepted(k, o, a)
  PROVE  /\ ResetDurable([dur EXCEPT !.line = TRUE], k, a.file, o) \in DurType
         /\ a.offset \in Nat
         /\ FsyncAdded(FsyncTarget(ResetDurable([dur EXCEPT !.line = TRUE], k, a.file, o),
                                   a.offset).target)
<1> DEFINE d == ResetDurable([dur EXCEPT !.line = TRUE], k, a.file, o)
<1>1. [dur EXCEPT !.line = TRUE] \in DurType BY DEF TypeOK, DurType
<1>2. a.file \in 0..NFiles /\ a.offset \in Nat BY DEF AppType
<1>3. o \in Nat BY SizeAssumption
<1>4. d \in DurType BY <1>1, <1>2, <1>3, ResetDurableType
<1>5. queue' = QueueFsync(d, a.offset) BY DEF DataAccepted
<1> QED BY <1>2, <1>4, <1>5, QueueFsyncAdds

\* The ring after a message that is not a FILE_COMMIT.
LEMMA MessageAdds ==
  ASSUME TypeOK, NEW k \in Files,
         \/ ApplyCreate(k)
         \/ \E o \in 0..(Size[k] - 1) : ApplyData(k, o)
         \/ ApplyBegin(k)
         \/ \E i \in ChunksOf(k) : ApplyChunk(k, i)
  PROVE  /\ cmt' = cmt
         /\ running' = running
         /\ (\E target : FsyncAdded(target)) \/ queue' = queue
<1>1. CASE ApplyCreate(k)
  BY <1>1 DEF ApplyCreate, CreateNew, CreateStale, CreateRejected, CreateFails, CreateAccepted
<1>2. ASSUME NEW o \in 0..(Size[k] - 1), ApplyData(k, o)
      PROVE  /\ cmt' = cmt
             /\ running' = running
             /\ (\E target : FsyncAdded(target)) \/ queue' = queue
  <2>1. ASSUME NEW a \in AppType, DataAccepted(k, o, a)
        PROVE  cmt' = cmt /\ running' = running /\ \E target : FsyncAdded(target)
    BY <2>1, DataAcceptedAdds DEF DataAccepted
  <2>2. CASE DataIgnored(k, o) BY <2>1, <2>2, ReceiverTypes DEF DataIgnored
  <2>3. CASE DataRejected(k, o) BY <2>3 DEF DataRejected
  <2>4. ASSUME NEW m \in 0..Block, DataAppended(k, o, m)
        PROVE  cmt' = cmt /\ running' = running /\ \E target : FsyncAdded(target)
    <3>1. DataAccepted(k, o, AfterData(k, o)) BY <2>4 DEF DataAppended, AfterData
    <3> QED BY <2>1, <3>1, AfterDataFields
  <2>5. ASSUME NEW m \in 0..Block, DataTorn(k, o, m)
        PROVE  cmt' = cmt /\ running' = running /\ queue' = queue
    BY <2>5 DEF DataTorn
  <2> QED BY <1>2, <2>2, <2>3, <2>4, <2>5 DEF ApplyData
<1>3. CASE ApplyBegin(k) BY <1>3 DEF ApplyBegin
<1>4. CASE \E i \in ChunksOf(k) : ApplyChunk(k, i) BY <1>4 DEF ApplyChunk
<1> QED BY <1>1, <1>2, <1>3, <1>4

\* Every step keeps it: FILE_COMMIT queues a commit only when the context waits
\* for none, and only the end of the task changes what the context waits for.
LEMMA NextOneCommit ==
  ASSUME TypeOK, OneCommit, [Next]_vars
  PROVE  OneCommit'
<1> USE DEF env, disk
<1>q. queue \in Seq(Task) BY DEF TypeOK
<1>1. CASE UNCHANGED vars
  BY <1>1, FsyncKeepsOneCommit DEF vars
<1>2. ASSUME NEW k \in Files,
             \/ ApplyCreate(k)
             \/ \E o \in 0..(Size[k] - 1) : ApplyData(k, o)
             \/ ApplyBegin(k)
             \/ \E i \in ChunksOf(k) : ApplyChunk(k, i)
      PROVE  OneCommit'
  BY <1>2, MessageAdds, FsyncKeepsOneCommit
<1>3. ASSUME NEW k \in Files, ApplyCommit(k) PROVE OneCommit'
  <2>1. CASE CommitQueued(k)
    <3> DEFINE t == [kind |-> "commit", file |-> k, target |-> Size[k]]
    <3>1. t \in Task BY SizeAssumption DEF Task
    <3>2. /\ cmt' = [state |-> "queued", seq |-> k]
          /\ queue' = Append(queue, t)
          /\ running' = running
      BY <1>3, <2>1 DEF CommitQueued, ApplyCommit
    <3>3. \A n \in 1..Len(queue) : queue[n].kind \notin {"commit", "renamed"}
      BY <2>1 DEF CommitQueued, OneCommit
    <3>4. ~Committing(running) BY <2>1 DEF CommitQueued, OneCommit
    <3>5. t.kind = "commit" /\ t.file = k OBVIOUS
    <3> HIDE DEF t
    <3>6. \A n \in 1..Len(queue') : \/ queue'[n].kind \notin {"commit", "renamed"}
                                    \/ n = Len(queue) + 1 /\ queue'[n] = t
      BY <1>q, <3>1, <3>2, <3>3, AddedTask
    <3> QED BY <3>2, <3>4, <3>5, <3>6 DEF OneCommit, Committing
  <2>2. CASE CommitWhileQueued(k) \/ CommitStale(k) \/ CommitRejected(k)
    <3>1. cmt' = cmt /\ queue' = queue /\ running' = running
      BY <1>3, <2>2 DEF CommitWhileQueued, CommitStale, CommitRejected, ApplyCommit
    <3> QED BY <3>1, FsyncKeepsOneCommit
  <2> QED BY <1>3, <2>1, <2>2 DEF ApplyCommit
<1>4. CASE Poll
  <2>1. CASE cmt' = cmt
    <3>1. /\ (\E target \in Nat : FsyncAdded(target)) \/ queue' = queue
          /\ running' = running
      BY <1>4, PollFsyncAdds DEF Poll, PollIdle, PollCommitDone, PollFailure
    <3> QED BY <2>1, <3>1, FsyncKeepsOneCommit
  <2>2. CASE cmt' # cmt
    <3>1. /\ cmt.state # "queued"
          /\ (\E target \in Nat : FsyncAdded(target)) \/ queue' = queue
          /\ running' = running
      BY <1>4, <2>2, PollFsyncAdds DEF Poll, PollIdle, PollCommitDone, PollFailure
    <3>2. /\ \A n \in 1..Len(queue) : queue[n].kind \notin {"commit", "renamed"}
          /\ ~Committing(running)
      BY <3>1 DEF OneCommit
    <3>3. \A n \in 1..Len(queue') : queue'[n].kind \notin {"commit", "renamed"}
      BY <3>1, <3>2 DEF FsyncAdded
    <3> QED BY <3>1, <3>2, <3>3 DEF OneCommit, Committing
  <2> QED BY <2>1, <2>2
<1>5. CASE WriterTake
  <2>1. /\ running' = queue[1]
        /\ \A n \in 1..Len(queue') : /\ queue'[n] = queue[n + 1]
                                     /\ n + 1 \in 1..Len(queue)
                                     /\ n + 1 # 1
        /\ 1 \in 1..Len(queue)
        /\ cmt' = cmt
    BY <1>5, <1>q, TakenTasks DEF WriterTake
  <2>2. ASSUME NEW n \in 1..Len(queue')
        PROVE  /\ queue'[n].kind # "renamed"
               /\ queue'[n].kind = "commit" =>
                    /\ cmt'.state = "queued"
                    /\ cmt'.seq = queue'[n].file
                    /\ ~Committing(running')
                    /\ \A m \in 1..Len(queue') : queue'[m].kind = "commit" => m = n
    <3>1. n + 1 \in 1..Len(queue) /\ queue'[n] = queue[n + 1] /\ n + 1 # 1 BY <2>1
    <3>2. ASSUME queue[n + 1].kind = "commit" PROVE queue[1].kind \notin {"commit", "renamed"}
      BY <2>1, <3>1, <3>2 DEF OneCommit
    <3>3. ASSUME NEW m \in 1..Len(queue'), queue'[m].kind = "commit", queue'[n].kind = "commit"
          PROVE  m = n
      <4>1. m + 1 \in 1..Len(queue) /\ queue[m + 1].kind = "commit" BY <2>1, <3>3
      <4>2. m + 1 = n + 1 BY <3>1, <3>3, <4>1 DEF OneCommit
      <4>3. m \in Int /\ n \in Int OBVIOUS
      <4> QED BY <4>2, <4>3
    <3> QED BY <2>1, <3>1, <3>2, <3>3 DEF OneCommit, Committing
  <2>3. Committing(running') => cmt'.state = "queued" /\ cmt'.seq = running'.file
    BY <2>1 DEF OneCommit, Committing
  <2> QED BY <2>2, <2>3 DEF OneCommit
<1>6. CASE WriterRename
  <2>1. running'.kind = "renamed" /\ running'.file = running.file /\ running.kind = "commit"
    BY <1>6 DEF WriterRename, TypeOK, Task, NoTask
  <2>2. cmt' = cmt /\ queue' = queue BY <1>6 DEF WriterRename
  <2> QED BY <2>1, <2>2 DEF OneCommit, Committing
<1>7. CASE WriterFsync \/ WriterCommitSync \/ WriterFails
  <2>1. running' = NoTask /\ queue' = queue
    BY <1>7 DEF WriterFsync, WriterCommitSync, WriterFails
  <2>2. ~Committing(running') BY <2>1 DEF Committing, NoTask
  <2>3. CASE cmt' = cmt BY <2>1, <2>2, <2>3 DEF OneCommit
  <2>4. CASE cmt' # cmt
    <3>1. running.kind # "fsync" /\ running # NoTask
      BY <1>7, <2>4 DEF WriterFsync, WriterCommitSync, WriterFails, NoTask
    <3>2. Committing(running) BY <3>1 DEF Committing, TypeOK, Task
    <3> QED BY <2>1, <2>2, <3>2 DEF OneCommit
  <2> QED BY <2>3, <2>4
<1>8. CASE ApplyManifest1 \/ SenderRestart \/ QuietStop \/ Exit \/ Crash
  <2>1. cmt' = cmt /\ queue' = queue /\ running' = running
    BY <1>8 DEF ApplyManifest1, SenderRestart, QuietStop, Exit, Crash
  <2> QED BY <2>1, FsyncKeepsOneCommit
<1>9. CASE Restart
  BY <1>9 DEF Restart, OneCommit, Committing, NoTask
<1> QED BY <1>1, <1>2, <1>3, <1>4, <1>5, <1>6, <1>7, <1>8, <1>9 DEF Next, Message, Writer

-----------------------------------------------------------------------------
(* NextSeqVisible: the directory has no gaps, everything before a receiver's *)
(* expected seq is visible, and a commit is for the entry right after        *)
(* visible ones.                                                             *)

CommitPlaced ==
  /\ cmt.state # "none" => /\ cmt.seq \in Files
                           /\ ChunkMode(cmt.seq)
                           /\ 1..(cmt.seq - 1) \subseteq present
  /\ cmt.state = "done" => cmt.seq \in present
  /\ running.kind = "renamed" => running.file \in present

ExpectedVisible ==
  /\ 1..(app.expected - 1) \subseteq present
  /\ 1..(chk.expected - 1) \subseteq present

VisibleInv ==
  /\ Gapless(present)
  /\ CommitPlaced
  /\ ExpectedVisible
  /\ NextSeqVisible

\* The receivers, constructed on first use or refreshed from a directory.
LEMMA ReceiversVisible ==
  ASSUME TypeOK, VisibleInv
  PROVE  /\ 1..(AppendReceiver.expected - 1) \subseteq present
         /\ 1..(ChunkReceiver.expected - 1) \subseteq present
         /\ 1..(RefreshApp(app).expected - 1) \subseteq present
         /\ AppendReceiver.expected \in Nat
         /\ ChunkReceiver.expected \in Nat
<1>1. present \in SUBSET Files BY DEF TypeOK
<1>2. present = 1..(ScanNext(present) - 1) BY <1>1, GaplessScan DEF VisibleInv
<1>3. ScanNext(present) \in Nat BY <1>1, ScanNextType
<1>4. 1..(AppendReceiver.expected - 1) \subseteq present
  BY <1>2, <1>3 DEF AppendReceiver, ResetSession, ClosedApp, VisibleInv, ExpectedVisible
<1>5. 1..(ChunkReceiver.expected - 1) \subseteq present
  BY <1>2, <1>3 DEF ChunkReceiver, ClosedChk, VisibleInv, ExpectedVisible
<1>6. 1..(RefreshApp(app).expected - 1) \subseteq present
  BY <1>2, <1>3 DEF RefreshApp, Larger, VisibleInv, ExpectedVisible, TypeOK, AppType
<1> QED BY <1>4, <1>5, <1>6, ReceiverTypes DEF AppType, ChkType

\* The same for the chunk receiver, refreshed by a handler of the append one.
LEMMA RefreshVisible ==
  ASSUME TypeOK, VisibleInv, NEW p \in SUBSET Files, Gapless(p), present \subseteq p
  PROVE  1..(RefreshChunk(p).expected - 1) \subseteq p
<1>1. p = 1..(ScanNext(p) - 1) BY GaplessScan
<1>2. ScanNext(p) \in Nat BY ScanNextType
<1> QED BY <1>1, <1>2 DEF RefreshChunk, Larger, VisibleInv, ExpectedVisible, TypeOK, ChkType

\* What a step has to show when it leaves the commit alone.
LEMMA KeepsVisible ==
  ASSUME TypeOK, VisibleInv, present \subseteq present', Gapless(present'),
         cmt' = cmt, running' = running,
         1..(app'.expected - 1) \subseteq present',
         1..(chk'.expected - 1) \subseteq present',
         NextSeqVisible'
  PROVE  VisibleInv'
BY DEF VisibleInv, CommitPlaced, ExpectedVisible, ChunkMode

\* CREATE.
LEMMA CreateVisible ==
  ASSUME TypeOK, VisibleInv, NEW k \in Files, ApplyCreate(k)
  PROVE  VisibleInv'
<1> USE DEF disk, env
<1>k. k \in Nat /\ k >= 1 BY DEF Files
<1>a. /\ 1..(AppendReceiver.expected - 1) \subseteq present
      /\ AppendReceiver.expected \in Nat
      /\ AppendReceiver \in AppType
  BY ReceiversVisible, ReceiverTypes
<1>g. Gapless(present) BY DEF VisibleInv
<1>1. ASSUME NEW a, NEW p \in SUBSET Files, present' = p, CreateAccepted(k, a, p),
             present \subseteq p, Gapless(p), 1..(a.expected - 1) \subseteq p
      PROVE  VisibleInv'
  <2>1. 1..(chk'.expected - 1) \subseteq p BY <1>1, RefreshVisible DEF CreateAccepted
  <2>2. heartbeats' = {AppendHeartbeat(a, a.offset)} BY <1>1 DEF CreateAccepted, Emit
  <2>3. NextSeqVisible' BY <1>1, <2>2 DEF NextSeqVisible, AppendHeartbeat, Heartbeat
  <2>4. app' = a /\ cmt' = cmt /\ running' = running BY <1>1 DEF CreateAccepted
  <2> QED BY <1>1, <2>1, <2>3, <2>4, KeepsVisible
<1>2. CASE CreateNew(k)
  <2> DEFINE e == IF Size[k] = 0 THEN k + 1 ELSE k
             a == [AppendReceiver EXCEPT !.file = k, !.offset = 0, !.final = Size[k],
                                         !.expected = e]
             p == present \cup {k}
  <2>1. k = AppendReceiver.expected /\ present' = p /\ CreateAccepted(k, a, p)
    BY <1>2 DEF CreateNew
  <2>2. 1..k \subseteq p BY <1>k, <1>a, <2>1
  <2>3. p \in SUBSET Files /\ present \subseteq p BY DEF TypeOK
  <2>4. Gapless(p) BY <1>g, <2>2 DEF Gapless
  <2>5. a.expected = e BY <1>a DEF AppType
  <2>6. 1..(a.expected - 1) \subseteq p BY <1>k, <2>2, <2>5
  <2> HIDE DEF a, p
  <2> QED BY <1>1, <2>1, <2>3, <2>4, <2>6
<1>3. CASE CreateStale(k)
  BY <1>1, <1>3, <1>a, <1>g DEF CreateStale, TypeOK
<1>4. CASE CreateRejected(k) \/ CreateFails(k)
  <2>1. /\ present' = present
        /\ app' = AppendReceiver
        /\ chk' = chk /\ cmt' = cmt /\ running' = running
        /\ heartbeats' = {}
    BY <1>4 DEF CreateRejected, CreateFails, Reject
  <2>2. NextSeqVisible' BY <2>1 DEF NextSeqVisible
  <2> QED BY <1>a, <1>g, <2>1, <2>2, KeepsVisible DEF VisibleInv, ExpectedVisible
<1> QED BY <1>2, <1>3, <1>4 DEF ApplyCreate

\* DATA.
LEMMA DataVisible ==
  ASSUME TypeOK, VisibleInv, NEW k \in Files, NEW o \in 0..(Size[k] - 1), ApplyData(k, o)
  PROVE  VisibleInv'
<1> USE DEF disk, env
<1>k. k \in Nat BY DEF Files
<1>a. /\ 1..(AppendReceiver.expected - 1) \subseteq present
      /\ AppendReceiver.expected \in Nat
      /\ AppendReceiver \in AppType
  BY ReceiversVisible, ReceiverTypes
<1>g. Gapless(present) /\ present \in SUBSET Files BY DEF VisibleInv, TypeOK
<1>1. ASSUME NEW a, DataAccepted(k, o, a), 1..(a.expected - 1) \subseteq present
      PROVE  VisibleInv'
  <2>1. present' = present /\ app' = a /\ cmt' = cmt /\ running' = running
    BY <1>1 DEF DataAccepted
  <2>2. 1..(chk'.expected - 1) \subseteq present BY <1>1, <1>g, RefreshVisible DEF DataAccepted
  <2>3. \A h \in heartbeats' : h.next = a.expected
    BY <1>1 DEF DataAccepted, Emit, AppendHeartbeat, Heartbeat
  <2>4. NextSeqVisible' BY <1>1, <2>1, <2>3 DEF NextSeqVisible
  <2> QED BY <1>1, <1>g, <2>1, <2>2, <2>4, KeepsVisible
<1>2. CASE DataIgnored(k, o) BY <1>1, <1>2, <1>a DEF DataIgnored
<1>3. ASSUME NEW m \in 0..Block, DataAppended(k, o, m) PROVE VisibleInv'
  <2>1. DataAccepted(k, o, AfterData(k, o)) BY <1>3 DEF DataAppended, AfterData
  <2>2. k \in present BY <1>3 DEF DataAppended, DataReason
  <2>3. 1..k \subseteq present BY <1>g, <2>2 DEF Gapless
  <2>4. \/ AfterData(k, o).expected = AppendReceiver.expected
        \/ AfterData(k, o).expected = k + 1
    BY AfterDataFields DEF Larger
  <2>5. 1..(AfterData(k, o).expected - 1) \subseteq present BY <1>k, <1>a, <2>3, <2>4
  <2> QED BY <1>1, <2>1, <2>5
<1>4. ASSUME DataRejected(k, o) \/ \E m \in 0..Block : DataTorn(k, o, m) PROVE VisibleInv'
  <2>1. /\ present' = present
        /\ app' = AppendReceiver
        /\ chk' = chk /\ cmt' = cmt /\ running' = running
        /\ heartbeats' = {}
    BY <1>4 DEF DataRejected, DataTorn, Reject
  <2>2. NextSeqVisible' BY <2>1 DEF NextSeqVisible
  <2> QED BY <1>a, <1>g, <2>1, <2>2, KeepsVisible DEF VisibleInv, ExpectedVisible
<1> QED BY <1>2, <1>3, <1>4 DEF ApplyData

\* FILE_BEGIN and CHUNK answer with the chunk receiver's expected seq.
LEMMA ChunkVisible ==
  ASSUME TypeOK, VisibleInv, NEW k \in Files,
         ApplyBegin(k) \/ \E i \in ChunksOf(k) : ApplyChunk(k, i)
  PROVE  VisibleInv'
<1>a. 1..(ChunkReceiver.expected - 1) \subseteq present /\ ChunkReceiver \in ChkType
  BY ReceiversVisible, ReceiverTypes
<1>1. /\ present' = present /\ app' = app /\ cmt' = cmt /\ running' = running
  BY DEF ApplyBegin, ApplyChunk
<1>2. /\ chk'.expected = ChunkReceiver.expected
      /\ \A h \in heartbeats' : h.next = ChunkReceiver.expected
  <2>1. CASE ApplyBegin(k)
    <3>1. CASE BeginAccepted(k)
      <4>1. chk'.expected = ChunkReceiver.expected BY <1>a, <3>1 DEF BeginAccepted, ChkType
      <4> QED BY <3>1, <4>1 DEF BeginAccepted, Emit, Heartbeat
    <3>2. CASE BeginRejected(k)
      BY <3>2 DEF BeginRejected, ChunkRefused, Reject
    <3> QED BY <2>1, <3>1, <3>2 DEF ApplyBegin
  <2>2. ASSUME NEW i \in ChunksOf(k), ApplyChunk(k, i)
        PROVE  /\ chk'.expected = ChunkReceiver.expected
               /\ \A h \in heartbeats' : h.next = ChunkReceiver.expected
    <3>1. ASSUME NEW stored \in BOOLEAN, ChunkAccepted(k, i, stored)
          PROVE  /\ chk'.expected = ChunkReceiver.expected
                 /\ \A h \in heartbeats' : h.next = ChunkReceiver.expected
      <4>1. chk'.expected = ChunkReceiver.expected BY <1>a, <3>1 DEF ChunkAccepted, ChkType
      <4> QED BY <3>1, <4>1 DEF ChunkAccepted, Emit, Heartbeat
    <3>2. CASE ChunkRejected(k, i)
      BY <3>2 DEF ChunkRejected, ChunkRefused, Reject
    <3> QED BY <2>2, <3>1, <3>2 DEF ApplyChunk
  <2> QED BY <2>1, <2>2
<1>3. NextSeqVisible' BY <1>a, <1>1, <1>2 DEF NextSeqVisible
<1> QED BY <1>a, <1>1, <1>2, <1>3, KeepsVisible DEF VisibleInv, ExpectedVisible

\* FILE_COMMIT is accepted only for the chunk receiver's expected entry.
LEMMA CommitVisible ==
  ASSUME TypeOK, VisibleInv, NEW k \in Files, ApplyCommit(k)
  PROVE  VisibleInv'
<1> USE DEF env
<1>a. /\ 1..(ChunkReceiver.expected - 1) \subseteq present
      /\ ChunkReceiver.expected \in Nat
      /\ ChunkReceiver \in ChkType
  BY ReceiversVisible, ReceiverTypes
<1>k. k \in Nat BY DEF Files
<1>1. present' = present /\ app' = app /\ running' = running BY DEF ApplyCommit
<1>2. CASE CommitWhileQueued(k)
  <2>1. chk' = chk /\ cmt' = cmt /\ heartbeats' = {}
    BY <1>2 DEF CommitWhileQueued, Silent, Emit, Reject
  <2>2. NextSeqVisible' BY <2>1 DEF NextSeqVisible
  <2> QED BY <1>1, <2>1, <2>2, KeepsVisible DEF VisibleInv, ExpectedVisible
<1>3. CASE CommitStale(k) \/ CommitRejected(k)
  <2>1. chk' = ChunkReceiver /\ cmt' = cmt
    BY <1>3 DEF CommitStale, CommitRejected
  <2>2. \A h \in heartbeats' : h.next = ChunkReceiver.expected
    BY <1>3 DEF CommitStale, CommitRejected, Emit, Reject, Heartbeat
  <2>3. NextSeqVisible' BY <1>a, <1>1, <2>2 DEF NextSeqVisible
  <2> QED BY <1>a, <1>1, <2>1, <2>3, KeepsVisible DEF VisibleInv, ExpectedVisible
<1>4. CASE CommitQueued(k)
  <2>1. k = ChunkReceiver.expected BY <1>4, <1>a, <1>k DEF CommitQueued, CommitReason
  <2>2. /\ cmt' = [state |-> "queued", seq |-> k]
        /\ chk'.expected = ChunkReceiver.expected
        /\ heartbeats' = {}
    BY <1>4, <1>a DEF CommitQueued, Silent, Emit, ChkType
  <2>3. ChunkMode(k) BY DEF ApplyCommit
  <2>4. CommitPlaced'
    BY <1>a, <1>1, <2>1, <2>2, <2>3 DEF CommitPlaced, VisibleInv, ChunkMode
  <2> QED BY <1>a, <1>1, <2>2, <2>4 DEF VisibleInv, ExpectedVisible, NextSeqVisible
<1> QED BY <1>2, <1>3, <1>4 DEF ApplyCommit

\* poll_completions: a commit is reported only when its entry is visible.
LEMMA PollVisible ==
  ASSUME TypeOK, VisibleInv, Poll
  PROVE  VisibleInv'
<1> USE DEF disk, env
<1>1. present' = present /\ running' = running /\ Gapless(present')
  BY DEF Poll, VisibleInv
<1>f. \A h \in FsyncHeartbeats : h.next = app.expected
  BY DEF FsyncHeartbeats, AppendHeartbeat, Heartbeat
<1>2. CASE PollIdle
  <2>1. app' = app /\ chk' = chk /\ cmt' = cmt /\ heartbeats' = FsyncHeartbeats
    BY <1>2 DEF PollIdle, Emit
  <2>2. NextSeqVisible' BY <1>1, <1>f, <2>1 DEF NextSeqVisible, VisibleInv, ExpectedVisible
  <2> QED BY <1>1, <2>1, <2>2, KeepsVisible DEF VisibleInv, ExpectedVisible
<1>3. CASE PollCommitDone
  <2>1. cmt.seq \in present /\ cmt.seq \in Nat
    BY <1>3 DEF PollCommitDone, VisibleInv, CommitPlaced, TypeOK, CmtType
  <2>2. 1..cmt.seq \subseteq present BY <2>1 DEF VisibleInv, Gapless
  <2>3. FinishCommit.expected = Larger(chk.expected, cmt.seq + 1)
    BY DEF FinishCommit, TypeOK, ChkType
  <2>4. 1..(FinishCommit.expected - 1) \subseteq present
    BY <2>1, <2>2, <2>3 DEF Larger, VisibleInv, ExpectedVisible, TypeOK, ChkType
  <2>5. 1..(app'.expected - 1) \subseteq present
    BY <1>3, ReceiversVisible DEF PollCommitDone, VisibleInv, ExpectedVisible
  <2>6. \A h \in heartbeats' : h.next = app.expected \/ h.next = FinishCommit.expected
    BY <1>3, <1>f DEF PollCommitDone, Emit, CommitHeartbeat, Heartbeat
  <2>7. NextSeqVisible'
    BY <1>1, <2>4, <2>6 DEF NextSeqVisible, VisibleInv, ExpectedVisible
  <2>8. CommitPlaced'
    BY <1>1, <1>3 DEF PollCommitDone, CommitPlaced, VisibleInv, NoCommit
  <2> QED BY <1>1, <1>3, <2>4, <2>5, <2>7, <2>8 DEF PollCommitDone, VisibleInv, ExpectedVisible
<1>4. CASE PollFailure
  <2>1. app' = app /\ chk'.expected = chk.expected /\ (cmt' = cmt \/ cmt' = NoCommit)
    BY <1>4 DEF PollFailure, TypeOK, ChkType
  <2>2. \A h \in heartbeats' : h.next = app.expected
    BY <1>4, <1>f DEF PollFailure, Silent, Emit
  <2>3. NextSeqVisible' BY <1>1, <2>2 DEF NextSeqVisible, VisibleInv, ExpectedVisible
  <2>4. CommitPlaced' BY <1>1, <2>1 DEF CommitPlaced, VisibleInv, NoCommit, ChunkMode
  <2> QED BY <1>1, <2>1, <2>3, <2>4 DEF VisibleInv, ExpectedVisible
<1> QED BY <1>2, <1>3, <1>4 DEF Poll

\* The writer thread: a rename makes the entry after the visible ones visible.
LEMMA WriterVisible ==
  ASSUME TypeOK, OneCommit, VisibleInv, Writer
  PROVE  VisibleInv'
<1> USE DEF disk, LoopIdle
<1>0. app' = app /\ chk' = chk /\ heartbeats' = {}
  BY DEF Writer, WriterTake, WriterFsync, WriterRename, WriterCommitSync, WriterFails
<1>n. NextSeqVisible' BY <1>0 DEF NextSeqVisible
<1>1. CASE WriterTake
  <2>1. present' = present /\ cmt' = cmt /\ running' = queue[1] /\ 1 \in 1..Len(queue)
    BY <1>1, TakenTasks DEF WriterTake, TypeOK
  <2>2. running'.kind # "renamed" BY <2>1 DEF OneCommit
  <2> QED BY <1>0, <1>n, <2>1, <2>2 DEF VisibleInv, CommitPlaced, ExpectedVisible, ChunkMode
<1>2. CASE WriterFsync
  <2>1. present' = present /\ cmt' = cmt /\ running' = NoTask BY <1>2 DEF WriterFsync
  <2> QED BY <1>0, <1>n, <2>1 DEF VisibleInv, CommitPlaced, ExpectedVisible, ChunkMode, NoTask
<1>3. CASE WriterRename
  <2>1. /\ cmt' = cmt /\ cmt.state = "queued" /\ cmt.seq = running.file
        /\ present' = present \cup {running.file}
        /\ running'.file = running.file
    BY <1>3 DEF WriterRename, OneCommit, Committing, TypeOK, Task, NoTask
  <2>2. /\ running.file \in Files
        /\ 1..(running.file - 1) \subseteq present
    BY <2>1 DEF VisibleInv, CommitPlaced
  <2>3. running.file \in Nat BY <2>2 DEF Files
  <2>4. 1..running.file \subseteq present' BY <2>1, <2>2, <2>3
  <2>5. Gapless(present') BY <2>1, <2>4 DEF Gapless, VisibleInv
  <2>6. CommitPlaced' BY <2>1 DEF VisibleInv, CommitPlaced, ChunkMode
  <2> QED BY <1>0, <1>n, <2>1, <2>5, <2>6 DEF VisibleInv, ExpectedVisible
<1>4. CASE WriterCommitSync
  <2>1. /\ present' = present /\ running' = NoTask
        /\ cmt'.state = "done" /\ cmt'.seq = cmt.seq
        /\ cmt.state = "queued" /\ cmt.seq = running.file
        /\ running.file \in present
    BY <1>4 DEF WriterCommitSync, OneCommit, Committing, VisibleInv, CommitPlaced, TypeOK, CmtType
  <2>2. CommitPlaced' BY <2>1 DEF VisibleInv, CommitPlaced, ChunkMode, NoTask
  <2> QED BY <1>0, <1>n, <2>1, <2>2 DEF VisibleInv, ExpectedVisible
<1>5. CASE WriterFails
  <2>1. present' = present /\ running' = NoTask BY <1>5 DEF WriterFails
  <2>2. cmt' = cmt \/ (cmt'.state = "failed" /\ cmt'.seq = cmt.seq /\ cmt.state = "queued")
    <3>1. CASE running.kind = "fsync" BY <1>5, <3>1 DEF WriterFails
    <3>2. CASE running.kind # "fsync"
      <4>1. Committing(running) BY <1>5, <3>2 DEF WriterFails, Committing, TypeOK, Task
      <4> QED BY <1>5, <3>2, <4>1 DEF WriterFails, OneCommit, TypeOK, CmtType
    <3> QED BY <3>1, <3>2
  <2>3. CommitPlaced' BY <2>1, <2>2 DEF VisibleInv, CommitPlaced, ChunkMode, NoTask
  <2> QED BY <1>0, <1>n, <2>1, <2>3 DEF VisibleInv, ExpectedVisible
<1> QED BY <1>1, <1>2, <1>3, <1>4, <1>5 DEF Writer

\* Manifest exchange, stops, crashes and restarts.
LEMMA LifecycleVisible ==
  ASSUME TypeOK, VisibleInv, ApplyManifest1 \/ SenderRestart \/ QuietStop \/ Exit \/ Crash \/ Restart
  PROVE  VisibleInv'
<1> USE DEF disk
<1>1. present' = present /\ heartbeats' = {}
  BY DEF ApplyManifest1, SenderRestart, QuietStop, Exit, Crash, Restart
<1>n. NextSeqVisible' BY <1>1 DEF NextSeqVisible
<1>2. CASE ApplyManifest1 \/ SenderRestart \/ QuietStop \/ Exit \/ Crash
  <2>1. app' = app /\ chk' = chk /\ cmt' = cmt /\ running' = running
    BY <1>2 DEF ApplyManifest1, SenderRestart, QuietStop, Exit, Crash
  <2> QED BY <1>1, <1>n, <2>1, KeepsVisible DEF VisibleInv, ExpectedVisible
<1>3. CASE Restart
  <2>1. app'.expected = 1 /\ chk'.expected = 1 /\ cmt'.state = "none" /\ running'.kind = "idle"
    BY <1>3 DEF Restart, ClosedApp, ClosedChk, NoCommit, NoTask
  <2>2. 1..(1 - 1) = {} OBVIOUS
  <2>3. CommitPlaced' BY <2>1 DEF CommitPlaced
  <2>4. ExpectedVisible' BY <2>1, <2>2 DEF ExpectedVisible
  <2> QED BY <1>1, <1>n, <2>3, <2>4 DEF VisibleInv
<1> QED BY <1>2, <1>3

\* The states a receiver may start in.
LEMMA InitVisible == Init => OneCommit /\ VisibleInv
<1> SUFFICES ASSUME Init PROVE OneCommit /\ VisibleInv OBVIOUS
<1>1. OneCommit BY DEF Init, Started, OneCommit, Committing, NoTask
<1>2. Gapless(present)
  <2>1. PICK n \in 0..NFiles, m \in Nat : InitialDisk(n, m)
    <3>1. PICK n \in 0..NFiles :
             \/ InitialDisk(n, 0)
             \/ n < NFiles /\ \E m \in 1..(Size[n + 1] - 1) : InitialDisk(n, m)
      BY DEF Init, Started
    <3>2. n < NFiles => Size[n + 1] \in Nat BY SizeAssumption DEF Files
    <3> QED BY <3>1, <3>2, ZeroFile
  <2>2. \E z \in Nat : present = 1..z BY <2>1, SizeAssumption DEF InitialDisk
  <2> QED BY <2>2 DEF Gapless
<1>3. CommitPlaced BY DEF Init, Started, CommitPlaced, NoCommit, NoTask
<1>4. ExpectedVisible BY DEF Init, Started, ExpectedVisible, ClosedApp, ClosedChk
<1>5. NextSeqVisible BY DEF Init, Started, NextSeqVisible
<1> QED BY <1>1, <1>2, <1>3, <1>4, <1>5 DEF VisibleInv

\* One step of the receiver.
LEMMA NextVisible ==
  ASSUME TypeOK, OneCommit, VisibleInv, [Next]_vars
  PROVE  VisibleInv'
<1>1. CASE UNCHANGED vars
  BY <1>1 DEF vars, disk, VisibleInv, Gapless, CommitPlaced, ExpectedVisible, NextSeqVisible,
              ChunkMode
<1>2. CASE Message
  BY <1>2, CreateVisible, DataVisible, ChunkVisible, CommitVisible DEF Message
<1>3. CASE Poll BY <1>3, PollVisible
<1>4. CASE Writer BY <1>4, WriterVisible
<1>5. CASE ApplyManifest1 \/ SenderRestart \/ QuietStop \/ Exit \/ Crash \/ Restart
  BY <1>5, LifecycleVisible
<1> QED BY <1>1, <1>2, <1>3, <1>4, <1>5 DEF Next

\* No heartbeat acknowledges an entry that is not visible, for every run of the
\* receiver: neither a rescan of the directory, nor a commit that is still with
\* the writer, nor a restart moves next_seq past an entry that is missing.
THEOREM AcknowledgedIsVisible == Spec => []NextSeqVisible
<1>1. Init => TypeOK /\ OneCommit /\ VisibleInv BY InitType, InitVisible
<1>2. TypeOK /\ OneCommit /\ VisibleInv /\ [Next]_vars => (TypeOK /\ OneCommit /\ VisibleInv)'
  BY NextType, NextOneCommit, NextVisible
<1>3. VisibleInv => NextSeqVisible BY DEF VisibleInv
<1> QED BY <1>1, <1>2, <1>3, PTL DEF Spec

-----------------------------------------------------------------------------
(* Whole entries.                                                           *)

\* A visible prefix is whole exactly when it has the length of its source.
LEMMA WholeIsLength ==
  ASSUME TypeOK, PrefixInv, NEW k \in present
  PROVE  Whole(k) <=> Len(content[k]) = Size[k]
<1>1. k \in Files /\ content[k] \in Seq(Nat) /\ Size[k] \in Nat
  BY SizeAssumption DEF TypeOK
<1>2. \A i \in 1..Len(content[k]) : content[k][i] = i BY DEF PrefixInv, VisibleIsPrefix
<1>3. ASSUME Whole(k) PROVE Len(content[k]) = Size[k]
  BY <1>1, <1>3 DEF Whole
<1>4. ASSUME Len(content[k]) = Size[k] PROVE Whole(k)
  <2>1. content[k] = [i \in 1..Len(content[k]) |-> content[k][i]] BY <1>1
  <2>2. content[k] = [i \in 1..Size[k] |-> i] BY <1>2, <1>4, <2>1
  <2> QED BY <2>2 DEF Whole
<1> QED BY <1>3, <1>4

\* An entry of size 0 is whole as soon as it is visible, and one that is not
\* whole is shorter than its source.
LEMMA PartialIsShorter ==
  ASSUME TypeOK, PrefixInv, NEW k \in present, ~Whole(k)
  PROVE  Len(content[k]) < Size[k] /\ Size[k] > 0
<1>1. k \in Files /\ Len(content[k]) \in Nat /\ Size[k] \in Nat
  BY SizeAssumption DEF TypeOK
<1>2. Len(content[k]) <= Size[k] BY DEF PrefixInv, VisibleIsPrefix
<1>3. Len(content[k]) # Size[k] BY WholeIsLength
<1> QED BY <1>1, <1>2, <1>3

\* A whole entry stays whole, and no step makes a visible file shorter.
LEMMA WholeStays ==
  ASSUME TypeOK, TypeOK', PrefixInv, PrefixInv', [Next]_vars, NEW k \in present
  PROVE  /\ k \in present'
         /\ Len(content[k]) <= Len(content'[k])
         /\ Whole(k) => Whole(k)'
<1>k. k \in Files /\ Len(content[k]) \in Nat /\ Len(content'[k]) \in Nat /\ Size[k] \in Nat
  BY SizeAssumption DEF TypeOK
<1>1. DirectoryStep BY StepsTouchDirectory
<1>2. ASSUME NEW j \in Files, Creates(j) \/ Renames(j)
      PROVE  k \in present' /\ content'[k] = content[k]
  BY <1>2, <1>k DEF Creates, Renames, TypeOK
<1>3. ASSUME NEW j \in Files, NEW m \in Nat, Appends(j, m), j # k
      PROVE  k \in present' /\ content'[k] = content[k]
  BY <1>3, <1>k DEF Appends, TypeOK
<1>4. ASSUME NEW m \in Nat, Appends(k, m)
      PROVE  k \in present' /\ Len(content[k]) <= Len(content'[k])
  <2>1. Len(content'[k]) = Len(content[k]) + m BY <1>4, <1>k, AppendedFile
  <2>2. k \in present' BY <1>4 DEF Appends
  <2> QED BY <1>k, <2>1, <2>2
<1>5. k \in present' /\ Len(content[k]) <= Len(content'[k])
  BY <1>k, <1>1, <1>2, <1>3, <1>4 DEF DirectoryStep
<1>6. ASSUME Whole(k) PROVE Whole(k)'
  <2>1. Len(content[k]) = Size[k] BY <1>6, WholeIsLength
  <2>2. Len(content'[k]) <= Size[k] BY <1>5 DEF PrefixInv, VisibleIsPrefix
  <2>3. Len(content'[k]) = Size[k] BY <1>k, <1>5, <2>1, <2>2
  <2>4. content'[k] \in Seq(Nat) /\ \A i \in 1..Len(content'[k]) : content'[k][i] = i
    BY <1>k, <1>5 DEF TypeOK, PrefixInv, VisibleIsPrefix
  <2>5. content'[k] = [i \in 1..Len(content'[k]) |-> content'[k][i]] BY <2>4
  <2>6. content'[k] = [i \in 1..Size[k] |-> i] BY <2>3, <2>4, <2>5
  <2> QED BY <1>5, <2>6 DEF Whole
<1> QED BY <1>5, <1>6

-----------------------------------------------------------------------------
(* ChunkAckStored: the bitmap of a chunk file only names chunks that are in  *)
(* its temporary file, or the file has been committed since.                 *)

RecvStored == \A k \in Files : \A i \in chk.recv[k] : i \in temp[k] \/ Whole(k)

StoredInv == RecvStored /\ ChunkAckStored

\* The chunk receiver, perhaps just constructed, and its temporary files.
LEMMA OpenedStored ==
  ASSUME TypeOK, StoredInv, NEW k \in Files, NEW i \in ChunkReceiver.recv[k]
  PROVE  i \in TempFiles[k] \/ Whole(k)
BY DEF StoredInv, RecvStored, ChunkReceiver, TempFiles, ClosedChk

\* Steps that touch neither the bitmaps nor the temporary files.
LEMMA KeepsStored ==
  ASSUME TypeOK, TypeOK', PrefixInv, PrefixInv', StoredInv, [Next]_vars,
         temp' = temp, chk'.recv = chk.recv, \A h \in heartbeats' : h.chunks = {}
  PROVE  StoredInv'
<1>1. ASSUME NEW k \in Files, NEW i \in chk'.recv[k] PROVE i \in temp'[k] \/ Whole(k)'
  <2>1. i \in temp[k] \/ Whole(k) BY <1>1 DEF StoredInv, RecvStored
  <2>2. CASE Whole(k)
    <3>1. k \in present BY <2>2 DEF Whole
    <3> QED BY <2>2, <3>1, WholeStays
  <2> QED BY <2>1, <2>2
<1> QED BY <1>1 DEF StoredInv, RecvStored, ChunkAckStored

\* FILE_BEGIN, CHUNK and FILE_COMMIT.
LEMMA ChunkMessagesStored ==
  ASSUME TypeOK, PrefixInv, VisibleInv, StoredInv, ~BufferedWrite, NEW k \in Files,
         ApplyBegin(k) \/ (\E i \in ChunksOf(k) : ApplyChunk(k, i)) \/ ApplyCommit(k)
  PROVE  StoredInv'
<1>t. /\ ChunkReceiver \in ChkType
      /\ ChunkReceiver.recv \in [Files -> SUBSET Nat]
      /\ TempFiles \in [Files -> SUBSET Nat]
  BY ReceiverTypes DEF ChkType
<1>w. \A j \in Files : Whole(j)' <=> Whole(j)
  BY DEF ApplyBegin, ApplyChunk, ApplyCommit, Whole
<1>1. ASSUME chk'.recv = ChunkReceiver.recv, temp' = TempFiles PROVE RecvStored'
  BY <1>1, <1>w, OpenedStored DEF RecvStored
<1>2. CASE ApplyBegin(k)
  <2>1. CASE BeginAccepted(k) /\ BeginOpens(ChunkReceiver, k)
    <3>1. /\ chk'.recv = [ChunkReceiver.recv EXCEPT ![k] = {}]
          /\ temp' = [TempFiles EXCEPT ![k] = {}]
      BY <1>t, <2>1 DEF BeginAccepted, ChkType
    <3>2. RecvStored' BY <1>t, <1>w, <3>1, OpenedStored DEF RecvStored
    <3>3. ChunkAckStored' BY <2>1 DEF BeginAccepted, Emit, Heartbeat, ChunkAckStored
    <3> QED BY <3>2, <3>3 DEF StoredInv
  <2>2. CASE BeginAccepted(k) /\ ~BeginOpens(ChunkReceiver, k)
    <3>1. chk' = ChunkReceiver /\ temp' = TempFiles BY <2>2 DEF BeginAccepted
    <3>2. ChunkAckStored' BY <2>2 DEF BeginAccepted, Emit, Heartbeat, ChunkAckStored
    <3> QED BY <1>1, <3>1, <3>2 DEF StoredInv
  <2>3. CASE BeginRejected(k)
    <3>1. chk' = ChunkReceiver /\ temp' = TempFiles /\ heartbeats' = {}
      BY <2>3 DEF BeginRejected, ChunkRefused, Reject
    <3> QED BY <1>1, <3>1 DEF StoredInv, ChunkAckStored
  <2> QED BY <1>2, <2>1, <2>2, <2>3 DEF ApplyBegin
<1>3. ASSUME NEW i \in ChunksOf(k), ApplyChunk(k, i) PROVE StoredInv'
  <2>1. CASE ChunkRejected(k, i)
    <3>1. chk' = ChunkReceiver /\ temp' = TempFiles /\ heartbeats' = {}
      BY <2>1 DEF ChunkRejected, ChunkRefused, Reject
    <3> QED BY <1>1, <3>1 DEF StoredInv, ChunkAckStored
  <2>2. ASSUME NEW stored \in BOOLEAN, ChunkAccepted(k, i, stored) PROVE StoredInv'
    <3>h. \A h \in heartbeats' : h.file = k /\ h.chunks = {i}
      BY <2>2 DEF ChunkAccepted, Emit, Heartbeat
    <3>1. CASE ChunkStores(ChunkReceiver, k, i)
      <4>1. /\ chk'.recv = [ChunkReceiver.recv EXCEPT ![k] = @ \cup {i}]
            /\ temp' = [TempFiles EXCEPT ![k] = @ \cup {i}]
        BY <1>t, <2>2, <3>1 DEF ChunkAccepted, ChkType
      <4>2. RecvStored' BY <1>t, <1>w, <4>1, OpenedStored DEF RecvStored
      <4>3. i \in temp'[k] BY <1>t, <4>1
      <4> QED BY <3>h, <4>2, <4>3 DEF StoredInv, ChunkAckStored
    <3>2. CASE ~ChunkStores(ChunkReceiver, k, i)
      <4>1. chk' = ChunkReceiver /\ temp' = TempFiles BY <2>2, <3>2 DEF ChunkAccepted
      <4>2. i \in TempFiles[k] \/ Whole(k)
        <5>k. k \in Nat /\ k >= 1 /\ ChunkReceiver.expected \in Nat
          BY <1>t DEF Files, ChkType
        <5>1. CASE k = ChunkReceiver.expected
          <6>1. i \in ChunkReceiver.recv[k] BY <3>2, <5>1 DEF ChunkStores
          <6> QED BY <6>1, OpenedStored
        <5>2. CASE k # ChunkReceiver.expected
          <6>1. k < ChunkReceiver.expected BY <2>2, <5>k, <5>2 DEF ChunkAccepted, ChunkReason
          <6>2. k \in 1..(ChunkReceiver.expected - 1) BY <5>k, <6>1
          <6>3. k \in present BY <6>2, ReceiversVisible
          <6> QED BY <1>3, <6>3 DEF ApplyChunk, PrefixInv, VisibleIsPrefix
        <5> QED BY <5>1, <5>2
      <4> QED BY <1>1, <1>w, <3>h, <4>1, <4>2 DEF StoredInv, ChunkAckStored
    <3> QED BY <3>1, <3>2
  <2> QED BY <1>3, <2>1, <2>2 DEF ApplyChunk
<1>4. CASE ApplyCommit(k)
  <2>h. ChunkAckStored'
    BY <1>4 DEF ApplyCommit, CommitWhileQueued, CommitStale, CommitQueued, CommitRejected,
                Silent, Emit, Reject, Heartbeat, ChunkAckStored
  <2>1. CASE CommitWhileQueued(k)
    <3>1. chk' = chk /\ temp' = temp BY <2>1 DEF CommitWhileQueued
    <3> QED BY <1>w, <2>h, <3>1 DEF StoredInv, RecvStored
  <2>2. CASE CommitStale(k) \/ CommitQueued(k) \/ CommitRejected(k)
    <3>1. chk'.recv = ChunkReceiver.recv /\ temp' = TempFiles
      BY <1>t, <2>2 DEF CommitStale, CommitQueued, CommitRejected, ChkType
    <3> QED BY <1>1, <2>h, <3>1 DEF StoredInv
  <2> QED BY <1>4, <2>1, <2>2 DEF ApplyCommit
<1> QED BY <1>2, <1>3, <1>4

\* Every step keeps it: only a rename empties a temporary file, and then the
\* whole entry is visible.
LEMMA NextStored ==
  ASSUME TypeOK, TypeOK', PrefixInv, PrefixInv', VisibleInv, StoredInv, ~BufferedWrite,
         [Next]_vars
  PROVE  StoredInv'
<1> USE DEF disk, env
<1>1. CASE UNCHANGED vars
  BY <1>1 DEF vars, StoredInv, RecvStored, ChunkAckStored, Whole
<1>2. ASSUME NEW k \in Files, ApplyCreate(k) PROVE StoredInv'
  <2>1. /\ temp' = temp
        /\ chk'.recv = chk.recv
        /\ \A h \in heartbeats' : h.chunks = {}
    <3>1. ASSUME NEW a, NEW p, CreateAccepted(k, a, p)
          PROVE  /\ temp' = temp
                 /\ chk'.recv = chk.recv
                 /\ \A h \in heartbeats' : h.chunks = {}
      BY <3>1 DEF CreateAccepted, RefreshChunk, Emit, AppendHeartbeat, Heartbeat, TypeOK, ChkType
    <3>2. CASE CreateNew(k) BY <3>1, <3>2 DEF CreateNew
    <3>3. CASE CreateStale(k) BY <3>1, <3>3 DEF CreateStale
    <3>4. CASE CreateRejected(k) \/ CreateFails(k)
      BY <3>4 DEF CreateRejected, CreateFails, Reject
    <3> QED BY <1>2, <3>2, <3>3, <3>4 DEF ApplyCreate
  <2> QED BY <2>1, KeepsStored
<1>3. ASSUME NEW k \in Files, NEW o \in 0..(Size[k] - 1), ApplyData(k, o) PROVE StoredInv'
  <2>1. ASSUME NEW a, DataAccepted(k, o, a)
        PROVE  /\ temp' = temp
               /\ chk'.recv = chk.recv
               /\ \A h \in heartbeats' : h.chunks = {}
    BY <2>1 DEF DataAccepted, RefreshChunk, Emit, AppendHeartbeat, Heartbeat, TypeOK, ChkType
  <2>2. /\ temp' = temp
        /\ chk'.recv = chk.recv
        /\ \A h \in heartbeats' : h.chunks = {}
    BY <1>3, <2>1 DEF ApplyData, DataAppended, DataIgnored, DataRejected, DataTorn, Reject
  <2> QED BY <2>2, KeepsStored
<1>4. ASSUME NEW k \in Files,
             ApplyBegin(k) \/ (\E i \in ChunksOf(k) : ApplyChunk(k, i)) \/ ApplyCommit(k)
      PROVE  StoredInv'
  BY <1>4, ChunkMessagesStored
<1>5. CASE Poll
  <2>1. /\ temp' = temp
        /\ \A h \in heartbeats' : h.chunks = {}
    BY <1>5 DEF Poll, PollIdle, PollCommitDone, PollFailure, Emit, Silent, FsyncHeartbeats,
                CommitHeartbeat, AppendHeartbeat, Heartbeat
  <2>2. CASE PollIdle \/ PollFailure
    <3>1. chk'.recv = chk.recv BY <2>2 DEF PollIdle, PollFailure, TypeOK, ChkType
    <3> QED BY <2>1, <3>1, KeepsStored
  <2>3. CASE PollCommitDone
    <3>1. chk'.recv = [chk.recv EXCEPT ![cmt.seq] = {}]
      BY <2>3 DEF PollCommitDone, FinishCommit, TypeOK, ChkType
    <3>2. \A k \in Files : Whole(k)' <=> Whole(k) BY <1>5 DEF Poll, Whole
    <3>3. chk.recv \in [Files -> SUBSET Nat] BY DEF TypeOK, ChkType
    <3>4. RecvStored' BY <2>1, <3>1, <3>2, <3>3 DEF StoredInv, RecvStored
    <3> QED BY <2>1, <3>4 DEF StoredInv, ChunkAckStored
  <2> QED BY <1>5, <2>2, <2>3 DEF Poll
<1>6. CASE WriterRename
  <2>0. PICK f \in Files : f = running.file
    BY <1>6 DEF WriterRename, TypeOK, NoTask, Task
  <2>1. /\ chk' = chk
        /\ heartbeats' = {}
        /\ temp' = [temp EXCEPT ![f] = {}]
    BY <1>6, <2>0 DEF WriterRename, LoopIdle
  <2>2. Whole(f)'
    <3>1. FileOf(f) = [i \in 1..Size[f] |-> i]
      BY <1>6, <2>0 DEF WriterRename, CommitIntact, ChunksOf, FileOf
    <3>2. content'[f] = FileOf(f) /\ f \in present'
      BY <1>6, <2>0 DEF WriterRename, TypeOK
    <3> QED BY <3>1, <3>2 DEF Whole
  <2>3. ASSUME NEW k \in Files, NEW i \in chk'.recv[k] PROVE i \in temp'[k] \/ Whole(k)'
    <3>1. CASE k = f BY <2>2, <3>1
    <3>2. CASE k # f
      <4>1. i \in temp[k] \/ Whole(k) BY <2>1, <2>3 DEF StoredInv, RecvStored
      <4>2. temp'[k] = temp[k] BY <2>1, <3>2 DEF TypeOK
      <4>3. Whole(k) => Whole(k)' BY WholeStays DEF Whole
      <4> QED BY <4>1, <4>2, <4>3
    <3> QED BY <3>1, <3>2
  <2> QED BY <2>1, <2>3 DEF StoredInv, RecvStored, ChunkAckStored
<1>7. CASE \/ WriterTake \/ WriterFsync \/ WriterCommitSync \/ WriterFails
           \/ ApplyManifest1 \/ SenderRestart \/ QuietStop \/ Exit \/ Crash
  <2>1. temp' = temp /\ chk' = chk /\ heartbeats' = {}
    BY <1>7 DEF WriterTake, WriterFsync, WriterCommitSync, WriterFails, LoopIdle,
                ApplyManifest1, SenderRestart, QuietStop, Exit, Crash
  <2> QED BY <2>1, KeepsStored
<1>8. CASE Restart
  BY <1>8 DEF Restart, ClosedChk, StoredInv, RecvStored, ChunkAckStored
<1> QED BY <1>1, <1>2, <1>3, <1>4, <1>5, <1>6, <1>7, <1>8 DEF Next, Message, Writer

\* A chunk that a heartbeat acknowledges is in the temporary file of this
\* process or in the committed file, for every run of a receiver whose writes
\* report their errors: the bitmap is never ahead of the disk, whatever is
\* repeated, rejected, committed or restarted.
THEOREM ChunkAcksAreStored == ASSUME ~BufferedWrite PROVE Spec => []ChunkAckStored
<1> DEFINE Inv == TypeOK /\ PrefixInv /\ OneCommit /\ VisibleInv /\ StoredInv
<1>1. Init => Inv
  <2> SUFFICES ASSUME Init PROVE StoredInv BY InitType, InitPrefix, InitVisible
  <2> QED BY DEF Init, Started, ClosedChk, StoredInv, RecvStored, ChunkAckStored
<1>2. Inv /\ [Next]_vars => Inv'
  <2> SUFFICES ASSUME Inv, [Next]_vars PROVE Inv' OBVIOUS
  <2>1. TypeOK' BY NextType
  <2>2. PrefixInv' BY <2>1, NextPrefix
  <2> QED BY <2>1, <2>2, NextOneCommit, NextVisible, NextStored
<1>3. Inv => ChunkAckStored BY DEF StoredInv
<1> QED BY <1>1, <1>2, <1>3, PTL DEF Spec

-----------------------------------------------------------------------------
(* OffsetIsWritten: the append receiver's offset is not past the end of the  *)
(* file it names, and that file is visible.                                  *)

Written(a) == a.file # 0 => a.file \in present /\ a.offset <= Len(content[a.file])

OffsetInv == Written(app) /\ OffsetIsWritten

\* The append receiver, constructed on first use or refreshed from disk.
LEMMA ReceiverWritten ==
  ASSUME TypeOK, OffsetInv
  PROVE  Written(AppendReceiver) /\ Written(RefreshApp(app))
<1>1. ASSUME present # {}
      PROVE  Latest(present) \in present /\ Len(content[Latest(present)]) \in Nat
  <2>1. present \in SUBSET Files /\ content \in [Files -> Seq(Nat)] BY DEF TypeOK
  <2>2. Latest(present) \in present BY <1>1, <2>1, LatestIsNewest
  <2>3. content[Latest(present)] \in Seq(Nat) BY <2>1, <2>2
  <2> QED BY <2>2, <2>3
<1>2. Written(ResetSession)
  BY <1>1 DEF Written, ResetSession, ClosedApp
<1>3. Written(RefreshApp(app))
  <2>1. CASE present = {} BY <2>1 DEF Written, RefreshApp, TypeOK, AppType
  <2>2. CASE present # {}
    <3>1. /\ RefreshApp(app).file = Latest(present)
          /\ RefreshApp(app).offset = Len(content[Latest(present)])
      BY <2>2 DEF RefreshApp, TypeOK, AppType
    <3> QED BY <1>1, <2>2, <3>1 DEF Written
  <2> QED BY <2>1, <2>2
<1> QED BY <1>2, <1>3 DEF AppendReceiver, OffsetInv

\* What was written stays written.
LEMMA WrittenStays ==
  ASSUME TypeOK, TypeOK', PrefixInv, PrefixInv', [Next]_vars, NEW a \in AppType, Written(a)
  PROVE  Written(a)'
<1> SUFFICES ASSUME a.file # 0
             PROVE  a.file \in present' /\ a.offset <= Len(content'[a.file])
  BY DEF Written
<1>1. a.file \in present /\ a.offset <= Len(content[a.file]) BY DEF Written
<1>2. a.file \in present' /\ Len(content[a.file]) <= Len(content'[a.file])
  BY <1>1, WholeStays
<1>3. a.file \in Files /\ a.offset \in Nat BY <1>1 DEF AppType, TypeOK
<1>4. content[a.file] \in Seq(Nat) /\ content'[a.file] \in Seq(Nat) BY <1>3 DEF TypeOK
<1>5. Len(content[a.file]) \in Nat /\ Len(content'[a.file]) \in Nat BY <1>4
<1> QED BY <1>1, <1>2, <1>3, <1>5

\* What a step has to show.
LEMMA KeepsOffset ==
  ASSUME NEW a, app' = a, Written(a)',
         \A h \in heartbeats' : h.file # 0 => h.offset <= Len(content'[h.file])
  PROVE  OffsetInv'
BY DEF OffsetInv, OffsetIsWritten, Written

\* CREATE and DATA.
LEMMA AppendMessagesWritten ==
  ASSUME TypeOK, TypeOK', PrefixInv, PrefixInv', OffsetInv, ~BufferedWrite, [Next]_vars,
         NEW k \in Files,
         ApplyCreate(k) \/ \E o \in 0..(Size[k] - 1) : ApplyData(k, o)
  PROVE  OffsetInv'
<1>a. AppendReceiver \in AppType /\ Written(AppendReceiver)
  BY ReceiverTypes, ReceiverWritten
<1>w. Written(AppendReceiver) =>
        (AppendReceiver.file # 0 =>
           /\ AppendReceiver.file \in present'
           /\ AppendReceiver.offset <= Len(content'[AppendReceiver.file]))
  BY <1>a, WrittenStays DEF Written
<1>1. ASSUME NEW a, app' = a, a.file # 0 => a.file \in present'
                                            /\ a.offset <= Len(content'[a.file]),
             heartbeats' = {} \/ \E d : heartbeats' = {AppendHeartbeat(a, d)}
      PROVE  OffsetInv'
  BY <1>1, KeepsOffset DEF Written, AppendHeartbeat, Heartbeat
<1>2. ASSUME app' = AppendReceiver,
             heartbeats' = {} \/ \E d : heartbeats' = {AppendHeartbeat(AppendReceiver, d)}
      PROVE  OffsetInv'
  BY <1>1, <1>2, <1>a, <1>w
<1>3. CASE ApplyCreate(k)
  <2>1. CASE CreateNew(k)
    <3> DEFINE e == IF Size[k] = 0 THEN k + 1 ELSE k
               a == [AppendReceiver EXCEPT !.file = k, !.offset = 0, !.final = Size[k],
                                           !.expected = e]
    <3>1. /\ app' = a /\ k \in present'
          /\ heartbeats' = {AppendHeartbeat(a, a.offset)}
      BY <2>1 DEF CreateNew, CreateAccepted, Emit
    <3>2. a.file = k /\ a.offset = 0 BY <1>a DEF AppType
    <3>3. Len(content'[k]) \in Nat BY DEF TypeOK
    <3> HIDE DEF a
    <3> QED BY <1>1, <3>1, <3>2, <3>3
  <2>2. CASE CreateStale(k)
    BY <1>2, <2>2 DEF CreateStale, CreateAccepted, Emit
  <2>3. CASE CreateRejected(k) \/ CreateFails(k)
    BY <1>2, <2>3 DEF CreateRejected, CreateFails, Reject
  <2> QED BY <1>3, <2>1, <2>2, <2>3 DEF ApplyCreate
<1>4. ASSUME NEW o \in 0..(Size[k] - 1), ApplyData(k, o) PROVE OffsetInv'
  <2>1. ASSUME NEW m \in 0..Block, DataAppended(k, o, m) PROVE OffsetInv'
    <3> DEFINE a == AfterData(k, o)
    <3>1. /\ app' = a /\ present' = present
          /\ \E d : heartbeats' = {AppendHeartbeat(a, d)}
      BY <2>1 DEF DataAppended, AfterData, DataAccepted, Emit
    <3>2. /\ m = DataLen(k, o)
          /\ k \in present /\ o = Len(content[k])
          /\ k = AppendReceiver.file
          /\ content' = [content EXCEPT ![k] = @ \o Bytes(o, m)]
      BY <2>1 DEF DataAppended, DataReason
    <3>3. m \in Nat /\ o + m <= Size[k] /\ a.file = k /\ a.offset = o + m
      BY <3>2, AfterDataFields
    <3>4. Appends(k, m) BY <1>4, <3>1, <3>2, <3>3 DEF Appends, ApplyData
    <3>5. Len(content'[k]) = o + m BY <3>2, <3>3, <3>4, AppendedFile
    <3>6. o \in Nat BY SizeAssumption
    <3> HIDE DEF a
    <3>7. a.file \in present' /\ a.offset <= Len(content'[a.file])
      <4>1. o + m \in Nat BY <3>3, <3>6
      <4>2. k \in present' BY <3>1, <3>2
      <4>3. a.file = k /\ a.offset = o + m BY <3>3
      <4> QED BY <3>5, <4>1, <4>2, <4>3
    <3> QED BY <1>1, <3>1, <3>7
  <2>2. CASE DataIgnored(k, o)
    BY <1>2, <2>2 DEF DataIgnored, DataAccepted, Emit
  <2>3. CASE DataRejected(k, o) \/ \E m \in 0..Block : DataTorn(k, o, m)
    BY <1>2, <2>3 DEF DataRejected, DataTorn, Reject
  <2> QED BY <1>4, <2>1, <2>2, <2>3 DEF ApplyData
<1> QED BY <1>3, <1>4

\* Every other step: chunk messages claim no bytes or what is on disk, a
\* finished commit the whole entry.
LEMMA NextOffset ==
  ASSUME TypeOK, TypeOK', PrefixInv, PrefixInv', VisibleInv, OffsetInv, ~BufferedWrite,
         [Next]_vars
  PROVE  OffsetInv'
<1> USE DEF disk, env
<1>l. \A k \in Files : Len(content'[k]) \in Nat BY DEF TypeOK
<1>s. Written(app)' \/ app' # app
  BY WrittenStays DEF OffsetInv, TypeOK, Written
<1>1. CASE UNCHANGED vars
  BY <1>1 DEF vars, OffsetInv, Written, OffsetIsWritten
<1>2. ASSUME NEW k \in Files,
             ApplyCreate(k) \/ \E o \in 0..(Size[k] - 1) : ApplyData(k, o)
      PROVE  OffsetInv'
  BY <1>2, AppendMessagesWritten
<1>3. ASSUME NEW k \in Files,
             ApplyBegin(k) \/ \E i \in ChunksOf(k) : ApplyChunk(k, i)
      PROVE  OffsetInv'
  <2>1. app' = app BY <1>3 DEF ApplyBegin, ApplyChunk
  <2>2. \A h \in heartbeats' : h.file = k /\ h.offset = 0
    <3>1. CASE ApplyBegin(k)
      BY <3>1 DEF ApplyBegin, BeginAccepted, BeginRejected, ChunkRefused, Emit, Reject, Heartbeat
    <3>2. ASSUME NEW i \in ChunksOf(k), ApplyChunk(k, i)
          PROVE  \A h \in heartbeats' : h.file = k /\ h.offset = 0
      <4>1. CASE ChunkRejected(k, i) BY <4>1 DEF ChunkRejected, ChunkRefused, Reject
      <4>2. ASSUME NEW stored \in BOOLEAN, ChunkAccepted(k, i, stored)
            PROVE  \A h \in heartbeats' : h.file = k /\ h.offset = 0
        BY <4>2 DEF ChunkAccepted, Emit, Heartbeat
      <4> QED BY <3>2, <4>1, <4>2 DEF ApplyChunk
    <3> QED BY <1>3, <3>1, <3>2
  <2> QED BY <1>l, <1>s, <2>1, <2>2 DEF OffsetInv, OffsetIsWritten
<1>4. ASSUME NEW k \in Files, ApplyCommit(k) PROVE OffsetInv'
  <2>1. app' = app /\ content' = content BY <1>4 DEF ApplyCommit
  <2>2. \A h \in heartbeats' : h.file = k /\ (h.offset = Len(content[k]) \/ h.offset = 0)
    BY <1>4 DEF ApplyCommit, CommitWhileQueued, CommitStale, CommitQueued, CommitRejected,
                Silent, Emit, Reject, Heartbeat
  <2> QED BY <1>l, <1>s, <2>1, <2>2 DEF OffsetInv, OffsetIsWritten
<1>5. CASE Poll
  <2>0. present' = present /\ content' = content BY <1>5 DEF Poll
  <2>f. \A h \in FsyncHeartbeats : h.file = app.file /\ h.offset = app.offset
    BY DEF FsyncHeartbeats, AppendHeartbeat, Heartbeat
  <2>1. CASE PollIdle \/ PollFailure
    <3>1. app' = app BY <2>1 DEF PollIdle, PollFailure
    <3>2. \A h \in heartbeats' : h.file = app.file /\ h.offset = app.offset
      BY <2>1, <2>f DEF PollIdle, PollFailure, Emit, Silent
    <3> QED BY <1>s, <2>0, <3>1, <3>2 DEF OffsetInv, OffsetIsWritten, Written
  <2>2. CASE PollCommitDone
    <3>1. app' = app \/ app' = RefreshApp(app) BY <2>2 DEF PollCommitDone
    <3>2. Written(app)' BY <2>0, <3>1, ReceiverWritten DEF Written, OffsetInv
    <3>3. cmt.seq \in present /\ cmt.seq \in Files /\ ChunkMode(cmt.seq)
      BY <2>2 DEF PollCommitDone, VisibleInv, CommitPlaced
    <3>4. Len(content[cmt.seq]) = Size[cmt.seq]
      BY <3>3, WholeIsLength DEF PrefixInv, VisibleIsPrefix
    <3>5. \A h \in heartbeats' : \/ h.file = app.file /\ h.offset = app.offset
                                 \/ h.file = cmt.seq /\ h.offset = Size[cmt.seq]
      BY <2>2, <2>f DEF PollCommitDone, Emit, CommitHeartbeat, Heartbeat
    <3>6. Size[cmt.seq] \in Nat BY <3>3, SizeAssumption
    <3>7. OffsetIsWritten'
      BY <2>0, <3>4, <3>5, <3>6 DEF OffsetIsWritten, OffsetInv, Written
    <3> QED BY <3>2, <3>7 DEF OffsetInv
  <2> QED BY <1>5, <2>1, <2>2 DEF Poll
<1>6. CASE Writer \/ ApplyManifest1 \/ SenderRestart \/ QuietStop \/ Exit \/ Crash
  <2>1. app' = app /\ heartbeats' = {}
    BY <1>6 DEF Writer, WriterTake, WriterFsync, WriterRename, WriterCommitSync, WriterFails,
                LoopIdle, ApplyManifest1, SenderRestart, QuietStop, Exit, Crash
  <2> QED BY <1>s, <2>1 DEF OffsetInv, OffsetIsWritten
<1>7. CASE Restart
  BY <1>7 DEF Restart, ClosedApp, OffsetInv, Written, OffsetIsWritten
<1> QED BY <1>1, <1>2, <1>3, <1>4, <1>5, <1>6, <1>7 DEF Next, Message

\* No heartbeat claims bytes that are not in the file, for every run of a
\* receiver whose writes report their errors: neither a write torn half way, nor
\* a rescan, nor a switch to another file leaves an offset past its end.
THEOREM OffsetsAreWritten == ASSUME ~BufferedWrite PROVE Spec => []OffsetIsWritten
<1> DEFINE Inv == TypeOK /\ PrefixInv /\ OneCommit /\ VisibleInv /\ OffsetInv
<1>1. Init => Inv
  <2> SUFFICES ASSUME Init PROVE OffsetInv BY InitType, InitPrefix, InitVisible
  <2> QED BY DEF Init, Started, ClosedApp, OffsetInv, Written, OffsetIsWritten
<1>2. Inv /\ [Next]_vars => Inv'
  <2> SUFFICES ASSUME Inv, [Next]_vars PROVE Inv' OBVIOUS
  <2>1. TypeOK' BY NextType
  <2>2. PrefixInv' BY <2>1, NextPrefix
  <2> QED BY <2>1, <2>2, NextOneCommit, NextVisible, NextOffset
<1>3. Inv => OffsetIsWritten BY DEF OffsetInv
<1> QED BY <1>1, <1>2, <1>3, PTL DEF Spec

=============================================================================
