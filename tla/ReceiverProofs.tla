--------------------------- MODULE ReceiverProofs ---------------------------
(***************************************************************************)
(* The receiver for every number of files, every size, every ring capacity *)
(* and any number of crashes and disk faults.                              *)
(***************************************************************************)
EXTENDS Receiver, FiniteSetTheorems, WellFoundedInduction, SequenceTheorems, TLAPS

-----------------------------------------------------------------------------
(* Scans of the directory.                                                  *)

\* A non-empty set of naturals has a least element.
LEMMA LeastElement ==
  ASSUME NEW T, T \subseteq Nat, T # {}
  PROVE  \E x \in T : \A y \in T : x <= y
<1> DEFINE R == {ss \in Nat \X Nat : ss[1] < ss[2]}
<1>1. IsWellFoundedOn(R, Nat)
  BY NatLessThanWellFounded DEF OpToRel
<1> HIDE DEF R
<1>2. PICK x \in T : \A y \in T : ~ (<<y, x>> \in R)
  BY <1>1, WFMin
<1>3. ASSUME NEW y \in T PROVE x <= y
  <2>1. <<y, x>> \in Nat \X Nat OBVIOUS
  <2>2. ~ (y < x) BY <1>2, <2>1 DEF R
  <2> QED BY <2>2
<1> QED BY <1>3

\* The newest entry of a non-empty directory is one of its entries.
LEMMA LatestIsNewest ==
  ASSUME NEW S \in SUBSET Files, S # {}
  PROVE  Latest(S) \in S /\ \A j \in S : j <= Latest(S)
<1> USE SizeAssumption DEF Files
<1> DEFINE T == {NFiles - s : s \in S}
<1>1. T \subseteq Nat /\ T # {}
  <2>1. \A s \in S : NFiles - s \in Nat OBVIOUS
  <2> QED BY <2>1
<1>2. PICK t \in T : \A y \in T : t <= y BY <1>1, LeastElement
<1>3. PICK x \in S : t = NFiles - x BY <1>2
<1>4. ASSUME NEW y \in S PROVE y <= x
  <2>1. NFiles - x <= NFiles - y BY <1>2, <1>3
  <2> QED BY <2>1
<1> QED BY <1>3, <1>4 DEF Latest

\* scan_manifest_stream numbers the entries from 1: the next seq is natural.
LEMMA ScanNextType ==
  ASSUME NEW S \in SUBSET Files
  PROVE  ScanNext(S) \in Nat
<1>1. IsFiniteSet(Files) BY SizeAssumption, FS_Interval DEF Files
<1>2. Cardinality(S) \in Nat BY <1>1, FS_Subset, FS_CardinalityType
<1> QED BY <1>2 DEF ScanNext

\* The first file the sender still has to send exists.
LEMMA FirstOutsideType ==
  ASSUME NEW S \in SUBSET Files
  PROVE  /\ FirstOutside(S) \in 1..(NFiles + 1)
         /\ FirstOutside(S) \notin S
         /\ 1..(FirstOutside(S) - 1) \subseteq S
<1> USE SizeAssumption DEF Files
<1> DEFINE T == (1..(NFiles + 1)) \ S
<1>1. T \subseteq Nat /\ NFiles + 1 \in T OBVIOUS
<1>2. PICK x \in T : \A y \in T : x <= y BY <1>1, LeastElement
<1>3. x \in 1..(NFiles + 1) /\ x \notin S OBVIOUS
<1>4. \A j \in 1..(x - 1) : j \in S BY <1>2
<1> QED BY <1>3, <1>4 DEF FirstOutside

-----------------------------------------------------------------------------
(* Types of the operators the handlers are built from.                      *)

\* 0 stands for "no file" and is in the range of the file fields.
LEMMA ZeroFile == 0 \in 0..NFiles /\ 0 \in Nat /\ 1 \in Nat
BY SizeAssumption

\* The lazily constructed receivers.
LEMMA ReceiverTypes ==
  ASSUME TypeOK
  PROVE  /\ AppendReceiver \in AppType
         /\ ChunkReceiver \in ChkType
         /\ TempFiles \in [Files -> SUBSET Nat]
<1> USE SizeAssumption
<1>1. ResetSession \in AppType
  <2>1. CASE present = {}
    BY <2>1, ZeroFile DEF ResetSession, ClosedApp, AppType
  <2>2. CASE present # {}
    <3>1. Latest(present) \in Files BY <2>2, LatestIsNewest DEF TypeOK
    <3>2. ScanNext(present) \in Nat BY ScanNextType DEF TypeOK
    <3>3. Len(content[Latest(present)]) \in Nat BY <3>1 DEF TypeOK
    <3>4. Latest(present) \in 0..NFiles BY <3>1 DEF Files
    <3> QED BY <2>2, <3>2, <3>3, <3>4 DEF ResetSession, AppType
  <2> QED BY <2>1, <2>2
<1>2. AppendReceiver \in AppType BY <1>1 DEF AppendReceiver, TypeOK
<1>3. ScanNext(present) \in Nat BY ScanNextType DEF TypeOK
<1>4. ChunkReceiver \in ChkType BY <1>3 DEF ChunkReceiver, ClosedChk, ChkType, TypeOK
<1>5. TempFiles \in [Files -> SUBSET Nat] BY DEF TempFiles, TypeOK
<1> QED BY <1>2, <1>4, <1>5

\* refresh_committed_from_disk of the two receivers.
LEMMA RefreshAppType ==
  ASSUME TypeOK
  PROVE  RefreshApp(app) \in AppType
<1> USE SizeAssumption
<1>1. CASE present = {}
  <2>1. app \in AppType BY DEF TypeOK
  <2> QED BY <1>1, <2>1, ZeroFile DEF RefreshApp, AppType
<1>2. CASE present # {}
  <2>1. Latest(present) \in Files BY <1>2, LatestIsNewest DEF TypeOK
  <2>2. ScanNext(present) \in Nat BY ScanNextType DEF TypeOK
  <2>3. Len(content[Latest(present)]) \in Nat BY <2>1 DEF TypeOK
  <2>4. Latest(present) \in 0..NFiles BY <2>1 DEF Files
  <2> QED BY <1>2, <2>2, <2>3, <2>4 DEF RefreshApp, AppType, TypeOK, Larger
<1> QED BY <1>1, <1>2

\* The same for the chunk receiver.
LEMMA RefreshChunkType ==
  ASSUME TypeOK, NEW p \in SUBSET Files
  PROVE  RefreshChunk(p) \in ChkType
<1>1. ScanNext(p) \in Nat BY ScanNextType
<1> QED BY <1>1 DEF RefreshChunk, ChkType, TypeOK, Larger

\* reset_append_durable_context and maybe_enqueue_append_fsync.
LEMMA ResetDurableType ==
  ASSUME NEW d \in DurType, NEW file \in Files, NEW path \in 0..NFiles, NEW offset \in Nat
  PROVE  ResetDurable(d, file, path, offset) \in DurType
<1>1. file \in 0..NFiles BY SizeAssumption DEF Files
<1>2. CASE d.file = file
  BY <1>2 DEF ResetDurable, DurType
<1>3. CASE d.file # file
  BY <1>1, <1>3, ZeroFile DEF ResetDurable, DurType
<1> QED BY <1>2, <1>3

\* A queued fsync names a file and the ring keeps its bound.
LEMMA EnqueueFsyncType ==
  ASSUME TypeOK, NEW d \in DurType, NEW target \in Nat
  PROVE  /\ EnqueueFsync(d, target) \in DurType
         /\ QueueFsync(d, target) \in Seq(Task)
         /\ Len(QueueFsync(d, target)) <= QueueCap
<1> USE SizeAssumption
<1>1. FsyncTarget(d, target) \in DurType /\ FsyncTarget(d, target).target \in Nat
  BY DEF FsyncTarget, DurType, Larger
<1>2. EnqueueFsync(d, target) \in DurType
  BY <1>1 DEF EnqueueFsync, DurType
<1>3. CASE WantsFsync(d, target) /\ Len(queue) < QueueCap
  <2>1. d.path \in Files BY <1>3 DEF WantsFsync, DurType, Files
  <2>2. [kind |-> "fsync", file |-> d.path, target |-> FsyncTarget(d, target).target] \in Task
    BY <1>1, <2>1 DEF Task
  <2>3. QueueFsync(d, target)
          = Append(queue, [kind |-> "fsync", file |-> d.path,
                           target |-> FsyncTarget(d, target).target])
    BY <1>3 DEF QueueFsync
  <2> QED BY <1>2, <1>3, <2>2, <2>3 DEF TypeOK
<1>4. CASE ~(WantsFsync(d, target) /\ Len(queue) < QueueCap)
  BY <1>2, <1>4 DEF QueueFsync, TypeOK
<1> QED BY <1>3, <1>4

\* What a handler hands to the network.
LEMMA OutputTypes ==
  ASSUME TypeOK
  PROVE  /\ \A hs : Emit(hs) => /\ told' \in SUBSET Files
                                /\ nack' \in Reasons
         /\ \A x \in Reasons : Reject(x) => /\ told' \in SUBSET Files
                                            /\ nack' \in Reasons
BY DEF TypeOK, Emit, Reject, Reasons

\* The reasons a handler gives for a NACK.
LEMMA ReasonTypes ==
  /\ \A a, k : CreateReason(a, k) \in Reasons
  /\ \A a, k, o : DataReason(a, k, o) \in Reasons
  /\ \A c, k : BeginReason(c, k) \in Reasons
  /\ \A c, k : ChunkReason(c, k) \in Reasons
  /\ \A c, k : CommitReason(c, k) \in Reasons
  /\ "IO_ERROR" \in Reasons /\ "BAD_COMMIT" \in Reasons
BY DEF CreateReason, DataReason, BeginReason, ChunkReason, CommitReason, Reasons

\* An append receiver whose state fields are assigned together.
LEMMA AppUpdate ==
  ASSUME NEW a \in AppType, NEW e \in Nat, NEW f \in 0..NFiles, NEW o \in Nat, NEW z \in Nat
  PROVE  /\ [a EXCEPT !.file = f, !.offset = o, !.final = z, !.expected = e] \in AppType
         /\ [a EXCEPT !.offset = o, !.final = z, !.expected = e] \in AppType
BY DEF AppType

\* The state a handler of the append receiver leaves has its types.
LEMMA CreateType ==
  ASSUME TypeOK, NEW k \in Files, ApplyCreate(k)
  PROVE  TypeOK'
<1> USE SizeAssumption DEF disk, env
<1>a. AppendReceiver \in AppType BY ReceiverTypes
<1>k. k \in Nat /\ k \in 0..NFiles /\ Size[k] \in Nat BY DEF Files
<1>1. ASSUME NEW a \in AppType, NEW p \in SUBSET Files, present' = p, CreateAccepted(k, a, p)
      PROVE  TypeOK'
  <2>1. ResetDurable(dur, k, a.file, 0) \in DurType
    BY ResetDurableType DEF TypeOK, AppType
  <2>2. RefreshChunk(p) \in ChkType BY RefreshChunkType
  <2>3. told' \in SUBSET Files /\ nack' \in Reasons
    BY <1>1, OutputTypes DEF CreateAccepted
  <2> QED BY <1>1, <2>1, <2>2, <2>3 DEF CreateAccepted, TypeOK
<1>2. CASE CreateNew(k)
  <2> DEFINE b == [AppendReceiver EXCEPT !.file = k, !.offset = 0, !.final = Size[k],
                                         !.expected = IF Size[k] = 0 THEN k + 1 ELSE k]
  <2>1. b \in AppType
    <3>1. (IF Size[k] = 0 THEN k + 1 ELSE k) \in Nat BY <1>k
    <3> QED BY <1>a, <1>k, <3>1, ZeroFile, AppUpdate
  <2>2. present \cup {k} \in SUBSET Files BY DEF TypeOK
  <2>3. present' = present \cup {k} /\ CreateAccepted(k, b, present \cup {k})
    BY <1>2 DEF CreateNew
  <2> QED BY <2>1, <2>2, <2>3, <1>1
<1>3. CASE CreateStale(k)
  BY <1>3, <1>1, <1>a DEF CreateStale, TypeOK
<1>4. CASE CreateRejected(k)
  <2>1. told' \in SUBSET Files /\ nack' \in Reasons
    BY <1>4, OutputTypes, ReasonTypes DEF CreateRejected
  <2> QED BY <1>4, <1>a, <2>1 DEF CreateRejected, TypeOK
<1>5. CASE CreateFails(k)
  <2>1. told' \in SUBSET Files /\ nack' \in Reasons
    BY <1>5, OutputTypes, ReasonTypes DEF CreateFails
  <2>2. faults' \in Nat BY <1>5 DEF CreateFails, TypeOK
  <2> QED BY <1>5, <1>a, <2>1, <2>2 DEF CreateFails, TypeOK
<1> QED BY <1>2, <1>3, <1>4, <1>5 DEF ApplyCreate

\* DATA.
LEMMA DataType ==
  ASSUME TypeOK, NEW k \in Files, NEW o \in 0..(Size[k] - 1), ApplyData(k, o)
  PROVE  TypeOK'
<1> USE SizeAssumption DEF disk, env
<1>a. AppendReceiver \in AppType BY ReceiverTypes
<1>k. k \in Nat /\ k \in 0..NFiles /\ Size[k] \in Nat /\ o \in Nat BY DEF Files
<1>n. DataLen(k, o) \in Nat BY <1>k DEF DataLen, Smaller
<1>b. ASSUME NEW m \in Nat
      PROVE  [content EXCEPT ![k] = @ \o Bytes(o, m)] \in [Files -> Seq(Nat)]
  <2>1. Bytes(o, m) \in Seq(Nat) BY <1>k DEF Bytes
  <2>2. content[k] \o Bytes(o, m) \in Seq(Nat) BY <2>1 DEF TypeOK
  <2> QED BY <2>2 DEF TypeOK
<1>1. ASSUME NEW a \in AppType, content' \in [Files -> Seq(Nat)], faults' \in Nat,
             DataAccepted(k, o, a)
      PROVE  TypeOK'
  <2> DEFINE d == ResetDurable([dur EXCEPT !.line = TRUE], k, a.file, o)
  <2>1. [dur EXCEPT !.line = TRUE] \in DurType BY DEF TypeOK, DurType
  <2>2. a.file \in 0..NFiles /\ a.offset \in Nat BY DEF AppType
  <2>3. d \in DurType BY <2>1, <2>2, <1>k, ResetDurableType
  <2> HIDE DEF d
  <2>4. EnqueueFsync(d, a.offset) \in DurType /\ QueueFsync(d, a.offset) \in Seq(Task)
        /\ Len(QueueFsync(d, a.offset)) <= QueueCap
    BY <2>2, <2>3, EnqueueFsyncType
  <2>5. RefreshChunk(present) \in ChkType BY RefreshChunkType DEF TypeOK
  <2>6. told' \in SUBSET Files /\ nack' \in Reasons
    BY <1>1, OutputTypes DEF DataAccepted
  <2> QED BY <1>1, <2>4, <2>5, <2>6 DEF DataAccepted, TypeOK, d
<1>2. ASSUME NEW m \in 0..Block, DataAppended(k, o, m) PROVE TypeOK'
  <2> DEFINE b == [AppendReceiver EXCEPT
                     !.offset = o + DataLen(k, o), !.final = Size[k],
                     !.expected = IF o + DataLen(k, o) < Size[k] THEN AppendReceiver.expected
                                  ELSE Larger(AppendReceiver.expected, k + 1)]
  <2>1. b \in AppType
    <3>1. AppendReceiver.expected \in Nat BY <1>a DEF AppType
    <3>2. (IF o + DataLen(k, o) < Size[k] THEN AppendReceiver.expected
           ELSE Larger(AppendReceiver.expected, k + 1)) \in Nat
      BY <3>1, <1>k, <1>n DEF Larger
    <3>3. o + DataLen(k, o) \in Nat BY <1>k, <1>n
    <3> QED BY <1>a, <1>k, <3>2, <3>3, AppUpdate
  <2>2. content' \in [Files -> Seq(Nat)]
    <3>1. m \in Nat OBVIOUS
    <3> QED BY <1>2, <1>b, <3>1 DEF DataAppended
  <2>3. faults' \in Nat BY <1>2 DEF DataAppended, TypeOK
  <2>4. DataAccepted(k, o, b) BY <1>2 DEF DataAppended
  <2> QED BY <2>1, <2>2, <2>3, <2>4, <1>1
<1>3. CASE DataIgnored(k, o)
  BY <1>3, <1>1, <1>a DEF DataIgnored, TypeOK
<1>4. CASE DataRejected(k, o)
  <2>1. told' \in SUBSET Files /\ nack' \in Reasons
    BY <1>4, OutputTypes, ReasonTypes DEF DataRejected
  <2> QED BY <1>4, <1>a, <2>1 DEF DataRejected, TypeOK
<1>5. ASSUME NEW m \in 0..Block, DataTorn(k, o, m) PROVE TypeOK'
  <2>1. told' \in SUBSET Files /\ nack' \in Reasons
    BY <1>5, OutputTypes, ReasonTypes DEF DataTorn
  <2>2. content' \in [Files -> Seq(Nat)]
    <3>1. m \in Nat OBVIOUS
    <3> QED BY <1>5, <1>b, <3>1 DEF DataTorn
  <2>3. faults' \in Nat BY <1>5 DEF DataTorn, TypeOK
  <2> QED BY <1>5, <1>a, <2>1, <2>2, <2>3 DEF DataTorn, TypeOK
<1> QED BY <1>2, <1>3, <1>4, <1>5 DEF ApplyData

\* FILE_BEGIN.
LEMMA BeginType ==
  ASSUME TypeOK, NEW k \in Files, ApplyBegin(k)
  PROVE  TypeOK'
<1> USE DEF disk, env
<1>a. ChunkReceiver \in ChkType /\ TempFiles \in [Files -> SUBSET Nat] BY ReceiverTypes
<1>1. chk' \in ChkType
  <2>1. [ChunkReceiver EXCEPT !.active = @ \cup {k}, !.recv[k] = {}] \in ChkType
    BY <1>a DEF ChkType
  <2> QED BY <1>a, <2>1 DEF ApplyBegin, BeginAccepted, BeginRejected, ChunkRefused
<1>2. temp' \in [Files -> SUBSET Nat]
  BY <1>a DEF ApplyBegin, BeginAccepted, BeginRejected, ChunkRefused
<1>3. told' \in SUBSET Files /\ nack' \in Reasons
  BY OutputTypes, ReasonTypes DEF ApplyBegin, BeginAccepted, BeginRejected, ChunkRefused
<1>4. faults' \in Nat
  BY DEF ApplyBegin, BeginAccepted, BeginRejected, TypeOK
<1> QED BY <1>1, <1>2, <1>3, <1>4 DEF ApplyBegin, TypeOK

\* CHUNK.
LEMMA ChunkType ==
  ASSUME TypeOK, NEW k \in Files, NEW i \in ChunksOf(k), ApplyChunk(k, i)
  PROVE  TypeOK'
<1> USE DEF disk, env
<1>a. ChunkReceiver \in ChkType /\ TempFiles \in [Files -> SUBSET Nat] BY ReceiverTypes
<1>i. i \in Nat BY SizeAssumption DEF ChunksOf
<1>1. chk' \in ChkType
  <2>1. [ChunkReceiver EXCEPT !.recv[k] = @ \cup {i}] \in ChkType
    BY <1>a, <1>i DEF ChkType
  <2> QED BY <1>a, <2>1 DEF ApplyChunk, ChunkAccepted, ChunkRejected, ChunkRefused
<1>2. temp' \in [Files -> SUBSET Nat]
  <2>1. [TempFiles EXCEPT ![k] = @ \cup {i}] \in [Files -> SUBSET Nat] BY <1>a, <1>i
  <2> QED BY <1>a, <2>1 DEF ApplyChunk, ChunkAccepted, ChunkRejected, ChunkRefused
<1>3. told' \in SUBSET Files /\ nack' \in Reasons
  BY OutputTypes, ReasonTypes DEF ApplyChunk, ChunkAccepted, ChunkRejected, ChunkRefused
<1>4. faults' \in Nat
  BY DEF ApplyChunk, ChunkAccepted, ChunkRejected, TypeOK
<1> QED BY <1>1, <1>2, <1>3, <1>4 DEF ApplyChunk, TypeOK

\* FILE_COMMIT.
LEMMA CommitType ==
  ASSUME TypeOK, NEW k \in Files, ApplyCommit(k)
  PROVE  TypeOK'
<1> USE SizeAssumption DEF disk, env
<1>a. ChunkReceiver \in ChkType /\ TempFiles \in [Files -> SUBSET Nat] BY ReceiverTypes
<1>k. k \in 0..NFiles /\ Size[k] \in Nat BY DEF Files
<1>1. CASE CommitWhileQueued(k)
  <2>1. told' \in SUBSET Files /\ nack' \in Reasons
    BY <1>1, OutputTypes, ReasonTypes DEF CommitWhileQueued, Silent
  <2> QED BY <1>1, <2>1 DEF CommitWhileQueued, ApplyCommit, TypeOK
<1>2. CASE CommitStale(k)
  <2>1. told' \in SUBSET Files /\ nack' \in Reasons
    BY <1>2, OutputTypes DEF CommitStale
  <2> QED BY <1>2, <1>a, <2>1 DEF CommitStale, ApplyCommit, TypeOK
<1>3. CASE CommitQueued(k)
  <2>1. told' \in SUBSET Files /\ nack' \in Reasons
    BY <1>3, OutputTypes DEF CommitQueued, Silent
  <2>2. [ChunkReceiver EXCEPT !.pending = @ \cup {k}] \in ChkType BY <1>a DEF ChkType
  <2>3. [state |-> "queued", seq |-> k] \in CmtType BY <1>k DEF CmtType
  <2>4. [kind |-> "commit", file |-> k, target |-> Size[k]] \in Task BY <1>k DEF Task
  <2>5. queue' \in Seq(Task) /\ Len(queue') <= QueueCap
    BY <1>3, <2>4 DEF CommitQueued, TypeOK
  <2> QED BY <1>3, <1>a, <2>1, <2>2, <2>3, <2>5 DEF CommitQueued, ApplyCommit, TypeOK
<1>4. CASE CommitRejected(k)
  <2>1. told' \in SUBSET Files /\ nack' \in Reasons
    BY <1>4, OutputTypes, ReasonTypes DEF CommitRejected
  <2> QED BY <1>4, <1>a, <2>1 DEF CommitRejected, ApplyCommit, TypeOK
<1> QED BY <1>1, <1>2, <1>3, <1>4 DEF ApplyCommit

\* The timers' poll_completions.
LEMMA PollType ==
  ASSUME TypeOK, Poll
  PROVE  TypeOK'
<1> USE SizeAssumption DEF disk, env
<1>1. Harvest(dur) \in DurType BY ZeroFile DEF Harvest, DurType, TypeOK, Larger
<1>2. ASSUME PollFsync
      PROVE  dur' \in DurType /\ queue' \in Seq(Task) /\ Len(queue') <= QueueCap
  <2>1. Harvest(dur).target \in Nat BY <1>1 DEF DurType
  <2> QED BY <1>1, <1>2, <2>1, EnqueueFsyncType DEF PollFsync, TypeOK
<1>3. CASE PollIdle
  <2>1. told' \in SUBSET Files /\ nack' \in Reasons
    BY <1>3, OutputTypes DEF PollIdle
  <2> QED BY <1>2, <1>3, <2>1 DEF PollIdle, Poll, TypeOK
<1>4. CASE PollCommitDone
  <2>1. told' \in SUBSET Files /\ nack' \in Reasons
    BY <1>4, OutputTypes DEF PollCommitDone
  <2>2. FinishCommit \in ChkType
    <3>1. chk \in ChkType /\ chk.expected \in Nat BY DEF TypeOK, ChkType
    <3>2. cmt.seq \in Nat BY DEF TypeOK, CmtType
    <3>3. Larger(chk.expected, cmt.seq + 1) \in Nat BY <3>1, <3>2 DEF Larger
    <3>4. [chk.recv EXCEPT ![cmt.seq] = {}] \in [Files -> SUBSET Nat] BY <3>1 DEF ChkType
    <3> QED BY <3>1, <3>3, <3>4 DEF FinishCommit, ChkType
  <2>3. app' \in AppType
    BY <1>4, RefreshAppType DEF PollCommitDone, TypeOK
  <2>4. NoCommit \in CmtType BY DEF NoCommit, CmtType
  <2> QED BY <1>2, <1>4, <2>1, <2>2, <2>3, <2>4 DEF PollCommitDone, Poll, TypeOK
<1>5. CASE PollFailure
  <2>1. CASE dur.failed
    <3>1. told' \in SUBSET Files /\ nack' \in Reasons
      BY <1>5, <2>1, OutputTypes DEF PollFailure, Silent
    <3> QED BY <1>5, <2>1, <3>1 DEF PollFailure, Poll, TypeOK
  <2>2. CASE ~dur.failed
    <3>1. told' \in SUBSET Files /\ nack' \in Reasons
      BY <1>5, <2>2 DEF PollFailure, TypeOK, Reasons
    <3>2. [chk EXCEPT !.pending = @ \ {cmt.seq}] \in ChkType BY DEF ChkType, TypeOK
    <3>3. NoCommit \in CmtType BY DEF NoCommit, CmtType
    <3> QED BY <1>2, <1>5, <2>2, <3>1, <3>2, <3>3 DEF PollFailure, Poll, TypeOK
  <2> QED BY <2>1, <2>2
<1> QED BY <1>3, <1>4, <1>5 DEF Poll

\* The writer thread.
LEMMA WriterType ==
  ASSUME TypeOK, Writer
  PROVE  TypeOK'
<1> USE SizeAssumption DEF disk, LoopIdle
<1>n. "none" \in Reasons BY DEF Reasons
<1>t. ASSUME running # NoTask PROVE running \in Task /\ running.file \in Files /\ running.target \in Nat
  BY <1>t DEF TypeOK, Task
<1>k. ASSUME running.kind # "idle" PROVE running # NoTask BY <1>k DEF NoTask
<1>1. CASE WriterTake
  <2>1. Head(queue) \in Task /\ Tail(queue) \in Seq(Task) /\ Len(Tail(queue)) <= QueueCap
    BY <1>1 DEF WriterTake, TypeOK
  <2> QED BY <1>1, <1>n, <2>1 DEF WriterTake, TypeOK
<1>2. CASE WriterFsync
  <2>1. running.file \in Files /\ running.target \in Nat BY <1>2, <1>t, <1>k DEF WriterFsync
  <2>2. Len(content[running.file]) \in Nat BY <2>1 DEF TypeOK
  <2>3. dur' \in DurType BY <1>2, <2>1 DEF WriterFsync, DurType, TypeOK
  <2>4. synced' \in [Files -> Nat] BY <1>2, <2>2 DEF WriterFsync, TypeOK
  <2> QED BY <1>2, <1>n, <2>3, <2>4 DEF WriterFsync, TypeOK
<1>3. CASE WriterRename
  <2>1. running \in Task /\ running.file \in Files BY <1>3, <1>t, <1>k DEF WriterRename
  <2>2. FileOf(running.file) \in Seq(Nat)
    <3>1. Size[running.file] \in Nat BY <2>1
    <3>2. \A i \in 1..Size[running.file] : (IF i \in temp[running.file] THEN i ELSE 0) \in Nat
      BY <3>1
    <3> QED BY <3>1, <3>2 DEF FileOf
  <2>3. content' \in [Files -> Seq(Nat)] BY <1>3, <2>2 DEF WriterRename, TypeOK
  <2>4. running' \in Task BY <1>3, <2>1 DEF WriterRename, Task
  <2>5. present' \in SUBSET Files /\ temp' \in [Files -> SUBSET Nat]
    BY <1>3, <2>1 DEF WriterRename, TypeOK
  <2> QED BY <1>3, <1>n, <2>3, <2>4, <2>5 DEF WriterRename, TypeOK
<1>4. CASE WriterCommitSync
  <2>1. running.file \in Files BY <1>4, <1>t, <1>k DEF WriterCommitSync
  <2>2. Len(content[running.file]) \in Nat BY <2>1 DEF TypeOK
  <2>3. synced' \in [Files -> Nat] BY <1>4, <2>2 DEF WriterCommitSync, TypeOK
  <2>4. cmt' \in CmtType BY <1>4 DEF WriterCommitSync, CmtType, TypeOK
  <2> QED BY <1>4, <1>n, <2>3, <2>4 DEF WriterCommitSync, TypeOK
<1>5. CASE WriterFails
  <2>1. faults' \in Nat BY <1>5, BoundAssumption DEF WriterFails, TypeOK, Smaller
  <2>2. dur' \in DurType BY <1>5 DEF WriterFails, DurType, TypeOK
  <2>3. cmt' \in CmtType BY <1>5 DEF WriterFails, CmtType, TypeOK
  <2> QED BY <1>5, <1>n, <2>1, <2>2, <2>3 DEF WriterFails, TypeOK
<1> QED BY <1>1, <1>2, <1>3, <1>4, <1>5 DEF Writer

\* Manifest exchange, stops, crashes and restarts.
LEMMA LifecycleType ==
  ASSUME TypeOK, ApplyManifest1 \/ SenderRestart \/ QuietStop \/ Exit \/ Crash \/ Restart
  PROVE  TypeOK'
<1> USE DEF disk, env
<1>n. "none" \in Reasons BY DEF Reasons
<1>s. InSync \in SUBSET Files BY DEF InSync
<1>1. CASE ApplyManifest1 BY <1>1, <1>n, <1>s DEF ApplyManifest1, TypeOK
<1>2. CASE SenderRestart
  BY <1>2, <1>n, <1>s, FirstOutsideType DEF SenderRestart, TypeOK
<1>3. CASE QuietStop BY <1>3, <1>n DEF QuietStop, TypeOK
<1>4. CASE Exit BY <1>4, <1>n DEF Exit, TypeOK
<1>5. CASE Crash
  <2>1. crashes' \in Nat BY <1>5 DEF Crash, TypeOK
  <2> QED BY <1>5, <1>n, <2>1 DEF Crash, TypeOK
<1>6. CASE Restart
  <2>1. ClosedApp \in AppType BY ZeroFile DEF ClosedApp, AppType
  <2>2. ClosedChk \in ChkType BY ZeroFile DEF ClosedChk, ChkType
  <2>3. FreshDur \in DurType BY ZeroFile DEF FreshDur, DurType
  <2>4. NoCommit \in CmtType BY ZeroFile DEF NoCommit, CmtType
  <2>5. floor' \in 1..(NFiles + 1)
    <3>1. FirstOutside(told) \in 1..(NFiles + 1) BY FirstOutsideType DEF TypeOK
    <3>2. told \subseteq 1..(NFiles + 1) BY SizeAssumption DEF TypeOK, Files
    <3> QED BY <1>6, <3>1, <3>2 DEF Restart
  <2>6. <<>> \in Seq(Task) /\ Len(<<>>) <= QueueCap BY SizeAssumption
  <2> QED BY <1>6, <1>n, <2>1, <2>2, <2>3, <2>4, <2>5, <2>6 DEF Restart, TypeOK
<1> QED BY <1>1, <1>2, <1>3, <1>4, <1>5, <1>6

\* The states a receiver may start in.
LEMMA InitType == Init => TypeOK
<1> SUFFICES ASSUME Init PROVE TypeOK OBVIOUS
<1> USE SizeAssumption
<1>1. ASSUME NEW n \in 0..NFiles, NEW m \in Nat, InitialDisk(n, m), m > 0 => n < NFiles
      PROVE  /\ present \in SUBSET Files
             /\ content \in [Files -> Seq(Nat)]
             /\ told \in SUBSET Files
             /\ floor \in 1..(NFiles + 1)
  <2>1. \A k \in Files : [i \in 1..Size[k] |-> i] \in Seq(Nat)
    <3> TAKE k \in Files
    <3>1. Size[k] \in Nat OBVIOUS
    <3> QED BY <3>1
  <2>2. [i \in 1..m |-> i] \in Seq(Nat) OBVIOUS
  <2>3. <<>> \in Seq(Nat) OBVIOUS
  <2>4. content \in [Files -> Seq(Nat)] BY <1>1, <2>1, <2>2, <2>3 DEF InitialDisk
  <2> QED BY <1>1, <2>4 DEF InitialDisk, Files
<1>2. /\ present \in SUBSET Files
      /\ content \in [Files -> Seq(Nat)]
      /\ told \in SUBSET Files
      /\ floor \in 1..(NFiles + 1)
  <2>1. PICK n \in 0..NFiles :
           \/ InitialDisk(n, 0)
           \/ n < NFiles /\ \E m \in 1..(Size[n + 1] - 1) : InitialDisk(n, m)
    BY DEF Init, Started
  <2>2. CASE InitialDisk(n, 0) BY <1>1, <2>2, ZeroFile
  <2>3. CASE n < NFiles /\ \E m \in 1..(Size[n + 1] - 1) : InitialDisk(n, m)
    <3>1. PICK m \in 1..(Size[n + 1] - 1) : InitialDisk(n, m) BY <2>3
    <3>2. n + 1 \in Files BY <2>3 DEF Files
    <3>3. m \in Nat BY <3>2
    <3> QED BY <1>1, <2>3, <3>1, <3>3
  <2> QED BY <2>1, <2>2, <2>3
<1>3. temp \in [Files -> SUBSET Nat] BY DEF Init, Started
<1>4. synced \in [Files -> Nat] BY <1>2 DEF Init, Started
<1>5. app \in AppType BY ZeroFile DEF Init, Started, ClosedApp, AppType
<1>6. chk \in ChkType BY ZeroFile DEF Init, Started, ClosedChk, ChkType
<1>7. dur \in DurType BY ZeroFile DEF Init, Started, FreshDur, DurType
<1>8. cmt \in CmtType BY ZeroFile DEF Init, Started, NoCommit, CmtType
<1>9. queue \in Seq(Task) /\ Len(queue) <= QueueCap BY DEF Init, Started
<1>10. nack \in Reasons BY DEF Init, Started, Reasons
<1>11. crashes \in Nat /\ faults \in Nat BY DEF Init, Started
<1> QED BY <1>2, <1>3, <1>4, <1>5, <1>6, <1>7, <1>8, <1>9, <1>10, <1>11 DEF Init, Started, TypeOK

\* One step of the receiver.
LEMMA NextType == TypeOK /\ [Next]_vars => TypeOK'
<1> SUFFICES ASSUME TypeOK, [Next]_vars PROVE TypeOK' OBVIOUS
<1>1. CASE UNCHANGED vars BY <1>1 DEF TypeOK, vars, disk, env
<1>2. CASE Message
  BY <1>2, CreateType, DataType, BeginType, ChunkType, CommitType DEF Message
<1>3. CASE Poll BY <1>3, PollType
<1>4. CASE Writer BY <1>4, WriterType
<1>5. CASE ApplyManifest1 \/ SenderRestart \/ QuietStop \/ Exit \/ Crash \/ Restart
  BY <1>5, LifecycleType
<1> QED BY <1>1, <1>2, <1>3, <1>4, <1>5 DEF Next

\* TypeOK holds in every reachable state of the receiver, whatever the files,
\* the ring's capacity and the number of crashes and faults: the ring keeps its
\* bound and every task names a file.
THEOREM TypeCorrect == Spec => []TypeOK
<1>1. Init => TypeOK BY InitType
<1>2. TypeOK /\ [Next]_vars => TypeOK' BY NextType
<1> QED BY <1>1, <1>2, PTL DEF Spec

-----------------------------------------------------------------------------
(* The visible directory.  Of all the steps only three kinds touch it:      *)
(* CREATE makes an empty entry visible, DATA appends at its end, and the    *)
(* writer's rename makes a chunk file visible.                              *)

Creates(k) ==
  /\ k \notin present
  /\ ~ChunkMode(k)
  /\ present' = present \cup {k}
  /\ content' = content

Appends(k, m) ==
  /\ k \in present
  /\ ~ChunkMode(k)
  /\ Len(content[k]) + m <= Size[k]
  /\ present' = present
  /\ content' = [content EXCEPT ![k] = @ \o Bytes(Len(content[k]), m)]

Renames(k) ==
  /\ k \notin present
  /\ present' = present \cup {k}
  /\ content' = [content EXCEPT ![k] = [i \in 1..Size[k] |-> i]]

DirectoryStep ==
  \/ present' = present /\ content' = content
  \/ \E k \in Files : Creates(k) \/ Renames(k) \/ \E m \in Nat : Appends(k, m)

\* Every step of the receiver is one of those; the offset and checksum checks
\* of the handlers make it so.
LEMMA StepsTouchDirectory ==
  ASSUME TypeOK, [Next]_vars
  PROVE  DirectoryStep
<1> USE DEF disk
<1>0. CASE UNCHANGED vars BY <1>0 DEF vars, DirectoryStep
<1>1. ASSUME NEW k \in Files, ApplyCreate(k) PROVE DirectoryStep
  <2>1. CASE CreateNew(k)
    <3>1. k \notin present BY <2>1 DEF CreateNew, CreateReason
    <3>2. Creates(k)
      BY <1>1, <2>1, <3>1 DEF ApplyCreate, CreateNew, CreateAccepted, Creates
    <3> QED BY <3>2 DEF DirectoryStep
  <2>2. CASE CreateStale(k) BY <2>2 DEF CreateStale, CreateAccepted, DirectoryStep
  <2>3. CASE CreateRejected(k) BY <2>3 DEF CreateRejected, DirectoryStep
  <2>4. CASE CreateFails(k) BY <2>4 DEF CreateFails, DirectoryStep
  <2> QED BY <1>1, <2>1, <2>2, <2>3, <2>4 DEF ApplyCreate
<1>2. ASSUME NEW k \in Files, NEW o \in 0..(Size[k] - 1), ApplyData(k, o) PROVE DirectoryStep
  <2>k. Size[k] \in Nat /\ o \in Nat BY SizeAssumption
  <2>n. DataLen(k, o) \in Nat /\ o + DataLen(k, o) <= Size[k]
    BY <2>k, SizeAssumption DEF DataLen, Smaller
  <2>1. CASE DataIgnored(k, o) BY <2>1 DEF DataIgnored, DataAccepted, DirectoryStep
  <2>2. CASE DataRejected(k, o) BY <2>2 DEF DataRejected, DirectoryStep
  <2>3. ASSUME NEW m \in 0..Block, DataAppended(k, o, m) \/ DataTorn(k, o, m)
        PROVE  DirectoryStep
    <3>1. k \in present /\ o = Len(content[k])
      BY <2>3 DEF DataAppended, DataTorn, DataReason
    <3>2. m <= DataLen(k, o) BY <2>3, <2>n DEF DataAppended, DataTorn
    <3>3. m \in Nat /\ o + m <= Size[k] BY <2>k, <2>n, <3>2, SizeAssumption
    <3>4. /\ present' = present
          /\ content' = [content EXCEPT ![k] = @ \o Bytes(o, m)]
      BY <2>3 DEF DataAppended, DataAccepted, DataTorn
    <3>5. Appends(k, m) BY <1>2, <3>1, <3>3, <3>4 DEF ApplyData, Appends
    <3> QED BY <3>3, <3>5 DEF DirectoryStep
  <2> QED BY <1>2, <2>1, <2>2, <2>3 DEF ApplyData
<1>3. ASSUME NEW k \in Files,
             ApplyBegin(k) \/ ApplyCommit(k) \/ \E i \in ChunksOf(k) : ApplyChunk(k, i)
      PROVE  DirectoryStep
  BY <1>3 DEF ApplyBegin, ApplyCommit, ApplyChunk, DirectoryStep
<1>4. CASE Poll BY <1>4 DEF Poll, DirectoryStep
<1>5. CASE WriterRename
  <2>1. running.file \in Files
    BY <1>5 DEF WriterRename, TypeOK, NoTask, Task
  <2>2. running.file \notin present /\ temp[running.file] = 1..Size[running.file]
    BY <1>5 DEF WriterRename, CommitIntact, ChunksOf
  <2>3. FileOf(running.file) = [i \in 1..Size[running.file] |-> i] BY <2>2 DEF FileOf
  <2>4. Renames(running.file) BY <1>5, <2>2, <2>3 DEF WriterRename, Renames
  <2> QED BY <2>1, <2>4 DEF DirectoryStep
<1>6. CASE WriterTake \/ WriterFsync \/ WriterCommitSync \/ WriterFails
  BY <1>6 DEF WriterTake, WriterFsync, WriterCommitSync, WriterFails, DirectoryStep
<1>7. CASE ApplyManifest1 \/ SenderRestart \/ QuietStop \/ Exit \/ Crash \/ Restart
  BY <1>7 DEF ApplyManifest1, SenderRestart, QuietStop, Exit, Crash, Restart, DirectoryStep
<1> QED BY <1>0, <1>1, <1>2, <1>3, <1>4, <1>5, <1>6, <1>7 DEF Next, Message, Writer

\* What appending does to a file.
LEMMA AppendedFile ==
  ASSUME TypeOK, NEW k \in Files, NEW m \in Nat, Appends(k, m)
  PROVE  /\ Len(content'[k]) = Len(content[k]) + m
         /\ \A i \in 1..Len(content[k]) : content'[k][i] = content[k][i]
         /\ \A i \in (Len(content[k]) + 1)..(Len(content[k]) + m) : content'[k][i] = i
<1>1. content[k] \in Seq(Nat) /\ Len(content[k]) \in Nat BY DEF TypeOK
<1>2. Bytes(Len(content[k]), m) \in Seq(Nat) /\ Len(Bytes(Len(content[k]), m)) = m
  BY <1>1 DEF Bytes
<1>3. content'[k] = content[k] \o Bytes(Len(content[k]), m) BY DEF Appends, TypeOK
<1> DEFINE c == content[k]
           b == Bytes(Len(content[k]), m)
<1>4. /\ Len(content'[k]) = Len(c) + m
      /\ \A i \in 1..(Len(c) + m) : content'[k][i] = IF i <= Len(c) THEN c[i] ELSE b[i - Len(c)]
  <2> HIDE DEF c, b
  <2>1. c \in Seq(Nat) /\ b \in Seq(Nat) BY <1>1, <1>2 DEF c, b
  <2>2. Len(b) = m /\ content'[k] = c \o b BY <1>2, <1>3 DEF c, b
  <2>3. /\ Len(c \o b) = Len(c) + Len(b)
        /\ \A i \in 1..(Len(c) + Len(b)) :
             (c \o b)[i] = IF i <= Len(c) THEN c[i] ELSE b[i - Len(c)]
    BY <2>1, ConcatProperties, Zenon
  <2> QED BY <2>2, <2>3, Zenon
<1>5. ASSUME NEW i \in (Len(c) + 1)..(Len(c) + m)
      PROVE  content'[k][i] = i
  <2>1. i \in 1..(Len(c) + m) /\ ~(i <= Len(c)) BY <1>1
  <2>2. content'[k][i] = b[i - Len(c)] BY <1>4, <2>1
  <2>3. i - Len(c) \in 1..m BY <1>1
  <2>4. b[i - Len(c)] = Len(c) + (i - Len(c)) BY <2>3 DEF Bytes
  <2> QED BY <1>1, <2>2, <2>4
<1>6. ASSUME NEW i \in 1..Len(c) PROVE content'[k][i] = c[i]
  <2>1. i \in 1..(Len(c) + m) /\ i <= Len(c) BY <1>1
  <2> QED BY <1>4, <2>1
<1> QED BY <1>4, <1>5, <1>6

\* The bytes a reader of the target directory has seen never change or
\* disappear, for every run of the receiver.
THEOREM VisibleOnlyGrows == Spec => OnlyGrows
<1> DEFINE Grow == \A k \in present :
                     /\ k \in present'
                     /\ Len(content'[k]) >= Len(content[k])
                     /\ \A i \in 1..Len(content[k]) : content'[k][i] = content[k][i]
<1>1. ASSUME TypeOK, [Next]_vars PROVE Grow
  <2> SUFFICES ASSUME NEW k \in present
               PROVE  /\ k \in present'
                      /\ Len(content'[k]) >= Len(content[k])
                      /\ \A i \in 1..Len(content[k]) : content'[k][i] = content[k][i]
    OBVIOUS
  <2>k. k \in Files /\ Len(content[k]) \in Nat BY <1>1 DEF TypeOK
  <2>1. DirectoryStep BY <1>1, StepsTouchDirectory
  <2>2. CASE present' = present /\ content' = content BY <2>2, <2>k
  <2>3. ASSUME NEW j \in Files, Creates(j) PROVE k \in present' /\ content'[k] = content[k]
    BY <2>3 DEF Creates
  <2>4. ASSUME NEW j \in Files, Renames(j) PROVE k \in present' /\ content'[k] = content[k]
    BY <1>1, <2>4, <2>k DEF Renames, TypeOK
  <2>5. ASSUME NEW j \in Files, NEW m \in Nat, Appends(j, m), j # k
        PROVE  k \in present' /\ content'[k] = content[k]
    BY <1>1, <2>5, <2>k DEF Appends, TypeOK
  <2>6. ASSUME NEW m \in Nat, Appends(k, m)
        PROVE  /\ k \in present'
               /\ Len(content'[k]) >= Len(content[k])
               /\ \A i \in 1..Len(content[k]) : content'[k][i] = content[k][i]
    <3>1. k \in present' BY <2>6 DEF Appends
    <3>2. Len(content'[k]) = Len(content[k]) + m BY <1>1, <2>6, <2>k, AppendedFile
    <3>3. \A i \in 1..Len(content[k]) : content'[k][i] = content[k][i]
      BY <1>1, <2>6, <2>k, AppendedFile
    <3> QED BY <2>k, <3>1, <3>2, <3>3
  <2> QED BY <2>1, <2>2, <2>3, <2>4, <2>5, <2>6, <2>k DEF DirectoryStep
<1>2. TypeOK /\ [Next]_vars => [Grow]_vars BY <1>1
<1> QED BY <1>2, TypeCorrect, PTL DEF Spec, OnlyGrows

-----------------------------------------------------------------------------
\* The strengthening of VisibleIsPrefix: an entry that is not visible has no
\* bytes, so CREATE makes an empty file visible.
PrefixInv ==
  /\ VisibleIsPrefix
  /\ \A k \in Files \ present : content[k] = <<>>

\* Initially the directory holds whole entries and perhaps a partial append file.
LEMMA InitPrefix == Init => PrefixInv
<1> SUFFICES ASSUME Init PROVE PrefixInv OBVIOUS
<1> USE SizeAssumption DEF Files
<1>1. ASSUME NEW n \in 0..NFiles, NEW m \in Nat, InitialDisk(n, m),
             m > 0 => /\ n < NFiles
                      /\ ~ChunkMode(n + 1)
                      /\ m < Size[n + 1]
      PROVE  PrefixInv
  <2>1. ASSUME NEW k \in Files \ present PROVE content[k] = <<>>
    <3>1. CASE m = 0
      <4>1. present = 1..n BY <1>1, <3>1 DEF InitialDisk
      <4>2. ~(k <= n) BY <4>1
      <4>3. [i \in 1..m |-> i] = <<>> BY <3>1
      <4> QED BY <1>1, <4>2, <4>3 DEF InitialDisk
    <3>2. CASE m > 0
      <4>1. present = 1..(n + 1) BY <1>1, <3>2 DEF InitialDisk
      <4>2. ~(k <= n) /\ k # n + 1 BY <4>1
      <4> QED BY <1>1, <4>2 DEF InitialDisk
    <3> QED BY <3>1, <3>2
  <2>2. ASSUME NEW k \in present
        PROVE  /\ Len(content[k]) <= Size[k]
               /\ \A i \in 1..Len(content[k]) : content[k][i] = i
               /\ ChunkMode(k) => Whole(k)
    <3>0. k \in Files BY <1>1 DEF InitialDisk
    <3>1. CASE k <= n
      <4>1. content[k] = [i \in 1..Size[k] |-> i] BY <1>1, <3>0, <3>1 DEF InitialDisk
      <4>2. Len(content[k]) = Size[k] BY <3>0, <4>1
      <4> QED BY <3>0, <4>1, <4>2 DEF Whole
    <3>2. CASE ~(k <= n)
      <4>1. m > 0 /\ k = n + 1 BY <1>1, <3>2 DEF InitialDisk
      <4>2. content[k] = [i \in 1..m |-> i] BY <1>1, <3>0, <3>2, <4>1 DEF InitialDisk
      <4>3. Len(content[k]) = m BY <4>2
      <4> QED BY <1>1, <3>0, <4>1, <4>2, <4>3
    <3> QED BY <3>1, <3>2
  <2> QED BY <2>1, <2>2 DEF PrefixInv, VisibleIsPrefix
<1>2. PICK n \in 0..NFiles :
         \/ InitialDisk(n, 0)
         \/ /\ n < NFiles
            /\ ~ChunkMode(n + 1)
            /\ \E m \in 1..(Size[n + 1] - 1) : InitialDisk(n, m)
  BY DEF Init, Started
<1>3. CASE InitialDisk(n, 0) BY <1>1, <1>3, ZeroFile
<1>4. CASE /\ n < NFiles
           /\ ~ChunkMode(n + 1)
           /\ \E m \in 1..(Size[n + 1] - 1) : InitialDisk(n, m)
  <2>1. PICK m \in 1..(Size[n + 1] - 1) : InitialDisk(n, m) BY <1>4
  <2>2. Size[n + 1] \in Nat BY <1>4
  <2>3. m \in Nat /\ m < Size[n + 1] BY <2>2
  <2> QED BY <1>1, <1>4, <2>1, <2>3
<1> QED BY <1>2, <1>3, <1>4

\* A step of the directory keeps every visible file a prefix of its source.
LEMMA NextPrefix ==
  ASSUME TypeOK, TypeOK', PrefixInv, [Next]_vars
  PROVE  PrefixInv'
<1> DEFINE Good(k) == /\ Len(content[k]) <= Size[k]
                      /\ \A i \in 1..Len(content[k]) : content[k][i] = i
                      /\ ChunkMode(k) => Whole(k)
           Fine == /\ \A k \in present : Good(k)
                   /\ \A k \in Files \ present : content[k] = <<>>
<1>0. Fine BY DEF PrefixInv, VisibleIsPrefix
<1>1. DirectoryStep BY StepsTouchDirectory
<1>2. CASE present' = present /\ content' = content
  BY <1>0, <1>2 DEF PrefixInv, VisibleIsPrefix, Whole, ChunkMode
<1>3. ASSUME NEW j \in Files, Creates(j) PROVE PrefixInv'
  <2>1. ASSUME NEW k \in present' PROVE Good(k)'
    <3>1. CASE k = j
      <4>1. content'[k] = <<>> BY <1>0, <1>3, <3>1 DEF Creates
      <4>2. Size[k] \in Nat /\ ~ChunkMode(k) BY <1>3, <3>1, SizeAssumption DEF Creates
      <4> QED BY <4>1, <4>2 DEF ChunkMode
    <3>2. CASE k # j
      BY <1>0, <1>3, <3>2 DEF Creates, ChunkMode, Whole
    <3> QED BY <3>1, <3>2
  <2>2. \A k \in Files \ present' : content'[k] = <<>> BY <1>0, <1>3 DEF Creates
  <2> QED BY <2>1, <2>2 DEF PrefixInv, VisibleIsPrefix
<1>4. ASSUME NEW j \in Files, Renames(j) PROVE PrefixInv'
  <2>c. content'[j] = [i \in 1..Size[j] |-> i] BY <1>4 DEF Renames, TypeOK
  <2>s. Size[j] \in Nat BY SizeAssumption
  <2>1. ASSUME NEW k \in present' PROVE Good(k)'
    <3>1. CASE k = j
      <4>1. Len(content'[k]) = Size[k] BY <2>c, <2>s, <3>1
      <4> QED BY <2>c, <2>s, <3>1, <4>1 DEF Whole
    <3>2. CASE k # j
      <4>1. k \in present /\ k \in Files /\ content'[k] = content[k]
        BY <1>4, <3>2 DEF Renames, TypeOK
      <4> QED BY <1>0, <4>1 DEF ChunkMode, Whole
    <3> QED BY <3>1, <3>2
  <2>2. \A k \in Files \ present' : content'[k] = <<>>
    BY <1>0, <1>4 DEF Renames, TypeOK
  <2> QED BY <2>1, <2>2 DEF PrefixInv, VisibleIsPrefix
<1>5. ASSUME NEW j \in Files, NEW m \in Nat, Appends(j, m) PROVE PrefixInv'
  <2>1. ASSUME NEW k \in present' PROVE Good(k)'
    <3>1. CASE k = j
      <4>0. Len(content[j]) \in Nat /\ Size[j] \in Nat BY SizeAssumption DEF TypeOK
      <4>1. Len(content'[j]) = Len(content[j]) + m BY <1>5, AppendedFile
      <4>2. Len(content'[j]) <= Size[j] BY <1>5, <4>1 DEF Appends
      <4>3. ASSUME NEW i \in 1..Len(content'[j]) PROVE content'[j][i] = i
        <5>1. CASE i <= Len(content[j])
          <6>1. i \in 1..Len(content[j]) BY <4>0, <4>1, <5>1
          <6>2. content'[j][i] = content[j][i] BY <1>5, <6>1, AppendedFile
          <6>3. content[j][i] = i BY <1>0, <1>5, <6>1 DEF Appends
          <6> QED BY <6>2, <6>3
        <5>2. CASE ~(i <= Len(content[j]))
          <6>1. i \in (Len(content[j]) + 1)..(Len(content[j]) + m) BY <4>0, <4>1, <5>2
          <6> QED BY <1>5, <6>1, AppendedFile
        <5> QED BY <5>1, <5>2
      <4>4. ~ChunkMode(j) BY <1>5 DEF Appends
      <4> QED BY <3>1, <4>2, <4>3, <4>4 DEF ChunkMode
    <3>2. CASE k # j
      <4>1. k \in present /\ k \in Files /\ content'[k] = content[k]
        BY <1>5, <3>2 DEF Appends, TypeOK
      <4>2. present' = present BY <1>5 DEF Appends
      <4> QED BY <1>0, <4>1, <4>2 DEF ChunkMode, Whole
    <3> QED BY <3>1, <3>2
  <2>2. \A k \in Files \ present' : content'[k] = <<>>
    BY <1>0, <1>5 DEF Appends, TypeOK
  <2> QED BY <2>1, <2>2 DEF PrefixInv, VisibleIsPrefix
<1> QED BY <1>1, <1>2, <1>3, <1>4, <1>5 DEF DirectoryStep

\* A visible file is a prefix of its source and a visible chunk file is whole,
\* for every run of the receiver: neither duplicated or reordered DATA, nor a
\* torn write, nor a lost flush of a chunk, nor a restart can break it.
THEOREM VisiblePrefix == Spec => []VisibleIsPrefix
<1>1. Init => PrefixInv BY InitPrefix
<1>2. TypeOK /\ TypeOK' /\ PrefixInv /\ [Next]_vars => PrefixInv' BY NextPrefix
<1>3. PrefixInv => VisibleIsPrefix BY DEF PrefixInv
<1> QED BY <1>1, <1>2, <1>3, TypeCorrect, PTL DEF Spec

=============================================================================
