------------------------------ MODULE Receiver ------------------------------
(***************************************************************************)
(* The receiving side of one stream: the append receiver                   *)
(* (T_ReceiverStream), the chunk receiver (T_ChunkedReceiverStream), the   *)
(* coordinator that drives both from the event loop                        *)
(* (T_ReceiverCoordinator), the background disk writer it shares, and the  *)
(* target directory on disk.                                               *)
(*                                                                         *)
(* Event loop and disk writer are two threads: every handler of the event  *)
(* loop is one action, every externally visible step of a writer task is   *)
(* another.  Messages come from a sender that works on one file at a time  *)
(* over several TCP lines and retransmits, so any message of the current   *)
(* session may be repeated, delayed or lost.                               *)
(*                                                                         *)
(* The k-th entry of the source has seq k.  Its bytes are the numbers      *)
(* 1..Size[k]: a byte on disk is correct iff it sits at its own position.  *)
(***************************************************************************)
EXTENDS Integers, FiniteSets, Sequences

CONSTANTS NFiles,         \* entries of the source manifest
          Size,           \* Size[k]: bytes (chunks, in chunk mode) of entry k
          ChunkThreshold, \* largest size sent with CREATE/DATA
          Block,          \* most bytes one DATA carries
          QueueCap,       \* usable slots of the disk writer's ring
          EarlyNext,      \* may it go on to the next file, when a manifest shows it
                          \* a commit that the event loop has not polled yet?
          Watch,          \* options_.watch: the receiver never stops on its own
          FreshStart,     \* is the target directory empty at the start?
          BufferedWrite,  \* may the write of a DATA fail when its stream is destroyed?
          MaxCrashes,     \* bound: spontaneous process crashes
          MaxFaults       \* bound: failing disk operations

Files == 1..NFiles

ASSUME SizeAssumption ==
  /\ NFiles \in Nat
  /\ Size \in [Files -> Nat]
  /\ ChunkThreshold \in Nat
  /\ Block \in Nat \ {0}
  /\ QueueCap \in Nat \ {0}

ASSUME BoundAssumption ==
  /\ EarlyNext \in BOOLEAN
  /\ Watch \in BOOLEAN
  /\ FreshStart \in BOOLEAN
  /\ BufferedWrite \in BOOLEAN
  /\ MaxCrashes \in Nat
  /\ MaxFaults \in Nat

VARIABLES
  present,    \* entries visible under their final name
  content,    \* content[k]: the bytes of entry k, in file order
  temp,       \* temp[k]: chunks written to entry k's .yisync_tmp file
  synced,     \* synced[k]: bytes of entry k known to be fsynced
  app,        \* T_ReceiverStreamState and current_path_
  chk,        \* T_ChunkedReceiverStream::Impl
  dur,        \* append durability fields of T_ReceiverStreamContext
  cmt,        \* chunk commit fields of T_ReceiverStreamContext
  queue,      \* tasks in the SpscDiskWriter ring
  running,    \* the task the writer thread is executing
  proc,       \* "up", "stopping" (event loop over, writer drains) or "down"
  quiet,      \* a quiet-stop timer of the newest activity generation is armed
  heartbeats, \* heartbeats emitted by the last step
  nack,       \* reason of the NACK emitted by the last step
  told,       \* files the sender may regard as complete
  floor,      \* oldest file with messages in the current connections
  crashes, faults

disk  == <<present, content, temp, synced>>
env   == <<floor, crashes, faults>>
vars  == <<disk, app, chk, dur, cmt, queue, running, proc, quiet,
           heartbeats, nack, told, env>>

-----------------------------------------------------------------------------
(* Data.                                                                    *)

\* should_use_chunk_mode: files above the threshold go through FILE_BEGIN.
ChunkMode(k)  == Size[k] > ChunkThreshold
ChunksOf(k)   == 1..Size[k]

Larger(a, b)  == IF a >= b THEN a ELSE b
Smaller(a, b) == IF a <= b THEN a ELSE b

NoTask     == [kind |-> "idle", file |-> 0, target |-> 0]
NoCommit   == [state |-> "none", seq |-> 0]
ClosedApp  == [open |-> FALSE, expected |-> 1, file |-> 0, offset |-> 0, final |-> 0]
ClosedChk  == [open |-> FALSE, expected |-> 1, active |-> {}, pending |-> {},
               recv |-> [k \in Files |-> {}]]
FreshDur   == [file |-> 0, path |-> 0, offset |-> 0, target |-> 0, active |-> 0,
               queued |-> FALSE, completed |-> 0, failed |-> FALSE, line |-> FALSE]

\* An entry is whole when its visible bytes are exactly the source's.
Whole(k) == k \in present /\ content[k] = [i \in 1..Size[k] |-> i]

-----------------------------------------------------------------------------
(* What the sender concludes from a heartbeat, and may therefore send.      *)

\* Mutant of Completes: next_seq alone completes CREATE/DATA files too.
CompletesByNextSeq(h, k) == h.next > k

\* append_complete_by_heartbeat for CREATE/DATA files; for chunk files the
\* sender looks at next_seq alone.
Completes(h, k) ==
  /\ h.next > k
  /\ ChunkMode(k) \/ (h.file = k /\ h.durable >= Size[k])

\* The sender opens file k only when every earlier one is complete; messages
\* of a dead connection never arrive.
Sendable(k) ==
  /\ floor <= k
  /\ \A j \in 1..(k - 1) : j \in told
  /\ EarlyNext \/ cmt.state = "none" \/ k <= cmt.seq

FirstOutside(S) == CHOOSE k \in 1..(NFiles + 1) :
                     k \notin S /\ \A j \in 1..(k - 1) : j \in S

-----------------------------------------------------------------------------
(* Scans of the target directory.  scan_manifest_stream numbers the entries *)
(* it finds from 1 in source order: a partly written file counts like a     *)
(* complete one.                                                            *)

Latest(p)    == CHOOSE k \in p : \A j \in p : j <= k
ScanNext(p)  == Cardinality(p) + 1

\* The constructor's reset_session_from_disk.
ResetSession ==
  IF present = {}
  THEN [ClosedApp EXCEPT !.open = TRUE]
  ELSE LET k == Latest(present)
       IN  [open |-> TRUE, expected |-> ScanNext(present), file |-> k,
            offset |-> Len(content[k]), final |-> Len(content[k])]

\* T_ReceiverStream::refresh_committed_from_disk
RefreshApp(a) ==
  IF present = {}
  THEN [a EXCEPT !.file = 0, !.offset = 0, !.final = 0]
  ELSE LET k == Latest(present)
       IN  [a EXCEPT !.expected = Larger(@, ScanNext(present)), !.file = k,
                     !.offset = Len(content[k]), !.final = Len(content[k])]

\* T_ChunkedReceiverStream::refresh_committed_from_disk, if there is one.
RefreshChunk(p) ==
  IF chk.open /\ p # {}
  THEN [chk EXCEPT !.expected = Larger(@, ScanNext(p))]
  ELSE chk

\* append_receiver_for and chunk_receiver_for construct on first use.
AppendReceiver == IF app.open THEN app ELSE ResetSession
ChunkReceiver  == IF chk.open THEN chk
                  ELSE [ClosedChk EXCEPT !.open = TRUE, !.expected = ScanNext(present)]
\* The chunk receiver's constructor empties .yisync_tmp.
TempFiles      == IF chk.open THEN temp ELSE [k \in Files |-> {}]

-----------------------------------------------------------------------------
(* Outputs of a handler.                                                    *)

Heartbeat(next, file, offset, durable, chunks) ==
  [next |-> next, file |-> file, offset |-> offset, durable |-> durable, chunks |-> chunks]

AppendHeartbeat(a, durable) == Heartbeat(a.expected, a.file, a.offset, durable, {})

Emit(hs) ==
  /\ heartbeats' = hs
  /\ nack' = "none"
  /\ told' = told \cup {k \in Files : \E h \in hs : Completes(h, k)}

Reject(reason) ==
  /\ heartbeats' = {}
  /\ nack' = reason
  /\ UNCHANGED told

Silent == Emit({})

-----------------------------------------------------------------------------
(* The append durability context.                                           *)

\* reset_append_durable_context: only another file id resets the offsets.
ResetDurable(d, file, path, offset) ==
  IF d.file = file
  THEN [d EXCEPT !.path = IF path # 0 THEN path ELSE @]
  ELSE [d EXCEPT !.file = file, !.path = path, !.offset = offset, !.target = offset,
                 !.active = 0, !.queued = FALSE, !.completed = offset, !.failed = FALSE]

\* maybe_enqueue_append_fsync: the task keeps the path and the target of the
\* moment it is queued; a full ring only logs an error.
WantsFsync(d, target) == target > d.offset /\ ~d.queued /\ d.path # 0

FsyncTarget(d, target) ==
  IF target > d.offset THEN [d EXCEPT !.target = Larger(@, target)] ELSE d

EnqueueFsync(d, target) ==
  LET t == FsyncTarget(d, target)
  IN  IF WantsFsync(d, target) /\ Len(queue) < QueueCap
      THEN [t EXCEPT !.queued = TRUE, !.active = t.target, !.failed = FALSE]
      ELSE IF WantsFsync(d, target) THEN [t EXCEPT !.failed = FALSE] ELSE t

\* Mutant of QueueFsync: the ring is not checked for space.
QueueFsyncUnchecked(d, target) ==
  IF WantsFsync(d, target)
  THEN Append(queue, [kind |-> "fsync", file |-> d.path,
                      target |-> FsyncTarget(d, target).target])
  ELSE queue

QueueFsync(d, target) ==
  IF WantsFsync(d, target) /\ Len(queue) < QueueCap
  THEN Append(queue, [kind |-> "fsync", file |-> d.path,
                      target |-> FsyncTarget(d, target).target])
  ELSE queue

-----------------------------------------------------------------------------
(* CREATE (directories, links and empty files have size 0).                 *)

\* The sender leaves prev_file_id 0, so the checks of the previous file that
\* CREATE and FILE_BEGIN could ask for never run.
CreateReason(a, k) ==
  IF k > a.expected THEN "BAD_SEQ" ELSE IF k \in present THEN "FILE_EXISTS" ELSE "none"

\* apply_create after T_ReceiverStream::apply accepted: `a` and `p` are the
\* receiver and the directory it leaves behind.
CreateAccepted(k, a, p) ==
  /\ app' = a
  /\ dur' = ResetDurable(dur, k, a.file, 0)
  /\ chk' = RefreshChunk(p)
  /\ quiet' = TRUE
  /\ Emit({AppendHeartbeat(a, a.offset)})
  /\ UNCHANGED <<content, temp, synced, cmt, queue, running, proc, env>>

\* Mutant of CreateNew: an existing target is opened and truncated.
CreateTruncates(k) ==
  LET a == AppendReceiver
  IN  /\ k = a.expected
      /\ present' = present \cup {k}
      /\ content' = [content EXCEPT ![k] = <<>>]
      /\ app' = [a EXCEPT !.file = k, !.offset = 0, !.final = Size[k]]
      /\ chk' = RefreshChunk(present')
      /\ quiet' = TRUE
      /\ Emit({AppendHeartbeat(a, 0)})
      /\ UNCHANGED <<temp, synced, dur, cmt, queue, running, proc, env>>

CreateNew(k) ==
  LET a == AppendReceiver
  IN  /\ k = a.expected
      /\ CreateReason(a, k) = "none"
      /\ present' = present \cup {k}
      /\ CreateAccepted(k, [a EXCEPT !.file = k, !.offset = 0, !.final = Size[k],
                                     !.expected = IF Size[k] = 0 THEN k + 1 ELSE k],
                        present \cup {k})

CreateStale(k) ==
  /\ k < AppendReceiver.expected
  /\ UNCHANGED present
  /\ CreateAccepted(k, AppendReceiver, present)

CreateRejected(k) ==
  LET a == AppendReceiver
  IN  /\ k >= a.expected
      /\ CreateReason(a, k) # "none"
      /\ app' = a
      /\ quiet' = FALSE
      /\ Reject(CreateReason(a, k))
      /\ UNCHANGED <<disk, chk, dur, cmt, queue, running, proc, env>>

\* Creating the file, or a directory above it, fails.
CreateFails(k) ==
  LET a == AppendReceiver
  IN  /\ faults < MaxFaults
      /\ k = a.expected
      /\ CreateReason(a, k) = "none"
      /\ app' = a
      /\ quiet' = FALSE
      /\ faults' = faults + 1
      /\ Reject("IO_ERROR")
      /\ UNCHANGED <<disk, chk, dur, cmt, queue, running, proc, floor, crashes>>

ApplyCreate(k) ==
  /\ proc = "up"
  /\ Sendable(k)
  /\ ~ChunkMode(k)
  /\ CreateNew(k) \/ CreateStale(k) \/ CreateRejected(k) \/ CreateFails(k)

-----------------------------------------------------------------------------
(* DATA.                                                                    *)

DataLen(k, o) == Smaller(Block, Size[k] - o)

\* A receiver rebuilt from disk expects k + 1 although file k is partial: a
\* DATA that continues exactly at the end of the current file is let through.
AppendResume(a, k, o) ==
  /\ k = a.file
  /\ k + 1 = a.expected
  /\ o = a.offset
  /\ a.offset < Size[k]

DataStale(a, k, o) == k < a.expected /\ ~AppendResume(a, k, o)

RestoringFinalSize(a, k, o) ==
  /\ k + 1 = a.expected
  /\ k = a.file
  /\ o = a.offset
  /\ a.final = a.offset
  /\ Size[k] >= a.offset

\* Mutant of DataReason: the offset is not compared with the file size.
DataReasonAnyOffset(a, k, o) ==
  IF k > a.expected THEN "BAD_SEQ" ELSE IF k # a.file THEN "BAD_FILE_ORDER" ELSE "none"

DataReason(a, k, o) ==
  IF k > a.expected THEN "BAD_SEQ"
  ELSE IF k # a.file THEN "BAD_FILE_ORDER"
  ELSE IF k \notin present \/ o # Len(content[k]) THEN "BAD_OFFSET"
  ELSE IF a.final # 0 /\ Size[k] # a.final /\ ~RestoringFinalSize(a, k, o) THEN "SIZE_CONFLICT"
  ELSE "none"

Bytes(o, n) == [i \in 1..n |-> o + i]

\* apply_data after T_ReceiverStream::apply accepted.
DataAccepted(k, o, a) ==
  LET d == ResetDurable([dur EXCEPT !.line = TRUE], k, a.file, o)
  IN  /\ app' = a
      /\ dur' = EnqueueFsync(d, a.offset)
      /\ queue' = QueueFsync(d, a.offset)
      /\ chk' = RefreshChunk(present)
      /\ quiet' = TRUE
      /\ Emit({AppendHeartbeat(a, d.offset)})
      /\ UNCHANGED <<present, temp, synced, cmt, running, proc, floor, crashes>>

\* m of the n bytes reach the file.  The ofstream buffers a short write and
\* its destructor ignores a failing flush: the state moves as if m = n.
DataAppended(k, o, m) ==
  LET a == AppendReceiver
      n == DataLen(k, o)
  IN  /\ ~DataStale(a, k, o)
      /\ DataReason(a, k, o) = "none"
      /\ \/ m = n /\ UNCHANGED faults
         \/ BufferedWrite /\ m < n /\ faults < MaxFaults /\ faults' = faults + 1
      /\ content' = [content EXCEPT ![k] = @ \o Bytes(o, m)]
      /\ DataAccepted(k, o, [a EXCEPT !.offset = o + n, !.final = Size[k],
                                      !.expected = IF o + n < Size[k] THEN a.expected
                                                   ELSE Larger(a.expected, k + 1)])

DataIgnored(k, o) ==
  /\ DataStale(AppendReceiver, k, o)
  /\ UNCHANGED <<content, faults>>
  /\ DataAccepted(k, o, AppendReceiver)

DataRejected(k, o) ==
  LET a == AppendReceiver
  IN  /\ ~DataStale(a, k, o)
      /\ DataReason(a, k, o) # "none"
      /\ app' = a
      /\ quiet' = FALSE
      /\ Reject(DataReason(a, k, o))
      /\ UNCHANGED <<disk, chk, dur, cmt, queue, running, proc, env>>

\* Mutant of DataTorn: the offset moves before the write is checked.
DataTornAdvances(k, o, n) ==
  LET a == AppendReceiver
  IN  /\ faults < MaxFaults
      /\ n < DataLen(k, o)
      /\ ~DataStale(a, k, o)
      /\ DataReason(a, k, o) = "none"
      /\ content' = [content EXCEPT ![k] = @ \o Bytes(o, n)]
      /\ app' = [a EXCEPT !.offset = o + DataLen(k, o)]
      /\ quiet' = FALSE
      /\ faults' = faults + 1
      /\ Reject("IO_ERROR")
      /\ UNCHANGED <<present, temp, synced, chk, dur, cmt, queue, running, proc, floor, crashes>>

\* The write fails half way: some bytes reach the file, the state does not move.
DataTorn(k, o, n) ==
  LET a == AppendReceiver
  IN  /\ faults < MaxFaults
      /\ n < DataLen(k, o)
      /\ ~DataStale(a, k, o)
      /\ DataReason(a, k, o) = "none"
      /\ content' = [content EXCEPT ![k] = @ \o Bytes(o, n)]
      /\ app' = a
      /\ quiet' = FALSE
      /\ faults' = faults + 1
      /\ Reject("IO_ERROR")
      /\ UNCHANGED <<present, temp, synced, chk, dur, cmt, queue, running, proc, floor, crashes>>

ApplyData(k, o) ==
  /\ proc = "up"
  /\ Sendable(k)
  /\ ~ChunkMode(k)
  /\ \/ DataIgnored(k, o)
     \/ DataRejected(k, o)
     \/ \E m \in 0..Block : DataAppended(k, o, m) \/ DataTorn(k, o, m)

-----------------------------------------------------------------------------
(* FILE_BEGIN and CHUNK.                                                    *)

BeginReason(c, k) ==
  IF k > c.expected THEN "BAD_SEQ"
  ELSE IF k = c.expected /\ k \notin c.active /\ k \in present THEN "FILE_EXISTS"
  ELSE "none"

BeginOpens(c, k) == k = c.expected /\ k \notin c.active

\* Mutant of BeginAccepted: the temporary file is truncated before the test
\* whether the file is already active.
BeginTruncates(k) ==
  LET c == ChunkReceiver
  IN  /\ BeginReason(c, k) = "none"
      /\ chk' = IF BeginOpens(c, k) THEN [c EXCEPT !.active = @ \cup {k}, !.recv[k] = {}] ELSE c
      /\ temp' = [TempFiles EXCEPT ![k] = {}]
      /\ Emit({Heartbeat(c.expected, k, 0, 0, {})})
      /\ UNCHANGED faults

BeginAccepted(k) ==
  LET c == ChunkReceiver
  IN  /\ BeginReason(c, k) = "none"
      /\ chk' = IF BeginOpens(c, k) THEN [c EXCEPT !.active = @ \cup {k}, !.recv[k] = {}] ELSE c
      /\ temp' = IF BeginOpens(c, k) THEN [TempFiles EXCEPT ![k] = {}] ELSE TempFiles
      /\ Emit({Heartbeat(c.expected, k, 0, 0, {})})
      /\ UNCHANGED faults

\* A message the chunk receiver refuses, or whose file operation fails.
ChunkRefused(reason) ==
  /\ chk' = ChunkReceiver
  /\ temp' = TempFiles
  /\ Reject(reason)

BeginRejected(k) ==
  LET c == ChunkReceiver
  IN  \/ /\ BeginReason(c, k) # "none"
         /\ ChunkRefused(BeginReason(c, k))
         /\ UNCHANGED faults
      \/ /\ BeginReason(c, k) = "none"
         /\ BeginOpens(c, k)
         /\ faults < MaxFaults
         /\ faults' = faults + 1
         /\ ChunkRefused("IO_ERROR")

ApplyBegin(k) ==
  /\ proc = "up"
  /\ Sendable(k)
  /\ ChunkMode(k)
  /\ BeginAccepted(k) \/ BeginRejected(k)
  /\ quiet' = FALSE
  /\ UNCHANGED <<present, content, synced, app, dur, cmt, queue, running, proc, floor, crashes>>

ChunkReason(c, k) ==
  IF k > c.expected THEN "BAD_SEQ"
  ELSE IF k = c.expected /\ k \notin c.active THEN "BAD_CHUNK"
  ELSE "none"

ChunkStores(c, k, i) == k = c.expected /\ i \notin c.recv[k]

\* `stored`: the bytes reach the temporary file.  As for DATA, a flush that
\* fails in the stream's destructor goes unnoticed.
ChunkAccepted(k, i, stored) ==
  LET c == ChunkReceiver
      s == ChunkStores(c, k, i)
  IN  /\ ChunkReason(c, k) = "none"
      /\ \/ stored /\ UNCHANGED faults
         \/ ~stored /\ s /\ BufferedWrite /\ faults < MaxFaults /\ faults' = faults + 1
      /\ chk' = IF s THEN [c EXCEPT !.recv[k] = @ \cup {i}] ELSE c
      /\ temp' = IF s /\ stored THEN [TempFiles EXCEPT ![k] = @ \cup {i}] ELSE TempFiles
      /\ Emit({Heartbeat(c.expected, k, 0, 0, {i})})

ChunkRejected(k, i) ==
  LET c == ChunkReceiver
  IN  \/ /\ ChunkReason(c, k) # "none"
         /\ ChunkRefused(ChunkReason(c, k))
         /\ UNCHANGED faults
      \/ /\ ChunkReason(c, k) = "none"
         /\ ChunkStores(c, k, i)
         /\ faults < MaxFaults
         /\ faults' = faults + 1
         /\ ChunkRefused("IO_ERROR")

ApplyChunk(k, i) ==
  /\ proc = "up"
  /\ Sendable(k)
  /\ ChunkMode(k)
  /\ ChunkRejected(k, i) \/ \E stored \in BOOLEAN : ChunkAccepted(k, i, stored)
  /\ quiet' = FALSE
  /\ UNCHANGED <<present, content, synced, app, dur, cmt, queue, running, proc, floor, crashes>>

-----------------------------------------------------------------------------
(* FILE_COMMIT.                                                             *)

CommitReason(c, k) ==
  IF k > c.expected THEN "BAD_SEQ"
  ELSE IF k \notin c.active \/ k \in c.pending \/ c.recv[k] # ChunksOf(k) THEN "BAD_COMMIT"
  ELSE IF k \in present THEN "FILE_EXISTS"
  ELSE "none"

\* apply_commit while a commit is already with the writer.
CommitWhileQueued(k) ==
  /\ cmt.state # "none"
  /\ IF cmt.seq = k THEN Silent ELSE Reject("BAD_COMMIT")
  /\ UNCHANGED <<chk, cmt, queue, temp>>

\* prepare_commit of a file that is already complete: answered from the disk.
CommitStale(k) ==
  LET c == ChunkReceiver
      n == IF k \in present THEN Len(content[k]) ELSE 0
  IN  /\ cmt.state = "none"
      /\ k < c.expected
      /\ chk' = c
      /\ temp' = TempFiles
      /\ Emit({Heartbeat(c.expected, k, n, n, {})})
      /\ UNCHANGED <<cmt, queue>>

\* Mutant of CommitQueued: the entry is acknowledged when it is queued.
CommitAcksEarly(k) ==
  LET c == ChunkReceiver
  IN  /\ cmt.state = "none"
      /\ k >= c.expected
      /\ CommitReason(c, k) = "none"
      /\ Len(queue) < QueueCap
      /\ chk' = [c EXCEPT !.pending = @ \cup {k}]
      /\ temp' = TempFiles
      /\ cmt' = [state |-> "queued", seq |-> k]
      /\ queue' = Append(queue, [kind |-> "commit", file |-> k, target |-> Size[k]])
      /\ Emit({Heartbeat(k + 1, k, Size[k], Size[k], {})})

CommitQueued(k) ==
  LET c == ChunkReceiver
  IN  /\ cmt.state = "none"
      /\ k >= c.expected
      /\ CommitReason(c, k) = "none"
      /\ Len(queue) < QueueCap
      /\ chk' = [c EXCEPT !.pending = @ \cup {k}]
      /\ temp' = TempFiles
      /\ cmt' = [state |-> "queued", seq |-> k]
      /\ queue' = Append(queue, [kind |-> "commit", file |-> k, target |-> Size[k]])
      /\ Silent

\* A full ring undoes prepare_commit (abort_commit, clear_chunk_commit).
CommitRejected(k) ==
  LET c == ChunkReceiver
  IN  /\ cmt.state = "none"
      /\ k >= c.expected
      /\ CommitReason(c, k) # "none" \/ Len(queue) = QueueCap
      /\ chk' = c
      /\ temp' = TempFiles
      /\ Reject(IF CommitReason(c, k) # "none" THEN CommitReason(c, k) ELSE "IO_ERROR")
      /\ UNCHANGED <<cmt, queue>>

ApplyCommit(k) ==
  /\ proc = "up"
  /\ Sendable(k)
  /\ ChunkMode(k)
  /\ CommitWhileQueued(k) \/ CommitStale(k) \/ CommitQueued(k) \/ CommitRejected(k)
  /\ quiet' = FALSE
  /\ UNCHANGED <<present, content, synced, app, dur, running, proc, env>>

-----------------------------------------------------------------------------
(* poll_completions, run from the heartbeat and commit-poll timers.         *)

\* poll_append_fsync up to the point where it may queue another fsync.
Harvest(d) ==
  LET offset == Larger(d.offset, d.completed)
      done   == d.queued /\ d.completed >= d.active
  IN  [d EXCEPT !.offset = offset,
                !.queued = d.queued /\ ~done,
                !.active = IF done THEN 0 ELSE @]

FsyncNews == dur.completed > dur.offset /\ app.open /\ dur.line

FsyncHeartbeats == IF FsyncNews THEN {AppendHeartbeat(app, dur.completed)} ELSE {}

\* Mutant of PollFsync: bytes that arrived during the last fsync are forgotten.
PollFsyncOnce == dur' = Harvest(dur) /\ UNCHANGED queue

PollFsync ==
  LET d == Harvest(dur)
  IN  IF ~d.queued /\ d.target > d.offset
      THEN dur' = EnqueueFsync(d, d.target) /\ queue' = QueueFsync(d, d.target)
      ELSE dur' = d /\ UNCHANGED queue

\* finish_commit, then the append receiver looks at the directory again.
FinishCommit ==
  [chk EXCEPT !.active = @ \ {cmt.seq}, !.pending = @ \ {cmt.seq},
              !.recv[cmt.seq] = {}, !.expected = Larger(@, cmt.seq + 1)]

CommitHeartbeat ==
  Heartbeat(FinishCommit.expected, cmt.seq, Size[cmt.seq], Size[cmt.seq], {})

PollIdle ==
  /\ ~dur.failed
  /\ cmt.state \notin {"done", "failed"}
  /\ PollFsync
  /\ Emit(FsyncHeartbeats)
  /\ UNCHANGED <<app, chk, cmt, proc, quiet>>

\* Mutant of PollCommitDone: the commit fields of the context are not cleared.
PollCommitKeeps ==
  /\ ~dur.failed
  /\ cmt.state = "done"
  /\ PollFsync
  /\ chk' = FinishCommit
  /\ app' = IF app.open THEN RefreshApp(app) ELSE app
  /\ quiet' = TRUE
  /\ Emit(FsyncHeartbeats \cup {CommitHeartbeat})
  /\ UNCHANGED <<cmt, proc>>

PollCommitDone ==
  /\ ~dur.failed
  /\ cmt.state = "done"
  /\ PollFsync
  /\ chk' = FinishCommit
  /\ app' = IF app.open THEN RefreshApp(app) ELSE app
  /\ cmt' = NoCommit
  /\ quiet' = TRUE
  /\ Emit(FsyncHeartbeats \cup {CommitHeartbeat})
  /\ UNCHANGED proc

\* A failed fsync or commit ends the event loop.  chunk_commit_error_reason
\* goes by what the task has thrown, of which cmt keeps only that it has.
PollFailure ==
  /\ dur.failed \/ cmt.state = "failed"
  /\ proc' = "stopping"
  /\ IF dur.failed
     THEN Silent /\ UNCHANGED <<dur, queue, chk, cmt>>
     ELSE /\ PollFsync
          /\ chk' = [chk EXCEPT !.pending = @ \ {cmt.seq}]
          /\ cmt' = NoCommit
          /\ heartbeats' = FsyncHeartbeats
          /\ nack' \in {"CHECKSUM_MISMATCH", "FILE_EXISTS", "IO_ERROR"}
          /\ told' = told \cup {k \in Files : \E h \in FsyncHeartbeats : Completes(h, k)}
  /\ UNCHANGED <<app, quiet>>

Poll ==
  /\ proc = "up"
  /\ PollIdle \/ PollCommitDone \/ PollFailure
  /\ UNCHANGED <<disk, running, env>>

-----------------------------------------------------------------------------
(* The writer thread.                                                       *)

LoopIdle ==
  /\ proc # "down"
  /\ heartbeats' = {}
  /\ nack' = "none"
  /\ UNCHANGED <<app, chk, proc, quiet, told, floor, crashes>>

WriterTake ==
  /\ running = NoTask
  /\ queue # <<>>
  /\ running' = Head(queue)
  /\ queue' = Tail(queue)
  /\ LoopIdle
  /\ UNCHANGED <<disk, dur, cmt, faults>>

\* The append fsync task of maybe_enqueue_append_fsync; its result goes to
\* the stream's one completion counter whatever file that now stands for.
WriterFsync ==
  /\ running.kind = "fsync"
  /\ synced' = [synced EXCEPT ![running.file] = Len(content[running.file])]
  /\ dur' = [dur EXCEPT !.completed = running.target]
  /\ running' = NoTask
  /\ LoopIdle
  /\ UNCHANGED <<present, content, temp, cmt, queue, faults>>

\* Mutant of CommitIntact: the checksum of the temporary file is not verified.
CommitUnverified(k) == k \notin present

\* write_commit_task: checksum, fsync of the temporary file, rename ...
CommitIntact(k) == temp[k] = ChunksOf(k) /\ k \notin present

FileOf(k) == [i \in 1..Size[k] |-> IF i \in temp[k] THEN i ELSE 0]

WriterRename ==
  /\ running.kind = "commit"
  /\ CommitIntact(running.file)
  /\ present' = present \cup {running.file}
  /\ content' = [content EXCEPT ![running.file] = FileOf(running.file)]
  /\ temp' = [temp EXCEPT ![running.file] = {}]
  /\ running' = [running EXCEPT !.kind = "renamed"]
  /\ LoopIdle
  /\ UNCHANGED <<synced, dur, cmt, queue, faults>>

\* ... then fsync of the file and its directory, and the completion flag.
WriterCommitSync ==
  /\ running.kind = "renamed"
  /\ synced' = [synced EXCEPT ![running.file] = Len(content[running.file])]
  /\ cmt' = [cmt EXCEPT !.state = "done"]
  /\ running' = NoTask
  /\ LoopIdle
  /\ UNCHANGED <<present, content, temp, dur, queue, faults>>

\* The checksum does not match, or a disk operation of the task fails, before
\* or after the rename.
WriterFails ==
  /\ running # NoTask
  /\ faults < MaxFaults \/ (running.kind = "commit" /\ ~CommitIntact(running.file))
  /\ faults' = Smaller(faults + 1, MaxFaults)
  /\ IF running.kind = "fsync"
     THEN dur' = [dur EXCEPT !.failed = TRUE] /\ UNCHANGED cmt
     ELSE cmt' = [cmt EXCEPT !.state = "failed"] /\ UNCHANGED dur
  /\ running' = NoTask
  /\ LoopIdle
  /\ UNCHANGED <<disk, queue>>

Writer == WriterTake \/ WriterFsync \/ WriterRename \/ WriterCommitSync \/ WriterFails

-----------------------------------------------------------------------------
(* Manifest exchange, crashes and restarts.                                 *)

\* Mutant of InSync: the manifest comparison ignores sizes.
InSyncByName == {k \in Files : 1..k \subseteq present}

\* diff_stream over the target directory: the entries before the first one
\* that is missing or shorter than the source.
InSync == {k \in Files : \A j \in 1..k : j \in present /\ Len(content[j]) = Size[j]}

\* apply_manifest1 answers from the directory alone and touches neither
\* receiver.  The sender asks again when a NACK or a message out of retries
\* makes it recover, and whenever a line reconnects ...
ApplyManifest1 ==
  /\ proc = "up"
  /\ quiet' = FALSE
  /\ heartbeats' = {}
  /\ nack' = "none"
  /\ told' = told \cup InSync
  /\ UNCHANGED <<disk, app, chk, dur, cmt, queue, running, proc, env>>

\* ... and when a new sender process connects.
SenderRestart ==
  /\ proc = "up"
  /\ quiet' = FALSE
  /\ heartbeats' = {}
  /\ nack' = "none"
  /\ told' = InSync
  /\ floor' = FirstOutside(InSync)
  /\ UNCHANGED <<disk, app, chk, dur, cmt, queue, running, proc, crashes, faults>>

\* append_durable_idle: nothing of the stream waits for the writer.
DurableIdle == ~dur.queued /\ dur.target <= dur.offset /\ cmt.state = "none"

\* The quiet timer of a receiver that is not watching.
QuietStop ==
  /\ proc = "up"
  /\ ~Watch
  /\ quiet
  /\ DurableIdle
  /\ proc' = "stopping"
  /\ heartbeats' = {}
  /\ nack' = "none"
  /\ UNCHANGED <<disk, app, chk, dur, cmt, queue, running, quiet, told, env>>

\* ~SpscDiskWriter joins the worker.  It usually empties the ring first, but
\* tasks queued between its last look at the ring and its look at the stop
\* flag are left behind (StopRunsAccepted in DiskWriter).
Exit ==
  /\ proc = "stopping"
  /\ running = NoTask
  /\ proc' = "down"
  /\ heartbeats' = {}
  /\ nack' = "none"
  /\ UNCHANGED <<disk, app, chk, dur, cmt, queue, running, quiet, told, env>>

Crash ==
  /\ proc # "down"
  /\ crashes < MaxCrashes
  /\ crashes' = crashes + 1
  /\ proc' = "down"
  /\ heartbeats' = {}
  /\ nack' = "none"
  /\ UNCHANGED <<disk, app, chk, dur, cmt, queue, running, quiet, told, floor, faults>>

\* A new process starts from the disk; the old connections are gone.  A sender
\* that lost the last heartbeat with them is still at the file it reported and
\* sends that again.
Restart ==
  /\ proc = "down"
  /\ proc' = "up"
  /\ quiet' = FALSE
  /\ app' = ClosedApp
  /\ chk' = ClosedChk
  /\ dur' = FreshDur
  /\ cmt' = NoCommit
  /\ queue' = <<>>
  /\ running' = NoTask
  /\ floor' \in {FirstOutside(told)} \cup {k \in told : floor <= k /\ present \subseteq 1..k}
  /\ heartbeats' = {}
  /\ nack' = "none"
  /\ UNCHANGED <<disk, told, crashes, faults>>

-----------------------------------------------------------------------------
\* The directory a receiver may find: n whole entries, perhaps followed by
\* m bytes of a CREATE/DATA file.
InitialDisk(n, m) ==
  /\ present = IF m > 0 THEN 1..(n + 1) ELSE 1..n
  /\ content = [k \in Files |-> IF k <= n THEN [i \in 1..Size[k] |-> i]
                                ELSE IF k = n + 1 THEN [i \in 1..m |-> i] ELSE <<>>]
  /\ told = 1..n
  /\ floor = n + 1

\* A process that has just started on that directory.
Started ==
  /\ temp = [k \in Files |-> {}]
  /\ synced = [k \in Files |-> Len(content[k])]
  /\ app = ClosedApp
  /\ chk = ClosedChk
  /\ dur = FreshDur
  /\ cmt = NoCommit
  /\ queue = <<>>
  /\ running = NoTask
  /\ proc = "up"
  /\ quiet = FALSE
  /\ heartbeats = {}
  /\ nack = "none"
  /\ crashes = 0
  /\ faults = 0

Init ==
  /\ \E n \in 0..NFiles :
       \/ InitialDisk(n, 0) /\ (FreshStart => n = 0)
       \/ /\ n < NFiles
          /\ ~FreshStart
          /\ ~ChunkMode(n + 1)
          /\ \E m \in 1..(Size[n + 1] - 1) : InitialDisk(n, m)
  /\ Started

Message ==
  \E k \in Files :
    \/ ApplyCreate(k)
    \/ \E o \in 0..(Size[k] - 1) : ApplyData(k, o)
    \/ ApplyBegin(k)
    \/ \E i \in ChunksOf(k) : ApplyChunk(k, i)
    \/ ApplyCommit(k)

Next == Message \/ Poll \/ Writer \/ ApplyManifest1 \/ SenderRestart \/ QuietStop \/ Exit \/ Crash \/ Restart

Fairness == WF_vars(Poll) /\ WF_vars(Writer) /\ WF_vars(Exit)

Spec == Init /\ [][Next]_vars /\ Fairness

-----------------------------------------------------------------------------
(* Properties.                                                              *)

Reasons == {"none", "BAD_SEQ", "FILE_EXISTS", "BAD_FILE_ORDER", "BAD_OFFSET",
            "SIZE_CONFLICT", "BAD_CHUNK", "BAD_COMMIT", "CHECKSUM_MISMATCH", "IO_ERROR"}
Task    == [kind : {"fsync", "commit", "renamed"}, file : Files, target : Nat]
AppType == [open : BOOLEAN, expected : Nat, file : 0..NFiles, offset : Nat, final : Nat]
ChkType == [open : BOOLEAN, expected : Nat, active : SUBSET Files, pending : SUBSET Files,
            recv : [Files -> SUBSET Nat]]
DurType == [file : 0..NFiles, path : 0..NFiles, offset : Nat, target : Nat, active : Nat,
            queued : BOOLEAN, completed : Nat, failed : BOOLEAN, line : BOOLEAN]
CmtType == [state : {"none", "queued", "done", "failed"}, seq : 0..NFiles]

\* Every piece of the receiver's state stays in its type; in particular the
\* ring never holds more than its capacity and every queued task names a file.
TypeOK ==
  /\ present \in SUBSET Files
  /\ content \in [Files -> Seq(Nat)]
  /\ temp \in [Files -> SUBSET Nat]
  /\ synced \in [Files -> Nat]
  /\ app \in AppType
  /\ chk \in ChkType
  /\ dur \in DurType
  /\ cmt \in CmtType
  /\ queue \in Seq(Task)
  /\ Len(queue) <= QueueCap
  /\ running \in Task \cup {NoTask}
  /\ proc \in {"up", "stopping", "down"}
  /\ quiet \in BOOLEAN
  /\ nack \in Reasons
  /\ told \in SUBSET Files
  /\ floor \in 1..(NFiles + 1)
  /\ crashes \in Nat
  /\ faults \in Nat

\* Entries become visible strictly in seq order: whenever an entry is visible
\* under its final name, every earlier one is there and whole.
OrderedVisibility ==
  \A k \in present : \A j \in 1..(k - 1) : Whole(j)

\* A visible file is a prefix of its source, and a chunk file is visible only
\* as a whole: no handler writes at a wrong place, twice, or early.
VisibleIsPrefix ==
  \A k \in present :
    /\ Len(content[k]) <= Size[k]
    /\ \A i \in 1..Len(content[k]) : content[k][i] = i
    /\ ChunkMode(k) => Whole(k)

\* The sender never concludes from heartbeats or a manifest that a file is
\* complete unless the whole file is visible at the receiver.
ToldIsWhole == \A k \in told : Whole(k)

\* A chunk that a heartbeat acknowledges is in the temporary file of this
\* process or in the committed file.
ChunkAckStored ==
  \A h \in heartbeats : \A i \in h.chunks :
    Whole(h.file) \/ i \in temp[h.file]

\* No heartbeat acknowledges an entry that is not even visible.
NextSeqVisible == \A h \in heartbeats : 1..(h.next - 1) \subseteq present

\* protocol.md: `offset` is the part of the current file that is written.  No
\* heartbeat claims bytes that are not in the file.
OffsetIsWritten == \A h \in heartbeats : h.file # 0 => h.offset <= Len(content[h.file])

\* The bytes visible to a reader never change or disappear, across message
\* handling, commits, failures and restarts.
OnlyGrows ==
  [][\A k \in present :
       /\ k \in present'
       /\ Len(content'[k]) >= Len(content[k])
       /\ \A i \in 1..Len(content[k]) : content'[k][i] = content[k][i]]_vars

\* A commit handed to the writer is resolved while the event loop runs.
CommitResolves == (cmt.state # "none") ~> (cmt.state = "none" \/ proc # "up")

\* A file that has been received completely is eventually reported durable to
\* the sender, unless the event loop ends first: no fsync completion gets lost
\* between the two threads.
WrittenIsReported ==
  \A k \in Files :
    (proc = "up" /\ app.open /\ app.file = k /\ app.expected > k /\ dur.path = k /\ Whole(k))
      ~> (k \in told \/ proc # "up")
=============================================================================
