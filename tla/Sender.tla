------------------------------- MODULE Sender -------------------------------
(***************************************************************************)
(* The sending side of one stream: SenderApp with the send plan, the       *)
(* append and chunk resend states of its tasks, and the send buffer it     *)
(* retransmits from.                                                       *)
(*                                                                         *)
(* All of it runs on one event loop: an action is one callback with every  *)
(* call it makes.  A handler works on a record, Now(credit, late), of the  *)
(* state, of what it sends, and of two things it cannot control: how many  *)
(* messages the network takes before it refuses one (the scheduler, see    *)
(* SenderNetwork), and which buffered messages are older than the          *)
(* retransmission timeout, in the order the hash table yields them.        *)
(*                                                                         *)
(* The k-th task of the stream is the source entry with seq k and file_id  *)
(* k.  Offsets count blocks of chunk_size bytes in chunk mode; chunk i is  *)
(* the code's chunk i - 1.  A message is its key in the send buffer.       *)
(***************************************************************************)
EXTENDS Integers, Sequences, FiniteSets

CONSTANTS NFiles,         \* tasks of the stream
          Size,           \* Size[k]: bytes (chunks, in chunk mode) of entry k
          ChunkThreshold, \* largest size sent with CREATE/DATA
          Block,          \* chunk_size: most bytes one DATA carries
          MaxRetries,     \* max_retransmit_retries
          MaxRecoveries   \* max_manifest_recovery_attempts

Files == 1..NFiles

ASSUME SenderAssumption ==
  /\ NFiles \in Nat
  /\ Size \in [Files -> Nat]
  /\ ChunkThreshold \in Nat
  /\ Block \in Nat \ {0}
  /\ MaxRetries \in Nat
  /\ MaxRecoveries \in Nat

VARIABLES
  cur,        \* current_task, counted from 1
  applied,    \* manifest_applied
  complete,   \* the stream's complete
  task,       \* task[k]: T_FileSendTask
  buffer,     \* T_SenderSendBuffer: nack_retries of each message in it
  resend,     \* retransmit_queue_
  recoveries, \* manifest_recovery_attempts_
  status      \* "busy", "done" (done_) or "failed" (failed_, the loop is over)

senderVars == <<cur, applied, complete, task, buffer, resend, recoveries, status>>

-----------------------------------------------------------------------------
(* Data.                                                                    *)

ChunkMode(k) == Size[k] > ChunkThreshold
ChunksOf(k)  == IF ChunkMode(k) THEN 1..Size[k] ELSE {}
DataLen(k, o) == IF Block <= Size[k] - o THEN Block ELSE Size[k] - o

Kinds == {"CREATE", "DATA", "FILE_BEGIN", "CHUNK", "FILE_COMMIT"}
Msg(kind, k, pos) == [kind |-> kind, file |-> k, pos |-> pos]
Keys  == [kind : Kinds, file : Files, pos : Nat]

Create(k)     == Msg("CREATE", k, 0)
Data(k, o)    == Msg("DATA", k, o)
FileBegin(k)  == Msg("FILE_BEGIN", k, 0)
Chunk(k, i)   == Msg("CHUNK", k, i)
Commit(k)     == Msg("FILE_COMMIT", k, 0)
Manifest1     == [kind |-> "MANIFEST1", file |-> 0, pos |-> 0]

\* T_AppendSendState; on is FALSE while seq is 0.
FreshAppend == [on |-> FALSE, needs |-> FALSE, created |-> FALSE, ready |-> FALSE,
                data |-> FALSE, next |-> 0, len |-> 0]

\* initialize_file_task, and what reset_task_for_manifest_recovery returns to.
FreshTask(k) ==
  [chunked |-> ChunkMode(k), begun |-> FALSE, ready |-> FALSE, committed |-> FALSE,
   append |-> FreshAppend,
   out |-> {}, acked |-> {}, urgent |-> {}, attempts |-> [i \in ChunksOf(k) |-> 0]]

Now(credit, late) ==
  [cur |-> cur, applied |-> applied, complete |-> complete, task |-> task,
   buffer |-> buffer, resend |-> resend, recoveries |-> recoveries, status |-> status,
   sent |-> <<>>, credit |-> credit, late |-> late]

Install(s) ==
  /\ cur' = s.cur
  /\ applied' = s.applied
  /\ complete' = s.complete
  /\ task' = s.task
  /\ buffer' = s.buffer
  /\ resend' = s.resend
  /\ recoveries' = s.recoveries
  /\ status' = s.status

Active(s)     == s.cur \in Files     \* active_task is not null
Range(q)      == {q[i] : i \in 1..Len(q)}
Least(S)      == CHOOSE i \in S : \A j \in S : i <= j
Without(f, S) == [x \in DOMAIN f \ S |-> f[x]]

\* The elements of q that are in S, in the order of q.
Filter(q, S) ==
  LET F[i \in 0..Len(q)] ==
        IF i = 0 THEN << >>
        ELSE IF q[i] \in S THEN Append(F[i - 1], q[i]) ELSE F[i - 1]
  IN  F[Len(q)]

-----------------------------------------------------------------------------
(* T_SenderSendBuffer.                                                      *)

Held(s) == DOMAIN s.buffer

\* send_buffered, when the network takes the message: send, then remember.
SendBuffered(s, m) ==
  [s EXCEPT !.buffer = [x \in Held(s) \cup {m} |-> IF x = m THEN 0 ELSE s.buffer[x]],
            !.sent = Append(@, m),
            !.credit = @ - 1]

\* enqueue_retransmit of several messages, in the order of ms.
Enqueue(s, ms) ==
  [s EXCEPT !.resend = @ \o Filter(ms, Held(s) \ Range(@))]

\* Mutant of Acknowledges: next_seq releases its own seq too.
AcknowledgesNext(h, m) == m.file <= h.next

\* erase_completed: next_seq releases every message of an earlier seq, the
\* offsets release the DATA of the file they are about.
Acknowledges(h, m) ==
  \/ m.file < h.next
  \/ /\ m.kind = "DATA"
     /\ m.file = h.file
     /\ LET end == m.pos + DataLen(m.file, m.pos)
        IN  end # 0 /\ (h.offset >= end \/ h.durable >= end)

EraseCompleted(s, h) ==
  IF h.next = 0 THEN s
  ELSE [s EXCEPT !.buffer = Without(@, {m \in DOMAIN @ : Acknowledges(h, m)})]

\* key_for_nack: where a NACK looks for the message it is about.  The key has
\* the NACK's file_id, so a seq other than that file's finds nothing.
OrderedKeys(n, seq) == IF seq = n.file THEN <<Create(seq), Data(seq, n.offset)>> ELSE <<>>
BeginKeys(n, seq)   == IF seq = n.file THEN <<FileBegin(seq)>> ELSE <<>>
CommitKeys(n, seq)  == IF seq = n.file THEN <<Commit(seq)>> ELSE <<>>
ChunkKeys(n, seq)   == IF seq = n.file THEN <<Chunk(seq, n.offset + 1)>> ELSE <<>>

NackKeys(n) ==
  (CASE n.reason = "BAD_SEQ" ->
          OrderedKeys(n, n.expected) \o BeginKeys(n, n.expected)
            \o CommitKeys(n, n.expected) \o ChunkKeys(n, n.expected)
     [] n.reason \in {"BAD_CHECKSUM", "BAD_OFFSET"} -> ChunkKeys(n, n.got)
     [] n.reason = "BAD_CHUNK" -> BeginKeys(n, n.got) \o ChunkKeys(n, n.got)
     [] n.reason = "BAD_COMMIT" -> CommitKeys(n, n.got)
     [] OTHER -> <<>>)
  \o OrderedKeys(n, n.got) \o BeginKeys(n, n.got) \o CommitKeys(n, n.got) \o ChunkKeys(n, n.got)

KeysForNack(s, n) == Filter(NackKeys(n), Held(s))

-----------------------------------------------------------------------------
(* T_AppendSendState.                                                       *)

\* start_append_plan
StartAppend(action, offset) ==
  [on |-> TRUE, needs |-> action = "CREATE_MISSING", created |-> FALSE,
   ready |-> action # "CREATE_MISSING", data |-> FALSE, next |-> offset, len |-> 0]

\* reset_append_inflight
ResetInflight(a) ==
  [a EXCEPT !.created = FALSE, !.ready = FALSE, !.data = FALSE, !.len = 0]

Inflight(a) == a.created \/ a.data
SeqOf(a, k) == IF a.on THEN k ELSE 0

\* mark_append_create_ready_from_heartbeat
CreateReady(a, k, h) ==
  IF a.needs /\ a.created /\ (h.next > SeqOf(a, k) \/ h.offset = 0)
  THEN [a EXCEPT !.ready = TRUE] ELSE a

\* mark_append_data_ready_from_heartbeat
DataReady(a, k, h) ==
  IF a.data /\ (h.next > SeqOf(a, k) \/ h.offset >= a.next + a.len \/ h.durable >= a.next + a.len)
  THEN [a EXCEPT !.next = @ + a.len, !.data = FALSE, !.len = 0] ELSE a

\* Mutant of AppendComplete: what is written counts as durable.
AppendCompleteWritten(a, k, h) ==
  ~a.data /\ a.next >= Size[k] /\ (~a.on \/ h.next > k)

\* append_complete_by_heartbeat: a directory or link has size 0.
AppendComplete(a, k, h) ==
  /\ ~a.data
  /\ a.next >= Size[k]
  /\ ~a.on \/ h.next > k
  /\ h.durable >= Size[k]

\* append_lost_matches
LostMatches(a, m) ==
  \/ m.kind = "CREATE" /\ a.created /\ a.on
  \/ m.kind = "DATA" /\ a.data /\ a.on /\ m.pos = a.next

-----------------------------------------------------------------------------
(* T_ChunkResendState.                                                      *)

\* can_send_chunk; a chunk and its entry in the buffer are sent at the same
\* time, so they are late together.
CanSendChunk(s, i) ==
  LET t == s.task[s.cur]
  IN  i \notin t.acked /\ (i \notin t.out \/ (i \in t.urgent /\ Chunk(s.cur, i) \in Range(s.late)))

\* next_chunk_to_send, for as long as it finds one: the urgent ones first,
\* then the last chunk and the others in order.
ChunkOrder(k) == <<Size[k]>> \o [i \in 1..(Size[k] - 1) |-> i]

ChunksToSend(s) ==
  LET t == s.task[s.cur]
      sendable == {i \in 1..Size[s.cur] : CanSendChunk(s, i)}
  IN  Filter([i \in 1..Size[s.cur] |-> i], sendable \cap t.urgent)
        \o Filter(ChunkOrder(s.cur), sendable \ t.urgent)

\* mark_chunk_sent of each chunk of is.
MarkChunksSent(t, is) ==
  [t EXCEPT !.out = @ \cup is, !.urgent = @ \ is,
            !.attempts = [i \in DOMAIN @ |-> IF i \in is THEN @[i] + 1 ELSE @[i]]]

\* acknowledge_chunk and apply_missing_hints
AckChunks(t, is) ==
  [t EXCEPT !.acked = @ \cup is, !.out = @ \cup is, !.urgent = @ \ is]

HintChunks(t, is) == [t EXCEPT !.urgent = @ \cup (is \ t.acked)]

\* mark_chunk_lost
LoseChunks(t, is) ==
  [t EXCEPT !.out = @ \ (is \ t.acked), !.urgent = @ \cup ((is \cap t.out) \ t.acked)]

-----------------------------------------------------------------------------
(* Sending.                                                                 *)

\* send_manifest1 goes through the network's control queue.
SendManifest1(s) == [s EXCEPT !.sent = Append(@, Manifest1)]

FinalFail(s) == [s EXCEPT !.status = "failed"]

\* Mutant of Recover: the manifest is not asked for again.
RecoverSilent(s) ==
  IF s.status = "failed" THEN s
  ELSE IF s.recoveries >= MaxRecoveries THEN FinalFail(s)
  ELSE [s EXCEPT !.recoveries = @ + 1, !.buffer = << >>, !.resend = << >>,
                 !.applied = FALSE, !.complete = FALSE, !.status = "busy",
                 !.task = [k \in Files |-> FreshTask(k)]]

\* recover_with_manifest1
Recover(s) ==
  IF s.status = "failed" THEN s
  ELSE IF s.recoveries >= MaxRecoveries THEN FinalFail(s)
  ELSE SendManifest1([s EXCEPT !.recoveries = @ + 1, !.buffer = << >>, !.resend = << >>,
                               !.applied = FALSE, !.complete = FALSE, !.status = "busy",
                               !.task = [k \in Files |-> FreshTask(k)]])

CheckAllDone(s) ==
  IF s.status = "busy" /\ s.complete THEN [s EXCEPT !.status = "done"] ELSE s

\* send_append_if_possible: one message at a time.
SendAppend(s) ==
  LET k == s.cur
      a == s.task[k].append
  IN  IF s.task[k].chunked \/ ~s.applied \/ s.status # "busy" \/ s.credit = 0 THEN s
      ELSE IF a.needs /\ ~a.created
      THEN [SendBuffered(s, Create(k)) EXCEPT !.task[k].append.created = TRUE]
      ELSE IF (a.needs => a.ready) /\ ~a.data /\ a.next < Size[k]
      THEN [SendBuffered(s, Data(k, a.next)) EXCEPT !.task[k].append.data = TRUE,
                                                    !.task[k].append.len = DataLen(k, a.next)]
      ELSE s

\* apply_append_plan
ApplyAppendPlan(s, action, offset) ==
  IF Inflight(s.task[s.cur].append) \/ s.status = "done" THEN s
  ELSE IF offset > Size[s.cur] THEN FinalFail(s)
  ELSE SendAppend([s EXCEPT !.task[s.cur].append = StartAppend(action, offset)])

SendFileBegin(s) ==
  IF ~s.task[s.cur].chunked \/ s.task[s.cur].begun \/ ~s.applied \/ s.credit = 0 THEN s
  ELSE [SendBuffered(s, FileBegin(s.cur)) EXCEPT !.task[s.cur].begun = TRUE]

SendCommit(s) ==
  IF s.task[s.cur].committed \/ s.credit = 0 THEN s
  ELSE [SendBuffered(s, Commit(s.cur)) EXCEPT !.task[s.cur].committed = TRUE]

\* schedule_chunk_work: stuck is the first chunk that is not sent, because its
\* attempts are used up or because the network refuses it.
ScheduleChunkWork(s) ==
  LET todo   == ChunksToSend(s)
      tired  == {j \in 1..Len(todo) : s.task[s.cur].attempts[todo[j]] > MaxRetries}
      stuck  == Least(tired \cup {s.credit + 1, Len(todo) + 1})
      ms     == [j \in 1..(stuck - 1) |-> Chunk(s.cur, todo[j])]
      after  == [s EXCEPT !.buffer = [x \in Held(s) \cup Range(ms) |->
                                        IF x \in Range(ms) THEN 0 ELSE s.buffer[x]],
                          !.sent = @ \o ms,
                          !.credit = @ - Len(ms),
                          !.task[s.cur] = MarkChunksSent(@, {todo[j] : j \in 1..(stuck - 1)})]
  IN  IF ~s.task[s.cur].ready THEN SendFileBegin(s)
      ELSE IF stuck \in tired THEN Recover(after)
      ELSE IF stuck <= Len(todo) THEN after
      ELSE IF s.task[s.cur].acked = ChunksOf(s.cur) THEN SendCommit(after)
      ELSE after

\* mark_task_retransmitted for each message of ms.
MarkRetransmitted(s, ms) ==
  LET k    == s.cur
      mine == {m \in Range(ms) : m.file = k}
      data == Filter(ms, {m \in mine : m.kind = "DATA"})
      t    == s.task[k]
  IN  IF s.complete \/ ~Active(s) THEN s
      ELSE IF t.chunked
      THEN [s EXCEPT !.task[k] =
             [MarkChunksSent(t, {i \in ChunksOf(k) : Chunk(k, i) \in mine}) EXCEPT
                !.begun = @ \/ FileBegin(k) \in mine,
                !.committed = @ \/ Commit(k) \in mine]]
      ELSE [s EXCEPT !.task[k].append =
             [t.append EXCEPT
                !.created = @ \/ Create(k) \in mine,
                !.data = @ \/ data # << >>,
                !.len = IF data = << >> THEN @ ELSE DataLen(k, data[Len(data)].pos)]]

\* flush_retransmits: stuck is the first position of the queue that is not
\* served.  Messages no longer in the buffer are dropped on the way.
Stuck(s) ==
  Least({Len(s.resend) + 1} \cup
        {i \in 1..Len(s.resend) :
           /\ s.resend[i] \in Held(s)
           /\ \/ s.buffer[s.resend[i]] >= MaxRetries
              \/ Cardinality({j \in 1..(i - 1) : s.resend[j] \in Held(s)}) >= s.credit})

FlushRetransmits(s) ==
  LET stuck == Stuck(s)
      ms    == Filter(SubSeq(s.resend, 1, stuck - 1), Held(s))
      after == MarkRetransmitted(
                 [s EXCEPT !.resend = SubSeq(@, stuck, Len(@)),
                           !.buffer = [m \in Held(s) |-> IF m \in Range(ms) THEN s.buffer[m] + 1
                                                         ELSE s.buffer[m]],
                           !.sent = @ \o ms,
                           !.credit = @ - Len(ms)], ms)
  IN  IF stuck <= Len(s.resend) /\ s.buffer[s.resend[stuck]] >= MaxRetries
      THEN Recover(after) ELSE after

\* enqueue_rto_retransmits
Expired(s) == {m \in Range(s.late) : m \in Held(s)}
Exhausted(s) == \E m \in Expired(s) : s.buffer[m] >= MaxRetries

\* The streams' part of schedule_work.
ScheduleStream(s) ==
  CheckAllDone(
    IF ~s.applied \/ s.complete THEN s
    ELSE IF ~Active(s) THEN [s EXCEPT !.complete = TRUE]
    ELSE IF s.task[s.cur].chunked THEN ScheduleChunkWork(s)
    ELSE SendAppend(s))

ScheduleWork(s) ==
  LET queued == Enqueue(s, s.late)
  IN  IF s.status # "busy" THEN s
      ELSE IF Exhausted(s) THEN Recover(s)
      ELSE IF Stuck(queued) <= Len(queued.resend) THEN FlushRetransmits(queued)
      ELSE ScheduleStream(FlushRetransmits(queued))

\* advance_stream_task
Advance(s) ==
  LET n == [s EXCEPT !.recoveries = 0, !.cur = IF Active(s) THEN @ + 1 ELSE @]
  IN  IF ~Active(n) THEN CheckAllDone([n EXCEPT !.complete = TRUE])
      ELSE IF n.task[n.cur].chunked THEN ScheduleWork(SendFileBegin(n))
      ELSE ApplyAppendPlan(n, "CREATE_MISSING", 0)

-----------------------------------------------------------------------------
(* Messages from the receiver.                                              *)

\* on_heartbeat for the active append file ...
AppendHeartbeat(s, h) ==
  LET k == s.cur
      a == IF h.file = k THEN DataReady(CreateReady(s.task[k].append, k, h), k, h)
           ELSE s.task[k].append
      n == [s EXCEPT !.task[k].append = a]
  IN  IF h.file = k /\ AppendComplete(a, k, h) THEN Advance(n) ELSE SendAppend(n)

\* ... and for the active chunk file.
BeginReady(t, k, h) == t.begun /\ ~t.ready /\ h.file = k /\ h.chunks = {}

\* Mutant of CommitDone: any heartbeat after the commit ends the file.
CommitSent(t, k, h) == t.committed

CommitDone(t, k, h) == t.committed /\ h.next > k

ChunkHeartbeat(s, h) ==
  LET k      == s.cur
      t      == s.task[k]
      ready  == BeginReady(t, k, h)
      acked  == {i \in ChunksOf(k) : <<k, i>> \in h.chunks}
      hinted == {i \in ChunksOf(k) : <<k, i>> \in h.missing}
      n == [s EXCEPT !.task[k] = [HintChunks(AckChunks(t, acked), hinted) EXCEPT
                                    !.ready = @ \/ ready],
                     !.buffer = Without(@, {Chunk(k, i) : i \in acked}
                                           \cup (IF ready THEN {FileBegin(k)} ELSE {}))]
  IN  IF CommitDone(t, k, h) THEN Advance(n) ELSE ScheduleWork(n)

HandleHeartbeat(s, h) ==
  LET n == EraseCompleted(s, h)
  IN  IF ~Active(n) THEN CheckAllDone(n)
      ELSE IF n.task[n.cur].chunked THEN ChunkHeartbeat(n, h)
      ELSE AppendHeartbeat(n, h)

\* is_recoverable_nack
Recoverable == {"BAD_CHECKSUM", "BAD_COMMIT", "SIZE_CONFLICT", "CHECKSUM_MISMATCH",
                "BAD_SEQ", "BAD_OFFSET", "BAD_CHUNK"}

\* on_message with a T_Nack
HandleNack(s, n) ==
  LET found == IF n.file = 0 THEN << >> ELSE KeysForNack(s, n)
  IN  IF found # << >> THEN ScheduleWork(Enqueue(s, <<found[1]>>))
      ELSE IF n.reason \in Recoverable THEN Recover(s)
      ELSE FinalFail(s)

\* apply_manifest2_to_stream, apply_manifest2_stream and on_manifest2.  The
\* manifest_id of the answer is not compared with that of the question.
ApplyManifest2(s, m) ==
  LET n == [s EXCEPT !.cur = m.file, !.applied = TRUE,
                     !.task[m.file].chunked = @ /\ m.action # "RESUME_EXISTING"]
  IN  IF s.applied \/ s.complete THEN s
      ELSE IF m.action = "IN_SYNC"
      THEN CheckAllDone([s EXCEPT !.cur = NFiles + 1, !.applied = TRUE, !.complete = TRUE])
      ELSE IF m.file \notin Files THEN FinalFail(s)
      ELSE IF n.task[m.file].chunked THEN SendFileBegin(n)
      ELSE ApplyAppendPlan(n, m.action, m.offset)

HandleManifest2(s, m) == ScheduleWork(ApplyManifest2(s, m))

-----------------------------------------------------------------------------
(* Callbacks of the network and the timers.                                 *)

\* on_lost_sends: a message that is still buffered is sent again from there;
\* for one that is not, the task goes back to before it was sent.
LostKept(s, lost) == Filter(lost, {m \in Held(s) : m.file = s.cur})
LostGone(s, lost) == {m \in Range(lost) : m.file = s.cur /\ m \notin Held(s)}

LostAppend(s, gone) ==
  IF \E m \in gone : LostMatches(s.task[s.cur].append, m)
  THEN [s EXCEPT !.applied = FALSE, !.task[s.cur].append = ResetInflight(@)]
  ELSE s

LostChunked(s, gone) ==
  [s EXCEPT !.task[s.cur] =
     [LoseChunks(s.task[s.cur], {i \in ChunksOf(s.cur) : Chunk(s.cur, i) \in gone}) EXCEPT
        !.begun = @ /\ (s.task[s.cur].ready \/ FileBegin(s.cur) \notin gone),
        !.committed = @ /\ Commit(s.cur) \notin gone]]

HandleLostSends(s, lost) ==
  LET kept == Enqueue(s, LostKept(s, lost))
      n    == IF s.task[s.cur].chunked THEN LostChunked(kept, LostGone(s, lost))
              ELSE LostAppend(kept, LostGone(s, lost))
  IN  IF s.complete \/ ~Active(s) THEN s
      ELSE IF LostKept(s, lost) # << >> \/ n # kept THEN ScheduleWork(n)
      ELSE n

\* on_connected: once done, only a rescan starts another exchange.
HandleConnected(s) ==
  IF s.status = "done" THEN s ELSE ScheduleWork(SendManifest1(s))

-----------------------------------------------------------------------------
(* The component: whatever the receiver answers and whenever lines fail.    *)

Reasons == Recoverable \cup {"BAD_FILE_ORDER", "FILE_EXISTS", "IO_ERROR"}

Heartbeats == [next : Nat, file : Nat, offset : Nat, durable : Nat,
               chunks : SUBSET (Files \X Nat), missing : SUBSET (Files \X Nat)]
Nacks      == [reason : Reasons, file : Nat, offset : Nat, expected : Nat, got : Nat]
Manifests2 == [action : {"IN_SYNC", "CREATE_MISSING", "RESUME_EXISTING"},
               file : Nat, offset : Nat]

Running == status # "failed"

OnHeartbeat(h, credit, late) ==
  Running /\ Install(HandleHeartbeat(Now(credit, late), h))

OnNack(n, credit, late) ==
  Running /\ Install(HandleNack(Now(credit, late), n))

OnManifest2(m, credit, late) ==
  Running /\ Install(HandleManifest2(Now(credit, late), m))

OnLostSends(lost, credit, late) ==
  Running /\ Install(HandleLostSends(Now(credit, late), lost))

OnConnected(credit, late) ==
  Running /\ Install(HandleConnected(Now(credit, late)))

\* tick
OnTick(credit, late) ==
  Running /\ Install(ScheduleWork(Now(credit, late)))

\* The 30 s timer of run(), unless the sender watches its source.
OnTimeout ==
  status = "busy" /\ Install(FinalFail(Now(0, << >>)))

SenderInit ==
  /\ cur = 1
  /\ applied = FALSE
  /\ complete = FALSE
  /\ task = [k \in Files |-> FreshTask(k)]
  /\ buffer = << >>
  /\ resend = << >>
  /\ recoveries = 0
  /\ status = "busy"

SenderNext ==
  \/ OnTimeout
  \/ \E credit \in Nat, late \in Seq(Keys) :
       \/ \E h \in Heartbeats : OnHeartbeat(h, credit, late)
       \/ \E n \in Nacks : OnNack(n, credit, late)
       \/ \E m \in Manifests2 : OnManifest2(m, credit, late)
       \/ \E lost \in Seq(Keys) : OnLostSends(lost, credit, late)
       \/ OnConnected(credit, late)
       \/ OnTick(credit, late)

SenderSpec == SenderInit /\ [][SenderNext]_senderVars

=============================================================================
