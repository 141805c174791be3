------------------------------- MODULE System -------------------------------
(***************************************************************************)
(* A sender and a receiver process of one stream and the TCP lines between *)
(* them: Sender and Receiver composed with the receiver's network          *)
(* (T_ReceiverNetwork, T_ReceiverLineSet) and with what the sender's       *)
(* network does to messages (SenderNetwork has its details).               *)
(*                                                                         *)
(* A line is FIFO in both directions and loses what is on its way when it  *)
(* closes.  Each message takes any line that is up, so messages overtake   *)
(* one another.  A step is one callback of one of the two event loops, or  *)
(* one step of the receiver's writer thread.                               *)
(***************************************************************************)
EXTENDS Sender

CONSTANTS Lines,
          AckBatch,    \* heartbeat_ack_batch_size; 0 is off
          QueueCap,    \* usable slots of the disk writer's ring
          FreshStart,  \* is the target directory empty at the start?
          Grown,       \* files that grew at the source since the last transfer
          MaxCredit,   \* bound: messages the network takes in one callback
          Limits       \* bounds explored: the number of lines that can be reached,
                       \* of retransmission timeouts and of lost connections

ASSUME SystemAssumption ==
  /\ AckBatch \in Nat
  /\ QueueCap \in Nat \ {0}
  /\ FreshStart \in BOOLEAN
  /\ MaxCredit \in Nat
  /\ Grown \subseteq {k \in Files : Size[k] > 0}
  /\ Limits \subseteq [lines : Nat, overdue : Nat, drops : Nat]

\* The state of the receiving process, see Receiver.
VARIABLES present, content, temp, synced, app, chk, dur, cmt, queue, running,
          proc, quiet, heartbeats, nack, told, floor, crashes, faults

VARIABLES
  conn,       \* conn[l]: "down", "up", or "half": the sender has closed it and
              \* the receiver has not yet read the end of the stream
  wire,       \* wire[l]: messages on their way to the receiver
  back,       \* back[l]: answers on their way to the sender
  pend,       \* pend[l]: the scheduler's sends in flight on l
  control,    \* Manifest1s in the sender network's control queue
  hb,         \* hb[l]: pending_heartbeats_ of l, at most one
  appendLine, \* append_heartbeat_line_id
  commitLine, \* chunk_commit_line_id
  overdue,    \* retransmission timeouts so far
  drops,      \* connections lost so far
  limit,      \* the member of Limits explored
  reach       \* the lines that can be reached

R == INSTANCE Receiver WITH EarlyNext <- TRUE, Watch <- TRUE,
                            BufferedWrite <- FALSE, MaxCrashes <- 0, MaxFaults <- 0

NoLine   == "no line"
bounds   == <<limit, reach>>
lineVars == <<conn, wire, back, pend, control, overdue, drops>>
recvVars == <<hb, appendLine, commitLine>>
vars     == <<senderVars, R!vars, lineVars, recvVars, bounds>>

-----------------------------------------------------------------------------
(* The sender's side of the lines.                                          *)

Up == {l \in Lines : conn[l] = "up"}

\* The receiver's outputs belong to the step that made them.
ReceiverIdle ==
  /\ heartbeats' = {}
  /\ nack' = "none"
  /\ UNCHANGED <<present, content, temp, synced, app, chk, dur, cmt, queue, running,
                 proc, quiet, told, floor, crashes, faults>>

\* What goes on line l when message j of ms takes line route[j].
OnLine(ms, route, l) ==
  LET mine == Filter([j \in 1..Len(ms) |-> j], {j \in 1..Len(ms) : route[j] = l})
  IN  [i \in 1..Len(mine) |-> ms[mine[i]]]

NotIn(q, ms) == Filter(ms, Range(ms) \ Range(q))

\* The network sends what the handler gave it, the control queue first;
\* Manifest1s wait there while no line is up.  A message that is already in
\* flight on its line is then in flight twice, and both copies end together.
Post(s, up, sending, pending) ==
  IF up = {}
  THEN /\ control' = control + Len(s.sent)
       /\ wire' = sending
       /\ pend' = pending
  ELSE LET ms == [i \in 1..control |-> Manifest1] \o s.sent
       IN  \E route \in [1..Len(ms) -> up] :
             /\ wire' = [l \in Lines |-> sending[l] \o OnLine(ms, route, l)]
             /\ pend' = [l \in Lines |->
                   pending[l] \o NotIn(pending[l] \o <<Manifest1>>, OnLine(ms, route, l))]
             /\ control' = 0

\* A callback of the sender that ends in s.
SenderStep(s) ==
  /\ status = "busy"
  /\ Install(s)
  /\ ReceiverIdle
  /\ UNCHANGED recvVars

Credits == IF Up = {} THEN {0} ELSE 0..MaxCredit

\* T_MultiLineScheduler::on_heartbeat: the sends of the line that are done.
InFlightAfter(q, h) ==
  Filter(q, {m \in Range(q) :
    CASE m.kind = "CHUNK" -> <<m.file, m.pos>> \notin h.chunks
      [] m.kind = "DATA"  -> ~(m.file = h.file /\ Acknowledges(h, m))
      [] OTHER            -> ~(m.file = h.file /\ m.file < h.next)})

Handle(s, m) ==
  CASE m.kind = "HEARTBEAT" -> HandleHeartbeat(s, m)
    [] m.kind = "NACK"      -> HandleNack(s, m)
    [] m.kind = "MANIFEST2" -> HandleManifest2(s, m)

SenderReceives(l) ==
  LET m == Head(back[l])
  IN  /\ conn[l] = "up"
      /\ back[l] # << >>
      /\ back' = [back EXCEPT ![l] = Tail(@)]
      /\ \E credit \in Credits :
           LET s == Handle(Now(credit, << >>), m)
           IN  /\ SenderStep(s)
               /\ Post(s, Up, wire, IF m.kind = "HEARTBEAT"
                                    THEN [pend EXCEPT ![l] = InFlightAfter(@, m)] ELSE pend)
      /\ UNCHANGED <<conn, overdue, drops>>

\* The sender's tick, with the messages that are overdue.
SenderTick(credit, late) ==
  LET s == ScheduleWork(Now(credit, late))
  IN  /\ SenderStep(s)
      /\ Post(s, Up, wire, pend)
      /\ UNCHANGED <<conn, back, drops>>

\* A line connects and negotiates, then on_connected.  A receiver that still
\* holds the old connection refuses the new one.
LineConnects(l) ==
  /\ conn[l] = "down"
  /\ l \in reach
  /\ proc = "up"
  /\ conn' = [conn EXCEPT ![l] = "up"]
  /\ \E credit \in 0..MaxCredit :
       LET s == HandleConnected(Now(credit, << >>))
       IN  SenderStep(s) /\ Post(s, Up \cup {l}, wire, pend)
  /\ UNCHANGED <<back, overdue, drops>>

\* The sender loses a line.  What the socket still held, and what the
\* receiver has read but not parsed when it sees the end, is gone.
LineDrops(l) ==
  /\ conn[l] = "up"
  /\ drops < limit.drops
  /\ drops' = drops + 1
  /\ UNCHANGED overdue
  /\ conn' = [conn EXCEPT ![l] = "half"]
  /\ back' = [back EXCEPT ![l] = << >>]
  /\ \E arrives \in 0..Len(wire[l]) :
       \E credit \in IF Up = {l} THEN {0} ELSE 0..MaxCredit :
         LET s == HandleLostSends(Now(credit, << >>), pend[l])
         IN  /\ SenderStep(s)
             /\ Post(s, Up \ {l}, [wire EXCEPT ![l] = SubSeq(@, 1, arrives)],
                                  [pend EXCEPT ![l] = << >>])

-----------------------------------------------------------------------------
(* The receiver's network.  Its functions work on net, a record of the      *)
(* pending heartbeats and of what was sent.                                 *)

NoHeartbeat == [acks |-> 0, msg |-> Manifest1]
Open(l)     == conn[l] # "down"
ReceiverNet == [hb |-> hb, back |-> back]

\* T_ReceiverLineSet::send; a line the sender has closed swallows it.
SendBack(net, l, m) ==
  IF conn[l] = "up" THEN [net EXCEPT !.back[l] = Append(@, m)] ELSE net

\* flush_heartbeats
Flush(net, l) ==
  IF net.hb[l] = NoHeartbeat THEN net
  ELSE [SendBack(net, l, net.hb[l].msg) EXCEPT !.hb[l] = NoHeartbeat]

\* queue_heartbeat keeps every chunk acknowledgement and, of the rest, what
\* the newest heartbeat says.
Merged(old, h) ==
  [acks |-> old.acks + Cardinality(h.chunks),
   msg  |-> IF old = NoHeartbeat THEN h ELSE [h EXCEPT !.chunks = @ \cup old.msg.chunks]]

QueueHeartbeat(net, l, h, flush) ==
  LET n == [net EXCEPT !.hb[l] = Merged(@, h)]
  IN  IF flush \/ (AckBatch > 0 /\ n.hb[l].acks >= AckBatch) THEN Flush(n, l) ELSE n

\* missing_ranges: the gaps below the highest chunk received.
Missing(c, k) ==
  IF k \notin c.active THEN {}
  ELSE {<<k, i>> : i \in {j \in R!ChunksOf(k) \ c.recv[k] : \E n \in c.recv[k] : j < n}}

HeartbeatMessage(h, missing) ==
  [kind |-> "HEARTBEAT", next |-> h.next, file |-> h.file, offset |-> h.offset,
   durable |-> h.durable, chunks |-> {h.file} \X h.chunks, missing |-> missing]

NackMessage(m, expected) ==
  [kind |-> "NACK", reason |-> nack', file |-> m.file, got |-> m.file, expected |-> expected,
   offset |-> IF m.kind = "CHUNK" THEN m.pos - 1 ELSE m.pos]

\* diff_stream and make_manifest2_stream, on the directory as it is.
Manifest2 ==
  LET k == R!FirstOutside(R!InSync)
  IN  IF k > NFiles
      THEN [kind |-> "MANIFEST2", action |-> "IN_SYNC", file |-> 0, offset |-> 0]
      ELSE IF k \in present
      THEN [kind |-> "MANIFEST2", action |-> "RESUME_EXISTING", file |-> k, offset |-> Len(content[k])]
      ELSE [kind |-> "MANIFEST2", action |-> "CREATE_MISSING", file |-> k, offset |-> 0]

\* execute_actions for the answer to message m on line l.
Answer(l, m) ==
  LET ordered == m.kind \in {"CREATE", "DATA"}
      missing == IF m.kind = "CHUNK" THEN Missing(chk', m.file) ELSE {}
      net == IF m.kind = "MANIFEST1" THEN SendBack(ReceiverNet, l, Manifest2)
             ELSE IF nack' # "none"
             THEN SendBack(ReceiverNet, l,
                           NackMessage(m, IF ordered THEN app'.expected ELSE chk'.expected))
             ELSE IF heartbeats' = {} THEN ReceiverNet
             ELSE QueueHeartbeat(ReceiverNet, l,
                                 HeartbeatMessage(CHOOSE h \in heartbeats' : TRUE, missing),
                                 m.kind \notin {"DATA", "CHUNK"})
  IN  hb' = net.hb /\ back' = net.back

ReceiverReceives(l) ==
  LET m == Head(wire[l])
  IN  /\ Open(l)
      /\ wire[l] # << >>
      /\ wire' = [wire EXCEPT ![l] = Tail(@)]
      /\ \/ m.kind = "CREATE" /\ R!ApplyCreate(m.file)
         \/ m.kind = "DATA" /\ R!ApplyData(m.file, m.pos)
         \/ m.kind = "FILE_BEGIN" /\ R!ApplyBegin(m.file)
         \/ m.kind = "CHUNK" /\ R!ApplyChunk(m.file, m.pos)
         \/ m.kind = "FILE_COMMIT" /\ R!ApplyCommit(m.file)
         \/ m.kind = "MANIFEST1" /\ R!ApplyManifest1
      /\ Answer(l, m)
      /\ appendLine' = IF m.kind = "DATA" /\ nack' = "none" THEN l ELSE appendLine
      /\ commitLine' = IF cmt'.state = "queued" /\ cmt.state = "none" THEN l ELSE commitLine
      /\ UNCHANGED <<senderVars, conn, pend, control, overdue, drops>>

\* The receiver reads the end of the stream.
EndOfStream(l) ==
  /\ conn[l] = "half"
  /\ wire[l] = << >>
  /\ proc = "up"
  /\ conn' = [conn EXCEPT ![l] = "down"]
  /\ ReceiverIdle
  /\ UNCHANGED <<senderVars, recvVars, wire, back, pend, control, overdue, drops>>

\* Mutant of AfterFsync: the heartbeat for a finished fsync is not sent.
AfterFsyncSilent == ReceiverNet

\* execute_actions for poll_completions: the fsync's heartbeat waits to be
\* flushed, the commit's is only for a line that is open.
AfterFsync ==
  IF R!FsyncHeartbeats = {} THEN ReceiverNet
  ELSE QueueHeartbeat(ReceiverNet, appendLine,
                      HeartbeatMessage(CHOOSE h \in R!FsyncHeartbeats : TRUE, {}), FALSE)

Polled ==
  IF cmt.state = "done" /\ Open(commitLine)
  THEN QueueHeartbeat(AfterFsync, commitLine, HeartbeatMessage(R!CommitHeartbeat, {}), TRUE)
  ELSE AfterFsync

\* flush_all_heartbeats, when no line refuses.
FlushedAll(net) ==
  [hb |-> [l \in Lines |-> NoHeartbeat],
   back |-> [l \in Lines |-> Flush(net, l).back[l]]]

Refused(net) == \E l \in Lines : net.hb[l] # NoHeartbeat /\ ~Open(l)

CommitPollTick ==
  /\ cmt.state # "none"
  /\ R!Poll
  /\ hb' = Polled.hb
  /\ back' = Polled.back
  /\ UNCHANGED <<senderVars, conn, wire, pend, control, overdue, drops, appendLine, commitLine>>

HeartbeatTick ==
  /\ ~Refused(Polled)
  /\ R!Poll
  /\ hb' = FlushedAll(Polled).hb
  /\ back' = FlushedAll(Polled).back
  /\ UNCHANGED <<senderVars, conn, wire, pend, control, overdue, drops, appendLine, commitLine>>

\* Sending on a line without a connection throws; nothing between the timer
\* and main catches it, so the receiver ends.  What this tick has polled ends
\* with it, and so do the heartbeats it has sent on other lines: a send only
\* queues, and the loop that would write is left.
HeartbeatTickThrows ==
  /\ proc = "up"
  /\ Refused(Polled)
  /\ proc' = "stopping"
  /\ heartbeats' = {}
  /\ nack' = "none"
  /\ UNCHANGED <<present, content, temp, synced, app, chk, dur, cmt, queue, running, quiet,
                 told, floor, crashes, faults, senderVars, lineVars, recvVars>>

WriterThread ==
  /\ R!Writer \/ R!Exit
  /\ UNCHANGED <<senderVars, lineVars, recvVars>>

-----------------------------------------------------------------------------
\* The target has every file as it was when it was last transferred.
TargetBehind ==
  /\ present = Files
  /\ content = [k \in Files |-> [i \in 1..(IF k \in Grown THEN Size[k] - 1 ELSE Size[k]) |-> i]]
  /\ told = R!InSync
  /\ floor = R!FirstOutside(R!InSync)
  /\ R!Started

Init ==
  /\ SenderInit
  /\ IF Grown = {} THEN R!Init ELSE TargetBehind
  /\ conn = [l \in Lines |-> "down"]
  /\ wire = [l \in Lines |-> << >>]
  /\ back = [l \in Lines |-> << >>]
  /\ pend = [l \in Lines |-> << >>]
  /\ control = 0
  /\ hb = [l \in Lines |-> NoHeartbeat]
  /\ appendLine = NoLine
  /\ commitLine = NoLine
  /\ overdue = 0
  /\ drops = 0
  /\ limit \in Limits
  /\ reach \in {S \in SUBSET Lines : Cardinality(S) = limit.lines}

Overdue(m) ==
  /\ m \in DOMAIN buffer
  /\ overdue < limit.overdue
  /\ overdue' = overdue + 1
  /\ \E credit \in Credits : SenderTick(credit, <<m>>)

TimerTick(credit) == SenderTick(credit, << >>) /\ UNCHANGED overdue

Progress ==
  \/ \E l \in Lines :
       \/ SenderReceives(l)
       \/ LineConnects(l)
       \/ ReceiverReceives(l)
       \/ EndOfStream(l)
  \/ \E credit \in Credits : TimerTick(credit)
  \/ \E m \in DOMAIN buffer : Overdue(m)
  \/ HeartbeatTick
  \/ HeartbeatTickThrows
  \/ CommitPollTick
  \/ WriterThread

Next == (Progress \/ \E l \in Lines : LineDrops(l)) /\ UNCHANGED bounds

Spec == Init /\ [][Next]_vars

-----------------------------------------------------------------------------
(* Properties.                                                              *)

\* Everything on the lines is what Receiver assumes of its sender: a file's
\* messages are sent only when the receiver has completed the files before.
SenderKeepsOrder ==
  \A l \in Lines : \A m \in Range(wire[l]) :
    m.kind # "MANIFEST1" =>
      /\ R!Sendable(m.file)
      /\ R!ChunkMode(m.file) = (m.kind \in {"FILE_BEGIN", "CHUNK", "FILE_COMMIT"})

\* The system implements OrderedTransfer: sender, lines and receiver together
\* make entries visible in order and whole, and the sender says it is done only
\* when every file is whole at the receiver.
Transfer ==
  INSTANCE OrderedTransfer
    WITH AtOnce   <- {k \in Files : ChunkMode(k)},
         target   <- [k \in Files |-> IF k \in present THEN Len(content[k]) ELSE -1],
         finished <- status = "done"
ImplementsOrderedTransfer == Transfer!Spec

\* detail.md: the send buffer keeps what is sent and not acknowledged.  What
\* the active task waits for is in it, unless the receiver has it for good.
NothingForgotten ==
  LET s == Now(0, << >>)
      t == task[cur]
      a == t.append
      kept(m) == m \in Held(s) \/ R!Whole(cur)
  IN  (status = "busy" /\ applied /\ Active(s)) =>
        IF t.chunked
        THEN /\ t.begun /\ ~t.ready => kept(FileBegin(cur))
             /\ \A i \in t.out \ t.acked : kept(Chunk(cur, i))
             /\ t.committed => kept(Commit(cur))
        ELSE /\ a.created /\ ~a.ready => kept(Create(cur))
             /\ a.data => kept(Data(cur, a.next)) \/ Len(content[cur]) >= a.next + a.len

\* Nothing is on its way, nothing waits in a queue, and no timer of either
\* process will do anything: the system stays as it is.
Quiescent ==
  /\ proc = "up"
  /\ \A l \in reach : conn[l] = "up" /\ wire[l] = << >> /\ back[l] = << >> /\ hb[l] = NoHeartbeat
  /\ queue = << >> /\ running = R!NoTask
  /\ R!DurableIdle /\ dur.completed <= dur.offset
  /\ buffer = << >>
  /\ ScheduleWork(Now(MaxCredit, << >>)) = Now(MaxCredit, << >>)

\* CREATE/DATA files come before chunk files, and the target has no older
\* version of one; system_early and system_grown are about the rest.
ChunkFilesLast == \A j, k \in Files : j < k /\ ChunkMode(j) => ChunkMode(k)
Regular == ChunkFilesLast /\ Grown = {}

\* Over one line that is not lost the system comes to rest only when the sender
\* has finished: no answer is missing, merged away or ignored, the reports of
\* one file are not lost when the next one takes over the durability context,
\* and a recovery goes on from its Manifest2 (detail.md).
OneLineFinishes ==
  (Regular /\ limit.lines = 1 /\ drops = 0 /\ Quiescent) => status # "busy"

\* Whatever is overtaken, lost or asked twice, on any number of lines: at rest
\* the receiver has the whole of the file that the sender is still at, so no
\* part of it was dropped from the send buffer and no question for a manifest
\* has gone unanswered.
WaitsForWhole == (Regular /\ Quiescent /\ status = "busy") => R!Whole(cur)

\* protocol.md: a line that is lost reconnects, the manifests are exchanged
\* again, and the transfer goes on from there.
ReconnectResumes == Quiescent => status # "busy"

\* readme.md: new entries and appends are transferred, the rest is in sync.
GrowthIsSent == Quiescent => status # "busy"

\* detail.md: what is completed is in the target directory, with its size.  The
\* sender is done only when every file is whole there.
CompletedIsWhole == status = "done" => \A k \in Files : R!Whole(k)

=============================================================================
