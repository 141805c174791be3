# A TLA+ model of Yisync

Yisync copies directory trees from a sender to a receiver. A directory is a
*stream*; its entries (files, directories, links) are numbered by `seq` in a fixed
order and become visible at the receiver strictly in that order. Small files are
sent with `CREATE` and `DATA` and grow under their final name; large ones are sent
as chunks into `.yisync_tmp` (`FILE_BEGIN`, `CHUNK`) and renamed (`FILE_COMMIT`).
Messages travel over several TCP lines at once and are retransmitted, so they
arrive repeated and reordered. Heartbeats acknowledge, NACKs refuse, and a pair of
manifests finds the place to continue after a restart.

## Inventory

| Component | State | Operations | Talks to | What makes it correct |
| --- | --- | --- | --- | --- |
| append receiver (`yisync_receiver.cpp`) | expected seq, current file, offset, final size | CREATE, DATA, rescans of the directory | target directory | files are prefixes of their sources, in order, nothing written twice |
| chunk receiver (`yisync_receiver.cpp`) | expected seq, active files with a bitmap, pending commits | FILE_BEGIN, CHUNK, prepare/abort/finish commit, missing ranges | `.yisync_tmp`, writer | acknowledged chunks are stored; a file is visible only whole |
| coordinator, stream contexts (`yisync_receiver_coordinator.cpp`, `_streams.cpp`) | durability counters, the one commit in flight, both receivers (built lazily) | one handler per message, `poll_completions` | receivers, writer, application | acknowledgements are honest; completions are neither lost nor taken for another file's |
| disk writer (`yisync_disk_writer.cpp`) | lock-free ring, busy/stop/failed flags | enqueue, drain, stop, the worker | event loop thread and worker thread | no data race, FIFO, nothing accepted is lost |
| receiver application (`yisync_receiver_app.cpp`, `_commit_poller.cpp`) | activity generation, committed/failed flags | dispatch, heartbeat and poll timers, quiet stop, Manifest1 | coordinator, network | stops only when nothing is outstanding |
| manifest scan and diff (`yisync_sync.cpp`) | none | scan, diff, chunk arithmetic | file system | the diff finds the first entry that is not complete |
| append send state, chunk resend, send buffer, plan (`yisync_append_state.cpp`, `_chunk_resend.cpp`, `_send_buffer.cpp`, `_sender_plan.cpp`) | per-file progress, sent/acked bitmaps, unacknowledged messages, tasks | mark sent/ready/lost, choose chunk, retransmit, apply Manifest2 | sender application | everything unacknowledged is sent again; nothing is dropped early |
| sender application (`yisync_sender_app.cpp`) | streams, RTO, recovery counter | heartbeats, NACKs, ticks, lost sends, recovery | all of the above, network | every entry is eventually complete; completion is never assumed |
| scheduler (`yisync_scheduler.cpp`) | per line: flags, window, in-flight list, token bucket; lost sends | acquire, acknowledge, refill, connect, negotiate, disconnect | sender network | what is acquired is released or reported lost; windows are given back |
| sender network (`yisync_network.cpp`) | per line: connection, connect attempt, reconnect timer, negotiated or not; control queue | connect, hello, reconnect, send, send control, tick | scheduler, event loop, sender application | its three views of a line agree; a lost line comes back; nothing sent is forgotten |
| receiver network (`yisync_network.cpp`) | accepted connections, queued heartbeats | accept, hello, merge and flush heartbeats | event loop, receiver application | merged heartbeats lose nothing that matters |
| source and watcher (`yisync_source.cpp`, rescans of `yisync_sender_app.cpp`) | snapshots, watches, event flags, rescan timer and deferral | scan, poll, read range and checksum | file system, sender application | no change is overlooked; what was scanned is consistent |
| event loop, TCP (`yisync_async.cpp`), wire format (`yisync_protocol.cpp`), configuration (`yisync_node_common.cpp`) | | | | |

The hard behaviours are: the writer thread renames and fsyncs while the event loop
scans the same directory; repeated and late messages of files that are already
complete; a process that starts again from a directory with a partial file; disk
operations that fail half-way; a ring that is full; completions that arrive after
the state they belong to was reset; lines whose connect, close, timeout and
reconnect callbacks come in any order and call back into one another; answers that
are lost, merged, late, or about another file or manifest; a source that grows
while it is scanned. `PROJECT.json` lists them at their lines.

## Modules

| Module | Models |
| --- | --- |
| `Receiver` | append receiver, chunk receiver, coordinator, receiver application and target directory, for one stream |
| `MCReceiver` | the file sizes of `Receiver`'s runs |
| `ReceiverProofs` | theorems about `Receiver`: types, the visible directory |
| `ReceiverOrderProofs` | what heartbeats promise is in the directory |
| `ReceiverToldProofs` | what the sender concludes is true; the order of visible files |
| `TaskQueue` | what the receiver needs from the disk writer: a bounded FIFO queue with one worker |
| `DiskWriter` | `SpscDiskWriter`, one action per access to shared memory; implements `TaskQueue` |
| `DiskWriterProofs` | theorems about `DiskWriter` |
| `SenderNetwork` | `T_SenderNetwork`, `T_SenderLineSet` and `T_MultiLineScheduler` |
| `MCSenderNetwork` | the requests, heartbeats and frame sizes of its runs |
| `SenderNetworkProofs` | theorems about `SenderNetwork`: lines, accounting of sends, control messages |
| `SenderInflightProofs` | its in-flight counters and types |
| `Sender` | sender application, plan, append and chunk resend states, send buffer, for one stream |
| `System` | `Sender` and an instance of `Receiver`, the lines between them and the receiver's network |
| `OrderedTransfer` | what a transfer promises a reader of the target; implemented by `System` |
| `SystemProofs` | theorems about `System`: the sender's order, the refinement of `OrderedTransfer`, what the send buffer keeps |
| `MCSystem` | sizes, failures and symmetry of `System`'s runs |
| `Watch` | watchers, rescans, the scan of a growing source, and manifests across rescans |
| `MCWatch` | the directories of `Watch`'s runs |
| `WatchProofs` | theorems about `Watch` |

### Receiver

Every handler of the event loop is one action (`ApplyCreate`, `ApplyData`,
`ApplyBegin`, `ApplyChunk`, `ApplyCommit`, `Poll`, `ApplyManifest1`, `QuietStop`),
split into one disjunct per way it can end: applied, ignored as stale, refused,
failed. The writer thread takes a task (`WriterTake`) and performs its visible
steps one at a time: `WriterFsync`, `WriterRename`, then `WriterCommitSync`, so the
event loop runs between the rename and the fsync that follows it. A handler reads
the directory more than once, but no handler's result depends on a rename in the
middle that it could not also see before or after, so handlers are atomic.

*State.* `app` is `T_ReceiverStreamState` (`open` until the receiver is first
needed, as in `append_receiver_for`), `chk` the chunk receiver's `Impl`, `dur` and
`cmt` the durability and the commit fields of `T_ReceiverStreamContext`. Disk state
is `present` (visible names), `content`, `temp` (chunks in the temporary file) and
`synced`. `queue` and `running` are the writer as `TaskQueue` describes it.

*Data.* Entry `k` of the source has seq `k` and the bytes `1..Size[k]`, so a byte
that is misplaced, doubled or missing is visible in `content`; chunks are numbered
the same way. Directories, links and empty files are entries of size 0. Checksums
are compared by what they say: a commit task's checksum matches exactly when every
chunk is in the temporary file. Wrong session, unknown kind, unsafe names, bad
checksums of a message and malformed sizes cannot come from this sender over TCP
and are left out, and so are the checks of the previous file: the sender always
sends `prev_file_id = 0`.

*The peer.* The sender works through the files in order and starts one only when
it regards the earlier ones as complete, which it concludes from heartbeats
(`Completes`, the test of `append_complete_by_heartbeat`, and next_seq alone for
chunk files) or from a manifest (`InSync`). `told` is the set of files it may
regard as complete: a heartbeat may be lost, so it is a set of possible
conclusions. Any message of a file it may have opened (`Sendable`) can arrive at
any time and any number of times; this includes retransmissions, several lines
and any delay. Messages of a dead connection do not arrive (`floor`). `Restart`
makes a new sender connection too; as the heartbeat that reported the newest file
may have been lost in the crash, the sender may send that file again to the new
process, and nothing older. The sender may ask for a manifest at any time. When a manifest shows it a chunk file whose
commit is done but not polled, it may go on to the next file only with `EarlyNext`;
in the code nothing keeps it from doing so (see `system_early`).

*Failures.* `Crash` ends the process at any point, `Restart` starts another one
from the disk. `MaxFaults` disk operations fail: creating a file, writing a part
of a `DATA` (`DataTorn`), a chunk, an fsync, a commit before or after its rename.
With `BufferedWrite` the bytes of a `DATA` or `CHUNK` may be lost when the stream
object flushes in its destructor, which the code does not notice. Power loss
(losing unsynced bytes) is not modelled. A receiver that failed or is quiet goes
through `"stopping"`: the loop is over and the writer finishes what it still takes.

### DiskWriter

The ring with `head`, `tail`, `busy` and `stopping`; each action is one access to
something both threads use. Indices have one writer each and are published with
release stores that the other thread reads with acquire loads, so the interleaving
of single accesses shows every outcome. Tasks may throw. `Pending` and `Held` map
the ring to `TaskQueue`: a task the worker has moved out of its slot but not yet
passed with `head` still counts as waiting, so the step that takes it is the store
to `head`.

### SenderNetwork

Everything here runs on the sender's event loop. An action is one callback of the
loop (`Connected`, `ConnectFailed`, `ReconnectTimer`, `ConnectionLost`,
`HelloAccepted`, `ProtocolBroken`, `HeartbeatReceived`, `Tick`) or one call of the
application (`Send`, `SendControl`, `DropLine`, `Stop`), with all the calls it
makes: losing a line runs `mark_unavailable`, `on_line_disconnected`,
`emit_lost_sends`, `schedule_reconnect` and the close of the socket, which calls
`mark_unavailable` again and returns at once because the timer is set. When such
a call ends in the application (`on_lost_sends`, `on_connected`), what the
application sends in answer is the next action: `Send` is always possible, and
what is left of the outer call touches the socket of a line the scheduler no
longer offers.

*State.* `sock[l]` is the `T_Line` and the `negotiated_lines_` entry of a line,
with the number of its armed timers, which the code does not count; `sched[l]` is
its `LineState`, `lost[l]` its part of `lost_sends_`, `controls` the length of the
control queue. `owed[l]` is not in the code: it counts the sends `send()` reported
as sent that neither a heartbeat nor `on_lost_sends` has accounted for.

*Data.* A list of sends is a bag, as no code depends on its order. A stream and a
file in it are one name. Which of the fit lines gets a request is a matter of the
score and is left open. The counter of missed ticks stops one above the timeout,
all that is ever asked of it. A negotiation succeeds or fails; its version and
feature arithmetic is left out. The back-off of reconnects only changes delays.
`stop()` is followed by the end of the loop in both places that call it.

### Sender

A handler of `SenderApp` calls many others, and what one of them does depends on
what the ones before did. So every function of the code is an operator from a
record of the sender's state to the next (`SendAppend`, `Recover`, `ScheduleWork`,
`Advance`, `HandleHeartbeat`, ...), composed as the code composes its calls, and an
action installs the result. Two things that handlers cannot control come with the
record: `credit`, how many messages the network takes before it refuses one, and
`late`, the buffered messages that are older than the retransmission timeout.
The RTT estimate that fixes that timeout is therefore not computed.

*State.* `task[k]` is `T_FileSendTask` with its `T_AppendSendState` (`append`) and
`T_ChunkResendState` (`out`, `acked`, `urgent`, `attempts`); `buffer` maps each
message of `T_SenderSendBuffer` to its `nack_retries`; `resend` is the
retransmission queue. A message is its key in the buffer. Directories and links are
files of size 0.

### System

Sender and receiver with the lines between them. `wire[l]` and `back[l]` are FIFO;
a message takes any line that is up. `pend[l]` is the scheduler's in-flight list,
`control` the control queue. `LineDrops` hands `pend[l]` to `on_lost_sends` and
loses the answers and any suffix of what was on its way, including frames read but
not parsed at the end of the stream. The receiver's network holds at most one
pending heartbeat per line and merges later ones into it (`Merged`); it is sent by
the ack batch, by a message that flushes, or by the heartbeat timer. A pending
heartbeat of a line that has closed makes that timer throw and ends the receiver
(`HeartbeatTickThrows`). That loses all the tick has done: `AsyncFrameConnection::send`
only queues (`yisync_async.cpp:264-270`), the exception leaves the loop that would
write, so heartbeats flushed to other lines before the throw are not sent, and
polled completions end with the process. The receiver's steps are the actions of `Receiver` with
`EarlyNext` and `Watch` true, so what `Receiver` assumes of its peer is checked here
(`SenderKeepsOrder`) instead of assumed.

Bounds are in `limit`: each member of `Limits` gives the number of lines that can be
reached, the retransmission timeouts and the lost connections. `reach` is the set
of those lines. Crashes and disk faults are left to `Receiver`.

### Watch

The event loop of a watching sender, beside processes that write the source. The
pass of `build_source_streams` is not atomic: a file's size and the checksum of its
tail (`ReadSize`, `ReadChecksum`), the second listing (`ReadTask`) and the full
checksum (`ReadFull`) are separate steps, and the source grows in between. The
watchers are polling (`PollScan`), inotify (`PollBegin`, `HandleEvent`, `Descend`,
with the kernel's bounded queue) and FSEvents (`Callback` on its own thread,
`TakeOverflow` and `TakeDirty` for the two atomic exchanges). `Rescan` is the
debounce timer, which defers while a transfer runs. What the kernel queues
(`Notified`) is external.

A file is its length; a checksum is the length it was computed over. The receiver
answers with `Diff` of the manifest it was sent; each connecting line asks once, and
questions and answers may overtake one another. A transfer of one task is its
outcome (`ResumeTaken`, `SkipTaken`, `CreateTaken`, `Refused`), as `Sender` and
`Receiver` have the details. Entries appear in manifest order, as readme.md asks
of names. A question or answer has a flag `own`: it is about the manifest the
sender has, that is, no rescan has come in between. The code has no such flag;
it is what comparing `manifest_id` would tell. The variable `own` says it of the
answer the current plan was made from. `inotify_add_watch` succeeds in the model: the
code ignores a refusal (`yisync_source.cpp:210-218`), and what happens below a
directory without a watch is then never reported. The source starts with at least one
entry; the target starts in sync with it or empty.

## Runs

| Run | Shows |
| --- | --- |
| `receiver_safety` | `OrderedVisibility`: visible entries are preceded by whole ones. `VisibleIsPrefix`. `ToldIsWhole`: nothing is taken for complete that is not. `ChunkAckStored`, `NextSeqVisible`, `OffsetIsWritten`: what heartbeats promise. `OnlyGrows`: bytes once visible stay |
| `receiver_live` | `CommitResolves`, `WrittenIsReported`; and `VisibleIsPrefix` with unnoticed write failures: the commit checksum is enough for chunk files |
| `writer_safety` | `NoSlotClash`, `Fifo`, `DrainComplete`, `ImplementsTaskQueue`, `AcceptedRuns`, `CallsReturn`, `StopRunsAccepted` |
| `sender_network` | `ViewsAgree`: a line the scheduler would use is open and negotiated. `NeverStranded`: a line is open, connecting, or has exactly one timer. `Accounted`: nothing sent is forgotten or returned twice. `InflightIsPending`: in-flight bytes are those of the listed sends. `ControlNotStuck`. `SilentLineGivesUp`, `Reconnects`, and `RequestSent`: what fits window and bucket exactly is sent |
| `system` | `SenderKeepsOrder`: only what the receiver may expect is on the lines. `ImplementsOrderedTransfer`. `NothingForgotten`: what the active task waits for can be sent again, or the receiver has it. `OneLineFinishes`: over one line that is not lost the system comes to rest only when the sender has finished. `WaitsForWhole`: whatever is lost or overtaken, at rest the receiver has the whole of the file the sender is at |
| `system_appends` | `OneLineFinishes` and `WaitsForWhole` with two CREATE/DATA files, which take the durability context from each other |
| `system_reconnect`, `system_grown`, `system_early` | disagreements below |
| `watch` | `StaleIsNoticed`: whatever differs from the last manifest will be scanned. `TasksCoverManifest`. `OwnAnswerSyncs`: a sender that is done with a plan made from an answer to its manifest has synchronized it. `CatchesUp`: once the source is quiet the target gets all of it, unless the sender has failed, is stuck as in `system_grown`, or has taken an old answer for its own |
| `watch_growth`, `watch_stale` | disagreements below |

Bounds. Three files (append, chunk, append) give both changes of mode, a file
before and a file after each; two bytes with blocks of one give a first and a last
`DATA`; three chunks allow gaps; a ring of one slot makes a full ring common; one
crash and one fault, together with unlimited sender restarts and quiet stops,
reach every recovery. The liveness run has two files (chunk, then append): with
two append files, messages of both repeated in turn forever reset the durability
context forever, and nothing is ever reported. The code ends this only through the
sender's bounded retransmissions, which `Receiver` does not know. The ring of the
disk writer has three slots and five tasks (it wraps).
The sender's network has two lines, so that one is lost while the other carries
on; a CHUNK and a DATA, which are acknowledged by chunk, by seq and by offset; a
window of four that holds a request twice and that a heartbeat may shrink below
what is in flight, to exactly one frame; a bucket that takes two ticks to fill; and
a timeout of one tick. At most one control message waits. Two requests may starve
one another, as each may take the tokens the other waits for; so `RequestSent` is
about a request that no other competes with.
`System` has an append file of one block and a chunk file of two chunks, over two
lines with one retransmission timeout, or over one line that is lost once, with one
timeout (before it is lost, this is the case of `OneLineFinishes`). `system_appends`
has two append files of one block instead, and also one line that is not lost with
two timeouts, which with one retry end in a recovery. The network takes at most one
message per callback; with two the reachable states are the same, as a tick may
follow at once. Lines are symmetric. `Watch` has a file, a directory and a file in it, an inotify queue of one event so that overflow is common, and files up to
one byte; everything above the chunk threshold of 0 is sent in chunk mode. One
connection is what liveness allows; every answer there is the sender's own. The
theorem on `OwnAnswerSyncs` is for any number, and with two connections, the default,
TLC finds no violation of the four invariants in 3.9 million states. The second
connection is what `watch_stale` needs.

`EarlyNext` is FALSE in `receiver_safety`: with TRUE `ToldIsWhole` is false on a chunk
file and two append files with blocks of two bytes (one `DATA` fills an append file).
`receiver_live` has it TRUE. `System`, which has the real sender, has it TRUE too. In
the `system` run, with one append file and then one chunk file, that history cannot
happen and `ImplementsOrderedTransfer` holds; `system_early` reaches it with the real
sender and a chunk file before two append files.

Fairness. Weak fairness of `Poll` (a timer that re-arms itself), of `Writer` and of
`Exit` (threads keep running); none of messages, crashes or restarts. In
`DiskWriter`, weak fairness of the worker and of a call that has begun; the event
loop need not make another call. `CHECK_DEADLOCK FALSE` in `DiskWriter`'s runs:
after the last call and the worker's exit nothing is left to do. In
`SenderNetwork`, weak fairness of `Tick` and `ReconnectTimer` (timers of the loop),
of `Send` (the application tries on every tick) and of the end of a connect
(success or failure, the system reports one); strong fairness of `Connected` says
that a peer tried over and over is reached at last, an assumption on the network.
The peer owes nothing: no fairness of hellos or heartbeats. In `Watch`, weak
fairness of a callback that has begun and of the FSEvents thread; strong fairness
of the poll timer, of the rescan timer and of what is on the lines, because a
callback in progress delays them but the loop runs every timer that is due and
every socket that is ready. Nothing is assumed of the writers. `System` states no
fairness; `OneLineFinishes` and `WaitsForWhole` are about the states in which nothing
can happen.
`CHECK_DEADLOCK FALSE` there and in `Watch`: a finished sender, or one that has
failed, does nothing more.

## Disagreements with the documents

* `system_early`: `next_seq` and `durable_offset` are documented as completed and
  fsynced. The poll of a commit moves the append receiver past whatever the directory
  shows (`yisync_receiver_coordinator.cpp:514`), and the completion of an fsync carries
  no file (`yisync_receiver_coordinator.cpp:399`). If the sender learns of a commit from
  a manifest before the poll and sends two append files meanwhile, the fsync of the
  first is counted for the second, and the sender takes an empty file for complete: over
  one line that loses nothing, with three retransmission timeouts, it reports the end of
  the transfer while the `DATA` of the last file is still on the line. The poll runs
  every `commit_poll_interval_ms` (2 by default), so this needs a recovery in that
  window, or a longer interval.
* `system_reconnect`: after a reconnect the manifests are exchanged again, but the
  answer is ignored while `manifest_applied` is set (`yisync_sender_plan.cpp:94`). If
  the heartbeat of the fsync was lost with the line, the file is whole, its DATA is no
  longer in the buffer, and the sender waits for ever.
* `system_grown`: an append to a file that is not the target's last entry is planned
  by Manifest2 and then ignored by the append receiver (`yisync_receiver.cpp:287`),
  whose heartbeat makes the sender forget the DATA. Both ends wait.
* `watch_growth`: size and checksum come from two reads (`yisync_sync.cpp:265-270`).
  A file that grows in between gives a manifest the receiver refuses, and recovery
  repeats that manifest until the sender ends. The same holds for the full checksum
  of chunk files.
* `watch_stale`: `manifest_id` is never compared (`yisync_sender_plan.cpp:92`). A second
  answer to the first manifest that arrives after a rescan is taken for the answer to
  the new one, and the sender says it is done. `OwnAnswerSyncs` holds on the same
  instance: the comparison is all that is missing.

Smaller observations, each seen in a trace of a variant of these models:

* `durable_offset` is documented as fsynced; a repeated CREATE reports the written
  offset (`yisync_receiver_coordinator.cpp:80`). `ToldIsWhole` survives this alone: it
  is proved with repeated CREATEs.
* `offset` is documented as written; the result of the flush in the destructor of the
  ofstream is not looked at (`yisync_receiver.cpp:351-358`). With `BufferedWrite`
  `OffsetIsWritten` fails, and the sender does end up regarding a short file as complete.
* `next_seq` is documented as the next operation after the completed ones; the chunk
  receiver counts a partial append file (`yisync_receiver.cpp:496`). The sender
  survives because it asks for the durable offset of append files as well.
* The disk writer's worker looks at `stopping_` after the ring
  (`yisync_disk_writer.cpp:64-65`); a task accepted, and stop called, in between is
  never executed. `Receiver` allows for it: `Exit` may leave tasks behind.
* The configuration accepts a `recv_window_bytes` equal to `chunk_size`
  (`yisync_node_common.cpp:555`), but the scheduler compares the window with the whole
  frame (`yisync_scheduler.cpp:113-114`), which has a header as well. A full block is then
  never sent: `RequestSent` fails with a window one below the frame. The default of two
  chunks is safe.
* `OneLineFinishes` is not true of two lines: with two CREATE/DATA files, no message
  and no connection lost, the sender may wait for ever. Each line that connects asks for
  a manifest, and a recovery takes the second, old answer for its own (the `manifest_id`
  of `watch_stale` again). The plan starts at a file that is complete already; the
  receiver ignores its CREATE with a heartbeat about the file it is at, which drops the
  CREATE from the send buffer without completing the task. `WaitsForWhole` says what
  remains true: the data are there, only the sender does not know.
* A heartbeat that is pending for a line when the line closes makes the heartbeat timer
  throw, which ends the receiver (`yisync_network.cpp:591-608`).
* A CREATE stays in the send buffer until `next_seq` passes it, so a retransmission
  timeout repeats it and the receiver answers `FILE_EXISTS` or a heartbeat.
* The watchers start after the first scan; what changes in between is noticed only with
  the next event (`early` in `Watch`). The polling watcher looks at regular files only,
  so a new empty directory is not noticed (`yisync_source.cpp:89-122`). Directories that
  become streams later are not watched (`yisync_sender_app.cpp:259-286`). A refused
  inotify watch is passed over in silence (`yisync_source.cpp:215`; from reading, not
  from a trace).

## Proofs

TLC checks the instances above; the theorems hold for every number of files, every
size, block, capacity, any number of crashes and faults, from the assumptions
`SizeAssumption`, `BoundAssumption`, `CapacityAssumption`, `TaskAssumption`,
`RequestAssumption` (there are finitely many requests), `ConfigAssumption`,
`SenderAssumption`, `SystemAssumption` and `WatchAssumption` on the constants; for the sender's network for every set of lines,
requests, heartbeats and windows; for sender and receiver together for every set of
lines, retry limit, number of timeouts and of lost connections; for the watchers for every directory tree in which
an entry comes after its directory. Some theorems have a hypothesis on a constant
that says how the program is used, and each is needed:

| Hypothesis | Theorems | Without it |
| --- | --- | --- |
| `~BufferedWrite`: a write that is reported as done has reached the file | `ChunkAcksAreStored`, `OffsetsAreWritten`, `ToldFilesAreWhole`, `VisibleInOrder` | bytes are lost in the destructor's flush, see the observations above |
| `~EarlyNext`: the sender does not go past a commit that is not polled | `ToldFilesAreWhole`, `VisibleInOrder` | `system_early` |
| the files in `Grown` are sent with CREATE and DATA | `SenderKeepsItsOrder` | a chunk file that has grown is resumed with DATA, which the receiver ignores as in `system_grown` |
| `Grown = {}`: the target has no older version of a file | `SystemImplementsTransfer`, `DoneMeansWhole`, `NothingIsForgotten` | the target then starts with files the receiver has not reported; `system_grown` shows what becomes of them |
| `ChunkFilesLast`: no CREATE/DATA file after a chunk file | `SystemImplementsTransfer`, `DoneMeansWhole`, `NothingIsForgotten` | `system_early` |

`ReceiverProofs`
* `TypeCorrect`: `TypeOK` is inductive; one lemma per handler. The lemmas on scans
  need that a non-empty directory has a newest entry (`LatestIsNewest`).
* `StepsTouchDirectory` reduces the visible directory to three kinds of change:
  create an empty append file, append at the end of one, rename a whole chunk
  file. The offset comparison of DATA and the checksum of the commit task are
  what makes it true.
* `VisibleOnlyGrows` (`OnlyGrows`) follows from it directly.
* `VisiblePrefix` (`VisibleIsPrefix`) needs the strengthening `PrefixInv`: an
  entry that is not visible has no bytes, so what CREATE makes visible is empty.

`ReceiverOrderProofs`
* `AcknowledgedIsVisible` (`NextSeqVisible`) holds with all failures. `VisibleInv`
  says that the directory has no gaps and that the expected seq of both receivers,
  and the seq of a commit that is done, stay within it; `OneCommit` that at most one
  commit is in the ring or at the worker, and that it is the one in the context.
* `ChunkAcksAreStored` (`ChunkAckStored`): a chunk that is set in a bitmap is in the
  temporary file, or the file is whole (`RecvStored`); nobody truncates the
  temporary file of a bitmap that is kept.
* `OffsetsAreWritten` (`OffsetIsWritten`): the append receiver's offset is the
  length of its file (`OffsetInv`).

`ReceiverToldProofs`
* `ToldFilesAreWhole` (`ToldIsWhole`) and `VisibleInOrder` (`OrderedVisibility`) come
  from one inductive invariant, `ToldInv`, on top of the others. `ToldFirst`: every
  entry before a visible one has been reported complete; together with
  `ToldIsWhole` that is the order of visibility. `CommitLast`: a commit in flight is
  the newest entry. The danger is a receiver that was rebuilt from a directory that
  ends with a partial file (`Reopened`): its next_seq is already past that file, so
  only the durable offset keeps the sender from taking it for complete.
  `ReopenedSafe` says that no durable offset, known, queued or being synced, reaches
  that file's size, which holds because every fsync is for that very file, as
  messages of earlier ones belong to dead connections. `ClosedFresh` prepares it for
  the receiver that does not exist yet.

`DiskWriterProofs`
* `InvariantHolds`: the inductive invariant `IInv` ties the ring to the history:
  the tasks between `head` and `tail` are exactly the accepted ones that have not
  run, in order, the slot at `tail` is free, and the phases of both threads agree
  with `busy` and `task`.
* `RaceFree`, `FifoOrder` and `DrainIsComplete` follow from it, and `Refinement`:
  every step of the ring is a step of `TaskQueue` or leaves it unchanged.

`SenderNetworkProofs`
* `InvariantHolds`: `NetworkInv` says of each line that its flags, its socket and
  its counts agree (`LineOK`) and that it has exactly one way back (`WaitOK`), and
  that nothing stays in `lost_sends_` between callbacks. `MarkUnavailable` is
  studied once, on any state whose lines are as the callers leave them: it is
  what every failure goes through.
* `ViewsAlwaysAgree`, `NoLineStranded`, `SendsAccounted` and `ControlsMove` are its
  parts. `Accounted` needs the others: were a line to lose its sends without a
  connection, they would be kept back.

`SenderInflightProofs`
* `InflightIsSum` (`InflightIsPending`): the counter the code keeps by adding and
  subtracting is the sum over the list. The sum is the fold of the community modules;
  what it computes is proved by induction over finite subsets, written out as a
  minimal counterexample (`WFMin` on the strict subset ordering), as the induction
  theorems themselves take an operator. `BytesAdd` (one more send of a request adds
  its size) and `BytesOfNone` then serve every action.
* `NetworkTypeCorrect` (`TypeOK`) needs it: that the counter does not become negative
  is a consequence of its being a sum.

`WatchProofs`
* `Invariance`: `IInv` adds to `StaleIsNoticed` what keeps it true. `WatchInv`: a
  directory without an inotify watch is below one whose event, or an overflow, is
  still in the queue, or that the watcher is descending into; so a change there is
  not reported itself, but something is. `PassInv`: a scan reads a directory before
  its entries, so an entry it missed is below a directory that it missed, which is
  stale and noticed, or, with polling, absent from the snapshot. `GrowInv`: nobody
  has seen more than there is. `ControlInv`: where a reported change is remembered
  while the tick runs.
* `StaleNoticed` and `TasksCover` follow from it. No step of the exchange loses a
  rescan: `check_all_done` moves it from `rescan_pending_` to the timer.

* `WatchTypeCorrect` (`TypeOK`): `Sized` adds the types of questions and answers; what
  `Diff` answers names an entry that exists.
* `SyncedWhenDone` (`OwnAnswerSyncs`), for any number of connections, rests on `SyncInv`.
  `Behind`: the target has at least what the manifest says of each entry before the one
  the plan is at. `CreateFrom` and `ResumeAt` say when it is right to create from an
  entry on or to resume one, `Truthful` that an answer says so. `AskedInv` and
  `RepliesInv`: a question that is marked `own` is about this manifest, and an answer so
  marked is truthful. The hard part is that answers wait while the target moves:
  `TargetMoves` shows that whichever plan is followed meanwhile, also one made from an old
  answer, an own answer stays truthful, because the target only grows and creates only
  what it expects next. `FollowInv` is the same of the plan in progress. A task that is
  created but skipped as already done is really there (`SkippedIsThere`, by counting the
  entries before it, `SeqCounts`). Nothing is claimed of a plan from an old answer:
  that is `watch_stale`.

`SystemProofs`
* `SenderKeepsItsOrder` (`SenderKeepsOrder`) is the assumption `Receiver` makes of its
  peer, proved of the real sender. `SystemInv` says what everything between the two
  ends knows. `Ok`: in the sender's record every message in the buffer or on its way out
  belongs to a file whose predecessors are all in `told`, and so does the current task. `WiresOk`: the same for all lines,
  in-flight lists and the control queue. `AnswersOk`: a heartbeat or manifest that is
  pending or on its way back says nothing complete that is not in `told`. `Ok` is
  kept by one lemma per operator of `Sender`, in the order the code calls them, up
  to `HeartbeatOk`, `NackOk`, `Manifest2Ok`, `LostSendsOk` and `ConnectedOk`; an
  answer may raise what the sender regards as complete only to what `AnswersOk` allows.
  As `told` only grows (`MoreTold`), what was sent or answered earlier stays allowed,
  which is why reordering, repetition and loss do no harm.
  It is the order that `Receiver` assumes of its peer, and only that: `ToldFilesAreWhole`
  and `VisibleInOrder` need `~EarlyNext` besides, which the sender does not give
  (`system_early`); `SystemImplementsTransfer` is what holds of both together.
* `Filter`, the sender's selection from a sequence, is a recursive function; that it
  exists and selects (`FiltersExist`, `FilterIn`) is proved as a minimal counterexample.
* `SystemImplementsTransfer` (`ImplementsOrderedTransfer`) adds the receiver's `ToldInv`
  (`TransferInv`). In every step one side stands still (`OneSideMoves`), so the
  receiver's lemmas, proved in `ReceiverToldProofs` for any peer that keeps the order,
  apply to its half of the step. `ChunkFilesLast` takes the place of `~EarlyNext`: a
  commit in flight is for a chunk file, so there is no CREATE that could overtake its
  poll (`NoneEarly`). `ReaderSees` and `SenderFinishes` are the two kinds of step of
  `OrderedTransfer`.
* `DoneMeansWhole` (`CompletedIsWhole`): a finished sender has every file in `told`,
  and what is told is whole.

* `NothingIsForgotten` (`NothingForgotten`) adds `KeptInv` to `TransferInv`. `Kept` is
  the property for every file, not only the current one: what a task waits for is in
  the buffer unless the file is whole; a CREATE/DATA file has DATA out only while it is
  at work, and the buffer has no other DATA of it. It is kept by one lemma per operator
  of `Sender` again (`SendAppendKept` ... `ConnectedKept`). Apart
  from a recovery, which starts every task afresh, only a heartbeat takes messages from
  the buffer, and it takes all of a file that `next_seq` has passed. So `Candid` says of each heartbeat, queued, merged or on its way, that every file it has
  passed is whole. There is one exception, which the proof must carry: a receiver that
  starts on a directory that ends with a partial file reports the seq after that file at
  once. `x` names this file (0: there is none). A heartbeat may pass it only while it is
  about it, and then the handler that drops its DATA also stops waiting for that DATA
  (`EraseCurrent`); and the sender never created it, as no Manifest2 answers `CREATE_MISSING` for an entry
  that is there (`CandidAnswers`). That the receiver makes no other heartbeats is `Resuming`, proved in
  `ReceiverToldProofs` (`ResumingStep`): what it is past is whole or is `x`. As more
  files only become whole, old and late answers stay candid. TLC finds `NothingForgotten`
  violated on the instances of `system_early` and `system_grown`, so neither hypothesis
  can be dropped.

Only model-checked: liveness (out of the prover's reach), and `OneLineFinishes` and
`WaitsForWhole`. These two are about a scheduler that finds nothing to do, the liveness
of `System` in the form of a state predicate.

## Plan

Done: the modules above with their runs, and the theorems listed. Next:

1. Several streams on the same lines, where a recovery resets all of them.
2. The hello negotiation as a function, against a reference definition.

## Not modelled

Encoding and decoding of messages (`yisync_protocol.cpp`, covered by the repository's
decode tests), socket I/O and framing, parsing of the configuration, the simulated
source, name filters, the demo (which drives the scheduler's `on_nack` and
`on_line_failure`, that the node does not call) and the vendored crc32c. Power loss.
Several streams share the ring, whose bound the one-slot runs exercise, and the
recovery counter. The receiver's 60 s start-up timeout ends the loop like any failure
and is covered by `Crash` and `PollFailure`.
