------------------------------- MODULE Watch -------------------------------
(***************************************************************************)
(* A sender with watch=true beside the processes that write its source     *)
(* directory: the watchers, the debounced rescan, the scan that builds the *)
(* send plan, and the manifests that are compared with the target.         *)
(*                                                                         *)
(* The directory has at most NEntries entries, numbered in manifest order. *)
(* It only grows, as readme.md asks: entries appear in that order and      *)
(* files get longer.  A file is its length.  The scan is not atomic: files *)
(* grow between the reads of one pass.  Everything else the sender does is *)
(* one callback of its event loop.  How one entry is transferred is in     *)
(* Sender and Receiver; here it is its outcome.                            *)
(***************************************************************************)
EXTENDS Integers, Sequences, FiniteSets, Functions

CONSTANTS NEntries,
          Dirs,           \* the entries that are directories
          Parent,         \* Parent[e]: the directory of entry e; 0 is the root
          Below,          \* Below[d]: the entries in d, at any depth, and d
          ChunkThreshold, \* largest size sent with CREATE/DATA
          MaxRecoveries,  \* max_manifest_recovery_attempts
          Backends,       \* watch backends to consider
          EventCap,       \* the kernel's limit of unread inotify events
          MaxSize,        \* bound: longest file
          MaxConnects     \* bound: connections of lines

Entries == 1..NEntries
Files   == Entries \ Dirs
Root    == 0
Absent  == -1
Overflow == 0   \* in a queue of entries

ASSUME WatchAssumption ==
  /\ NEntries \in Nat
  /\ Dirs \subseteq Entries
  /\ Parent \in [Entries -> Dirs \cup {Root}]
  /\ \A e \in Entries : Parent[e] < e
  /\ Below \in [Dirs \cup {Root} -> SUBSET Entries]
  /\ Below[Root] = Entries
  /\ \A d \in Dirs : d \in Below[d]
  /\ \A d \in Dirs, e \in Entries : Parent[e] \in Below[d] => e \in Below[d]
  /\ ChunkThreshold \in Nat
  /\ MaxRecoveries \in Nat
  /\ Backends \subseteq {"polling", "inotify", "fsevents"}
  /\ EventCap \in Nat
  /\ MaxSize \in Nat
  /\ MaxConnects \in Nat \ {0}

VARIABLES
  src,        \* src[e]: the length of entry e in the source directory
  recv,       \* recv[e]: the same in the target directory
  backend,    \* the watch backend in use
  events,     \* changes the kernel has not handed to the watcher
  watched,    \* inotify: the directories with a watch
  snapshot,   \* polling: snapshot_
  flags,      \* FSEvents: dirty_, overflow_, and a callback between the two
  watching,   \* have the watchers been started?
  at,         \* where the event loop is; "idle" between callbacks
  entry,      \* the entry it is reading, or the directory it descends into
  left,       \* entries this pass has not read
  changed,    \* watch_poll_tick: has a watcher reported something?
  scheduled,  \* rescan_scheduled_
  pending,    \* rescan_pending_
  manifest,   \* source_manifest: size and, from a later read, checksum
  task,       \* tasks: size and, from a later read, full checksum
  cur,        \* current_task
  start,      \* the offset the active task resumes from; Absent if it is created
  applied,    \* manifest_applied
  complete,   \* the stream's complete
  done,       \* done_
  recoveries, \* manifest_recovery_attempts_
  failed,     \* failed_: the sender is over
  own,        \* is the plan from an answer to the manifest the sender has now?
  asked,      \* Manifest1s the receiver has not answered
  answers,    \* Manifest2s and NACKs on their way back
  connects,   \* connections so far
  early       \* did the source change between the first scan and the watchers' start?

\* early, own and the own of a question or an answer are history: the code
\* has a manifest_id in both messages, but compares it nowhere.

source   == <<src, early>>
notices  == <<events, watched, snapshot, flags, watching>>
timers   == <<scheduled, pending>>
loop     == <<at, entry, left, changed>>
scan     == <<manifest, task>>
plan     == <<cur, start, applied, complete, done, recoveries, failed, own>>
exchange == <<asked, answers, recv, connects>>
vars     == <<source, notices, timers, loop, scan, plan, exchange, backend>>

NoEntry     == [size |-> Absent, sum |-> Absent]
NoTask      == [size |-> Absent, full |-> Absent]
NoFlags     == [dirty |-> FALSE, overflow |-> FALSE, storing |-> FALSE]
Present(f)  == {e \in Entries : f[e] # Absent}
Listed(l)   == {e \in Entries : l[e].size # Absent}
Least(S)    == CHOOSE e \in S : \A x \in S : e <= x

-----------------------------------------------------------------------------
(* The processes that write the source, and the kernel's notice of it.      *)

\* inotify reports changes in directories that have a watch, up to a limit;
\* FSEvents reports everything below the root once it is started.
Notified(e) ==
  IF backend = "polling" \/ (backend = "fsevents" /\ ~watching)
     \/ (backend = "inotify" /\ Parent[e] \notin watched)
  THEN events
  ELSE IF Len(events) < EventCap THEN Append(events, e)
  ELSE IF Overflow \in Range(events) THEN events
  ELSE Append(events, Overflow)

\* The pass that builds Manifest1 has not read the size of f yet.
ToBeRead(f) == f \in left /\ (at = "scan" \/ (at = "sum" /\ f # entry))

Change(e, size) ==
  /\ src' = [src EXCEPT ![e] = size]
  /\ events' = Notified(e)
  /\ early' = (early \/ ~(watching \/ ToBeRead(e)))
  /\ UNCHANGED <<watched, snapshot, flags, watching, timers, loop, scan, plan, exchange, backend>>

Appear(e) ==
  /\ src[e] = Absent
  /\ \A j \in 1..(e - 1) : src[j] # Absent
  /\ Change(e, 0)

Grow(e) ==
  /\ e \in Files
  /\ src[e] \in 0..(MaxSize - 1)
  /\ Change(e, src[e] + 1)

-----------------------------------------------------------------------------
(* build_source_streams: scan_manifest, files, then make_real_file_task.    *)

\* What reading entry e finds; a directory that was not seen is not entered.
Reads(e, list) ==
  IF Parent[e] # Root /\ list[Parent[e]].size = Absent THEN Absent ELSE src[e]

CanRead(e) == e \in left /\ Parent[e] \notin left

\* The size of an entry, and later the checksum of its tail.
ReadSize(e) ==
  /\ at = "scan"
  /\ CanRead(e)
  /\ manifest' = [manifest EXCEPT ![e].size = Reads(e, manifest)]
  /\ IF e \in Files /\ Reads(e, manifest) # Absent
     THEN at' = "sum" /\ entry' = e /\ UNCHANGED left
     ELSE left' = left \ {e} /\ UNCHANGED <<at, entry>>
  /\ UNCHANGED <<source, notices, timers, changed, task, plan, exchange, backend>>

\* make_crc32c_range_checksum asks for the size again.
ReadChecksum ==
  /\ at = "sum"
  /\ manifest' = [manifest EXCEPT ![entry].sum = src[entry]]
  /\ at' = "scan"
  /\ left' = left \ {entry}
  /\ UNCHANGED <<source, notices, timers, entry, changed, task, plan, exchange, backend>>

\* Mutant of ReadTask: only regular files become tasks.
ReadTaskFiles(e) ==
  /\ at = "files"
  /\ CanRead(e)
  /\ task' = [task EXCEPT ![e].size = IF e \in Dirs THEN Absent ELSE src[e]]
  /\ left' = left \ {e}
  /\ UNCHANGED <<source, notices, timers, at, entry, changed, manifest, plan, exchange, backend>>

\* files scans the directory once more; the tasks have these sizes ...
ReadTask(e) ==
  /\ at = "files"
  /\ CanRead(e)
  /\ task' = [task EXCEPT ![e].size = Reads(e, task)]
  /\ left' = left \ {e}
  /\ UNCHANGED <<source, notices, timers, at, entry, changed, manifest, plan, exchange, backend>>

\* ... and full_checksum reads each file to its end.
ReadFull(e) ==
  /\ at = "full"
  /\ e \in left
  /\ task' = [task EXCEPT ![e].full = src[e]]
  /\ left' = left \ {e}
  /\ UNCHANGED <<source, notices, timers, at, entry, changed, manifest, plan, exchange, backend>>

PassDone ==
  /\ left = {}
  /\ \/ at = "scan" /\ at' = "files" /\ left' = Entries
     \/ at = "files" /\ at' = "full" /\ left' = Listed(task) \cap Files
  /\ UNCHANGED <<source, notices, timers, entry, changed, scan, plan, exchange, backend>>

\* send_manifest1, and what a rescan makes of the questions and answers that
\* are still on their way.
Asking      == Append(asked, [list |-> manifest, own |-> TRUE])
Outdated(q) == [i \in 1..Len(q) |-> [q[i] EXCEPT !.own = FALSE]]

\* The stream is built.  A rescan then sends Manifest1.
BuildDone ==
  /\ at = "full"
  /\ left = {}
  /\ at' = IF watching THEN "idle" ELSE "start"
  /\ asked' = IF watching THEN Asking ELSE asked
  /\ UNCHANGED <<source, notices, timers, entry, left, changed, scan, plan, answers, recv,
                 connects, backend>>

-----------------------------------------------------------------------------
(* The watchers.                                                            *)

\* start_watchers: polling takes its snapshot, inotify watches the root and
\* then what it finds below, FSEvents starts its stream.
StartWatchers ==
  /\ at = "start"
  /\ IF backend = "inotify"
     THEN /\ at' = "descend"
          /\ entry' = Root
          /\ watched' = {Root}
          /\ UNCHANGED <<snapshot, watching>>
     ELSE /\ at' = "idle"
          /\ watching' = TRUE
          /\ snapshot' = IF backend = "polling" THEN src ELSE snapshot
          /\ UNCHANGED <<watched, entry>>
  /\ UNCHANGED <<source, events, flags, timers, left, changed, scan, plan, exchange, backend>>

\* add_recursive, after the directory itself has its watch.  The kernel is
\* taken to grant every watch: add_watch ignores a refusal
\* (fs.inotify.max_user_watches), after which the changes in that directory
\* are unseen until something else leads to a rescan.
Descend ==
  /\ at = "descend"
  /\ watched' = watched \cup {d \in Dirs \cap Below[entry] : src[d] # Absent}
  /\ watching' = TRUE
  /\ at' = IF watching THEN "poll" ELSE "idle"
  /\ UNCHANGED <<source, events, snapshot, flags, timers, entry, left, changed, scan, plan,
                 exchange, backend>>

Idle == at = "idle" /\ ~failed

\* Mutant of Request: no rescan is asked for during a transfer.
RequestWhenDone(b) == scheduled' = (scheduled \/ (b /\ done))

\* request_rescan, unless one is scheduled
Request(b) == scheduled' = (scheduled \/ b)

\* watch_poll_tick with PollingSourceWatcher::poll: regular files only.
PollScan ==
  /\ Idle
  /\ backend = "polling"
  /\ Request(\E f \in Files : src[f] # snapshot[f])
  /\ snapshot' = src
  /\ UNCHANGED <<source, events, watched, flags, watching, pending, loop, scan, plan, exchange, backend>>

\* With the other backends events arrive while the tick reads them.
PollBegin ==
  /\ Idle
  /\ backend # "polling"
  /\ at' = "poll"
  /\ UNCHANGED <<source, notices, timers, entry, left, changed, scan, plan, exchange, backend>>

\* Mutant of HandleEvent: a new directory gets no watch.
HandleEventFlat ==
  /\ at = "poll"
  /\ backend = "inotify"
  /\ events # << >>
  /\ events' = Tail(events)
  /\ changed' = TRUE
  /\ UNCHANGED <<source, watched, snapshot, flags, watching, timers, at, entry, left, scan, plan,
                 exchange, backend>>

\* InotifySourceWatcher::handle_event: a new directory gets its watch, lost
\* events make it look for new directories everywhere.
HandleEvent ==
  LET e == Head(events)
  IN  /\ at = "poll"
      /\ backend = "inotify"
      /\ events # << >>
      /\ events' = Tail(events)
      /\ changed' = TRUE
      /\ IF e = Overflow
         THEN at' = "descend" /\ entry' = Root /\ UNCHANGED watched
         ELSE IF e \in Dirs
         THEN at' = "descend" /\ entry' = e /\ watched' = watched \cup {e}
         ELSE UNCHANGED <<at, entry, watched>>
      /\ UNCHANGED <<source, snapshot, flags, watching, timers, left, scan, plan, exchange, backend>>

\* FseventsSourceWatcher::poll: exchange overflow_, then either clear dirty_
\* or exchange it.
TakeOverflow ==
  /\ at = "poll"
  /\ backend = "fsevents"
  /\ changed' = flags.overflow
  /\ flags' = [flags EXCEPT !.overflow = FALSE]
  /\ at' = "dirty"
  /\ UNCHANGED <<source, events, watched, snapshot, watching, timers, entry, left, scan, plan,
                 exchange, backend>>

TakeDirty ==
  /\ at = "dirty"
  /\ changed' = (changed \/ flags.dirty)
  /\ flags' = [flags EXCEPT !.dirty = FALSE]
  /\ at' = "polled"
  /\ UNCHANGED <<source, events, watched, snapshot, watching, timers, entry, left, scan, plan,
                 exchange, backend>>

\* FseventsSourceWatcher::callback, on a thread of its own, reports a batch:
\* events dropped on the way set overflow_ before dirty_.
Callback ==
  /\ backend = "fsevents"
  /\ \/ /\ ~flags.storing
        /\ events # << >>
        /\ events' = << >>
        /\ flags' = IF Overflow \in Range(events)
                    THEN [flags EXCEPT !.overflow = TRUE, !.storing = TRUE]
                    ELSE [flags EXCEPT !.dirty = TRUE]
     \/ /\ flags.storing
        /\ flags' = [flags EXCEPT !.dirty = TRUE, !.storing = FALSE]
        /\ UNCHANGED events
  /\ UNCHANGED <<source, watched, snapshot, watching, timers, loop, scan, plan, exchange, backend>>

\* The end of watch_poll_tick.
PollEnd ==
  /\ at = "polled" \/ (at = "poll" /\ backend = "inotify" /\ events = << >>)
  /\ at' = "idle"
  /\ changed' = FALSE
  /\ Request(changed)
  /\ UNCHANGED <<source, notices, pending, entry, left, scan, plan, exchange, backend>>

\* The debounce timer: rescan_and_send_manifest.
Rescan ==
  /\ Idle
  /\ scheduled
  /\ scheduled' = FALSE
  /\ IF done
     THEN /\ at' = "scan"
          /\ left' = Entries
          /\ manifest' = [e \in Entries |-> NoEntry]
          /\ task' = [e \in Entries |-> NoTask]
          /\ done' = FALSE
          /\ applied' = FALSE
          /\ complete' = FALSE
          /\ own' = FALSE
          /\ asked' = Outdated(asked)
          /\ answers' = Outdated(answers)
          /\ UNCHANGED pending
     ELSE /\ pending' = TRUE
          /\ UNCHANGED <<at, left, scan, done, applied, complete, own, asked, answers>>
  /\ UNCHANGED <<source, notices, entry, changed, cur, start, recoveries, failed, recv, connects,
                 backend>>

-----------------------------------------------------------------------------
(* The manifests and the transfer.                                          *)

\* check_all_done after a step that leaves complete at c.
CheckAllDone(c) ==
  /\ complete' = c
  /\ done' = (done \/ c)
  /\ pending' = (pending /\ ~(c /\ ~done))
  /\ Request(pending /\ c /\ ~done)

\* Mutant of Recover: one recovery too many.
RecoverOnceMore ==
  /\ IF recoveries > MaxRecoveries
     THEN failed' = TRUE /\ UNCHANGED <<recoveries, applied, complete, done, asked>>
     ELSE /\ recoveries' = recoveries + 1
          /\ applied' = FALSE
          /\ complete' = FALSE
          /\ done' = FALSE
          /\ asked' = Asking
          /\ UNCHANGED failed
  /\ UNCHANGED timers

\* recover_with_manifest1: the manifest is not scanned again.
Recover ==
  /\ IF recoveries >= MaxRecoveries
     THEN failed' = TRUE /\ UNCHANGED <<recoveries, applied, complete, done, asked>>
     ELSE /\ recoveries' = recoveries + 1
          /\ applied' = FALSE
          /\ complete' = FALSE
          /\ done' = FALSE
          /\ asked' = Asking
          /\ UNCHANGED failed
  /\ UNCHANGED timers

\* Mutant of InSync: the manifest comparison ignores sizes.
InSyncByName(l, e) ==
  /\ e \in Listed(l) /\ recv[e] # Absent
  /\ \A j \in 1..(e - 1) : j \in Listed(l) <=> recv[j] # Absent

\* diff_stream of manifest l with the target: position by position, so the
\* first entry that is not in sync must be the target's next entry.
InSync(l, e) ==
  /\ e \in Listed(l) /\ recv[e] = l[e].size /\ (e \in Files => l[e].sum = recv[e])
  /\ \A j \in 1..(e - 1) : j \in Listed(l) <=> recv[j] # Absent

Diff(l) ==
  LET todo == {e \in Listed(l) : \E j \in 1..e : j \in Listed(l) /\ ~InSync(l, j)}
      f    == Least(todo)
      rest == {e \in Present(recv) : ~(e < f /\ e \in Listed(l))}
  IN  IF todo = {} THEN [action |-> "IN_SYNC", file |-> 0, offset |-> 0]
      ELSE IF rest = {} THEN [action |-> "CREATE_MISSING", file |-> f, offset |-> 0]
      ELSE IF Least(rest) = f /\ f \in Files /\ recv[f] < l[f].size
      THEN [action |-> "RESUME_EXISTING", file |-> f, offset |-> recv[f]]
      ELSE [action |-> "NACK", file |-> 0, offset |-> 0]

\* apply_manifest1 at the receiver; the lines may swap the questions.
Answer(i) ==
  /\ i \in 1..Len(asked)
  /\ asked' = SubSeq(asked, 1, i - 1) \o SubSeq(asked, i + 1, Len(asked))
  /\ answers' = Append(answers, [diff |-> Diff(asked[i].list), own |-> asked[i].own])
  /\ UNCHANGED <<source, notices, timers, loop, scan, plan, recv, connects, backend>>

\* on_manifest2, apply_manifest2_to_stream: whichever Manifest1 it answers.
OnManifest2(m, mine) ==
  IF applied \/ complete
  THEN UNCHANGED <<timers, cur, start, applied, complete, done, failed, own>>
  ELSE IF m.action = "IN_SYNC"
  THEN /\ cur' = NEntries + 1
       /\ applied' = TRUE
       /\ own' = mine
       /\ CheckAllDone(TRUE)
       /\ UNCHANGED <<start, failed>>
  ELSE IF m.file \notin Listed(task) \/ m.offset > task[m.file].size
  THEN failed' = TRUE /\ UNCHANGED <<timers, cur, start, applied, complete, done, own>>
  ELSE /\ cur' = m.file
       /\ start' = IF m.action = "CREATE_MISSING" THEN Absent ELSE m.offset
       /\ applied' = TRUE
       /\ own' = mine
       /\ UNCHANGED <<timers, complete, done, failed>>

OnAnswer(i) ==
  LET m == answers[i].diff
  IN  /\ Idle
      /\ i \in 1..Len(answers)
      /\ answers' = SubSeq(answers, 1, i - 1) \o SubSeq(answers, i + 1, Len(answers))
      /\ IF m.action = "NACK" THEN Recover /\ UNCHANGED <<cur, start, own>>
         ELSE OnManifest2(m, answers[i].own) /\ UNCHANGED <<recoveries, asked>>
      /\ UNCHANGED <<source, notices, loop, scan, recv, connects, backend>>

\* on_connected
Connect ==
  /\ Idle
  /\ connects < MaxConnects
  /\ connects' = connects + 1
  /\ asked' = IF done THEN asked ELSE Asking
  /\ UNCHANGED <<source, notices, timers, loop, scan, plan, answers, recv, backend>>

\* The seq of a task, and the seq the receiver expects.
SeqOf(e) == Cardinality({j \in Listed(task) : j <= e})
Expected == Cardinality(Present(recv)) + 1

\* A DATA that resumes a file is taken only for the last entry of the
\* target and only where that ends; otherwise it is answered with a
\* heartbeat about another file or offset, and the sender waits for ever.
ResumeTaken(e) ==
  /\ \A j \in Present(recv) : j <= e
  /\ SeqOf(e) + 1 = Expected
  /\ recv[e] = start

\* A task whose seq is over is skipped by the chunk receiver; the append
\* receiver's heartbeat completes it only if it is about that file.
SkipTaken(e) ==
  /\ SeqOf(e) < Expected
  /\ \/ task[e].size > ChunkThreshold
     \/ recv[e] >= task[e].size /\ \A j \in Present(recv) : j <= e

CreateTaken(e) ==
  /\ SeqOf(e) = Expected
  /\ recv[e] = Absent
  /\ task[e].size > ChunkThreshold => task[e].full = task[e].size

Refused(e) ==
  \/ SeqOf(e) > Expected
  \/ SeqOf(e) = Expected /\ ~CreateTaken(e)

\* advance_stream_task
Advance ==
  LET rest == {e \in Listed(task) : e > cur}
  IN  /\ recoveries' = 0
      /\ start' = Absent
      /\ cur' = IF rest = {} THEN NEntries + 1 ELSE Least(rest)
      /\ CheckAllDone(rest = {})
      /\ UNCHANGED <<applied, failed, own, asked>>

\* The active task is transferred, or refused until its retries are used up.
Transfer ==
  /\ Idle
  /\ applied
  /\ cur \in Listed(task)
  /\ \/ /\ IF start = Absent THEN CreateTaken(cur) ELSE ResumeTaken(cur)
        /\ recv' = [recv EXCEPT ![cur] = task[cur].size]
        /\ Advance
     \/ start = Absent /\ SkipTaken(cur) /\ UNCHANGED recv /\ Advance
     \/ start = Absent /\ Refused(cur) /\ UNCHANGED <<recv, cur, start, own>> /\ Recover
  /\ UNCHANGED <<source, notices, loop, scan, answers, connects, backend>>

-----------------------------------------------------------------------------
\* The sender starts on a directory that is not empty; the target is empty or
\* in sync.
Init ==
  /\ src \in {[e \in Entries |-> IF e > n THEN Absent ELSE 0] : n \in Entries}
  /\ recv \in {src, [e \in Entries |-> Absent]}
  /\ backend \in Backends
  /\ events = << >>
  /\ watched = {}
  /\ snapshot = [e \in Entries |-> Absent]
  /\ flags = NoFlags
  /\ watching = FALSE
  /\ at = "scan"
  /\ entry = Root
  /\ left = Entries
  /\ changed = FALSE
  /\ scheduled = FALSE
  /\ pending = FALSE
  /\ manifest = [e \in Entries |-> NoEntry]
  /\ task = [e \in Entries |-> NoTask]
  /\ cur = 1
  /\ start = Absent
  /\ applied = FALSE
  /\ complete = FALSE
  /\ done = FALSE
  /\ recoveries = 0
  /\ failed = FALSE
  /\ own = FALSE
  /\ asked = << >>
  /\ answers = << >>
  /\ connects = 0
  /\ early = FALSE

Build == (\E e \in Entries : ReadSize(e) \/ ReadTask(e) \/ ReadFull(e))
           \/ ReadChecksum \/ PassDone \/ BuildDone \/ StartWatchers

Poll == PollScan \/ PollBegin \/ HandleEvent \/ Descend \/ TakeOverflow \/ TakeDirty \/ PollEnd

Exchange ==
  \/ \E i \in 1..Len(asked) : Answer(i)
  \/ \E i \in 1..Len(answers) : OnAnswer(i)
  \/ Transfer

Writers == \E e \in Entries : Appear(e) \/ Grow(e)

Next == Build \/ Poll \/ Callback \/ Rescan \/ Exchange \/ Connect \/ Writers

\* Timers fire again and again, the kernel reports what it has queued, and
\* what is on a line arrives; a callback waits for others, but the loop runs
\* every timer that is due.  Nothing is assumed of the writers.
Fairness ==
  /\ WF_vars(Build \/ HandleEvent \/ Descend \/ TakeOverflow \/ TakeDirty \/ PollEnd)
  /\ WF_vars(Callback)
  /\ SF_vars(PollScan \/ PollBegin)
  /\ SF_vars(Rescan)
  /\ SF_vars(Exchange \/ Connect)

Spec == Init /\ [][Next]_vars /\ Fairness

-----------------------------------------------------------------------------
(* Properties.                                                              *)

Length == {Absent} \cup (0..MaxSize)

TypeOK ==
  /\ src \in [Entries -> Length]
  /\ recv \in [Entries -> Length]
  /\ snapshot \in [Entries -> Length]
  /\ events \in Seq(Entries \cup {Overflow})
  /\ watched \subseteq Dirs \cup {Root}
  /\ flags \in [dirty : BOOLEAN, overflow : BOOLEAN, storing : BOOLEAN]
  /\ at \in {"scan", "sum", "files", "full", "start", "idle", "descend", "poll", "dirty", "polled"}
  /\ entry \in Entries \cup {Root}
  /\ left \subseteq Entries
  /\ manifest \in [Entries -> [size : Length, sum : Length]]
  /\ task \in [Entries -> [size : Length, full : Length]]
  /\ cur \in 1..(NEntries + 1)
  /\ start \in Length
  /\ recoveries \in 0..MaxRecoveries

\* Something will make the sender scan again.
Noticed ==
  \/ scheduled \/ pending \/ changed
  \/ backend = "polling" /\ \E f \in Files : src[f] # snapshot[f]
  \/ backend = "inotify" /\ events # << >>
  \/ backend = "fsevents" /\ (events # << >> \/ flags.storing \/ flags.dirty \/ flags.overflow)

\* detail.md, Watcher: a file that differs from Manifest1 leads to a rescan,
\* whichever backend, however the change falls between watch, poll, timer,
\* deferral and scan.  Changes between the first scan and the
\* start of the watchers are not seen.
StaleIsNoticed ==
  (watching /\ ~early) =>
    \A f \in Files : src[f] # manifest[f].size => (Noticed \/ ToBeRead(f))

\* The two scans of build_source_streams: every entry Manifest1 names has a
\* task, at least as long, so the receiver's starting point is always found.
TasksCoverManifest ==
  at \notin {"scan", "sum", "files"} =>
    \A e \in Listed(manifest) : e \in Listed(task) /\ manifest[e].size <= task[e].size

Synced == \A e \in Listed(manifest) : recv[e] >= manifest[e].size

\* When the sender says it is done the target has all of Manifest1: the
\* Manifest2 it acted on answers the manifest it has now (protocol.md).
DoneMeansSynced == done => Synced

\* The same of a sender whose plan does come from an answer to this manifest,
\* though other answers, old and new, are applied, refused or still on their
\* way, and the target moves on between the answer and its arrival.
OwnAnswerSyncs == done /\ own => Synced

\* The sender waits for the answer to a DATA the receiver has ignored.
Stuck == applied /\ cur \in Listed(task) /\ start # Absent /\ ~ResumeTaken(cur)

\* The target catches up once the source is quiet, unless the sender fails,
\* is stuck or has taken an old answer for the answer to its manifest.
CatchesUp ==
  <>[](early \/ failed \/ Stuck \/ (applied /\ ~own) \/ \A f \in Files : recv[f] = src[f])

\* detail.md, Watcher: new entries and appends all take the rescan path.
GrowthIsHarmless == ~failed

=============================================================================
