------------------------- MODULE ReceiverToldProofs -------------------------
(***************************************************************************)
(* What the sender may conclude from heartbeats and manifests is true, and *)
(* therefore entries become visible strictly in order.  Both need that the *)
(* receiver's writes report their errors, and that the sender does not go  *)
(* on to a file before the event loop has polled the commit of the one     *)
(* before it (EarlyNext).                                                  *)
(***************************************************************************)
EXTENDS ReceiverOrderProofs

\* What the other modules prove of every state.
Facts == TypeOK /\ PrefixInv /\ OneCommit /\ VisibleInv /\ OffsetInv

\* The append receiver of a state stands past a file that is not whole: it was
\* rebuilt from a directory that ends with a partial file.
Reopened(a) == a.file # 0 /\ a.expected > a.file /\ ~Whole(a.file)

\* No durable offset of the stream's context, known or still to come from the
\* writer, reaches n.
Below(d, n) == d.offset < n /\ d.target < n /\ d.completed < n

FsyncsBelow(n) ==
  /\ Below(dur, n)
  /\ \A j \in 1..Len(queue) : queue[j].kind = "fsync" => queue[j].target < n
  /\ running.kind = "fsync" => running.target < n

\* Every entry before a visible one has been reported complete.
ToldFirst == \A k \in present : 1..(k - 1) \subseteq told

\* The commit in flight is the newest entry, and the ones before it have been
\* reported complete.
CommitLast ==
  cmt.state # "none" => /\ 1..(cmt.seq - 1) \subseteq told
                        /\ \A k \in present : k <= cmt.seq

\* next_seq of a reopened receiver is already past the partial file: only the
\* durable offset keeps a heartbeat from completing it.
ReopenedSafe == Reopened(app) => floor = app.file /\ FsyncsBelow(Size[app.file])

\* The sender does not go on to a CREATE/DATA file before the event loop has
\* polled the commit of the one before it: what ~EarlyNext is for.
NotEarly ==
  \A k \in Files : Sendable(k) /\ ~ChunkMode(k) => cmt.state = "none" \/ k <= cmt.seq

\* Before the append receiver exists, no fsync was asked for, and messages for
\* files before a partial one belong to dead connections.
ClosedFresh ==
  ~app.open => /\ dur = FreshDur
               /\ \A j \in 1..Len(queue) : queue[j].kind # "fsync"
               /\ running.kind # "fsync"
               /\ \A k \in present : ~Whole(k) => floor = k

ToldInv ==
  /\ ToldIsWhole
  /\ ToldFirst
  /\ CommitLast
  /\ ReopenedSafe
  /\ ClosedFresh

-----------------------------------------------------------------------------
(* Files and the sender's view of them.                                     *)

\* The first file the sender still has to send.
LEMMA FirstOutsideIs ==
  ASSUME NEW S \in SUBSET Files, NEW k \in Files, k \notin S, 1..(k - 1) \subseteq S
  PROVE  FirstOutside(S) = k
<1> USE SizeAssumption DEF Files
<1> DEFINE P(x) == x \notin S /\ \A j \in 1..(x - 1) : j \in S
<1>1. k \in 1..(NFiles + 1) /\ P(k) OBVIOUS
<1>2. ASSUME NEW x \in 1..(NFiles + 1), P(x) PROVE x = k
  <2>1. CASE x < k
    <3>1. x \in 1..(k - 1) BY <2>1
    <3> QED BY <1>2, <3>1
  <2>2. CASE x > k
    <3>1. k \in 1..(x - 1) BY <2>2
    <3> QED BY <1>2, <3>1
  <2> QED BY <2>1, <2>2
<1> QED BY <1>1, <1>2 DEF FirstOutside

\* A visible file with at least the length of its source is whole.
LEMMA LongIsWhole ==
  ASSUME TypeOK, PrefixInv, NEW k \in present, Len(content[k]) >= Size[k]
  PROVE  Whole(k)
<1>1. k \in Files /\ Len(content[k]) \in Nat /\ Size[k] \in Nat BY SizeAssumption DEF TypeOK
<1>2. Len(content[k]) <= Size[k] BY DEF PrefixInv, VisibleIsPrefix
<1> QED BY <1>1, <1>2, WholeIsLength

\* The same after a step.
LEMMA LongIsWholeNext ==
  ASSUME TypeOK', PrefixInv', NEW k \in present', Len(content'[k]) >= Size[k]
  PROVE  Whole(k)'
<1>1. k \in Files /\ content'[k] \in Seq(Nat) /\ Size[k] \in Nat BY SizeAssumption DEF TypeOK
<1>2. Len(content'[k]) <= Size[k] /\ \A i \in 1..Len(content'[k]) : content'[k][i] = i
  BY DEF PrefixInv, VisibleIsPrefix
<1>3. Len(content'[k]) = Size[k] BY <1>1, <1>2
<1>4. content'[k] = [i \in 1..Len(content'[k]) |-> content'[k][i]] BY <1>1
<1>5. content'[k] = [i \in 1..Size[k] |-> i] BY <1>2, <1>3, <1>4
<1> QED BY <1>5 DEF Whole

\* Only the newest entry can be partial.
LEMMA PartialIsNewest ==
  ASSUME TypeOK, ToldInv, NEW k \in present, ~Whole(k), NEW j \in present
  PROVE  j <= k
<1>1. k \in Nat /\ j \in Nat /\ k >= 1 BY DEF TypeOK, Files
<1>2. ASSUME j > k PROVE FALSE
  <2>1. k \in 1..(j - 1) BY <1>1, <1>2
  <2>2. k \in told BY <2>1 DEF ToldInv, ToldFirst
  <2> QED BY <2>2 DEF ToldInv, ToldIsWhole
<1> QED BY <1>1, <1>2

\* A heartbeat never completes a file that is not whole, provided it claims no
\* durable offset up to the end of a partial append file.
HonestHeartbeats ==
  \A h \in heartbeats :
    /\ h.next \in Nat
    /\ (/\ h.file \in Files
        /\ ~ChunkMode(h.file)
        /\ h.next > h.file
        /\ h.durable >= Size[h.file]) => Whole(h.file)

\* Then every file the sender takes for complete is whole.
LEMMA HonestTelling ==
  ASSUME Facts, Facts', ToldInv, [Next]_vars, HonestHeartbeats',
         told' = told \cup {k \in Files : \E h \in heartbeats' : Completes(h, k)}
  PROVE  ToldIsWhole'
<1> SUFFICES ASSUME NEW k \in told' PROVE Whole(k)' BY DEF ToldIsWhole
<1>1. CASE k \in told
  <2>1. Whole(k) BY <1>1 DEF ToldInv, ToldIsWhole
  <2>2. k \in present BY <2>1 DEF Whole
  <2> QED BY <2>1, <2>2, WholeStays DEF Facts
<1>2. ASSUME k \in Files, NEW h \in heartbeats', Completes(h, k) PROVE Whole(k)'
  <2>1. h.next \in Nat /\ h.next > k /\ k \in Nat /\ k >= 1
    BY <1>2 DEF Completes, HonestHeartbeats, Files
  <2>2. CASE ChunkMode(k)
    <3>1. k \in 1..(h.next - 1) BY <2>1
    <3>2. k \in present' BY <1>2, <3>1 DEF Facts, VisibleInv, NextSeqVisible
    <3> QED BY <2>2, <3>2 DEF Facts, PrefixInv, VisibleIsPrefix, ChunkMode
  <2>3. CASE ~ChunkMode(k)
    <3>1. h.file = k /\ h.durable >= Size[k] BY <1>2, <2>3 DEF Completes
    <3> QED BY <1>2, <2>1, <2>3, <3>1 DEF HonestHeartbeats, ChunkMode
  <2> QED BY <2>2, <2>3
<1> QED BY <1>1, <1>2

-----------------------------------------------------------------------------
(* Steps that leave the directory, the commit and the floor alone.          *)

\* The sender only learns of more files.
LEMMA KeepsOrder ==
  ASSUME ToldInv, present' = present, cmt' = cmt \/ cmt'.state = "none", told \subseteq told'
  PROVE  ToldFirst' /\ CommitLast'
BY DEF ToldInv, ToldFirst, CommitLast

\* Nothing that could complete a partial file changes.
LEMMA KeepsReopened ==
  ASSUME Facts, Facts', ToldInv, [Next]_vars, app' = app, floor' = floor, dur' = dur,
         running' = running,
         \A j \in 1..Len(queue') : \/ j \in 1..Len(queue) /\ queue'[j] = queue[j]
                                   \/ queue'[j].kind # "fsync"
  PROVE  ReopenedSafe'
<1> SUFFICES ASSUME Reopened(app)' PROVE floor' = app'.file /\ FsyncsBelow(Size[app.file])'
  BY DEF ReopenedSafe
<1>1. app.file # 0 /\ app.expected > app.file /\ ~Whole(app.file)'
  BY DEF Reopened, Whole
<1>2. app.file \in present BY <1>1 DEF Facts, OffsetInv, Written
<1>3. ~Whole(app.file) BY <1>1, <1>2, WholeStays DEF Facts, Whole
<1>4. floor = app.file /\ FsyncsBelow(Size[app.file])
  BY <1>1, <1>3 DEF ToldInv, ReopenedSafe, Reopened
<1> QED BY <1>4 DEF FsyncsBelow, Below

-----------------------------------------------------------------------------
(* The append receiver's messages.                                          *)

\* The receiver a handler works with is open; rebuilt from disk it stands past
\* at most the file that the current connections begin with.
LEMMA ReceiverReopened ==
  ASSUME Facts, ToldInv
  PROVE  /\ AppendReceiver.open
         /\ Reopened(AppendReceiver) => /\ floor = AppendReceiver.file
                                        /\ FsyncsBelow(Size[AppendReceiver.file])
<1>1. CASE app.open
  BY <1>1 DEF AppendReceiver, ToldInv, ReopenedSafe
<1>2. CASE ~app.open
  <2>1. AppendReceiver = ResetSession BY <1>2 DEF AppendReceiver
  <2>2. ResetSession.open BY DEF ResetSession, ClosedApp
  <2>3. ASSUME Reopened(ResetSession)
        PROVE  floor = ResetSession.file /\ FsyncsBelow(Size[ResetSession.file])
    <3> DEFINE f == ResetSession.file
    <3>1. f # 0 /\ ~Whole(f) BY <2>3 DEF Reopened
    <3>2. f \in present BY <2>1, <3>1, ReceiverWritten DEF Facts, Written
    <3> HIDE DEF f
    <3>3. floor = f BY <1>2, <3>1, <3>2 DEF ToldInv, ClosedFresh
    <3>4. Size[f] > 0 BY <3>1, <3>2, PartialIsShorter DEF Facts
    <3>5. Below(dur, Size[f]) BY <1>2, <3>4 DEF ToldInv, ClosedFresh, Below, FreshDur
    <3>6. FsyncsBelow(Size[f]) BY <1>2, <3>5 DEF ToldInv, ClosedFresh, FsyncsBelow
    <3> QED BY <3>3, <3>6 DEF f
  <2> QED BY <2>1, <2>2, <2>3
<1> QED BY <1>1, <1>2

\* A reopened receiver is behind no message but those of its own file.
LEMMA ReopenedFile ==
  ASSUME Facts, ToldInv, Reopened(AppendReceiver), NEW k \in Files, Sendable(k),
         k < AppendReceiver.expected
  PROVE  k = AppendReceiver.file
<1>1. k \in Nat /\ k >= 1 BY DEF Files
<1>2. AppendReceiver.expected \in Nat /\ 1..(AppendReceiver.expected - 1) \subseteq present
  BY ReceiversVisible DEF Facts
<1>3. k \in present BY <1>1, <1>2
<1>4. AppendReceiver.file \in present /\ ~Whole(AppendReceiver.file)
  BY ReceiverWritten DEF Facts, Written, Reopened
<1>5. k <= AppendReceiver.file BY <1>3, <1>4, PartialIsNewest DEF Facts
<1>6. AppendReceiver.file <= k
  <2>1. floor = AppendReceiver.file BY ReceiverReopened
  <2>2. floor <= k BY DEF Sendable
  <2> QED BY <2>1, <2>2
<1>7. AppendReceiver.file \in Files BY <1>4 DEF Facts, TypeOK
<1>8. AppendReceiver.file \in Nat BY <1>7 DEF Files
<1> QED BY <1>1, <1>5, <1>6, <1>8

\* A file that is partial after a step was partial before it.
LEMMA WasReopened ==
  ASSUME Facts, Facts', [Next]_vars, NEW a \in AppType, Written(a), Reopened(a)'
  PROVE  Reopened(a)
<1>1. a.file # 0 /\ a.expected > a.file /\ ~Whole(a.file)' BY DEF Reopened, Whole
<1>2. a.file \in present BY <1>1 DEF Written
<1> QED BY <1>1, <1>2, WholeStays DEF Facts, Reopened, Whole

\* CREATE reports as durable what is written.
LEMMA CreateTold ==
  ASSUME Facts, Facts', ToldInv, [Next]_vars, NotEarly, NEW k \in Files, ApplyCreate(k)
  PROVE  ToldInv'
<1> USE DEF disk, env
<1>a. /\ AppendReceiver \in AppType
      /\ Written(AppendReceiver)
      /\ AppendReceiver.open
  BY ReceiverTypes, ReceiverWritten, ReceiverReopened DEF Facts
<1>r. ASSUME Reopened(AppendReceiver)
      PROVE  floor = AppendReceiver.file /\ FsyncsBelow(Size[AppendReceiver.file])
                                         /\ Size[AppendReceiver.file] > 0
  BY <1>a, <1>r, ReceiverReopened, PartialIsShorter DEF Facts, Written, Reopened
<1>k. k \in Nat /\ k >= 1 /\ Size[k] \in Nat BY SizeAssumption DEF Files
<1>1. ASSUME NEW a \in AppType, NEW p, CreateAccepted(k, a, p) PROVE ToldIsWhole'
  <2>1. /\ app' = a
        /\ heartbeats' = {AppendHeartbeat(a, a.offset)}
        /\ told' = told \cup {j \in Files : \E h \in heartbeats' : Completes(h, j)}
    BY <1>1 DEF CreateAccepted, Emit
  <2>2. ASSUME a.file \in Files, a.offset >= Size[a.file] PROVE Whole(a.file)'
    <3>1. a.file # 0 BY <2>2 DEF Files
    <3>2. a.file \in present' /\ a.offset <= Len(content'[a.file])
      BY <2>1, <3>1 DEF Facts, OffsetInv, Written
    <3>3. a.offset \in Nat /\ Size[a.file] \in Nat /\ Len(content'[a.file]) \in Nat
      BY <2>2, SizeAssumption DEF AppType, Facts, TypeOK
    <3>4. Len(content'[a.file]) >= Size[a.file] BY <2>2, <3>2, <3>3
    <3> QED BY <3>2, <3>4, LongIsWholeNext DEF Facts
  <2>3. HonestHeartbeats'
    <3> SUFFICES ASSUME NEW h \in heartbeats'
                 PROVE  /\ h.next \in Nat
                        /\ (/\ h.file \in Files
                            /\ h.durable >= Size[h.file]) => Whole(h.file)'
      BY DEF HonestHeartbeats, Whole
    <3>1. h.next = a.expected /\ h.file = a.file /\ h.durable = a.offset
      BY <2>1 DEF AppendHeartbeat, Heartbeat
    <3>2. a.expected \in Nat BY DEF AppType
    <3> QED BY <2>2, <3>1, <3>2 DEF Whole
  <2> QED BY <2>1, <2>3, HonestTelling
<1>2. CASE CreateNew(k)
  <2> DEFINE e == IF Size[k] = 0 THEN k + 1 ELSE k
             a == [AppendReceiver EXCEPT !.file = k, !.offset = 0, !.final = Size[k],
                                         !.expected = e]
  <2>1. /\ present' = present \cup {k}
        /\ CreateAccepted(k, a, present \cup {k})
    BY <1>2 DEF CreateNew
  <2>2. e \in Nat BY <1>k
  <2>3. a \in AppType /\ a.file = k /\ a.expected = e /\ a.open
    <3>1. k \in 0..NFiles BY SizeAssumption DEF Files
    <3>2. a \in AppType BY <1>a, <1>k, <2>2, <3>1, AppUpdate, ZeroFile
    <3> QED BY <1>a, <3>2 DEF AppType
  <2> HIDE DEF a
  <2>4. ToldIsWhole' BY <1>1, <2>1, <2>3
  <2>5. /\ app' = a /\ cmt' = cmt /\ told \subseteq told'
    BY <2>1 DEF CreateAccepted, Emit
  <2>6. ToldFirst'
    <3>1. 1..(k - 1) \subseteq told BY DEF ApplyCreate, Sendable
    <3> QED BY <2>1, <2>5, <3>1 DEF ToldInv, ToldFirst
  <2>7. CommitLast'
    <3>1. cmt.state = "none" \/ k <= cmt.seq BY DEF ApplyCreate, NotEarly
    <3> QED BY <2>1, <2>5, <3>1 DEF ToldInv, CommitLast
  <2>8. ReopenedSafe'
    <3>1. CASE Size[k] = 0
      <4>1. k \in present' BY <2>1
      <4>2. Len(content'[k]) \in Nat BY DEF Facts, TypeOK
      <4>3. Len(content'[k]) >= Size[k] BY <3>1, <4>2
      <4>4. Whole(k)' BY <4>1, <4>3, LongIsWholeNext DEF Facts
      <4> QED BY <2>3, <2>5, <4>4 DEF ReopenedSafe, Reopened, Whole
    <3>2. CASE Size[k] # 0
      <4>1. app'.expected = k /\ app'.file = k BY <2>3, <2>5, <3>2
      <4> QED BY <1>k, <4>1 DEF ReopenedSafe, Reopened
    <3> QED BY <3>1, <3>2
  <2>9. ClosedFresh' BY <2>3, <2>5 DEF ClosedFresh
  <2> QED BY <2>4, <2>6, <2>7, <2>8, <2>9 DEF ToldInv
<1>3. ASSUME app' = AppendReceiver, present' = present, cmt' = cmt, told \subseteq told',
             ToldIsWhole', floor' = floor, queue' = queue, running' = running,
             dur' = dur \/ dur' = ResetDurable(dur, k, AppendReceiver.file, 0)
      PROVE  ToldInv'
  <2>1. ToldFirst' /\ CommitLast' BY <1>3, KeepsOrder
  <2>2. ClosedFresh' BY <1>3, <1>a DEF ClosedFresh
  <2>3. ASSUME Reopened(AppendReceiver) PROVE Below(dur', Size[AppendReceiver.file])
    <3>1. Below(dur, Size[AppendReceiver.file]) /\ Size[AppendReceiver.file] > 0
      BY <1>r, <2>3 DEF FsyncsBelow
    <3>2. dur \in DurType BY DEF Facts, TypeOK
    <3> QED BY <1>3, <3>1, <3>2 DEF ResetDurable, Below, DurType
  <2>4. ReopenedSafe'
    <3> SUFFICES ASSUME Reopened(app)' PROVE floor' = app'.file /\ FsyncsBelow(Size[app.file])'
      BY DEF ReopenedSafe
    <3>1. Reopened(AppendReceiver)
      <4>1. /\ AppendReceiver.file # 0
            /\ AppendReceiver.expected > AppendReceiver.file
            /\ ~Whole(AppendReceiver.file)
        BY <1>3, <1>a, WholeStays DEF Reopened, Whole, Written, Facts
      <4> QED BY <4>1 DEF Reopened
    <3> QED BY <1>3, <1>r, <2>3, <3>1 DEF FsyncsBelow, Below
  <2> QED BY <1>3, <2>1, <2>2, <2>4 DEF ToldInv
<1>4. CASE CreateStale(k)
  <2>1. CreateAccepted(k, AppendReceiver, present) /\ present' = present
    BY <1>4 DEF CreateStale
  <2>2. ToldIsWhole' BY <1>1, <1>a, <2>1
  <2>3. told \subseteq told' BY <2>1 DEF CreateAccepted, Emit
  <2> QED BY <1>3, <2>1, <2>2, <2>3 DEF CreateAccepted
<1>5. CASE CreateRejected(k) \/ CreateFails(k)
  <2>1. /\ app' = AppendReceiver /\ present' = present /\ content' = content /\ cmt' = cmt
        /\ told' = told /\ floor' = floor /\ queue' = queue /\ running' = running /\ dur' = dur
    BY <1>5 DEF CreateRejected, CreateFails, Reject
  <2>2. ToldIsWhole' BY <2>1 DEF ToldInv, ToldIsWhole, Whole
  <2> QED BY <1>3, <2>1, <2>2
<1> QED BY <1>2, <1>4, <1>5 DEF ApplyCreate

\* The context stays below n when everything that enters it does.
LEMMA ContextBelow ==
  ASSUME NEW d \in DurType, NEW n \in Nat, Below(d, n)
  PROVE  /\ \A k, path : \A o \in Nat : o < n => Below(ResetDurable(d, k, path, o), n)
         /\ \A t \in Nat : t < n => /\ Below(EnqueueFsync(d, t), n)
                                    /\ FsyncTarget(d, t).target < n
         /\ Below(Harvest(d), n)
<1>1. ASSUME NEW k, NEW path, NEW o \in Nat, o < n PROVE Below(ResetDurable(d, k, path, o), n)
  BY <1>1 DEF ResetDurable, Below, DurType
<1>2. ASSUME NEW t \in Nat, t < n
      PROVE  Below(EnqueueFsync(d, t), n) /\ FsyncTarget(d, t).target < n
  <2>1. FsyncTarget(d, t) \in DurType /\ Below(FsyncTarget(d, t), n)
    BY <1>2 DEF FsyncTarget, Below, DurType, Larger
  <2> QED BY <2>1 DEF EnqueueFsync, Below, DurType
<1>3. Below(Harvest(d), n) BY DEF Harvest, Below, DurType, Larger
<1> QED BY <1>1, <1>2, <1>3

\* An accepted DATA of a partial file that leaves it partial.
LEMMA DataBelow ==
  ASSUME Facts, NEW k \in Files, NEW o \in 0..(Size[k] - 1), NEW a \in AppType,
         DataAccepted(k, o, a), a.offset < Size[k], FsyncsBelow(Size[k])
  PROVE  /\ FsyncsBelow(Size[k])'
         /\ ResetDurable([dur EXCEPT !.line = TRUE], k, a.file, o).offset < Size[k]
<1> DEFINE d == ResetDurable([dur EXCEPT !.line = TRUE], k, a.file, o)
<1>1. Size[k] \in Nat /\ o \in Nat /\ o < Size[k] BY SizeAssumption
<1>2. [dur EXCEPT !.line = TRUE] \in DurType /\ Below([dur EXCEPT !.line = TRUE], Size[k])
  BY DEF Facts, TypeOK, DurType, FsyncsBelow, Below
<1>3. Below(d, Size[k]) BY <1>1, <1>2, ContextBelow
<1>4. /\ d \in DurType
      /\ a.offset \in Nat
      /\ FsyncAdded(FsyncTarget(d, a.offset).target)
  BY DataAcceptedAdds DEF Facts
<1>5. dur' = EnqueueFsync(d, a.offset) /\ running' = running BY DEF DataAccepted
<1> HIDE DEF d
<1>6. Below(EnqueueFsync(d, a.offset), Size[k]) /\ FsyncTarget(d, a.offset).target < Size[k]
  BY <1>1, <1>3, <1>4, ContextBelow
<1>7. Below(dur', Size[k]) BY <1>5, <1>6
<1>8. ASSUME NEW j \in 1..Len(queue'), queue'[j].kind = "fsync" PROVE queue'[j].target < Size[k]
  BY <1>4, <1>6, <1>8 DEF FsyncAdded, FsyncsBelow
<1>9. d.offset < Size[k] BY <1>3 DEF Below
<1> QED BY <1>5, <1>7, <1>8, <1>9 DEF FsyncsBelow, Below, d

\* DATA.
LEMMA DataTold ==
  ASSUME Facts, Facts', ToldInv, [Next]_vars,
         NEW k \in Files, NEW o \in 0..(Size[k] - 1), ApplyData(k, o)
  PROVE  ToldInv'
<1> USE DEF disk, env
<1>b. PICK b : b = AppendReceiver OBVIOUS
<1>a. b \in AppType /\ Written(b) /\ b.open
  BY <1>b, ReceiverTypes, ReceiverWritten, ReceiverReopened DEF Facts
<1>k. /\ k \in Nat /\ k >= 1 /\ Size[k] \in Nat
      /\ o \in Nat /\ o < Size[k]
      /\ Len(content[k]) \in Nat /\ Len(content'[k]) \in Nat
  BY SizeAssumption DEF Files, Facts, TypeOK
<1>0. /\ present' = present /\ cmt' = cmt /\ floor' = floor /\ running' = running
      /\ told \subseteq told'
  BY DEF ApplyData, DataIgnored, DataRejected, DataAppended, DataTorn, DataAccepted, Emit, Reject
<1>o. ToldFirst' /\ CommitLast' BY <1>0, KeepsOrder
<1>1. ASSUME NEW a \in AppType, a.open, DataAccepted(k, o, a),
             (/\ a.file # 0 /\ a.expected > a.file
              /\ ~Whole(a.file)') => /\ a.file = k
                                     /\ floor = k
                                     /\ a.offset < Size[k]
                                     /\ FsyncsBelow(Size[k])
      PROVE  ToldInv'
  <2> DEFINE d == ResetDurable([dur EXCEPT !.line = TRUE], k, a.file, o)
  <2>1. /\ app' = a
        /\ heartbeats' = {AppendHeartbeat(a, d.offset)}
        /\ told' = told \cup {j \in Files : \E h \in heartbeats' : Completes(h, j)}
    BY <1>1 DEF DataAccepted, Emit
  <2>2. ASSUME a.file # 0, a.expected > a.file, ~Whole(a.file)'
        PROVE  /\ a.file = k /\ floor' = k
               /\ FsyncsBelow(Size[k])'
               /\ d.offset < Size[k]
    BY <1>0, <1>1, <2>2, DataBelow
  <2>3. d.offset \in Nat BY <1>1, DataAcceptedAdds DEF Facts, DurType
  <2> HIDE DEF d
  <2>4. HonestHeartbeats'
    <3> SUFFICES ASSUME NEW h \in heartbeats'
                 PROVE  /\ h.next \in Nat
                        /\ (/\ h.file \in Files
                            /\ h.next > h.file
                            /\ h.durable >= Size[h.file]) => Whole(h.file)'
      BY DEF HonestHeartbeats, Whole
    <3>1. h.next = a.expected /\ h.file = a.file /\ h.durable = d.offset
      BY <2>1 DEF AppendHeartbeat, Heartbeat
    <3>2. a.expected \in Nat BY DEF AppType
    <3>3. a.file \in Files => a.file # 0 BY DEF Files
    <3> QED BY <1>k, <2>2, <2>3, <3>1, <3>2, <3>3 DEF Whole
  <2>5. ToldIsWhole' BY <2>1, <2>4, HonestTelling
  <2>6. ReopenedSafe'
    <3> SUFFICES ASSUME Reopened(app)' PROVE floor' = app'.file /\ FsyncsBelow(Size[app.file])'
      BY DEF ReopenedSafe
    <3>1. a.file # 0 /\ a.expected > a.file /\ ~Whole(a.file)' BY <2>1 DEF Reopened, Whole
    <3> QED BY <2>1, <2>2, <3>1 DEF FsyncsBelow, Below
  <2>7. ClosedFresh' BY <1>1, <2>1 DEF ClosedFresh
  <2> QED BY <1>o, <2>5, <2>6, <2>7 DEF ToldInv
<1>w. ASSUME b.file # 0, b.expected > b.file,
             ~Whole(b.file)'
      PROVE  /\ Reopened(b)
             /\ floor = b.file
             /\ FsyncsBelow(Size[b.file])
  <2>1. Reopened(b) BY <1>a, <1>w, WholeStays DEF Reopened, Whole, Written, Facts
  <2> QED BY <1>b, <2>1, ReceiverReopened
<1>2. CASE DataIgnored(k, o)
  <2>1. DataAccepted(k, o, b) /\ k < b.expected
    BY <1>2, <1>b DEF DataIgnored, DataStale
  <2>2. ASSUME b.file # 0, b.expected > b.file,
               ~Whole(b.file)'
        PROVE  /\ b.file = k
               /\ floor = k
               /\ b.offset < Size[k]
               /\ FsyncsBelow(Size[k])
    <3>1. /\ Reopened(b)
          /\ floor = b.file
          /\ FsyncsBelow(Size[b.file])
      BY <1>w, <2>2
    <3>2. k = b.file BY <1>b, <2>1, <3>1, ReopenedFile DEF ApplyData
    <3>3. Len(content[k]) < Size[k] /\ b.offset <= Len(content[k])
      BY <1>a, <2>2, <3>1, <3>2, PartialIsShorter DEF Facts, Written, Reopened
    <3>4. b.offset \in Nat BY <1>a DEF AppType
    <3> QED BY <1>k, <3>1, <3>2, <3>3, <3>4
  <2> QED BY <1>1, <1>a, <2>1, <2>2
<1>3. ASSUME NEW m \in 0..Block, DataAppended(k, o, m) PROVE ToldInv'
  <2>0. PICK a : a = AfterData(k, o) OBVIOUS
  <2>1. DataAccepted(k, o, a) /\ app' = a
    BY <1>3, <2>0 DEF DataAppended, AfterData, DataAccepted
  <2>2. /\ a \in AppType /\ a.open
        /\ a.file = b.file /\ a.offset = o + DataLen(k, o)
        /\ DataLen(k, o) \in Nat
        /\ o + DataLen(k, o) < Size[k] => a.expected = b.expected
    BY <1>a, <1>b, <2>0, AfterDataFields DEF Facts
  <2>3. /\ k \in present /\ k = b.file
        /\ ~DataStale(b, k, o)
    BY <1>3, <1>b DEF DataAppended, DataReason
  <2>4. ASSUME a.file # 0, a.expected > a.file, ~Whole(a.file)'
        PROVE  a.file = k /\ floor = k /\ a.offset < Size[k] /\ FsyncsBelow(Size[k])
    <3>1. a.file = k /\ k \in present' BY <1>0, <2>2, <2>3
    <3>2. a.offset <= Len(content'[k])
      BY <2>1, <2>4, <3>1 DEF Facts, OffsetInv, Written
    <3>3. ~(Len(content'[k]) >= Size[k]) BY <2>4, <3>1, LongIsWholeNext DEF Facts
    <3>4. a.offset < Size[k] BY <1>k, <2>2, <3>2, <3>3
    <3>5. a.expected = b.expected BY <2>2, <3>4
    <3>6. floor = k /\ FsyncsBelow(Size[k]) BY <1>w, <2>3, <2>4, <3>1, <3>5
    <3> QED BY <3>1, <3>4, <3>6
  <2> QED BY <1>1, <2>1, <2>2, <2>4
<1>4. CASE DataRejected(k, o) \/ \E m \in 0..Block : DataTorn(k, o, m)
  <2>1. /\ app' = b /\ dur' = dur /\ queue' = queue /\ told' = told
        /\ heartbeats' = {}
    BY <1>4, <1>b DEF DataRejected, DataTorn, Reject
  <2>2. HonestHeartbeats' BY <2>1 DEF HonestHeartbeats
  <2>3. ToldIsWhole' BY <2>1, <2>2, HonestTelling
  <2>4. ReopenedSafe'
    <3> SUFFICES ASSUME Reopened(app)' PROVE floor' = app'.file /\ FsyncsBelow(Size[app.file])'
      BY DEF ReopenedSafe
    <3>1. /\ b.file # 0 /\ b.expected > b.file
          /\ ~Whole(b.file)'
      BY <2>1 DEF Reopened, Whole
    <3> QED BY <1>0, <1>w, <2>1, <3>1 DEF FsyncsBelow, Below
  <2>5. ClosedFresh' BY <1>a, <2>1 DEF ClosedFresh
  <2> QED BY <1>o, <2>3, <2>4, <2>5 DEF ToldInv
<1> QED BY <1>2, <1>3, <1>4 DEF ApplyData

-----------------------------------------------------------------------------
(* The chunk receiver's messages.                                           *)

\* A step that leaves the append side alone and adds no fsync to the ring.
LEMMA KeepsAppendSide ==
  ASSUME Facts, Facts', ToldInv, [Next]_vars,
         app' = app, floor' = floor, dur' = dur, running' = running,
         present' = present, content' = content,
         \A j \in 1..Len(queue') : \/ j \in 1..Len(queue) /\ queue'[j] = queue[j]
                                   \/ queue'[j].kind # "fsync"
  PROVE  ReopenedSafe' /\ ClosedFresh'
<1>1. ReopenedSafe' BY KeepsReopened
<1>2. ClosedFresh' BY DEF ToldInv, ClosedFresh, Whole
<1> QED BY <1>1, <1>2

\* FILE_BEGIN, CHUNK and FILE_COMMIT: chunk files are complete by next_seq alone.
LEMMA ChunkMessagesTold ==
  ASSUME Facts, Facts', ToldInv, [Next]_vars, NEW k \in Files,
         ApplyBegin(k) \/ (\E i \in ChunksOf(k) : ApplyChunk(k, i)) \/ ApplyCommit(k)
  PROVE  ToldInv'
<1> USE DEF env
<1>0. /\ app' = app /\ floor' = floor /\ dur' = dur /\ running' = running
      /\ present' = present /\ content' = content
      /\ ChunkMode(k) /\ Sendable(k)
  BY DEF ApplyBegin, ApplyChunk, ApplyCommit
<1>t. ChunkReceiver.expected \in Nat /\ ChunkReceiver \in ChkType
  BY ReceiverTypes DEF Facts, ChkType
<1>k. k \in Nat BY DEF Files
<1>1. /\ told' = told \cup {j \in Files : \E h \in heartbeats' : Completes(h, j)}
      /\ \A h \in heartbeats' : h.next = ChunkReceiver.expected /\ h.file = k
  <2>r. ASSUME heartbeats' = {}, told' = told
        PROVE  /\ told' = told \cup {j \in Files : \E h \in heartbeats' : Completes(h, j)}
               /\ \A h \in heartbeats' : h.next = ChunkReceiver.expected /\ h.file = k
    BY <2>r
  <2>1. CASE ApplyBegin(k)
    <3>1. CASE BeginAccepted(k) BY <3>1 DEF BeginAccepted, Emit, Heartbeat
    <3>2. CASE BeginRejected(k) BY <2>r, <3>2 DEF BeginRejected, ChunkRefused, Reject
    <3> QED BY <2>1, <3>1, <3>2 DEF ApplyBegin
  <2>2. ASSUME NEW i \in ChunksOf(k), ApplyChunk(k, i)
        PROVE  /\ told' = told \cup {j \in Files : \E h \in heartbeats' : Completes(h, j)}
               /\ \A h \in heartbeats' : h.next = ChunkReceiver.expected /\ h.file = k
    <3>1. CASE ChunkRejected(k, i) BY <2>r, <3>1 DEF ChunkRejected, ChunkRefused, Reject
    <3>2. ASSUME NEW stored \in BOOLEAN, ChunkAccepted(k, i, stored)
          PROVE  /\ told' = told \cup {j \in Files : \E h \in heartbeats' : Completes(h, j)}
                 /\ \A h \in heartbeats' : h.next = ChunkReceiver.expected /\ h.file = k
      BY <3>2 DEF ChunkAccepted, Emit, Heartbeat
    <3> QED BY <2>2, <3>1, <3>2 DEF ApplyChunk
  <2>3. CASE ApplyCommit(k)
    <3>1. CASE CommitStale(k) BY <3>1 DEF CommitStale, Emit, Heartbeat
    <3>2. CASE CommitWhileQueued(k) \/ CommitQueued(k) \/ CommitRejected(k)
      BY <2>r, <3>2 DEF CommitWhileQueued, CommitQueued, CommitRejected, Silent, Emit, Reject
    <3> QED BY <2>3, <3>1, <3>2 DEF ApplyCommit
  <2> QED BY <2>1, <2>2, <2>3
<1>2. HonestHeartbeats' BY <1>0, <1>1, <1>t DEF HonestHeartbeats, ChunkMode
<1>3. ToldIsWhole' BY <1>1, <1>2, HonestTelling
<1>4. told \subseteq told' BY <1>1
<1>5. CASE queue' = queue /\ cmt' = cmt
  <2>1. ToldFirst' /\ CommitLast' BY <1>0, <1>4, <1>5, KeepsOrder
  <2>2. ReopenedSafe' /\ ClosedFresh' BY <1>0, <1>5, KeepsAppendSide
  <2> QED BY <1>3, <2>1, <2>2 DEF ToldInv
<1>6. CASE ApplyCommit(k) /\ CommitQueued(k)
  <2> DEFINE t == [kind |-> "commit", file |-> k, target |-> Size[k]]
  <2>1. queue' = Append(queue, t) /\ cmt'.seq = k /\ k \notin present
    BY <1>6 DEF CommitQueued, CommitReason
  <2>2. t \in Task /\ t.kind # "fsync" BY SizeAssumption DEF Task
  <2>3. queue \in Seq(Task) BY DEF Facts, TypeOK
  <2> HIDE DEF t
  <2>4. ReopenedSafe' /\ ClosedFresh'
    <3>1. \A j \in 1..Len(queue') : \/ j \in 1..Len(queue) /\ queue'[j] = queue[j]
                                    \/ queue'[j].kind # "fsync"
      BY <2>1, <2>2, <2>3, AddedTask
    <3> QED BY <1>0, <3>1, KeepsAppendSide
  <2>5. ToldFirst' BY <1>0, <1>4 DEF ToldInv, ToldFirst
  <2>6. CommitLast'
    <3>1. 1..(k - 1) \subseteq told BY <1>0 DEF Sendable
    <3>2. ASSUME NEW j \in present PROVE j <= k
      <4>1. j \in Nat /\ 1..j \subseteq present
        BY DEF Facts, TypeOK, Files, VisibleInv, Gapless
      <4>2. k \notin 1..j BY <2>1, <4>1
      <4>3. k >= 1 BY DEF Files
      <4> QED BY <1>k, <4>1, <4>2, <4>3
    <3> QED BY <1>0, <1>4, <2>1, <3>1, <3>2 DEF CommitLast
  <2> QED BY <1>3, <2>4, <2>5, <2>6 DEF ToldInv
<1>7. (queue' = queue /\ cmt' = cmt) \/ (ApplyCommit(k) /\ CommitQueued(k))
  BY DEF ApplyBegin, ApplyChunk, ApplyCommit, CommitWhileQueued, CommitStale, CommitRejected
<1> QED BY <1>5, <1>6, <1>7

-----------------------------------------------------------------------------
(* poll_completions.                                                        *)

\* The newest entry after a commit is the committed one, so the append receiver
\* is refreshed to a whole file.  This is what EarlyNext would break.
LEMMA RefreshedIsWhole ==
  ASSUME Facts, ToldInv, cmt.state = "done"
  PROVE  RefreshApp(app).file = cmt.seq /\ Whole(cmt.seq)
<1>1. cmt.seq \in present /\ cmt.seq \in Files /\ ChunkMode(cmt.seq)
  BY DEF Facts, VisibleInv, CommitPlaced
<1>2. Whole(cmt.seq) BY <1>1 DEF Facts, PrefixInv, VisibleIsPrefix
<1>3. present # {} /\ present \in SUBSET Files BY <1>1 DEF Facts, TypeOK
<1>4. Latest(present) \in present /\ cmt.seq <= Latest(present) BY <1>1, <1>3, LatestIsNewest
<1>5. Latest(present) <= cmt.seq BY <1>4 DEF ToldInv, CommitLast
<1>6. Latest(present) = cmt.seq
  <2>1. Latest(present) \in Files BY <1>3, <1>4
  <2>2. cmt.seq \in Int /\ Latest(present) \in Int BY <1>1, <2>1 DEF Files
  <2> QED BY <1>4, <1>5, <2>2
<1>7. RefreshApp(app).file = Latest(present)
  BY <1>3 DEF RefreshApp, Facts, TypeOK, AppType
<1> QED BY <1>2, <1>6, <1>7

\* poll_append_fsync brings nothing new to a partial file, and does nothing
\* before the append receiver exists.
LEMMA PollFsyncBelow ==
  ASSUME Facts, ToldInv, PollFsync, running' = running
  PROVE  /\ \A n \in Nat : FsyncsBelow(n) => FsyncsBelow(n)'
         /\ ~app.open => dur' = dur /\ queue' = queue
<1> DEFINE d == Harvest(dur)
<1>1. dur \in DurType /\ d \in DurType
  BY ZeroFile DEF Harvest, DurType, Facts, TypeOK, Larger
<1>2. ASSUME NEW n \in Nat, FsyncsBelow(n) PROVE FsyncsBelow(n)'
  <2>1. Below(d, n) BY <1>1, <1>2, ContextBelow DEF FsyncsBelow
  <2>2. d.target \in Nat /\ d.target < n BY <1>1, <2>1 DEF Below, DurType
  <2>3. dur' = d \/ dur' = EnqueueFsync(d, d.target) BY DEF PollFsync
  <2>4. queue' = queue \/ queue' = QueueFsync(d, d.target) BY DEF PollFsync
  <2> HIDE DEF d
  <2>5. Below(dur', n) BY <1>1, <2>1, <2>2, <2>3, ContextBelow
  <2>6. FsyncTarget(d, d.target).target < n BY <1>1, <2>1, <2>2, ContextBelow
  <2>7. ASSUME NEW j \in 1..Len(queue'), queue'[j].kind = "fsync" PROVE queue'[j].target < n
    <3>1. CASE queue' = queue BY <1>2, <2>7, <3>1 DEF FsyncsBelow
    <3>2. CASE queue' = QueueFsync(d, d.target)
      <4>1. FsyncAdded(FsyncTarget(d, d.target).target)
        BY <1>1, <2>2, <3>2, QueueFsyncAdds DEF Facts
      <4> QED BY <1>2, <2>6, <2>7, <4>1 DEF FsyncAdded, FsyncsBelow
    <3> QED BY <2>4, <3>1, <3>2
  <2> QED BY <1>2, <2>5, <2>7 DEF FsyncsBelow, Below
<1>3. ASSUME ~app.open PROVE dur' = dur /\ queue' = queue
  <2>1. dur = FreshDur BY <1>3 DEF ToldInv, ClosedFresh
  <2>2. d = FreshDur
    <3>1. /\ d.offset = 0 /\ d.queued = FALSE /\ d.active = 0
          /\ d.file = 0 /\ d.path = 0 /\ d.target = 0 /\ d.completed = 0
          /\ d.failed = FALSE /\ d.line = FALSE
      BY <2>1 DEF Harvest, FreshDur, Larger
    <3> QED BY <1>1, <2>1, <3>1 DEF FreshDur, DurType
  <2> QED BY <2>1, <2>2 DEF PollFsync, FreshDur
<1> QED BY <1>2, <1>3

\* The heartbeat for a finished fsync completes no partial file.
LEMMA FsyncNewsHonest ==
  ASSUME Facts, ToldInv, NEW h \in FsyncHeartbeats
  PROVE  /\ h.next \in Nat
         /\ (/\ h.file \in Files
             /\ h.next > h.file
             /\ h.durable >= Size[h.file]) => Whole(h.file)
<1>1. h.next = app.expected /\ h.file = app.file /\ h.durable = dur.completed
  BY DEF FsyncHeartbeats, AppendHeartbeat, Heartbeat
<1>2. app.expected \in Nat /\ dur.completed \in Nat
  BY DEF Facts, TypeOK, AppType, DurType
<1>3. ASSUME app.file \in Files, app.expected > app.file, ~Whole(app.file)
      PROVE  dur.completed < Size[app.file]
  <2>1. app.file # 0 BY <1>3 DEF Files
  <2> QED BY <1>3, <2>1 DEF ToldInv, ReopenedSafe, Reopened, FsyncsBelow, Below
<1>4. ASSUME app.file \in Files PROVE Size[app.file] \in Nat BY <1>4, SizeAssumption
<1> QED BY <1>1, <1>2, <1>3, <1>4

\* Poll.
LEMMA PollTold ==
  ASSUME Facts, Facts', ToldInv, [Next]_vars, Poll
  PROVE  ToldInv'
<1> USE DEF disk, env
<1>0. /\ present' = present /\ content' = content /\ running' = running /\ floor' = floor
  BY DEF Poll
<1>w. \A k : Whole(k)' <=> Whole(k) BY <1>0 DEF Whole
<1>1. /\ told' = told \cup {k \in Files : \E h \in heartbeats' : Completes(h, k)}
      /\ \A h \in heartbeats' : h \in FsyncHeartbeats \/ (cmt.state = "done" /\ h = CommitHeartbeat)
  <2>1. CASE PollIdle BY <2>1 DEF PollIdle, Emit
  <2>2. CASE PollCommitDone BY <2>2 DEF PollCommitDone, Emit
  <2>3. CASE PollFailure BY <2>3 DEF PollFailure, Silent, Emit
  <2> QED BY <2>1, <2>2, <2>3 DEF Poll
<1>2. HonestHeartbeats'
  <2> SUFFICES ASSUME NEW h \in heartbeats'
               PROVE  /\ h.next \in Nat
                      /\ (/\ h.file \in Files
                          /\ ~ChunkMode(h.file)
                          /\ h.next > h.file
                          /\ h.durable >= Size[h.file]) => Whole(h.file)
    BY <1>w DEF HonestHeartbeats, ChunkMode, Whole
  <2>1. CASE h \in FsyncHeartbeats BY <2>1, FsyncNewsHonest
  <2>2. CASE cmt.state = "done" /\ h = CommitHeartbeat
    <3>1. h.file = cmt.seq /\ h.next = Larger(chk.expected, cmt.seq + 1)
      BY <2>2 DEF CommitHeartbeat, Heartbeat, FinishCommit, Facts, TypeOK, ChkType
    <3>2. h.next \in Nat
      BY <3>1 DEF Larger, Facts, TypeOK, ChkType, CmtType
    <3>3. ChunkMode(cmt.seq) BY <2>2 DEF Facts, VisibleInv, CommitPlaced
    <3> QED BY <3>1, <3>2, <3>3
  <2> QED BY <1>1, <2>1, <2>2
<1>3. ToldIsWhole' BY <1>1, <1>2, HonestTelling
<1>4. ToldFirst' /\ CommitLast'
  <2>1. cmt' = cmt \/ cmt'.state = "none"
    BY DEF Poll, PollIdle, PollCommitDone, PollFailure, NoCommit
  <2> QED BY <1>0, <1>1, <2>1, KeepsOrder
<1>5. /\ \A n \in Nat : FsyncsBelow(n) => FsyncsBelow(n)'
      /\ ~app.open => dur' = dur /\ queue' = queue
  <2>1. CASE PollFsync BY <1>0, <2>1, PollFsyncBelow
  <2>2. CASE dur' = dur /\ queue' = queue BY <1>0, <2>2 DEF FsyncsBelow, Below
  <2> QED BY <2>1, <2>2 DEF Poll, PollIdle, PollCommitDone, PollFailure
<1>6. CASE app' = app
  <2>1. ReopenedSafe'
    <3> SUFFICES ASSUME Reopened(app)' PROVE floor' = app'.file /\ FsyncsBelow(Size[app.file])'
      BY DEF ReopenedSafe
    <3>1. Reopened(app) BY <1>6, <1>w DEF Reopened, Whole
    <3>2. floor = app.file /\ FsyncsBelow(Size[app.file]) BY <3>1 DEF ToldInv, ReopenedSafe
    <3>3. app.file \in Files
      BY <3>1 DEF Facts, OffsetInv, Written, Reopened, TypeOK
    <3>4. PICK n \in Nat : n = Size[app.file] BY <3>3, SizeAssumption
    <3>5. FsyncsBelow(n)' BY <1>5, <3>2, <3>4
    <3> QED BY <1>0, <1>6, <3>2, <3>4, <3>5 DEF FsyncsBelow, Below
  <2>2. ClosedFresh' BY <1>0, <1>5, <1>6, <1>w DEF ToldInv, ClosedFresh, Whole
  <2> QED BY <1>3, <1>4, <2>1, <2>2 DEF ToldInv
<1>7. CASE app' # app
  <2>1. cmt.state = "done" /\ app.open /\ app' = RefreshApp(app)
    BY <1>7 DEF Poll, PollIdle, PollCommitDone, PollFailure
  <2>2. app'.file = cmt.seq /\ Whole(cmt.seq) BY <2>1, RefreshedIsWhole
  <2>3. ReopenedSafe' BY <1>w, <2>2 DEF ReopenedSafe, Reopened, Whole
  <2>4. app'.open BY <2>1 DEF RefreshApp, Facts, TypeOK, AppType
  <2>5. ClosedFresh' BY <2>4 DEF ClosedFresh
  <2> QED BY <1>3, <1>4, <2>3, <2>5 DEF ToldInv
<1> QED BY <1>6, <1>7

-----------------------------------------------------------------------------
(* The writer thread.                                                       *)

\* What a step of the writer has to show when the directory stays.
LEMMA WriterFrame ==
  ASSUME Facts, Facts', ToldInv, [Next]_vars, LoopIdle,
         present' = present, content' = content,
         cmt'.state # "none" => cmt.state # "none" /\ cmt'.seq = cmt.seq,
         \A n \in Nat : FsyncsBelow(n) => FsyncsBelow(n)',
         ~app.open => /\ dur' = dur
                      /\ \A j \in 1..Len(queue') : queue'[j].kind # "fsync"
                      /\ running'.kind # "fsync"
  PROVE  ToldInv'
<1>0. app' = app /\ told' = told /\ floor' = floor BY DEF LoopIdle
<1>w. \A k : Whole(k)' <=> Whole(k) BY DEF Whole
<1>1. ToldIsWhole' BY <1>0, <1>w DEF ToldInv, ToldIsWhole, Whole
<1>2. ToldFirst' /\ CommitLast' BY <1>0 DEF ToldInv, ToldFirst, CommitLast
<1>3. ReopenedSafe'
  <2> SUFFICES ASSUME Reopened(app)' PROVE floor' = app'.file /\ FsyncsBelow(Size[app.file])'
    BY DEF ReopenedSafe
  <2>1. Reopened(app) BY <1>0, <1>w DEF Reopened, Whole
  <2>2. floor = app.file /\ FsyncsBelow(Size[app.file]) BY <2>1 DEF ToldInv, ReopenedSafe
  <2>3. app.file \in Files BY <2>1 DEF Facts, OffsetInv, Written, Reopened, TypeOK
  <2>4. PICK n \in Nat : n = Size[app.file] BY <2>3, SizeAssumption
  <2>5. FsyncsBelow(n)' BY <2>2, <2>4
  <2> QED BY <1>0, <2>2, <2>4, <2>5 DEF FsyncsBelow, Below
<1>4. ClosedFresh' BY <1>0, <1>w DEF ToldInv, ClosedFresh, Whole
<1> QED BY <1>1, <1>2, <1>3, <1>4 DEF ToldInv

\* The writer: an fsync's target ends up in the counter, a rename makes the
\* commit's whole entry visible.
LEMMA WriterTold ==
  ASSUME Facts, Facts', ToldInv, [Next]_vars, Writer
  PROVE  ToldInv'
<1> USE DEF disk
<1>q. queue \in Seq(Task) /\ dur \in DurType BY DEF Facts, TypeOK
<1>1. CASE WriterTake
  <2>1. /\ LoopIdle /\ present' = present /\ content' = content /\ cmt' = cmt /\ dur' = dur
        /\ running' = queue[1] /\ 1 \in 1..Len(queue)
        /\ \A j \in 1..Len(queue') : queue'[j] = queue[j + 1] /\ j + 1 \in 1..Len(queue)
    BY <1>1, <1>q, TakenTasks DEF WriterTake
  <2>2. \A n \in Nat : FsyncsBelow(n) => FsyncsBelow(n)' BY <2>1 DEF FsyncsBelow, Below
  <2>3. ~app.open => /\ \A j \in 1..Len(queue') : queue'[j].kind # "fsync"
                     /\ running'.kind # "fsync"
    BY <2>1 DEF ToldInv, ClosedFresh
  <2> QED BY <2>1, <2>2, <2>3, WriterFrame
<1>2. CASE WriterFsync
  <2>1. /\ LoopIdle /\ present' = present /\ content' = content /\ cmt' = cmt
        /\ queue' = queue /\ running' = NoTask /\ running.kind = "fsync"
        /\ dur'.offset = dur.offset /\ dur'.target = dur.target
        /\ dur'.completed = running.target
    BY <1>2, <1>q DEF WriterFsync, DurType
  <2>2. running'.kind # "fsync" BY <2>1 DEF NoTask
  <2>3. \A n \in Nat : FsyncsBelow(n) => FsyncsBelow(n)' BY <2>1, <2>2 DEF FsyncsBelow, Below
  <2>4. app.open BY <2>1 DEF ToldInv, ClosedFresh
  <2> QED BY <2>1, <2>3, <2>4, WriterFrame
<1>3. CASE WriterCommitSync \/ WriterFails
  <2>1. /\ LoopIdle /\ present' = present /\ content' = content
        /\ queue' = queue /\ running' = NoTask
        /\ running # NoTask
    BY <1>3 DEF WriterCommitSync, WriterFails, NoTask
  <2>2. running'.kind # "fsync" BY <2>1 DEF NoTask
  <2>3. /\ dur'.offset = dur.offset /\ dur'.target = dur.target
        /\ dur'.completed = dur.completed
        /\ running.kind # "fsync" => dur' = dur
    BY <1>3, <1>q DEF WriterCommitSync, WriterFails, DurType
  <2>4. \A n \in Nat : FsyncsBelow(n) => FsyncsBelow(n)'
    BY <2>1, <2>2, <2>3 DEF FsyncsBelow, Below
  <2>5. cmt'.state # "none" => cmt.state # "none" /\ cmt'.seq = cmt.seq
    <3>1. CASE cmt' = cmt BY <3>1
    <3>2. CASE cmt' # cmt
      <4>1. running.kind # "fsync" BY <1>3, <3>2 DEF WriterCommitSync, WriterFails
      <4>2. Committing(running) BY <2>1, <4>1 DEF Committing, Facts, TypeOK, Task
      <4>3. cmt.state = "queued" BY <4>2 DEF Facts, OneCommit
      <4>4. cmt'.seq = cmt.seq
        BY <1>3, <3>2 DEF WriterCommitSync, WriterFails, Facts, TypeOK, CmtType
      <4> QED BY <4>3, <4>4
    <3> QED BY <3>1, <3>2
  <2>6. ~app.open => /\ dur' = dur
                     /\ \A j \in 1..Len(queue') : queue'[j].kind # "fsync"
    BY <2>1, <2>3 DEF ToldInv, ClosedFresh
  <2> QED BY <2>1, <2>2, <2>4, <2>5, <2>6, WriterFrame
<1>4. CASE WriterRename
  <2>0. PICK f \in Files : f = running.file
    BY <1>4 DEF WriterRename, Facts, TypeOK, NoTask, Task
  <2>1. /\ app' = app /\ told' = told /\ floor' = floor /\ dur' = dur /\ cmt' = cmt
        /\ queue' = queue
        /\ present' = present \cup {f}
        /\ running'.kind = "renamed"
    BY <1>4, <2>0 DEF WriterRename, LoopIdle, Facts, TypeOK, NoTask, Task
  <2>2. cmt.state = "queued" /\ cmt.seq = f
    BY <1>4, <2>0 DEF WriterRename, Facts, OneCommit, Committing
  <2>3. ChunkMode(f) BY <2>2 DEF Facts, VisibleInv, CommitPlaced
  <2>4. Whole(f)'
    <3>1. f \in present' BY <2>1
    <3> QED BY <2>3, <3>1 DEF Facts, PrefixInv, VisibleIsPrefix, ChunkMode
  <2>5. \A k \in present : Whole(k) => Whole(k)' BY WholeStays DEF Facts
  <2>6. ToldIsWhole' BY <2>1, <2>5 DEF ToldInv, ToldIsWhole, Whole
  <2>7. ToldFirst' BY <2>1, <2>2 DEF ToldInv, ToldFirst, CommitLast
  <2>8. CommitLast'
    <3>1. f <= f BY DEF Files
    <3> QED BY <2>1, <2>2, <3>1 DEF ToldInv, CommitLast
  <2>9. ReopenedSafe'
    <3> SUFFICES ASSUME Reopened(app)' PROVE floor' = app'.file /\ FsyncsBelow(Size[app.file])'
      BY DEF ReopenedSafe
    <3>1. app.file # 0 /\ app.expected > app.file /\ ~Whole(app.file)'
      BY <2>1 DEF Reopened, Whole
    <3>2. app.file \in present BY <3>1 DEF Facts, OffsetInv, Written
    <3>3. ~Whole(app.file) BY <2>1, <2>5, <3>1, <3>2 DEF Whole
    <3>4. floor = app.file /\ FsyncsBelow(Size[app.file])
      BY <3>1, <3>3 DEF ToldInv, ReopenedSafe, Reopened
    <3> QED BY <2>1, <3>4 DEF FsyncsBelow, Below
  <2>10. ClosedFresh'
    <3>1. ASSUME NEW k \in present', ~Whole(k)' PROVE k \in present /\ ~Whole(k)
      BY <2>1, <2>4, <2>5, <3>1
    <3> QED BY <2>1, <3>1 DEF ToldInv, ClosedFresh
  <2> QED BY <2>6, <2>7, <2>8, <2>9, <2>10 DEF ToldInv
<1> QED BY <1>1, <1>2, <1>3, <1>4 DEF Writer

-----------------------------------------------------------------------------
(* Manifest exchange, stops, crashes and restarts.                          *)

\* diff_stream compares lengths, and a prefix of full length is whole: the
\* entries a manifest shows in sync are the whole ones at the beginning.
LEMMA InSyncIsWhole ==
  ASSUME Facts, ToldInv
  PROVE  /\ \A k \in InSync : Whole(k)
         /\ \A k \in Files : 1..(k - 1) \subseteq told => 1..(k - 1) \subseteq InSync
         /\ InSync \in SUBSET Files
<1>1. ASSUME NEW k \in InSync PROVE Whole(k)
  <2>1. k \in Files BY DEF InSync
  <2>2. k \in 1..k BY <2>1 DEF Files
  <2>3. k \in present /\ Len(content[k]) = Size[k] BY <2>2 DEF InSync
  <2> QED BY <2>3, WholeIsLength DEF Facts
<1>2. ASSUME NEW k \in Files, 1..(k - 1) \subseteq told, NEW j \in 1..(k - 1)
      PROVE  j \in InSync
  <2>1. j \in Files BY <1>2 DEF Facts, TypeOK
  <2>2. ASSUME NEW i \in 1..j PROVE i \in present /\ Len(content[i]) = Size[i]
    <3>1. i \in 1..(k - 1) BY DEF Files
    <3>2. Whole(i) BY <1>2, <3>1 DEF ToldInv, ToldIsWhole
    <3>3. i \in present BY <3>2 DEF Whole
    <3> QED BY <3>2, <3>3, WholeIsLength DEF Facts
  <2> QED BY <2>1, <2>2 DEF InSync
<1>3. InSync \in SUBSET Files BY DEF InSync
<1> QED BY <1>1, <1>2, <1>3

\* The current connections begin with the partial file, if there is one.
LEMMA FloorIsPartial ==
  ASSUME Facts, ToldInv, NEW k \in present, ~Whole(k)
  PROVE  FirstOutside(told) = k /\ FirstOutside(InSync) = k
<1>1. k \in Files /\ told \in SUBSET Files /\ InSync \in SUBSET Files
  BY InSyncIsWhole DEF Facts, TypeOK
<1>2. 1..(k - 1) \subseteq told BY DEF ToldInv, ToldFirst
<1>3. 1..(k - 1) \subseteq InSync BY <1>1, <1>2, InSyncIsWhole
<1>4. k \notin told BY DEF ToldInv, ToldIsWhole
<1>5. k \notin InSync BY InSyncIsWhole
<1> QED BY <1>1, <1>2, <1>3, <1>4, <1>5, FirstOutsideIs

\* The steps outside the message handlers.
LEMMA LifecycleTold ==
  ASSUME Facts, Facts', ToldInv, [Next]_vars,
         ApplyManifest1 \/ SenderRestart \/ QuietStop \/ Exit \/ Crash \/ Restart
  PROVE  ToldInv'
<1> USE DEF disk, env
<1>0. present' = present /\ content' = content
  BY DEF ApplyManifest1, SenderRestart, QuietStop, Exit, Crash, Restart
<1>w. \A k : Whole(k)' <=> Whole(k) BY <1>0 DEF Whole
<1>1. CASE ApplyManifest1 \/ QuietStop \/ Exit \/ Crash
  <2>1. /\ app' = app /\ dur' = dur /\ cmt' = cmt /\ queue' = queue /\ running' = running
        /\ floor' = floor
        /\ told' = told \/ told' = told \cup InSync
    BY <1>1 DEF ApplyManifest1, QuietStop, Exit, Crash
  <2>2. ToldIsWhole' BY <1>w, <2>1, InSyncIsWhole DEF ToldInv, ToldIsWhole, Whole
  <2>3. ToldFirst' /\ CommitLast' BY <1>0, <2>1, KeepsOrder
  <2>4. ReopenedSafe' /\ ClosedFresh' BY <1>0, <2>1, KeepsAppendSide
  <2> QED BY <2>2, <2>3, <2>4 DEF ToldInv
<1>2. CASE SenderRestart
  <2>1. /\ app' = app /\ dur' = dur /\ cmt' = cmt /\ queue' = queue /\ running' = running
        /\ floor' = FirstOutside(InSync)
        /\ told' = InSync
    BY <1>2 DEF SenderRestart
  <2>2. ToldIsWhole' BY <1>w, <2>1, InSyncIsWhole DEF ToldIsWhole, Whole
  <2>3. ToldFirst'
    <3>1. \A k \in present : k \in Files BY DEF Facts, TypeOK
    <3> QED BY <1>0, <2>1, <3>1, InSyncIsWhole DEF ToldInv, ToldFirst
  <2>4. CommitLast'
    <3>1. cmt.state # "none" => cmt.seq \in Files BY DEF Facts, VisibleInv, CommitPlaced
    <3> QED BY <1>0, <2>1, <3>1, InSyncIsWhole DEF ToldInv, CommitLast
  <2>5. ReopenedSafe'
    <3> SUFFICES ASSUME Reopened(app)' PROVE floor' = app'.file /\ FsyncsBelow(Size[app.file])'
      BY DEF ReopenedSafe
    <3>1. Reopened(app) BY <1>w, <2>1 DEF Reopened, Whole
    <3>2. app.file \in present /\ ~Whole(app.file)
      BY <3>1 DEF Facts, OffsetInv, Written, Reopened
    <3>3. FirstOutside(InSync) = app.file BY <3>2, FloorIsPartial
    <3>4. FsyncsBelow(Size[app.file]) BY <3>1 DEF ToldInv, ReopenedSafe
    <3> QED BY <2>1, <3>3, <3>4 DEF FsyncsBelow, Below
  <2>6. ClosedFresh'
    <3>1. \A k \in present : ~Whole(k) => FirstOutside(InSync) = k BY FloorIsPartial
    <3> QED BY <1>0, <1>w, <2>1, <3>1 DEF ToldInv, ClosedFresh, Whole
  <2> QED BY <2>2, <2>3, <2>4, <2>5, <2>6 DEF ToldInv
<1>3. CASE Restart
  <2>1. /\ app' = ClosedApp /\ dur' = FreshDur /\ cmt' = NoCommit /\ queue' = <<>>
        /\ running' = NoTask /\ told' = told
        /\ floor' \in {FirstOutside(told)} \cup {k \in told : floor <= k /\ present \subseteq 1..k}
    BY <1>3 DEF Restart
  <2>2. ToldIsWhole' BY <1>w, <2>1 DEF ToldInv, ToldIsWhole, Whole
  <2>3. ToldFirst' /\ CommitLast' BY <1>0, <2>1, KeepsOrder DEF NoCommit
  <2>4. ReopenedSafe' BY <2>1 DEF ReopenedSafe, Reopened, ClosedApp
  <2>5. ClosedFresh'
    <3>1. ASSUME NEW k \in present, ~Whole(k) PROVE floor' = k
      <4>1. FirstOutside(told) = k BY <3>1, FloorIsPartial
      <4>2. ASSUME NEW j \in told, present \subseteq 1..j PROVE FALSE
        <5>1. Whole(j) BY <4>2 DEF ToldInv, ToldIsWhole
        <5>2. j \in present /\ k # j /\ k \in 1..j BY <3>1, <4>2, <5>1 DEF Whole
        <5>3. k \in Nat /\ j \in Nat /\ j >= 1 BY <5>2 DEF Facts, TypeOK, Files
        <5>4. k \in 1..(j - 1) BY <5>2, <5>3
        <5>5. k \in told BY <5>2, <5>4 DEF ToldInv, ToldFirst
        <5> QED BY <3>1, <5>5 DEF ToldInv, ToldIsWhole
      <4> QED BY <2>1, <4>1, <4>2
    <3>2. running'.kind # "fsync" /\ \A j \in 1..Len(queue') : queue'[j].kind # "fsync"
      BY <2>1 DEF NoTask
    <3> QED BY <1>0, <1>w, <2>1, <3>1, <3>2 DEF ClosedFresh, Whole
  <2> QED BY <2>2, <2>3, <2>4, <2>5 DEF ToldInv
<1> QED BY <1>1, <1>2, <1>3

-----------------------------------------------------------------------------
(* The theorems.                                                            *)

\* A start on a directory that an earlier run of both nodes has left.
LEMMA InitTold == Init => ToldInv
<1> SUFFICES ASSUME Init PROVE ToldInv OBVIOUS
<1> USE SizeAssumption DEF Files
<1>1. PICK n \in 0..NFiles, m \in Nat : InitialDisk(n, m) /\ (m > 0 => n < NFiles)
  <2>1. PICK n \in 0..NFiles :
           \/ InitialDisk(n, 0)
           \/ n < NFiles /\ \E m \in 1..(Size[n + 1] - 1) : InitialDisk(n, m)
    BY DEF Init, Started
  <2>2. n < NFiles => Size[n + 1] \in Nat OBVIOUS
  <2> QED BY <2>1, <2>2
<1>2. n \in Nat /\ told = 1..n /\ floor = n + 1 BY <1>1 DEF InitialDisk
<1>3. \A k \in present : k \in 1..(n + 1) BY <1>1 DEF InitialDisk
<1>4. \A k \in 1..n : Whole(k)
  <2> SUFFICES ASSUME NEW k \in 1..n PROVE Whole(k) OBVIOUS
  <2>1. k \in Files /\ k <= n BY <1>2
  <2>2. k \in present BY <1>1, <2>1 DEF InitialDisk
  <2>3. content[k] = [i \in 1..Size[k] |-> i] BY <1>1, <2>1 DEF InitialDisk
  <2> QED BY <2>2, <2>3 DEF Whole
<1>5. ToldIsWhole BY <1>2, <1>4 DEF ToldIsWhole
<1>6. ToldFirst BY <1>2, <1>3 DEF ToldFirst
<1>7. CommitLast BY DEF Init, Started, NoCommit, CommitLast
<1>8. ReopenedSafe BY DEF Init, Started, ClosedApp, ReopenedSafe, Reopened
<1>9. ClosedFresh
  <2>1. \A k \in present : ~Whole(k) => floor = k
    <3> SUFFICES ASSUME NEW k \in present, ~Whole(k) PROVE floor = k OBVIOUS
    <3>1. k \in 1..(n + 1) /\ k \notin 1..n BY <1>3, <1>4
    <3> QED BY <1>2, <3>1
  <2> QED BY <2>1 DEF Init, Started, NoTask, ClosedFresh
<1> QED BY <1>5, <1>6, <1>7, <1>8, <1>9 DEF ToldInv

\* One step of the receiver and of its sender.
LEMMA NextTold ==
  ASSUME Facts, Facts', ToldInv, NotEarly, [Next]_vars
  PROVE  ToldInv'
<1>1. CASE UNCHANGED vars
  BY <1>1 DEF vars, disk, env, ToldInv, ToldIsWhole, ToldFirst, CommitLast, ReopenedSafe, Reopened,
              ClosedFresh, FsyncsBelow, Below, Whole
<1>2. CASE Message
  BY <1>2, CreateTold, DataTold, ChunkMessagesTold DEF Message
<1>3. CASE Poll BY <1>3, PollTold
<1>4. CASE Writer BY <1>4, WriterTold
<1>5. CASE ApplyManifest1 \/ SenderRestart \/ QuietStop \/ Exit \/ Crash \/ Restart
  BY <1>5, LifecycleTold
<1> QED BY <1>1, <1>2, <1>3, <1>4, <1>5 DEF Next

\* What the other modules prove is inductive by itself.
LEMMA InitFacts == Init => Facts
<1> SUFFICES ASSUME Init PROVE OffsetInv BY InitType, InitPrefix, InitVisible DEF Facts
<1> QED BY DEF Init, Started, ClosedApp, OffsetInv, Written, OffsetIsWritten

LEMMA NextFacts ==
  ASSUME Facts, ~BufferedWrite, [Next]_vars
  PROVE  Facts'
<1>0. TypeOK /\ PrefixInv /\ OneCommit /\ VisibleInv /\ OffsetInv BY DEF Facts
<1>1. TypeOK' BY <1>0, NextType
<1>2. PrefixInv' BY <1>0, <1>1, NextPrefix
<1>3. OneCommit' /\ VisibleInv' BY <1>0, NextOneCommit, NextVisible
<1>4. OffsetInv' BY <1>0, <1>1, <1>2, NextOffset
<1> QED BY <1>1, <1>2, <1>3, <1>4 DEF Facts

\* The inductive invariant of the two theorems.
LEMMA AlwaysTold ==
  ASSUME ~BufferedWrite, ~EarlyNext
  PROVE  Spec => [](Facts /\ ToldInv)
<1> DEFINE Inv == Facts /\ ToldInv
<1>1. Init => Inv BY InitFacts, InitTold
<1>2. Inv /\ [Next]_vars => Inv'
  <2> SUFFICES ASSUME Inv, [Next]_vars PROVE Inv' OBVIOUS
  <2>1. Facts' BY NextFacts
  <2>2. NotEarly BY DEF NotEarly, Sendable
  <2> QED BY <2>1, <2>2, NextTold
<1> QED BY <1>1, <1>2, PTL DEF Spec

\* What the sender takes for complete is whole on the receiver's disk, for every
\* run with any number of files, crashes, restarts, repeated messages and lost
\* heartbeats: no heartbeat and no manifest ever says more than the disk holds.
\* The hypotheses are that write errors are reported (BufferedWrite) and that
\* the sender waits for the heartbeat of a commit before it goes on (EarlyNext).
THEOREM ToldFilesAreWhole ==
  ASSUME ~BufferedWrite, ~EarlyNext
  PROVE  Spec => []ToldIsWhole
<1>1. Facts /\ ToldInv => ToldIsWhole BY DEF ToldInv
<1> QED BY <1>1, AlwaysTold, PTL

\* Under the same hypotheses, an entry becomes visible only when every earlier
\* one is visible and whole.
THEOREM VisibleInOrder ==
  ASSUME ~BufferedWrite, ~EarlyNext
  PROVE  Spec => []OrderedVisibility
<1>1. Facts /\ ToldInv => OrderedVisibility
  BY DEF ToldInv, ToldFirst, ToldIsWhole, OrderedVisibility
<1> QED BY <1>1, AlwaysTold, PTL

-----------------------------------------------------------------------------
(* What a composition with the sender relies on: heartbeats never complete  *)
(* a file that does not count as told.  Nothing here needs EarlyNext.       *)

\* The append receiver is past an entry of size 0 as soon as it names it.
EmptyPassed(a) == a.file \in Files /\ Size[a.file] = 0 => a.expected > a.file

\* An append receiver built from the directory, or refreshed from it.
LEMMA ScanPassed ==
  ASSUME Facts, EmptyPassed(app)
  PROVE  EmptyPassed(AppendReceiver) /\ EmptyPassed(RefreshApp(app))
<1>1. present \in SUBSET Files /\ app \in AppType BY DEF Facts, TypeOK
<1>2. ASSUME present # {}
      PROVE  Latest(present) < ScanNext(present) /\ Latest(present) \in Nat /\ ScanNext(present) \in Nat
  <2>1. Latest(present) \in present BY <1>1, <1>2, LatestIsNewest
  <2>2. present = 1..(ScanNext(present) - 1) BY <1>1, GaplessScan DEF Facts, VisibleInv
  <2>3. ScanNext(present) \in Nat BY <1>1, ScanNextType
  <2>4. Latest(present) \in 1..(ScanNext(present) - 1) BY <2>1, <2>2
  <2> QED BY <2>3, <2>4
<1>3. EmptyPassed(ResetSession)
  <2>1. CASE present = {} BY <2>1 DEF ResetSession, ClosedApp, EmptyPassed, Files
  <2>2. CASE present # {} BY <1>2, <2>2 DEF ResetSession, EmptyPassed
  <2> QED BY <2>1, <2>2
<1>4. EmptyPassed(RefreshApp(app))
  <2>1. CASE present = {} BY <1>1, <2>1 DEF RefreshApp, AppType, EmptyPassed, Files
  <2>2. CASE present # {}
    <3>1. /\ RefreshApp(app).file = Latest(present)
          /\ RefreshApp(app).expected = Larger(app.expected, ScanNext(present))
      BY <1>1, <2>2 DEF RefreshApp, AppType
    <3>2. app.expected \in Nat BY <1>1 DEF AppType
    <3> QED BY <1>2, <2>2, <3>1, <3>2 DEF Larger, EmptyPassed
  <2> QED BY <2>1, <2>2
<1> QED BY <1>3, <1>4 DEF AppendReceiver

Report == [next : Nat, file : 0..NFiles, offset : Nat, durable : Nat, chunks : SUBSET Nat]

\* A report completes no file that does not count as told; one about an entry
\* of size 0 always completes it.
Honest(h) ==
  /\ h \in Report
  /\ \A k \in Files : Completes(h, k) => k \in told
  /\ h.file \in Files /\ Size[h.file] = 0 => h.file \in told

\* Then it is enough to look at its fields.
LEMMA HonestReport ==
  ASSUME NEW h \in Report,
         told' = told \cup {k \in Files : \E x \in heartbeats' : Completes(x, k)},
         h \in heartbeats', h.file \in Files /\ Size[h.file] = 0 => h.next > h.file
  PROVE  Honest(h)'
<1>1. \A k \in Files : Completes(h, k) => k \in told' OBVIOUS
<1>2. ASSUME h.file \in Files, Size[h.file] = 0 PROVE h.file \in told'
  <2>1. h.durable \in Nat BY DEF Report
  <2>2. Completes(h, h.file) BY <1>2, <2>1 DEF Completes
  <2> QED BY <1>1, <1>2, <2>2
<1> QED BY <1>1, <1>2 DEF Honest, Completes, ChunkMode

\* What an append receiver reports.
LEMMA AppendReport ==
  ASSUME NEW a \in AppType, NEW d \in Nat, EmptyPassed(a)
  PROVE  /\ AppendHeartbeat(a, d) \in Report
         /\ LET h == AppendHeartbeat(a, d)
            IN  h.file \in Files /\ Size[h.file] = 0 => h.next > h.file
BY DEF AppendHeartbeat, Heartbeat, AppType, Report, EmptyPassed

\* CREATE and DATA.
LEMMA AppendMessagesHonest ==
  ASSUME Facts, EmptyPassed(app), NEW k \in Files,
         ApplyCreate(k) \/ \E o \in 0..(Size[k] - 1) : ApplyData(k, o)
  PROVE  /\ told \subseteq told'
         /\ EmptyPassed(app')
         /\ \A h \in heartbeats' : Honest(h)'
<1>b. PICK b : b = AppendReceiver OBVIOUS
<1>a. b \in AppType /\ EmptyPassed(b) BY <1>b, ReceiverTypes, ScanPassed DEF Facts
<1>k. k \in Nat /\ Size[k] \in Nat BY SizeAssumption DEF Files
<1>1. ASSUME NEW a \in AppType, EmptyPassed(a), NEW d \in Nat, app' = a,
             Emit({AppendHeartbeat(a, d)})
      PROVE  /\ told \subseteq told'
             /\ EmptyPassed(app')
             /\ \A h \in heartbeats' : Honest(h)'
  BY <1>1, AppendReport, HonestReport DEF Emit
<1>2. ASSUME app' = b, told' = told, heartbeats' = {}
      PROVE  /\ told \subseteq told'
             /\ EmptyPassed(app')
             /\ \A h \in heartbeats' : Honest(h)'
  BY <1>2, <1>a
<1>3. CASE ApplyCreate(k)
  <2>1. ASSUME NEW a \in AppType, EmptyPassed(a), NEW p, CreateAccepted(k, a, p)
        PROVE  /\ told \subseteq told'
               /\ EmptyPassed(app')
               /\ \A h \in heartbeats' : Honest(h)'
    BY <1>1, <2>1 DEF CreateAccepted, AppType
  <2>2. CASE CreateNew(k)
    <3> DEFINE e == IF Size[k] = 0 THEN k + 1 ELSE k
               a == [b EXCEPT !.file = k, !.offset = 0, !.final = Size[k], !.expected = e]
    <3>1. CreateAccepted(k, a, present \cup {k}) BY <1>b, <2>2 DEF CreateNew
    <3>2. e \in Nat BY <1>k
    <3>3. k \in 0..NFiles BY SizeAssumption DEF Files
    <3>4. a \in AppType BY <1>a, <1>k, <3>2, <3>3, AppUpdate, ZeroFile
    <3>5. a.file = k /\ a.expected = e BY <1>a, <3>4 DEF AppType
    <3>6. EmptyPassed(a) BY <1>k, <3>5 DEF EmptyPassed
    <3> HIDE DEF a
    <3> QED BY <2>1, <3>1, <3>4, <3>6
  <2>3. CASE CreateStale(k) BY <1>a, <1>b, <2>1, <2>3 DEF CreateStale
  <2>4. CASE CreateRejected(k) \/ CreateFails(k)
    BY <1>2, <1>b, <2>4 DEF CreateRejected, CreateFails, Reject
  <2> QED BY <1>3, <2>2, <2>3, <2>4 DEF ApplyCreate
<1>4. ASSUME NEW o \in 0..(Size[k] - 1), ApplyData(k, o)
      PROVE  /\ told \subseteq told'
             /\ EmptyPassed(app')
             /\ \A h \in heartbeats' : Honest(h)'
  <2>1. ASSUME NEW a \in AppType, EmptyPassed(a), DataAccepted(k, o, a)
        PROVE  /\ told \subseteq told'
               /\ EmptyPassed(app')
               /\ \A h \in heartbeats' : Honest(h)'
    <3>1. ResetDurable([dur EXCEPT !.line = TRUE], k, a.file, o).offset \in Nat
      BY <2>1, DataAcceptedAdds DEF Facts, DurType
    <3> QED BY <1>1, <2>1, <3>1 DEF DataAccepted
  <2>2. CASE DataIgnored(k, o) BY <1>a, <1>b, <2>1, <2>2 DEF DataIgnored
  <2>3. CASE DataRejected(k, o) \/ \E m \in 0..Block : DataTorn(k, o, m)
    BY <1>2, <1>b, <2>3 DEF DataRejected, DataTorn, Reject
  <2>4. ASSUME NEW m \in 0..Block, DataAppended(k, o, m)
        PROVE  /\ told \subseteq told'
               /\ EmptyPassed(app')
               /\ \A h \in heartbeats' : Honest(h)'
    <3>0. PICK a : a = AfterData(k, o) OBVIOUS
    <3>1. DataAccepted(k, o, a) BY <2>4, <3>0 DEF DataAppended, AfterData
    <3>2. a \in AppType /\ a.file = b.file /\ a.expected >= b.expected
      <4>1. /\ a \in AppType
            /\ a.file = b.file
            /\ a.expected = b.expected \/ a.expected = Larger(b.expected, k + 1)
        BY <1>b, <3>0, AfterDataFields DEF Facts
      <4>2. b.expected \in Nat BY <1>a DEF AppType
      <4> QED BY <1>k, <4>1, <4>2 DEF Larger
    <3>3. EmptyPassed(a)
      <4>1. a.expected \in Nat /\ b.expected \in Nat BY <1>a, <3>2 DEF AppType
      <4>2. a.file \in Files => a.file \in Nat BY DEF Files
      <4> QED BY <1>a, <3>2, <4>1, <4>2 DEF EmptyPassed
    <3> QED BY <2>1, <3>1, <3>2, <3>3
  <2> QED BY <1>4, <2>2, <2>3, <2>4 DEF ApplyData
<1> QED BY <1>3, <1>4

\* FILE_BEGIN, CHUNK and FILE_COMMIT: their reports are about a chunk file.
LEMMA ChunkMessagesHonest ==
  ASSUME Facts, EmptyPassed(app), NEW k \in Files,
         ApplyBegin(k) \/ (\E i \in ChunksOf(k) : ApplyChunk(k, i)) \/ ApplyCommit(k)
  PROVE  /\ told \subseteq told'
         /\ EmptyPassed(app')
         /\ \A h \in heartbeats' : Honest(h)'
<1>0. app' = app /\ ChunkMode(k) BY DEF ApplyBegin, ApplyChunk, ApplyCommit
<1> SUFFICES told \subseteq told' /\ \A h \in heartbeats' : Honest(h)' BY <1>0
<1>1. Size[k] # 0 BY <1>0, SizeAssumption DEF ChunkMode
<1>2. ChunkReceiver.expected \in Nat BY ReceiverTypes DEF Facts, ChkType
<1>3. k \in 0..NFiles /\ Size[k] \in Nat BY SizeAssumption DEF Files
<1>4. ASSUME NEW n \in Nat, NEW is \in SUBSET Nat,
             Emit({Heartbeat(ChunkReceiver.expected, k, n, n, is)})
      PROVE  told \subseteq told' /\ \A h \in heartbeats' : Honest(h)'
  <2> DEFINE x == Heartbeat(ChunkReceiver.expected, k, n, n, is)
  <2>1. x \in Report /\ x.file = k BY <1>2, <1>3 DEF Heartbeat, Report
  <2>2. /\ heartbeats' = {x}
        /\ told' = told \cup {j \in Files : \E h \in heartbeats' : Completes(h, j)}
    BY <1>4 DEF Emit
  <2> HIDE DEF x
  <2> QED BY <1>1, <2>1, <2>2, HonestReport
<1>5. ASSUME told' = told, heartbeats' = {}
      PROVE  told \subseteq told' /\ \A h \in heartbeats' : Honest(h)'
  BY <1>5
<1>6. ASSUME Silent PROVE told \subseteq told' /\ \A h \in heartbeats' : Honest(h)'
  BY <1>6 DEF Silent, Emit
<1>7. CASE ApplyBegin(k)
  <2>1. CASE BeginAccepted(k) BY <1>4, <2>1, ZeroFile DEF BeginAccepted
  <2>2. CASE BeginRejected(k) BY <1>5, <2>2 DEF BeginRejected, ChunkRefused, Reject
  <2> QED BY <1>0, <1>7, <2>1, <2>2 DEF ApplyBegin
<1>8. ASSUME NEW i \in ChunksOf(k), ApplyChunk(k, i)
      PROVE  told \subseteq told' /\ \A h \in heartbeats' : Honest(h)'
  <2>1. CASE ChunkRejected(k, i) BY <1>5, <2>1 DEF ChunkRejected, ChunkRefused, Reject
  <2>2. ASSUME NEW stored \in BOOLEAN, ChunkAccepted(k, i, stored)
        PROVE  told \subseteq told' /\ \A h \in heartbeats' : Honest(h)'
    <3>1. {i} \in SUBSET Nat BY <1>3 DEF ChunksOf
    <3>2. Emit({Heartbeat(ChunkReceiver.expected, k, 0, 0, {i})}) BY <2>2 DEF ChunkAccepted
    <3> QED BY <1>4, <3>1, <3>2, ZeroFile
  <2> QED BY <1>8, <2>1, <2>2 DEF ApplyChunk
<1>9. CASE ApplyCommit(k)
  <2>1. CASE CommitStale(k)
    <3> DEFINE n == IF k \in present THEN Len(content[k]) ELSE 0
    <3>1. n \in Nat BY DEF Facts, TypeOK
    <3>2. Emit({Heartbeat(ChunkReceiver.expected, k, n, n, {})}) BY <2>1 DEF CommitStale
    <3> HIDE DEF n
    <3> QED BY <1>4, <3>1, <3>2
  <2>2. CASE CommitWhileQueued(k) \/ CommitQueued(k) \/ CommitRejected(k)
    BY <1>5, <1>6, <2>2 DEF CommitWhileQueued, CommitQueued, CommitRejected, Reject
  <2> QED BY <1>9, <2>1, <2>2 DEF ApplyCommit
<1> QED BY <1>0, <1>7, <1>8, <1>9

\* The heartbeats of poll_completions.
LEMMA PollReports ==
  ASSUME Facts, EmptyPassed(app)
  PROVE  /\ \A h \in FsyncHeartbeats : /\ h \in Report
                                       /\ h.file \in Files /\ Size[h.file] = 0 => h.next > h.file
         /\ cmt.state = "done" => /\ CommitHeartbeat \in Report
                                  /\ CommitHeartbeat.file \in Files
                                  /\ Size[CommitHeartbeat.file] # 0
<1>1. dur.completed \in Nat /\ app \in AppType BY DEF Facts, TypeOK, DurType
<1>2. \A h \in FsyncHeartbeats : /\ h \in Report
                                 /\ h.file \in Files /\ Size[h.file] = 0 => h.next > h.file
  BY <1>1, AppendReport DEF FsyncHeartbeats
<1>3. ASSUME cmt.state = "done"
      PROVE  /\ CommitHeartbeat \in Report
             /\ CommitHeartbeat.file \in Files
             /\ Size[CommitHeartbeat.file] # 0
  <2>1. cmt.seq \in Files /\ ChunkMode(cmt.seq) BY <1>3 DEF Facts, VisibleInv, CommitPlaced
  <2>2. Size[cmt.seq] \in Nat /\ Size[cmt.seq] # 0 BY <2>1, SizeAssumption DEF ChunkMode
  <2>3. FinishCommit.expected = Larger(chk.expected, cmt.seq + 1)
    BY DEF FinishCommit, Facts, TypeOK, ChkType
  <2>4. FinishCommit.expected \in Nat
    BY <2>1, <2>3 DEF Larger, Facts, TypeOK, ChkType, Files
  <2>5. cmt.seq \in 0..NFiles BY <2>1, SizeAssumption DEF Files
  <2> QED BY <2>1, <2>2, <2>4, <2>5 DEF CommitHeartbeat, Heartbeat, Report
<1> QED BY <1>2, <1>3

\* Every heartbeat of a poll that finds no failed fsync is sent and counts.
LEMMA PollHonest ==
  ASSUME Facts, EmptyPassed(app), ~dur.failed, Poll
  PROVE  /\ told \subseteq told'
         /\ EmptyPassed(app')
         /\ \A h \in FsyncHeartbeats : Honest(h)'
         /\ cmt.state = "done" => \A h \in {CommitHeartbeat} : Honest(h)'
<1>1. /\ told' = told \cup {k \in Files : \E h \in heartbeats' : Completes(h, k)}
      /\ FsyncHeartbeats \subseteq heartbeats'
      /\ cmt.state = "done" => CommitHeartbeat \in heartbeats'
  <2>1. CASE PollIdle BY <2>1 DEF PollIdle, Emit
  <2>2. CASE PollCommitDone BY <2>2 DEF PollCommitDone, Emit
  <2>3. CASE PollFailure BY <2>3 DEF PollFailure
  <2> QED BY <2>1, <2>2, <2>3 DEF Poll
<1>2. EmptyPassed(app')
  <2>1. app' = app \/ app' = RefreshApp(app) BY DEF Poll, PollIdle, PollCommitDone, PollFailure
  <2> QED BY <2>1, ScanPassed
<1>3. ASSUME NEW h \in FsyncHeartbeats PROVE Honest(h)'
  BY <1>1, PollReports, HonestReport
<1>4. ASSUME cmt.state = "done", NEW h \in {CommitHeartbeat} PROVE Honest(h)'
  <2>1. h \in Report /\ Size[h.file] # 0 /\ h \in heartbeats' BY <1>1, <1>4, PollReports
  <2> QED BY <1>1, <2>1, HonestReport
<1> QED BY <1>1, <1>2, <1>3, <1>4

\* A failed fsync needs a fault.
LEMMA NoFsyncFails ==
  ASSUME TypeOK, MaxFaults = 0, ~dur.failed, Message \/ Poll \/ Writer \/ ApplyManifest1 \/ Exit
  PROVE  ~dur'.failed
<1>d. dur \in DurType /\ ~(faults < MaxFaults) BY DEF TypeOK
<1>e. ASSUME NEW d \in DurType, ~d.failed
      PROVE  \A t : ~EnqueueFsync(d, t).failed
  <2> SUFFICES ASSUME NEW t PROVE ~EnqueueFsync(d, t).failed OBVIOUS
  <2>1. FsyncTarget(d, t).failed = d.failed /\ DOMAIN FsyncTarget(d, t) = DOMAIN d
    BY DEF FsyncTarget, DurType
  <2> QED BY <1>e, <2>1 DEF EnqueueFsync, DurType
<1>1. ASSUME NEW k \in Files, ApplyCreate(k) PROVE ~dur'.failed
  BY <1>1, <1>d DEF ApplyCreate, CreateNew, CreateStale, CreateRejected, CreateFails, CreateAccepted,
                    ResetDurable, DurType
<1>2. ASSUME NEW k \in Files, NEW o \in 0..(Size[k] - 1), ApplyData(k, o) PROVE ~dur'.failed
  <2>1. ASSUME NEW a \in AppType, DataAccepted(k, o, a) PROVE ~dur'.failed
    <3> DEFINE d == ResetDurable([dur EXCEPT !.line = TRUE], k, a.file, o)
    <3>1. d \in DurType BY <2>1, DataAcceptedAdds
    <3>2. ~d.failed BY <1>d DEF ResetDurable, DurType
    <3>3. dur' = EnqueueFsync(d, a.offset) BY <2>1 DEF DataAccepted
    <3> HIDE DEF d
    <3> QED BY <1>e, <3>1, <3>2, <3>3
  <2>2. AppendReceiver \in AppType /\ AfterData(k, o) \in AppType
    BY ReceiverTypes, AfterDataFields
  <2>3. CASE DataIgnored(k, o) BY <2>1, <2>2, <2>3 DEF DataIgnored
  <2>4. CASE DataRejected(k, o) \/ \E m \in 0..Block : DataTorn(k, o, m)
    BY <2>4 DEF DataRejected, DataTorn
  <2>5. ASSUME NEW m \in 0..Block, DataAppended(k, o, m) PROVE ~dur'.failed
    BY <2>1, <2>2, <2>5 DEF DataAppended, AfterData
  <2> QED BY <1>2, <2>3, <2>4, <2>5 DEF ApplyData
<1>3. ASSUME NEW k \in Files,
             ApplyBegin(k) \/ (\E i \in ChunksOf(k) : ApplyChunk(k, i)) \/ ApplyCommit(k)
      PROVE  ~dur'.failed
  BY <1>3 DEF ApplyBegin, ApplyChunk, ApplyCommit
<1>4. CASE Poll
  <2>1. Harvest(dur) \in DurType /\ ~Harvest(dur).failed
    BY <1>d, ZeroFile DEF Harvest, DurType, Larger
  <2>2. PollFsync => ~dur'.failed BY <1>e, <2>1 DEF PollFsync
  <2> QED BY <1>4, <2>2 DEF Poll, PollIdle, PollCommitDone, PollFailure
<1>5. CASE Writer
  <2>1. CASE WriterTake \/ WriterRename \/ WriterCommitSync
    BY <2>1 DEF WriterTake, WriterRename, WriterCommitSync
  <2>2. CASE WriterFsync BY <1>d, <2>2 DEF WriterFsync, DurType
  <2>3. CASE WriterFails BY <1>d, <2>3 DEF WriterFails
  <2> QED BY <1>5, <2>1, <2>2, <2>3 DEF Writer
<1>6. CASE ApplyManifest1 \/ Exit BY <1>6 DEF ApplyManifest1, Exit
<1> QED BY <1>1, <1>2, <1>3, <1>4, <1>5, <1>6 DEF Message

\* What is in sync stays in sync.
LEMMA InSyncGrows ==
  ASSUME TypeOK, [Next]_vars
  PROVE  InSync \subseteq InSync'
<1>1. ASSUME NEW j \in Files, j \in present, Len(content[j]) = Size[j]
      PROVE  j \in present' /\ Len(content'[j]) = Size[j]
  <2>1. DirectoryStep BY StepsTouchDirectory
  <2>2. ASSUME NEW k \in Files, Creates(k) \/ Renames(k)
        PROVE  j \in present' /\ content'[j] = content[j]
    BY <1>1, <2>2 DEF Creates, Renames, TypeOK
  <2>3. ASSUME NEW k \in Files, NEW m \in Nat, Appends(k, m), k # j
        PROVE  j \in present' /\ content'[j] = content[j]
    BY <1>1, <2>3 DEF Appends, TypeOK
  <2>4. ASSUME NEW m \in Nat, Appends(j, m)
        PROVE  j \in present' /\ Len(content'[j]) = Size[j]
    <3>1. Len(content'[j]) = Len(content[j]) + m BY <2>4, AppendedFile
    <3>2. Len(content[j]) + m <= Size[j] /\ j \in present' BY <1>1, <2>4 DEF Appends
    <3>3. Size[j] \in Nat BY SizeAssumption
    <3> QED BY <1>1, <3>1, <3>2, <3>3
  <2> QED BY <1>1, <2>1, <2>2, <2>3, <2>4 DEF DirectoryStep
<1> SUFFICES ASSUME NEW k \in InSync, NEW j \in 1..k
             PROVE  j \in present' /\ Len(content'[j]) = Size[j]
  BY DEF InSync
<1>2. k \in Files /\ j \in Files BY SizeAssumption DEF InSync, Files
<1> QED BY <1>1, <1>2 DEF InSync

\* What a composition keeps of the receiver, and what a step of the receiver
\* does to it.
Composed == Facts /\ EmptyPassed(app) /\ ~dur.failed

LEMMA ComposedStep ==
  ASSUME Composed, ~BufferedWrite, MaxFaults = 0,
         Message \/ Poll \/ Writer \/ ApplyManifest1 \/ Exit
  PROVE  /\ Composed'
         /\ told \subseteq told'
         /\ InSync \subseteq InSync'
         /\ floor' = floor
         /\ Message => \A h \in heartbeats' : Honest(h)'
<1> USE DEF disk, env
<1>0. Facts /\ TypeOK /\ EmptyPassed(app) /\ ~dur.failed BY DEF Composed, Facts
<1>1. [Next]_vars BY DEF Next
<1>2. Facts' /\ InSync \subseteq InSync' /\ ~dur'.failed
  BY <1>0, <1>1, NextFacts, InSyncGrows, NoFsyncFails
<1>3. /\ told \subseteq told'
      /\ EmptyPassed(app')
      /\ Message => \A h \in heartbeats' : Honest(h)'
  <2>1. CASE Message
    BY <1>0, <2>1, AppendMessagesHonest, ChunkMessagesHonest DEF Message
  <2>2. CASE Poll /\ ~Message BY <1>0, <2>2, PollHonest
  <2>3. CASE (Writer \/ ApplyManifest1 \/ Exit) /\ ~Message
    <3>1. app' = app /\ told \subseteq told'
      BY <2>3 DEF Writer, WriterTake, WriterFsync, WriterRename, WriterCommitSync, WriterFails,
                  LoopIdle, ApplyManifest1, Exit
    <3> QED BY <1>0, <2>3, <3>1
  <2> QED BY <2>1, <2>2, <2>3
<1>4. floor' = floor
  <2>1. ASSUME NEW k \in Files, ApplyCreate(k) PROVE floor' = floor
    BY <2>1 DEF ApplyCreate, CreateNew, CreateStale, CreateRejected, CreateFails, CreateAccepted
  <2>2. ASSUME NEW k \in Files, NEW o, ApplyData(k, o) PROVE floor' = floor
    BY <2>2 DEF ApplyData, DataIgnored, DataRejected, DataAppended, DataTorn, DataAccepted
  <2> QED BY <2>1, <2>2 DEF Message, ApplyBegin, ApplyChunk, ApplyCommit, Poll, Writer, WriterTake,
             WriterFsync, WriterRename, WriterCommitSync, WriterFails, LoopIdle, ApplyManifest1, Exit
<1>5. EmptyPassed(app)' BY <1>3 DEF EmptyPassed
<1> QED BY <1>2, <1>3, <1>4, <1>5 DEF Composed

\* A step of the others: the receiver's outputs belong to the step that made
\* them, and its event loop may end.
Idles ==
  /\ heartbeats' = {}
  /\ nack' = "none"
  /\ proc' \in {"up", "stopping", "down"}
  /\ UNCHANGED <<disk, app, chk, dur, cmt, queue, running, quiet, told, env>>

LEMMA ComposedIdle ==
  ASSUME Composed, Idles
  PROVE  /\ Composed'
         /\ ToldInv => ToldInv'
         /\ InSync' = InSync
<1> USE DEF Idles, disk, env
<1>w. \A k : Whole(k)' <=> Whole(k) BY DEF Whole
<1>1. TypeOK' BY DEF Composed, Facts, TypeOK, Reasons
<1>2. PrefixInv' BY DEF Composed, Facts, PrefixInv, VisibleIsPrefix, Whole
<1>3. OneCommit' BY DEF Composed, Facts, OneCommit, Committing
<1>4. VisibleInv'
  BY DEF Composed, Facts, VisibleInv, Gapless, CommitPlaced, ExpectedVisible, NextSeqVisible
<1>5. OffsetInv' BY DEF Composed, Facts, OffsetInv, Written, OffsetIsWritten
<1>6. Composed' BY <1>1, <1>2, <1>3, <1>4, <1>5 DEF Composed, Facts, EmptyPassed
<1>7. ToldInv => ToldInv'
  BY DEF ToldInv, ToldIsWhole, ToldFirst, CommitLast, ReopenedSafe, Reopened,
         ClosedFresh, FsyncsBelow, Below, Whole
<1>8. InSync' = InSync BY DEF InSync
<1> QED BY <1>6, <1>7, <1>8

\* The directory that a manifest shows: the entries before the first one that
\* is not in sync, and what diff_stream says of that one.
LEMMA DiffStream ==
  ASSUME Facts
  PROVE  LET k == FirstOutside(InSync)
         IN  /\ k \in 1..(NFiles + 1)
             /\ 1..(k - 1) \subseteq InSync
             /\ k \notin InSync
             /\ k \in present => ~ChunkMode(k)
<1> DEFINE k == FirstOutside(InSync)
<1>1. InSync \in SUBSET Files BY DEF InSync
<1>2. k \in 1..(NFiles + 1) /\ 1..(k - 1) \subseteq InSync /\ k \notin InSync
  BY <1>1, FirstOutsideType
<1> HIDE DEF k
<1>3. ASSUME k \in present, ChunkMode(k) PROVE FALSE
  <2>1. k \in Files BY <1>3 DEF Facts, TypeOK
  <2>2. Len(content[k]) = Size[k]
    BY <1>3, WholeIsLength DEF Facts, PrefixInv, VisibleIsPrefix
  <2>3. ASSUME NEW j \in 1..k PROVE j \in present /\ Len(content[j]) = Size[j]
    <3>1. CASE j = k BY <1>3, <2>2, <3>1
    <3>2. CASE j # k
      <4>1. j \in 1..(k - 1) /\ j \in 1..j BY <1>2, <3>2
      <4> QED BY <1>2, <4>1 DEF InSync
    <3> QED BY <3>1, <3>2
  <2> QED BY <1>2, <2>1, <2>3 DEF InSync
<1> QED BY <1>2, <1>3 DEF k

\* Only CREATE and the writer's rename make an entry visible.
LEMMA AppearingStep ==
  ASSUME TypeOK, [Next]_vars
  PROVE  present' = present \/ content' = content \/ WriterRename
<1> USE DEF disk
<1>1. CASE UNCHANGED vars BY <1>1 DEF vars
<1>2. ASSUME NEW k \in Files, ApplyCreate(k) PROVE content' = content
  BY <1>2 DEF ApplyCreate, CreateNew, CreateStale, CreateRejected, CreateFails, CreateAccepted
<1>3. ASSUME NEW k \in Files, NEW o, ApplyData(k, o) PROVE present' = present
  BY <1>3 DEF ApplyData, DataIgnored, DataRejected, DataAppended, DataTorn, DataAccepted
<1>4. ASSUME NEW k \in Files,
             ApplyBegin(k) \/ (\E i \in ChunksOf(k) : ApplyChunk(k, i)) \/ ApplyCommit(k)
      PROVE  present' = present
  BY <1>4 DEF ApplyBegin, ApplyChunk, ApplyCommit
<1>5. CASE Poll BY <1>5 DEF Poll
<1>6. CASE Writer BY <1>6 DEF Writer, WriterTake, WriterFsync, WriterCommitSync, WriterFails
<1>7. CASE ApplyManifest1 \/ SenderRestart \/ QuietStop \/ Exit \/ Crash \/ Restart
  BY <1>7 DEF ApplyManifest1, SenderRestart, QuietStop, Exit, Crash, Restart
<1> QED BY <1>1, <1>2, <1>3, <1>4, <1>5, <1>6, <1>7 DEF Next, Message

\* A reader of the directory sees nothing, one more entry after whole ones, or
\* a CREATE/DATA file grow.
SameLengths(S) == \A j \in S : Len(content'[j]) = Len(content[j])

VisibleStep ==
  \/ present' = present /\ SameLengths(present)
  \/ \E k \in Files : /\ k \notin present
                      /\ present' = present \cup {k}
                      /\ \A j \in 1..(k - 1) : Whole(j)
                      /\ Len(content'[k]) = IF ChunkMode(k) THEN Size[k] ELSE 0
                      /\ SameLengths(present)
  \/ \E k \in present : /\ ~ChunkMode(k)
                        /\ present' = present
                        /\ Len(content'[k]) \in (Len(content[k]) + 1)..Size[k]
                        /\ SameLengths(present \ {k})

LEMMA StepsAreOrdered ==
  ASSUME Facts, Facts', ToldInv', [Next]_vars
  PROVE  VisibleStep
<1>t. TypeOK /\ TypeOK' /\ present \subseteq Files /\ PrefixInv BY DEF Facts, TypeOK
<1>s. \A k \in Files : /\ Size[k] \in Nat
                       /\ Len(content[k]) \in Nat
                       /\ content \in [Files -> Seq(Nat)]
  BY <1>t, SizeAssumption DEF TypeOK
<1>1. DirectoryStep BY <1>t, StepsTouchDirectory
<1>2. ASSUME NEW k \in Files, k \notin present, present' = present \cup {k}, SameLengths(present),
             \A j \in Files : j # k => content'[j] = content[j],
             Len(content'[k]) = IF ChunkMode(k) THEN Size[k] ELSE 0
      PROVE  VisibleStep
  <2>1. ASSUME NEW j \in 1..(k - 1) PROVE Whole(j)
    <3>1. j \in told' BY <1>2 DEF ToldInv, ToldFirst
    <3>2. Whole(j)' BY <3>1 DEF ToldInv, ToldIsWhole
    <3>3. j # k /\ j \in Files BY SizeAssumption DEF Files
    <3> QED BY <1>2, <3>2, <3>3 DEF Whole
  <2> QED BY <1>2, <2>1 DEF VisibleStep
<1>3. CASE present' = present /\ content' = content BY <1>3 DEF VisibleStep, SameLengths
<1>4. ASSUME NEW k \in Files, Creates(k) PROVE VisibleStep
  <2>1. content[k] = <<>> BY <1>4, <1>t DEF Creates, PrefixInv
  <2>2. Len(content'[k]) = 0 BY <1>4, <2>1 DEF Creates
  <2> QED BY <1>2, <1>4, <2>2 DEF Creates, SameLengths
<1>5. ASSUME NEW k \in Files, Renames(k) PROVE VisibleStep
  <2>1. content'[k] = [i \in 1..Size[k] |-> i] /\ Len(content'[k]) = Size[k]
    BY <1>5, <1>s DEF Renames
  <2>2. \A j \in Files : j # k => content'[j] = content[j] BY <1>5, <1>s DEF Renames
  <2>3. SameLengths(present) BY <1>5, <1>t, <2>2 DEF SameLengths, Renames
  <2>4. ASSUME ~ChunkMode(k) PROVE Size[k] = 0
    <3>1. CASE content' = content
      <4>1. content[k] = <<>> BY <1>5, <1>t DEF Renames, PrefixInv
      <4> QED BY <2>1, <3>1, <4>1
    <3>2. CASE WriterRename
      <4>1. running.kind = "commit" /\ present' = present \cup {running.file}
        BY <3>2 DEF WriterRename
      <4>2. k = running.file BY <1>5, <4>1 DEF Renames
      <4>3. cmt.state = "queued" /\ cmt.seq = k BY <4>1, <4>2 DEF Facts, OneCommit, Committing
      <4> QED BY <2>4, <4>3 DEF Facts, VisibleInv, CommitPlaced
    <3>3. present' # present BY <1>5 DEF Renames
    <3> QED BY <1>t, <3>1, <3>2, <3>3, AppearingStep
  <2>5. Len(content'[k]) = IF ChunkMode(k) THEN Size[k] ELSE 0 BY <2>1, <2>4
  <2> QED BY <1>2, <1>5, <2>2, <2>3, <2>5 DEF Renames
<1>6. ASSUME NEW k \in Files, NEW m \in Nat, Appends(k, m) PROVE VisibleStep
  <2>1. Len(content'[k]) = Len(content[k]) + m BY <1>6, <1>t, AppendedFile
  <2>2. \A j \in Files : j # k => content'[j] = content[j] BY <1>6, <1>s DEF Appends
  <2>3. k \in present /\ ~ChunkMode(k) /\ Len(content[k]) + m <= Size[k] /\ present' = present
    BY <1>6 DEF Appends
  <2>4. SameLengths(present \ {k}) BY <1>t, <2>2 DEF SameLengths
  <2>5. CASE m = 0
    <3>1. SameLengths(present) BY <1>s, <2>1, <2>4, <2>5 DEF SameLengths
    <3> QED BY <2>3, <3>1 DEF VisibleStep
  <2>6. CASE m # 0
    <3>1. Len(content'[k]) \in (Len(content[k]) + 1)..Size[k] BY <1>s, <2>1, <2>3, <2>6
    <3> QED BY <2>3, <2>4, <3>1 DEF VisibleStep
  <2> QED BY <2>5, <2>6
<1> QED BY <1>1, <1>3, <1>4, <1>5, <1>6 DEF DirectoryStep

\* A start on a directory that an earlier run has left: the files before the
\* first message are in sync.
LEMMA InitComposed ==
  ASSUME Init
  PROVE  Composed /\ 1..(floor - 1) \subseteq InSync /\ told \subseteq InSync
<1> USE SizeAssumption DEF Files
<1>1. Composed
  BY InitFacts DEF Composed, EmptyPassed, Init, Started, ClosedApp, FreshDur
<1>2. PICK n \in 0..NFiles, m \in Nat : InitialDisk(n, m)
  <2>1. PICK n \in 0..NFiles :
           \/ InitialDisk(n, 0)
           \/ n < NFiles /\ \E m \in 1..(Size[n + 1] - 1) : InitialDisk(n, m)
    BY DEF Init, Started
  <2>2. n < NFiles => Size[n + 1] \in Nat OBVIOUS
  <2> QED BY <2>1, <2>2
<1>3. floor = n + 1 /\ told = 1..n BY <1>2 DEF InitialDisk
<1>4. ASSUME NEW j \in 1..n PROVE j \in present /\ Len(content[j]) = Size[j]
  <2>1. j \in Files /\ j <= n /\ Size[j] \in Nat OBVIOUS
  <2>2. j \in present BY <1>2, <2>1 DEF InitialDisk
  <2>3. content[j] = [i \in 1..Size[j] |-> i] BY <1>2, <2>1 DEF InitialDisk
  <2> QED BY <2>1, <2>2, <2>3
<1>5. 1..n \subseteq InSync BY <1>4 DEF InSync
<1> QED BY <1>1, <1>3, <1>5

\* A start on a directory in which some CREATE/DATA files G lack their last byte.
LEMMA BehindComposed ==
  ASSUME NEW G \in SUBSET Files, \A k \in G : Size[k] > 0 /\ ~ChunkMode(k),
         present = Files,
         content = [k \in Files |-> [i \in 1..(IF k \in G THEN Size[k] - 1 ELSE Size[k]) |-> i]],
         told = InSync, floor = FirstOutside(InSync), Started
  PROVE  Composed /\ 1..(floor - 1) \subseteq InSync /\ told \subseteq InSync
<1> USE SizeAssumption
<1> DEFINE N(k) == IF k \in G THEN Size[k] - 1 ELSE Size[k]
<1>1. ASSUME NEW k \in Files
      PROVE  /\ N(k) \in Nat /\ N(k) <= Size[k]
             /\ content[k] = [i \in 1..N(k) |-> i]
             /\ content[k] \in Seq(Nat) /\ Len(content[k]) = N(k)
             /\ ChunkMode(k) => N(k) = Size[k]
  <2>1. N(k) \in Nat /\ N(k) <= Size[k] OBVIOUS
  <2>2. content[k] = [i \in 1..N(k) |-> i] OBVIOUS
  <2> HIDE DEF N
  <2>3. content[k] \in Seq(Nat) /\ Len(content[k]) = N(k) BY <2>1, <2>2
  <2> QED BY <2>1, <2>2, <2>3 DEF N
<1>2. InSync \in SUBSET Files BY DEF InSync
<1>3. floor \in 1..(NFiles + 1) /\ 1..(floor - 1) \subseteq InSync BY <1>2, FirstOutsideType
<1> HIDE DEF N
<1>4. TypeOK
  <2>1. content \in [Files -> Seq(Nat)] BY <1>1
  <2>2. temp \in [Files -> SUBSET Nat] BY DEF Started
  <2>3. synced \in [Files -> Nat] BY <2>1 DEF Started
  <2>4. app \in AppType BY ZeroFile DEF Started, ClosedApp, AppType
  <2>5. chk \in ChkType BY ZeroFile DEF Started, ClosedChk, ChkType
  <2>6. dur \in DurType BY ZeroFile DEF Started, FreshDur, DurType
  <2>7. cmt \in CmtType BY ZeroFile DEF Started, NoCommit, CmtType
  <2>8. queue \in Seq(Task) /\ Len(queue) <= QueueCap BY DEF Started
  <2>9. nack \in Reasons BY DEF Started, Reasons
  <2>10. crashes \in Nat /\ faults \in Nat BY DEF Started
  <2> QED BY <1>2, <1>3, <2>1, <2>2, <2>3, <2>4, <2>5, <2>6, <2>7, <2>8, <2>9, <2>10
          DEF Started, TypeOK
<1>5. PrefixInv
  <2>1. ASSUME NEW k \in present
        PROVE  /\ Len(content[k]) <= Size[k]
               /\ \A i \in 1..Len(content[k]) : content[k][i] = i
               /\ ChunkMode(k) => Whole(k)
    BY <1>1 DEF Whole
  <2> QED BY <2>1 DEF PrefixInv, VisibleIsPrefix
<1>6. OneCommit BY DEF Started, OneCommit, Committing, NoTask
<1>7. VisibleInv
  <2>1. Gapless(present) BY DEF Gapless, Files
  <2>2. CommitPlaced BY DEF Started, CommitPlaced, NoCommit, NoTask
  <2>3. ExpectedVisible BY DEF Started, ExpectedVisible, ClosedApp, ClosedChk
  <2>4. NextSeqVisible BY DEF Started, NextSeqVisible
  <2> QED BY <2>1, <2>2, <2>3, <2>4 DEF VisibleInv
<1>8. OffsetInv BY DEF Started, ClosedApp, OffsetInv, Written, OffsetIsWritten
<1>9. EmptyPassed(app) /\ ~dur.failed
  BY DEF EmptyPassed, Started, ClosedApp, FreshDur, Files
<1> QED BY <1>3, <1>4, <1>5, <1>6, <1>7, <1>8, <1>9 DEF Composed, Facts

-----------------------------------------------------------------------------
(* What next_seq of a heartbeat says of files that are not whole: nothing,  *)
(* but for the partial file x that the receiver was started with (0: none). *)

WholeFiles == {k \in Files : Whole(k)}

\* A report that passes only files in W, or x and then it is about x.
CandidReport(h, W, x) ==
  /\ h.next \in Nat \ {0}
  /\ h.file \in Nat
  /\ x <= h.file
  /\ \A k \in Files : k < h.next => k \in W \/ (k = x /\ k = h.file)

\* The append receiver stands at its file or just past it, never before x, and
\* past a partial file only if that is x.
AppResumes(a, x) ==
  /\ a.expected \in 1..(a.file + 1)
  /\ x <= a.file
  /\ Reopened(a) => a.file = x

Resuming(x) ==
  /\ x \in Nat
  /\ x # 0 => x = floor /\ x \in present /\ ~ChunkMode(x)
  /\ app.expected \in 1..(app.file + 1)
  /\ chk.expected >= 1
  /\ app.open => AppResumes(app, x)
  /\ ~app.open => \A k \in present : Whole(k) \/ k = x

\* No CREATE/DATA file comes after a chunk file.
LastChunks == \A j, k \in Files : j < k /\ ChunkMode(j) => ChunkMode(k)

LEMMA MoreCandid ==
  ASSUME NEW h, NEW W, NEW U, NEW x, W \subseteq U, CandidReport(h, W, x)
  PROVE  CandidReport(h, U, x)
BY DEF CandidReport

\* The newest entry and the next seq of a scan.
LEMMA ScanPlaced ==
  ASSUME Facts, present # {}
  PROVE  /\ Latest(present) \in present
         /\ \A j \in present : j <= Latest(present)
         /\ ScanNext(present) = Latest(present) + 1
         /\ Latest(present) \in Nat \ {0}
<1>1. present \in SUBSET Files BY DEF Facts, TypeOK
<1>2. Latest(present) \in present /\ \A j \in present : j <= Latest(present)
  BY <1>1, LatestIsNewest
<1>3. present = 1..(ScanNext(present) - 1) BY <1>1, GaplessScan DEF Facts, VisibleInv
<1>4. ScanNext(present) \in Nat BY <1>1, ScanNextType
<1> DEFINE n == ScanNext(present)
           k == Latest(present)
<1>5. k \in Files BY <1>1, <1>2
<1>6. k \in Nat /\ k >= 1 BY <1>5 DEF Files
<1>7. k \in 1..(n - 1) BY <1>2, <1>3
<1> HIDE DEF n, k
<1>8. n - 1 \in present BY <1>3, <1>4, <1>7 DEF n
<1>9. n - 1 <= k BY <1>2, <1>8 DEF k
<1>10. n = k + 1 BY <1>4, <1>6, <1>7, <1>9 DEF n
<1> QED BY <1>2, <1>6, <1>10 DEF n, k

\* The receiver that a handler works with.
LEMMA ReceiverResumes ==
  ASSUME Facts, NEW x, Resuming(x)
  PROVE  AppResumes(AppendReceiver, x) /\ ChunkReceiver.expected >= 1
<1>1. ChunkReceiver.expected >= 1
  <2>1. present \in SUBSET Files BY DEF Facts, TypeOK
  <2>2. present = {} => ScanNext(present) = 1 BY FS_EmptySet DEF ScanNext
  <2>3. ScanNext(present) >= 1 BY <2>2, ScanPlaced
  <2> QED BY <2>3 DEF ChunkReceiver, ClosedChk, Resuming
<1>2. CASE app.open BY <1>1, <1>2 DEF AppendReceiver, Resuming
<1>3. CASE ~app.open
  <2>1. AppendReceiver = ResetSession BY <1>3 DEF AppendReceiver
  <2>2. CASE present = {}
    <3>1. ResetSession.expected = 1 /\ ResetSession.file = 0 BY <2>2 DEF ResetSession, ClosedApp
    <3>2. x = 0 BY <2>2 DEF Resuming
    <3> QED BY <1>1, <2>1, <3>1, <3>2 DEF AppResumes, Reopened
  <2>3. CASE present # {}
    <3> DEFINE k == Latest(present)
    <3>1. ResetSession.expected = ScanNext(present) /\ ResetSession.file = k
      BY <2>3 DEF ResetSession
    <3>2. k \in present /\ (\A j \in present : j <= k) /\ ScanNext(present) = k + 1 /\ k \in Nat \ {0}
      BY <2>3, ScanPlaced
    <3> HIDE DEF k
    <3>3. x <= k BY <3>2 DEF Resuming
    <3>4. Whole(k) \/ k = x BY <1>3, <3>2 DEF Resuming
    <3> QED BY <1>1, <2>1, <3>1, <3>2, <3>3, <3>4 DEF AppResumes, Reopened
  <2> QED BY <2>2, <2>3
<1> QED BY <1>1, <1>2, <1>3

\* Files whole before a step are whole after it.
LEMMA WholeFilesGrow ==
  ASSUME Facts, Facts', [Next]_vars
  PROVE  WholeFiles \subseteq WholeFiles' /\ present \subseteq present'
<1>1. ASSUME NEW k \in present PROVE k \in present' /\ (Whole(k) => Whole(k)')
  BY WholeStays DEF Facts
<1> QED BY <1>1 DEF WholeFiles, Whole

\* A report of the append receiver.
LEMMA AppendCandid ==
  ASSUME NEW a \in AppType, NEW d, NEW W, NEW x, a.expected \in 1..(a.file + 1), x <= a.file,
         1..(a.file - 1) \subseteq W,
         a.file # 0 /\ a.expected > a.file => a.file \in W \/ a.file = x
  PROVE  CandidReport(AppendHeartbeat(a, d), W, x)
<1> DEFINE h == AppendHeartbeat(a, d)
<1>1. h.next = a.expected /\ h.file = a.file BY DEF AppendHeartbeat, Heartbeat
<1>2. a.expected \in Nat \ {0} /\ a.file \in Nat BY SizeAssumption DEF AppType
<1> HIDE DEF h
<1>3. ASSUME NEW k \in Files, k < h.next PROVE k \in W \/ (k = x /\ k = h.file)
  <2>1. k \in Nat /\ k >= 1 /\ k <= a.file BY <1>1, <1>2, <1>3 DEF Files
  <2>2. CASE k < a.file
    <3>1. k \in 1..(a.file - 1) BY <1>2, <2>1, <2>2
    <3> QED BY <3>1
  <2>3. CASE k = a.file BY <1>1, <1>2, <1>3, <2>1, <2>3
  <2> QED BY <1>2, <2>1, <2>2, <2>3
<1> QED BY <1>1, <1>2, <1>3 DEF CandidReport, h

\* CREATE and DATA.
LEMMA AppendMessagesResume ==
  ASSUME Facts, Facts', ToldInv, ToldInv', [Next]_vars, NEW x, Resuming(x), NEW k \in Files,
         ApplyCreate(k) \/ \E o \in 0..(Size[k] - 1) : ApplyData(k, o)
  PROVE  Resuming(x)' /\ \A h \in heartbeats' : CandidReport(h, WholeFiles', x)
<1> USE DEF disk, env
<1>b. PICK b : b = AppendReceiver OBVIOUS
<1>a. b \in AppType /\ Written(b) /\ b.open
  BY <1>b, ReceiverTypes, ReceiverWritten, ReceiverReopened DEF Facts
<1>r. /\ b.expected \in 1..(b.file + 1) /\ x <= b.file
      /\ Reopened(b) => b.file = x
  BY <1>b, ReceiverResumes DEF AppResumes
<1>k. k \in Nat /\ k >= 1 /\ Size[k] \in Nat /\ floor <= k /\ x \in Nat
  BY SizeAssumption DEF Files, ApplyCreate, ApplyData, Sendable, Resuming
<1>x. x <= k BY <1>k DEF Resuming
<1>g. WholeFiles \subseteq WholeFiles' /\ present \subseteq present' BY WholeFilesGrow
<1>c. chk'.expected >= 1 /\ floor' = floor
  <2>1. ASSUME NEW p \in SUBSET Files PROVE RefreshChunk(p).expected >= 1
    <3>1. ScanNext(p) \in Nat /\ chk \in ChkType /\ chk.expected \in Nat /\ chk.expected >= 1
      BY ScanNextType DEF Facts, TypeOK, ChkType, Resuming
    <3>2. Larger(chk.expected, ScanNext(p)) >= 1 BY <3>1 DEF Larger
    <3> QED BY <3>1, <3>2 DEF RefreshChunk, ChkType
  <2>2. \/ chk' = chk
        \/ chk' = RefreshChunk(present)
        \/ chk' = RefreshChunk(present \cup {k})
    BY DEF ApplyCreate, CreateNew, CreateStale, CreateRejected, CreateFails, CreateAccepted,
           ApplyData, DataIgnored, DataRejected, DataAppended, DataTorn, DataAccepted
  <2>3. present \in SUBSET Files /\ present \cup {k} \in SUBSET Files BY DEF Facts, TypeOK
  <2>4. floor' = floor
    BY DEF ApplyCreate, CreateNew, CreateStale, CreateRejected, CreateFails, CreateAccepted,
           ApplyData, DataIgnored, DataRejected, DataAppended, DataTorn, DataAccepted
  <2> QED BY <2>1, <2>2, <2>3, <2>4 DEF Resuming
<1>1. ASSUME NEW a \in AppType, a.open, app' = a, a.expected \in 1..(a.file + 1), x <= a.file,
             a.file # 0 /\ a.expected > a.file => Whole(a.file)' \/ a.file = x,
             heartbeats' = {} \/ \E d : heartbeats' = {AppendHeartbeat(a, d)}
      PROVE  Resuming(x)' /\ \A h \in heartbeats' : CandidReport(h, WholeFiles', x)
  <2>1. Resuming(x)'
    <3>1. x # 0 => x = floor' /\ x \in present' /\ ~ChunkMode(x) BY <1>c, <1>g DEF Resuming
    <3>2. Reopened(app)' => app'.file = x BY <1>1 DEF Reopened, Whole
    <3> QED BY <1>1, <1>c, <1>k, <3>1, <3>2 DEF Resuming, AppResumes, ChunkMode
  <2>2. 1..(a.file - 1) \subseteq WholeFiles'
    <3>1. CASE a.file = 0 BY <3>1
    <3>2. CASE a.file # 0
      <4>1. a.file \in present' BY <1>1, <3>2 DEF Facts, OffsetInv, Written
      <4>2. 1..(a.file - 1) \subseteq told' BY <4>1 DEF ToldInv, ToldFirst
      <4>3. \A j \in told' : Whole(j)' /\ j \in Files BY DEF ToldInv, ToldIsWhole, Facts, TypeOK
      <4> QED BY <4>2, <4>3 DEF WholeFiles
    <3> QED BY <3>1, <3>2
  <2>3. a.file # 0 /\ a.expected > a.file => a.file \in WholeFiles' \/ a.file = x
    <3>1. Whole(a.file)' => a.file \in Files BY DEF Whole, Facts, TypeOK
    <3> QED BY <1>1, <3>1 DEF WholeFiles
  <2>4. PICK U : U = WholeFiles' OBVIOUS
  <2>5. \A d : CandidReport(AppendHeartbeat(a, d), U, x)
    BY <1>1, <2>2, <2>3, <2>4, AppendCandid
  <2>6. \A h \in heartbeats' : CandidReport(h, U, x) BY <1>1, <2>5
  <2> QED BY <2>1, <2>4, <2>6
<1>w. b.file # 0 /\ b.expected > b.file => Whole(b.file)' \/ b.file = x
  <2>1. b.file # 0 => b.file \in present BY <1>a DEF Written
  <2> QED BY <1>r, <2>1, WholeStays DEF Reopened, Facts
<1>2. ASSUME app' = b, heartbeats' = {} \/ \E d : heartbeats' = {AppendHeartbeat(b, d)}
      PROVE  Resuming(x)' /\ \A h \in heartbeats' : CandidReport(h, WholeFiles', x)
  BY <1>1, <1>2, <1>a, <1>r, <1>w
<1>3. CASE CreateNew(k)
  <2> DEFINE e == IF Size[k] = 0 THEN k + 1 ELSE k
             a == [b EXCEPT !.file = k, !.offset = 0, !.final = Size[k], !.expected = e]
  <2>1. CreateAccepted(k, a, present \cup {k}) /\ present' = present \cup {k}
    BY <1>b, <1>3 DEF CreateNew
  <2>2. e \in 1..(k + 1) /\ e \in Nat BY <1>k
  <2>3. k \in 0..NFiles BY SizeAssumption DEF Files
  <2>4. a \in AppType BY <1>a, <1>k, <2>2, <2>3, AppUpdate, ZeroFile
  <2>5. a.file = k /\ a.expected = e /\ a.open BY <1>a, <2>4 DEF AppType
  <2> HIDE DEF a
  <2>6. app' = a /\ heartbeats' = {AppendHeartbeat(a, a.offset)} BY <2>1 DEF CreateAccepted, Emit
  <2>7. ASSUME e > k PROVE Whole(k)'
    <3>1. Size[k] = 0 BY <1>k, <2>7
    <3>2. k \in present' /\ Len(content'[k]) \in Nat BY <2>1 DEF Facts, TypeOK
    <3>3. Len(content'[k]) >= Size[k] BY <3>1, <3>2
    <3> QED BY <3>2, <3>3, LongIsWholeNext DEF Facts
  <2> HIDE DEF e
  <2> QED BY <1>1, <1>x, <2>2, <2>4, <2>5, <2>6, <2>7
<1>4. CASE CreateStale(k)
  BY <1>2, <1>4, <1>b DEF CreateStale, CreateAccepted, Emit
<1>5. CASE CreateRejected(k) \/ CreateFails(k)
  BY <1>2, <1>5, <1>b DEF CreateRejected, CreateFails, Reject
<1>6. ASSUME NEW o \in 0..(Size[k] - 1), DataIgnored(k, o)
      PROVE  Resuming(x)' /\ \A h \in heartbeats' : CandidReport(h, WholeFiles', x)
  BY <1>2, <1>6, <1>b DEF DataIgnored, DataAccepted, Emit
<1>7. ASSUME NEW o \in 0..(Size[k] - 1), DataRejected(k, o) \/ \E m \in 0..Block : DataTorn(k, o, m)
      PROVE  Resuming(x)' /\ \A h \in heartbeats' : CandidReport(h, WholeFiles', x)
  BY <1>2, <1>7, <1>b DEF DataRejected, DataTorn, Reject
<1>8. ASSUME NEW o \in 0..(Size[k] - 1), NEW m \in 0..Block, DataAppended(k, o, m)
      PROVE  Resuming(x)' /\ \A h \in heartbeats' : CandidReport(h, WholeFiles', x)
  <2>0. PICK a : a = AfterData(k, o) OBVIOUS
  <2>1. DataAccepted(k, o, a) BY <1>8, <2>0 DEF DataAppended, AfterData
  <2>2. /\ a \in AppType /\ a.open
        /\ a.file = b.file /\ a.offset = o + DataLen(k, o)
        /\ a.expected = IF o + DataLen(k, o) < Size[k] THEN b.expected ELSE Larger(b.expected, k + 1)
        /\ DataLen(k, o) \in Nat
    BY <1>a, <1>b, <2>0, AfterDataFields DEF Facts
  <2>3. k \in present /\ k = b.file BY <1>8, <1>b DEF DataAppended, DataReason
  <2>4. a.expected \in 1..(a.file + 1) BY <1>k, <1>r, <2>2, <2>3 DEF Larger
  <2>5. app' = a /\ \E d : heartbeats' = {AppendHeartbeat(a, d)} BY <2>1 DEF DataAccepted, Emit
  <2>6. ASSUME a.expected > a.file PROVE Whole(a.file)' \/ a.file = x
    <3>1. CASE o + DataLen(k, o) < Size[k]
      <4>1. a.expected = b.expected /\ b.file # 0 BY <1>k, <2>2, <2>3, <3>1
      <4> QED BY <1>w, <2>2, <2>6, <4>1
    <3>2. CASE ~(o + DataLen(k, o) < Size[k])
      <4>1. a.file = k /\ a.file # 0 BY <1>k, <2>2, <2>3
      <4>2. k \in present' /\ a.offset <= Len(content'[k])
        BY <2>5, <4>1 DEF Facts, OffsetInv, Written
      <4>3. Len(content'[k]) \in Nat /\ o \in Nat BY <1>k DEF Facts, TypeOK
      <4>4. Len(content'[k]) >= Size[k] BY <1>k, <2>2, <3>2, <4>2, <4>3
      <4>5. Whole(k)' BY <4>2, <4>4, LongIsWholeNext DEF Facts
      <4> QED BY <4>1, <4>5
    <3> QED BY <3>1, <3>2
  <2> QED BY <1>1, <1>r, <2>2, <2>4, <2>5, <2>6
<1> QED BY <1>3, <1>4, <1>5, <1>6, <1>7, <1>8 DEF ApplyCreate, ApplyData

\* A report about a chunk file: every visible file but x is whole, or comes
\* before the chunk file and is told.
LEMMA ChunkCandid ==
  ASSUME Facts, ToldInv, LastChunks, NEW x \in Nat, NEW k \in Files, ChunkMode(k), x <= k,
         1..(k - 1) \subseteq told, NEW h, h.next \in Nat \ {0}, h.file = k,
         1..(h.next - 1) \subseteq present
  PROVE  CandidReport(h, WholeFiles, x)
<1>1. k \in Nat BY DEF Files
<1>2. ASSUME NEW j \in Files, j < h.next PROVE j \in WholeFiles
  <2>1. j \in Nat /\ j >= 1 BY DEF Files
  <2>2. j \in 1..(h.next - 1) BY <1>2, <2>1
  <2>3. j \in present BY <2>2
  <2>4. CASE ChunkMode(j) BY <2>3, <2>4 DEF Facts, PrefixInv, VisibleIsPrefix, WholeFiles
  <2>5. CASE ~ChunkMode(j)
    <3>1. j < k BY <1>1, <2>1, <2>5 DEF LastChunks
    <3>2. j \in 1..(k - 1) BY <1>1, <2>1, <3>1
    <3>3. j \in told BY <3>2
    <3> QED BY <3>3 DEF ToldInv, ToldIsWhole, WholeFiles
  <2> QED BY <2>4, <2>5
<1> QED BY <1>1, <1>2 DEF CandidReport

\* FILE_BEGIN, CHUNK and FILE_COMMIT.
LEMMA ChunkMessagesResume ==
  ASSUME Facts, Facts', ToldInv, [Next]_vars, LastChunks, NEW x, Resuming(x), NEW k \in Files,
         ApplyBegin(k) \/ (\E i \in ChunksOf(k) : ApplyChunk(k, i)) \/ ApplyCommit(k)
  PROVE  Resuming(x)' /\ \A h \in heartbeats' : CandidReport(h, WholeFiles', x)
<1>0. /\ ChunkMode(k) /\ Sendable(k)
      /\ app' = app /\ floor' = floor /\ present' = present /\ content' = content
  BY DEF ApplyBegin, ApplyChunk, ApplyCommit, env
<1>1. x \in Nat /\ x <= k /\ 1..(k - 1) \subseteq told
  <2>1. k \in Nat /\ floor <= k BY <1>0 DEF Files, Sendable
  <2> QED BY <1>0, <2>1 DEF Resuming, Sendable
<1>c. ChunkReceiver \in ChkType /\ ChunkReceiver.expected \in Nat \ {0}
  BY ReceiverTypes, ReceiverResumes DEF Facts, ChkType
<1>2. ASSUME chk'.expected >= 1, \A h \in heartbeats' : CandidReport(h, WholeFiles, x)
      PROVE  Resuming(x)' /\ \A h \in heartbeats' : CandidReport(h, WholeFiles', x)
  <2>1. Resuming(x)' BY <1>0, <1>2 DEF Resuming, AppResumes, Reopened, Whole, ChunkMode
  <2>2. PICK U : U = WholeFiles' OBVIOUS
  <2>3. WholeFiles \subseteq U BY <2>2, WholeFilesGrow
  <2>4. \A h \in heartbeats' : CandidReport(h, U, x) BY <1>2, <2>3, MoreCandid
  <2> QED BY <2>1, <2>2, <2>4
<1>3. ASSUME NEW n, NEW m, NEW is
      PROVE  CandidReport(Heartbeat(ChunkReceiver.expected, k, n, m, is), WholeFiles, x)
  <2> DEFINE h == Heartbeat(ChunkReceiver.expected, k, n, m, is)
  <2>1. h.next = ChunkReceiver.expected /\ h.file = k BY DEF Heartbeat
  <2> HIDE DEF h
  <2>2. 1..(h.next - 1) \subseteq present BY <2>1, ReceiversVisible DEF Facts
  <2>3. CandidReport(h, WholeFiles, x) BY <1>0, <1>1, <1>c, <2>1, <2>2, ChunkCandid
  <2> QED BY <2>3 DEF h
<1>4. \A h \in heartbeats' : CandidReport(h, WholeFiles, x)
  <2>1. CASE ApplyBegin(k)
    BY <1>3, <2>1 DEF ApplyBegin, BeginAccepted, BeginRejected, ChunkRefused, Emit, Reject
  <2>2. ASSUME NEW i \in ChunksOf(k), ApplyChunk(k, i)
        PROVE  \A h \in heartbeats' : CandidReport(h, WholeFiles, x)
    BY <1>3, <2>2 DEF ApplyChunk, ChunkAccepted, ChunkRejected, ChunkRefused, Emit, Reject
  <2>3. CASE ApplyCommit(k)
    BY <1>3, <2>3 DEF ApplyCommit, CommitWhileQueued, CommitStale, CommitQueued, CommitRejected,
                      Silent, Emit, Reject
  <2> QED BY <2>1, <2>2, <2>3
<1>5. chk'.expected >= 1
  <2>1. CASE ApplyBegin(k)
    <3>1. PICK c \in ChkType : c = ChunkReceiver BY <1>c
    <3> DEFINE d == [c EXCEPT !.active = @ \cup {k}, !.recv[k] = {}]
    <3>2. d.expected = c.expected BY DEF ChkType
    <3>3. chk' = c \/ chk' = d
      BY <2>1, <3>1 DEF ApplyBegin, BeginAccepted, BeginRejected, ChunkRefused
    <3> HIDE DEF d
    <3> QED BY <1>c, <3>1, <3>2, <3>3
  <2>2. ASSUME NEW i \in ChunksOf(k), ApplyChunk(k, i) PROVE chk'.expected >= 1
    <3>1. chk' = ChunkReceiver \/ chk' = [ChunkReceiver EXCEPT !.recv[k] = @ \cup {i}]
      BY <2>2 DEF ApplyChunk, ChunkAccepted, ChunkRejected, ChunkRefused
    <3> QED BY <1>c, <3>1 DEF ChkType
  <2>3. CASE ApplyCommit(k)
    <3>1. \/ chk' = ChunkReceiver
          \/ chk' = chk
          \/ chk' = [ChunkReceiver EXCEPT !.pending = @ \cup {k}]
      BY <2>3 DEF ApplyCommit, CommitWhileQueued, CommitStale, CommitQueued, CommitRejected
    <3> QED BY <1>c, <3>1 DEF ChkType, Resuming
  <2> QED BY <2>1, <2>2, <2>3
<1> QED BY <1>2, <1>4, <1>5

\* The heartbeats of poll_completions.
LEMMA PollCandid ==
  ASSUME Facts, ToldInv, LastChunks, NEW x, Resuming(x)
  PROVE  /\ \A h \in FsyncHeartbeats : CandidReport(h, WholeFiles, x)
         /\ cmt.state = "done" => CandidReport(CommitHeartbeat, WholeFiles, x)
<1>1. ASSUME FsyncNews PROVE CandidReport(AppendHeartbeat(app, dur.completed), WholeFiles, x)
  <2>1. app \in AppType /\ app.open /\ AppResumes(app, x)
    BY <1>1 DEF FsyncNews, Facts, TypeOK, Resuming
  <2>2. 1..(app.file - 1) \subseteq WholeFiles
    <3>1. CASE app.file = 0 BY <3>1
    <3>2. CASE app.file # 0
      <4>1. app.file \in present BY <3>2 DEF Facts, OffsetInv, Written
      <4>2. 1..(app.file - 1) \subseteq told BY <4>1 DEF ToldInv, ToldFirst
      <4>3. \A j \in told : Whole(j) /\ j \in Files BY DEF ToldInv, ToldIsWhole, Facts, TypeOK
      <4> QED BY <4>2, <4>3 DEF WholeFiles
    <3> QED BY <3>1, <3>2
  <2>3. app.file # 0 /\ app.expected > app.file => app.file \in WholeFiles \/ app.file = x
    <3>1. app.file # 0 => app.file \in Files BY SizeAssumption, <2>1 DEF AppType, Files
    <3> QED BY <2>1, <3>1 DEF WholeFiles, AppResumes, Reopened
  <2>4. app.expected \in 1..(app.file + 1) /\ x <= app.file BY <2>1 DEF AppResumes
  <2>5. PICK a, d, W : a = app /\ d = dur.completed /\ W = WholeFiles OBVIOUS
  <2>6. CandidReport(AppendHeartbeat(a, d), W, x)
    BY <2>1, <2>2, <2>3, <2>4, <2>5, AppendCandid
  <2> QED BY <2>5, <2>6
<1>2. ASSUME cmt.state = "done" PROVE CandidReport(CommitHeartbeat, WholeFiles, x)
  <2> DEFINE k == cmt.seq
             h == CommitHeartbeat
  <2>1. k \in Files /\ ChunkMode(k) /\ k \in present /\ 1..(k - 1) \subseteq present
    BY <1>2 DEF Facts, VisibleInv, CommitPlaced
  <2>2. 1..(k - 1) \subseteq told /\ \A j \in present : j <= k BY <1>2 DEF ToldInv, CommitLast
  <2>3. k \in Nat /\ k >= 1 /\ chk \in ChkType /\ chk.expected \in Nat /\ chk.expected >= 1
    BY <2>1 DEF Files, Facts, TypeOK, ChkType, Resuming
  <2>4. x \in Nat /\ x <= k BY <2>2, <2>3 DEF Resuming
  <2>5. h.next = Larger(chk.expected, k + 1) /\ h.file = k
    BY <2>3 DEF CommitHeartbeat, Heartbeat, FinishCommit, ChkType
  <2> HIDE DEF h
  <2>6. h.next \in Nat \ {0} BY <2>3, <2>5 DEF Larger
  <2>7. ASSUME NEW j \in 1..(h.next - 1) PROVE j \in present
    <3>1. CASE j = k BY <2>1, <3>1
    <3>2. CASE j < k
      <4>1. j \in 1..(k - 1) BY <2>3, <2>6, <3>2
      <4> QED BY <2>1, <4>1
    <3>3. CASE j > k
      <4>1. j \in 1..(chk.expected - 1) BY <2>3, <2>5, <2>6, <3>3 DEF Larger
      <4> QED BY <4>1 DEF Facts, VisibleInv, ExpectedVisible
    <3> QED BY <2>3, <2>6, <3>1, <3>2, <3>3
  <2>8. CandidReport(h, WholeFiles, x)
    <3>1. 1..(h.next - 1) \subseteq present BY <2>7
    <3> HIDE DEF k
    <3> QED BY <2>1, <2>2, <2>4, <2>5, <2>6, <3>1, ChunkCandid
  <2> QED BY <2>8 DEF h
<1> QED BY <1>1, <1>2 DEF FsyncHeartbeats

\* poll_completions: a refreshed receiver stands past the committed file.
LEMMA PollResumes ==
  ASSUME Facts, Facts', ToldInv, NEW x, Resuming(x), Poll
  PROVE  Resuming(x)'
<1>0. floor' = floor /\ present' = present /\ content' = content
  BY DEF Poll, disk, env
<1>1. chk'.expected >= 1
  <2>1. chk \in ChkType /\ chk.expected \in Nat /\ chk.expected >= 1 /\ cmt.seq \in Nat
    BY SizeAssumption DEF Facts, TypeOK, ChkType, CmtType, Resuming
  <2>2. FinishCommit.expected = Larger(chk.expected, cmt.seq + 1) BY <2>1 DEF FinishCommit, ChkType
  <2>3. FinishCommit.expected >= 1 BY <2>1, <2>2 DEF Larger
  <2>4. [chk EXCEPT !.pending = @ \ {cmt.seq}].expected = chk.expected BY <2>1 DEF ChkType
  <2> QED BY <2>1, <2>3, <2>4 DEF Poll, PollIdle, PollCommitDone, PollFailure
<1>2. CASE app' = app BY <1>0, <1>1, <1>2 DEF Resuming, AppResumes, Reopened, Whole, ChunkMode
<1>3. CASE app.open /\ cmt.state = "done" /\ app' = RefreshApp(app)
  <2> DEFINE k == Latest(present)
  <2>1. RefreshApp(app).file = cmt.seq /\ Whole(cmt.seq) /\ cmt.seq \in present
    BY <1>3, RefreshedIsWhole DEF Whole
  <2>2. k \in present /\ (\A j \in present : j <= k) /\ ScanNext(present) = k + 1 /\ k \in Nat \ {0}
    BY <2>1, ScanPlaced
  <2>3. app \in AppType /\ app.file \in Nat /\ app.expected \in 1..(app.file + 1) /\ app.expected \in Nat
    BY SizeAssumption DEF Facts, TypeOK, AppType, Resuming
  <2>4. /\ RefreshApp(app).file = k /\ RefreshApp(app).expected = Larger(app.expected, ScanNext(present))
        /\ RefreshApp(app).open
    BY <1>3, <2>1, <2>3 DEF RefreshApp, AppType
  <2> HIDE DEF k
  <2>5. app.file <= k
    <3>1. app.file # 0 => app.file \in present BY DEF Facts, OffsetInv, Written
    <3> QED BY <2>2, <2>3, <3>1
  <2>6. Larger(app.expected, ScanNext(present)) = k + 1 BY <2>2, <2>3, <2>5 DEF Larger
  <2>7. x <= k /\ x \in Nat BY <2>2 DEF Resuming
  <2>8. Whole(k) BY <2>1, <2>4
  <2>9. app'.file = k /\ app'.expected = k + 1 /\ app'.open BY <1>3, <2>4, <2>6
  <2>10. AppResumes(app, x)' BY <1>0, <2>2, <2>7, <2>8, <2>9 DEF AppResumes, Reopened, Whole
  <2> QED BY <1>0, <1>1, <2>2, <2>9, <2>10 DEF Resuming, ChunkMode
<1> QED BY <1>2, <1>3 DEF Poll, PollIdle, PollCommitDone, PollFailure

\* Steps that leave the receivers alone; the writer makes chunk files visible.
LEMMA OthersResume ==
  ASSUME Facts, Facts', [Next]_vars, NEW x, Resuming(x), Writer \/ ApplyManifest1 \/ Exit
  PROVE  Resuming(x)'
<1>1. app' = app /\ chk' = chk /\ floor' = floor
  BY DEF Writer, WriterTake, WriterFsync, WriterRename, WriterCommitSync, WriterFails,
         LoopIdle, ApplyManifest1, Exit, env
<1>2. \A k \in present : k \in present' /\ (Whole(k) => Whole(k)') BY WholeStays DEF Facts
<1>3. ASSUME NEW k \in present', k \notin present PROVE Whole(k)'
  <2>1. running.kind = "commit" /\ k = running.file
    BY <1>3 DEF Writer, WriterTake, WriterFsync, WriterRename, WriterCommitSync, WriterFails,
                ApplyManifest1, Exit, disk
  <2>2. cmt.state = "queued" /\ cmt.seq = k BY <2>1 DEF Facts, OneCommit, Committing
  <2>3. ChunkMode(k) BY <2>2 DEF Facts, VisibleInv, CommitPlaced
  <2> QED BY <1>3, <2>3 DEF Facts, PrefixInv, VisibleIsPrefix, ChunkMode
<1>4. Reopened(app)' => Reopened(app)
  <2>1. app \in AppType /\ Written(app) BY DEF Facts, TypeOK, OffsetInv
  <2>2. Whole(app.file) => app.file \in present BY DEF Whole
  <2>3. PICK k : k = app.file OBVIOUS
  <2>4. Whole(k) => Whole(k)' BY <1>2, <2>2, <2>3
  <2> QED BY <1>1, <2>3, <2>4 DEF Reopened, Whole
<1>5. ~app'.open => \A k \in present' : Whole(k)' \/ k = x BY <1>1, <1>2, <1>3 DEF Resuming
<1> QED BY <1>1, <1>2, <1>4, <1>5 DEF Resuming, AppResumes, ChunkMode, Whole

\* All of them.
LEMMA ResumingStep ==
  ASSUME Facts, Facts', ToldInv, ToldInv', LastChunks, NEW x, Resuming(x),
         Message \/ Poll \/ Writer \/ ApplyManifest1 \/ Exit
  PROVE  /\ Resuming(x)'
         /\ WholeFiles \subseteq WholeFiles'
         /\ Message => \A h \in heartbeats' : CandidReport(h, WholeFiles', x)
         /\ Poll => /\ \A h \in FsyncHeartbeats : CandidReport(h, WholeFiles', x)
                    /\ cmt.state = "done" => CandidReport(CommitHeartbeat, WholeFiles', x)
<1>1. [Next]_vars BY DEF Next
<1>2. PICK U : U = WholeFiles' OBVIOUS
<1>3. WholeFiles \subseteq U BY <1>1, <1>2, WholeFilesGrow
<1>4. /\ \A h \in FsyncHeartbeats : CandidReport(h, U, x)
      /\ cmt.state = "done" => CandidReport(CommitHeartbeat, U, x)
  BY <1>3, PollCandid, MoreCandid
<1>5. Message => Resuming(x)' /\ \A h \in heartbeats' : CandidReport(h, WholeFiles', x)
  BY <1>1, AppendMessagesResume, ChunkMessagesResume DEF Message
<1>6. Resuming(x)' BY <1>1, <1>5, PollResumes, OthersResume
<1> QED BY <1>2, <1>3, <1>4, <1>5, <1>6

\* A step of the others.
LEMMA ResumingIdle ==
  ASSUME NEW x, Resuming(x), UNCHANGED <<present, content, app, chk, floor>>
  PROVE  Resuming(x)' /\ WholeFiles' = WholeFiles
BY DEF Resuming, AppResumes, Reopened, Whole, ChunkMode, WholeFiles

\* The directory at the start.
LEMMA InitResuming ==
  ASSUME Init
  PROVE  \E x \in 0..NFiles : Resuming(x)
<1> USE SizeAssumption DEF Files
<1>1. PICK n \in 0..NFiles, m \in Nat :
         /\ InitialDisk(n, m)
         /\ m > 0 => n < NFiles /\ ~ChunkMode(n + 1)
  <2>1. PICK n \in 0..NFiles :
           \/ InitialDisk(n, 0)
           \/ n < NFiles /\ ~ChunkMode(n + 1) /\ \E m \in 1..(Size[n + 1] - 1) : InitialDisk(n, m)
    BY DEF Init
  <2>2. n < NFiles => Size[n + 1] \in Nat OBVIOUS
  <2> QED BY <2>1, <2>2
<1>2. app = ClosedApp /\ chk = ClosedChk BY DEF Init, Started
<1>3. ~app.open /\ app.expected = 1 /\ app.file = 0 /\ chk.expected = 1
  BY <1>2 DEF ClosedApp, ClosedChk
<1>4. \A k \in 1..n : Whole(k)
  <2> SUFFICES ASSUME NEW k \in 1..n PROVE Whole(k) OBVIOUS
  <2>1. k \in Files /\ k <= n OBVIOUS
  <2>2. k \in present BY <1>1, <2>1 DEF InitialDisk
  <2>3. content[k] = [i \in 1..Size[k] |-> i] BY <1>1, <2>1 DEF InitialDisk
  <2> QED BY <2>2, <2>3 DEF Whole
<1>5. CASE m = 0
  <2>1. present = 1..n BY <1>1, <1>5 DEF InitialDisk
  <2>2. Resuming(0) BY <1>3, <1>4, <2>1 DEF Resuming
  <2> QED BY <2>2
<1>6. CASE m # 0
  <2>1. present = 1..(n + 1) /\ floor = n + 1 BY <1>1, <1>6 DEF InitialDisk
  <2>2. \A k \in present : k \in 1..n \/ k = n + 1 BY <2>1
  <2>3. Resuming(n + 1) BY <1>1, <1>3, <1>4, <1>6, <2>1, <2>2 DEF Resuming
  <2>4. n + 1 \in 0..NFiles BY <1>1, <1>6
  <2> QED BY <2>3, <2>4
<1> QED BY <1>5, <1>6

=============================================================================
