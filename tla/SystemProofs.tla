---------------------------- MODULE SystemProofs ----------------------------
(***************************************************************************)
(* The sender keeps the order its receiver assumes, sender, lines and      *)
(* receiver together implement OrderedTransfer, and the sender keeps what  *)
(* it waits for, for every set of lines, every number of files, timeouts   *)
(* and lost connections.                                                   *)
(***************************************************************************)
EXTENDS System, WellFoundedInduction, TLAPS

-----------------------------------------------------------------------------
(* Least elements and filtered sequences.                                   *)

\* A smallest element.
LEMMA LeastNat ==
  ASSUME NEW S \in SUBSET Nat, S # {}
  PROVE  Least(S) \in S /\ \A j \in S : Least(S) <= j
<1>1. IsWellFoundedOn(OpToRel(<, Nat), Nat) BY NatLessThanWellFounded
<1>2. PICK x \in S : \A y \in S : <<y, x>> \notin OpToRel(<, Nat)
  <2>1. S \subseteq Nat OBVIOUS
  <2> QED BY <1>1, <2>1, WFMin
<1>3. ASSUME NEW y \in S PROVE x <= y
  <2>1. ~(y < x) BY <1>2 DEF OpToRel
  <2> QED BY <2>1
<1> QED BY <1>3 DEF Least

\* What Filter's function is: F[i] is the filtered prefix of length i.
Filters(q, S, n, F) ==
  /\ F = [i \in 0..n |-> IF i = 0 THEN << >>
                         ELSE IF q[i] \in S THEN Append(F[i - 1], q[i]) ELSE F[i - 1]]
  /\ \A i \in 0..n : F[i] \in Seq(S)

\* There is one for every length.
LEMMA FiltersExist ==
  ASSUME NEW q, NEW S
  PROVE  \A n \in Nat : \E F : Filters(q, S, n, F)
<1> DEFINE B == {n \in Nat : ~\E F : Filters(q, S, n, F)}
<1> SUFFICES ASSUME B # {} PROVE FALSE OBVIOUS
<1>1. PICK n \in B : \A m \in B : n <= m
  <2>1. B \in SUBSET Nat OBVIOUS
  <2> HIDE DEF B
  <2> QED BY <2>1, LeastNat
<1>2. n # 0
  <2> DEFINE F == [i \in 0..0 |-> << >>]
  <2>1. Filters(q, S, 0, F)
    <3>1. F = [i \in 0..0 |-> IF i = 0 THEN << >>
                              ELSE IF q[i] \in S THEN Append(F[i - 1], q[i]) ELSE F[i - 1]]
      OBVIOUS
    <3>2. \A i \in 0..0 : F[i] \in Seq(S) OBVIOUS
    <3> QED BY <3>1, <3>2 DEF Filters
  <2> QED BY <1>1, <2>1
<1>3. n \in Nat /\ n - 1 \in Nat /\ n - 1 \notin B BY <1>1, <1>2
<1>4. PICK F : Filters(q, S, n - 1, F) BY <1>3
<1> DEFINE v == IF q[n] \in S THEN Append(F[n - 1], q[n]) ELSE F[n - 1]
           G == [i \in 0..n |-> IF i = n THEN v ELSE F[i]]
<1>5. /\ \A i \in 0..(n - 1) :
           /\ F[i] = IF i = 0 THEN << >>
                     ELSE IF q[i] \in S THEN Append(F[i - 1], q[i]) ELSE F[i - 1]
           /\ F[i] \in Seq(S)
  BY <1>4 DEF Filters
<1>6. v \in Seq(S) BY <1>3, <1>5
<1>7. G[n] = v /\ \A i \in 0..(n - 1) : G[i] = F[i] BY <1>3
<1>8. ASSUME NEW i \in 0..n
      PROVE  /\ G[i] = IF i = 0 THEN << >>
                       ELSE IF q[i] \in S THEN Append(G[i - 1], q[i]) ELSE G[i - 1]
             /\ G[i] \in Seq(S)
  <2>1. CASE i = n
    <3>1. G[n - 1] = F[n - 1] BY <1>3, <1>7
    <3> QED BY <1>2, <1>6, <1>7, <2>1, <3>1
  <2>2. CASE i # n
    <3>1. i \in 0..(n - 1) /\ (i # 0 => i - 1 \in 0..(n - 1)) BY <1>3, <2>2
    <3> HIDE DEF G
    <3> QED BY <1>5, <1>7, <3>1
  <2> QED BY <2>1, <2>2
<1>9. Filters(q, S, n, G)
  <2>1. G = [i \in 0..n |-> IF i = 0 THEN << >>
                            ELSE IF q[i] \in S THEN Append(G[i - 1], q[i]) ELSE G[i - 1]]
    <3>1. DOMAIN G = 0..n /\ G = [i \in 0..n |-> G[i]] OBVIOUS
    <3> HIDE DEF G
    <3> QED BY <1>8, <3>1
  <2> HIDE DEF G
  <2> QED BY <1>8, <2>1 DEF Filters
<1> QED BY <1>1, <1>9

\* A filtered sequence is a sequence of what passes the filter.
LEMMA FilterIn ==
  ASSUME NEW q, NEW S, Len(q) \in Nat
  PROVE  Filter(q, S) \in Seq(S)
<1> DEFINE H(f) == [i \in 0..Len(q) |-> IF i = 0 THEN << >>
                      ELSE IF q[i] \in S THEN Append(f[i - 1], q[i]) ELSE f[i - 1]]
<1>1. PICK F : Filters(q, S, Len(q), F) BY FiltersExist
<1>2. F = H(F) BY <1>1 DEF Filters
<1> DEFINE G == CHOOSE f : f = H(f)
<1>3. G = H(G) BY <1>2
<1>4. Filter(q, S) = G[Len(q)] BY DEF Filter
<1> HIDE DEF G
<1>5. \A i \in 0..Len(q) : G[i] \in Seq(S)
  <2> DEFINE B == {i \in 0..Len(q) : G[i] \notin Seq(S)}
  <2> SUFFICES ASSUME B # {} PROVE FALSE OBVIOUS
  <2>1. PICK i \in B : \A j \in B : i <= j
    <3>1. B \in SUBSET Nat OBVIOUS
    <3> HIDE DEF B
    <3> QED BY <3>1, LeastNat
  <2>2. \A j \in 0..Len(q) : G[j] = IF j = 0 THEN << >>
                      ELSE IF q[j] \in S THEN Append(G[j - 1], q[j]) ELSE G[j - 1]
    BY <1>3
  <2>3. << >> \in Seq(S) /\ \A w \in Seq(S) : \A x \in S : Append(w, x) \in Seq(S) OBVIOUS
  <2>4. i \in 0..Len(q) /\ G[i] \notin Seq(S) BY <2>1
  <2>5. i # 0
    <3>1. G[0] = << >> BY <2>2
    <3> QED BY <2>3, <2>4, <3>1
  <2>6. i - 1 \in 0..Len(q) /\ i - 1 \notin B BY <2>1, <2>4, <2>5
  <2>7. G[i - 1] \in Seq(S) BY <2>6
  <2>8. G[i] = IF q[i] \in S THEN Append(G[i - 1], q[i]) ELSE G[i - 1] BY <2>2, <2>4, <2>5
  <2> QED BY <2>3, <2>4, <2>7, <2>8
<1> QED BY <1>4, <1>5

-----------------------------------------------------------------------------
(* What is true of the sender between two callbacks, and of the record s a  *)
(* handler works on.  T are the files that count as told and f is the file  *)
(* the current connections begin with.                                      *)

ChunkKinds == {"FILE_BEGIN", "CHUNK", "FILE_COMMIT"}

\* File k may be sent: every file before it counts as told.
Reached(k, T, f) == k \in Files /\ f <= k /\ 1..(k - 1) \subseteq T

\* The messages of such files, of the kinds that their size asks for.
Orderly(T, f) ==
  {m \in Keys : /\ Reached(m.file, T, f)
                /\ ChunkMode(m.file) <=> m.kind \in ChunkKinds
                /\ m.kind = "DATA" => m.pos < Size[m.file]
                /\ m.kind = "CHUNK" => m.pos \in 1..Size[m.file]
                /\ m.kind \notin {"DATA", "CHUNK"} => m.pos = 0}

\* The append send state is untouched until the plan for its file starts it.
AppendOk(a) ==
  /\ DOMAIN a = {"on", "needs", "created", "ready", "data", "next", "len"}
  /\ a.next \in Nat
  /\ a.len \in Nat
  /\ a.on \/ (~a.created /\ ~a.data /\ a.next = 0)

TaskOk(t, k) ==
  /\ DOMAIN t = {"chunked", "begun", "ready", "committed", "append", "out", "acked", "urgent",
                 "attempts"}
  /\ t.chunked <=> ChunkMode(k)
  /\ AppendOk(t.append)

Shape(s) ==
  DOMAIN s = {"cur", "applied", "complete", "task", "buffer", "resend", "recoveries", "status",
              "sent", "credit", "late"}

\* The plan: the files before the current one count as told, and all of them
\* once the stream is complete.
PlanOk(s, T, f) ==
  /\ s.cur \in 1..(NFiles + 1)
  /\ 1..(s.cur - 1) \subseteq T
  /\ s.applied => f <= s.cur
  /\ s.complete \/ s.status = "done" => Files \subseteq T

TasksOk(s) == DOMAIN s.task = Files /\ \A k \in Files : TaskOk(s.task[k], k)

\* The send buffer: a buffered CREATE or DATA belongs to a plan that started.
BufferOk(s, T, f) ==
  /\ Held(s) \subseteq Orderly(T, f)
  /\ \A m \in Held(s) : m.kind \in {"CREATE", "DATA"} => s.task[m.file].append.on

QueuesOk(s, T, f) ==
  /\ s.resend \in Seq(Keys)
  /\ s.late \in Seq(Keys)
  /\ s.sent \in Seq(Orderly(T, f) \cup {Manifest1})
  /\ s.credit \in Int

Base(s, T, f) ==
  Shape(s) /\ PlanOk(s, T, f) /\ TasksOk(s) /\ BufferOk(s, T, f) /\ QueuesOk(s, T, f)

\* While a manifest is applied, the plan of the current file has started.
Going(s) ==
  s.applied /\ Active(s) /\ s.status = "busy" /\ ~s.task[s.cur].chunked => s.task[s.cur].append.on

Ok(s, T, f) == Base(s, T, f) /\ Going(s)

-----------------------------------------------------------------------------
(* The handlers' helpers.                                                   *)

\* Sending a message of the current file.
LEMMA BufferedOk ==
  ASSUME NEW T, NEW f, NEW s, Ok(s, T, f), NEW m \in Orderly(T, f),
         m.kind \in {"CREATE", "DATA"} => s.task[m.file].append.on
  PROVE  /\ Ok(SendBuffered(s, m), T, f)
         /\ SendBuffered(s, m).task = s.task
         /\ SendBuffered(s, m).cur = s.cur
         /\ SendBuffered(s, m).applied = s.applied
         /\ SendBuffered(s, m).status = s.status
<1> DEFINE n == SendBuffered(s, m)
<1>1. /\ DOMAIN n = DOMAIN s
      /\ n.cur = s.cur /\ n.applied = s.applied /\ n.complete = s.complete /\ n.task = s.task
      /\ n.resend = s.resend /\ n.status = s.status /\ n.late = s.late
      /\ n.buffer = [x \in Held(s) \cup {m} |-> IF x = m THEN 0 ELSE s.buffer[x]]
      /\ n.sent = Append(s.sent, m)
      /\ n.credit = s.credit - 1
  BY DEF Ok, Base, Shape, SendBuffered
<1> HIDE DEF n
<1>2. Held(n) = Held(s) \cup {m} BY <1>1 DEF Held
<1>3. n.sent \in Seq(Orderly(T, f) \cup {Manifest1}) BY <1>1 DEF Ok, Base, QueuesOk
<1>4. PlanOk(n, T, f) BY <1>1 DEF Ok, Base, PlanOk
<1>5. Shape(n) /\ TasksOk(n) BY <1>1 DEF Ok, Base, Shape, TasksOk
<1>6. BufferOk(n, T, f) BY <1>1, <1>2 DEF Ok, Base, BufferOk
<1>7. QueuesOk(n, T, f) BY <1>1, <1>3 DEF Ok, Base, QueuesOk
<1>8. Going(n) BY <1>1 DEF Ok, Going, Active
<1> QED BY <1>1, <1>4, <1>5, <1>6, <1>7, <1>8 DEF Ok, Base, n

\* erase_completed.
LEMMA EraseOk ==
  ASSUME NEW T, NEW f, NEW s, Ok(s, T, f), NEW h
  PROVE  /\ Ok(EraseCompleted(s, h), T, f)
         /\ EraseCompleted(s, h).task = s.task
         /\ EraseCompleted(s, h).cur = s.cur
<1> DEFINE n == EraseCompleted(s, h)
<1>1. /\ DOMAIN n = DOMAIN s
      /\ n.cur = s.cur /\ n.applied = s.applied /\ n.complete = s.complete /\ n.task = s.task
      /\ n.resend = s.resend /\ n.status = s.status /\ n.late = s.late
      /\ n.sent = s.sent /\ n.credit = s.credit
      /\ DOMAIN n.buffer \subseteq DOMAIN s.buffer
  BY DEF Ok, Base, Shape, EraseCompleted, Without
<1> HIDE DEF n
<1>2. PlanOk(n, T, f) /\ Shape(n) /\ TasksOk(n) BY <1>1 DEF Ok, Base, PlanOk, Shape, TasksOk
<1>3. BufferOk(n, T, f) /\ QueuesOk(n, T, f) BY <1>1 DEF Ok, Base, BufferOk, QueuesOk, Held
<1>4. Going(n) BY <1>1 DEF Ok, Going, Active
<1> QED BY <1>1, <1>2, <1>3, <1>4 DEF Ok, Base, n

\* enqueue_retransmit.
LEMMA EnqueueOk ==
  ASSUME NEW T, NEW f, NEW s, Ok(s, T, f), NEW ms, Len(ms) \in Nat
  PROVE  /\ Ok(Enqueue(s, ms), T, f)
         /\ Enqueue(s, ms).task = s.task
         /\ Enqueue(s, ms).cur = s.cur
<1> DEFINE n == Enqueue(s, ms)
           q == Filter(ms, Held(s) \ Range(s.resend))
<1>2. q \in Seq(Held(s) \ Range(s.resend)) BY FilterIn
<1>0. n = [s EXCEPT !.resend = s.resend \o q] BY DEF Enqueue
<1> HIDE DEF n, q
<1>1. /\ DOMAIN n = DOMAIN s
      /\ n.cur = s.cur /\ n.applied = s.applied /\ n.complete = s.complete /\ n.task = s.task
      /\ n.buffer = s.buffer /\ n.status = s.status /\ n.late = s.late
      /\ n.sent = s.sent /\ n.credit = s.credit
      /\ n.resend = s.resend \o q
  BY <1>0 DEF Ok, Base, Shape
<1>3. n.resend \in Seq(Keys)
  <2>1. Held(s) \subseteq Keys BY DEF Ok, Base, BufferOk, Orderly
  <2>2. q \in Seq(Keys) BY <1>2, <2>1
  <2> QED BY <1>1, <2>2 DEF Ok, Base, QueuesOk
<1>4. PlanOk(n, T, f) /\ Shape(n) /\ TasksOk(n) BY <1>1 DEF Ok, Base, PlanOk, Shape, TasksOk
<1>5. BufferOk(n, T, f) /\ QueuesOk(n, T, f) BY <1>1, <1>3 DEF Ok, Base, BufferOk, QueuesOk, Held
<1>6. Going(n) BY <1>1 DEF Ok, Going, Active
<1> QED BY <1>1, <1>4, <1>5, <1>6 DEF Ok, Base, n

\* final_fail.
LEMMA FailOk ==
  ASSUME NEW T, NEW f, NEW s, Base(s, T, f)
  PROVE  Ok(FinalFail(s), T, f)
<1> DEFINE n == FinalFail(s)
<1>1. /\ DOMAIN n = DOMAIN s
      /\ n.cur = s.cur /\ n.applied = s.applied /\ n.complete = s.complete /\ n.task = s.task
      /\ n.buffer = s.buffer /\ n.resend = s.resend /\ n.late = s.late
      /\ n.sent = s.sent /\ n.credit = s.credit /\ n.status = "failed"
  BY DEF Base, Shape, FinalFail
<1> HIDE DEF n
<1>2. PlanOk(n, T, f) /\ Shape(n) /\ TasksOk(n) BY <1>1 DEF Base, PlanOk, Shape, TasksOk
<1>3. BufferOk(n, T, f) /\ QueuesOk(n, T, f) BY <1>1 DEF Base, BufferOk, QueuesOk, Held
<1>4. Going(n) BY <1>1 DEF Going
<1> QED BY <1>2, <1>3, <1>4 DEF Ok, Base, n

\* initialize_file_task.
LEMMA FreshTasks ==
  ASSUME NEW k \in Files
  PROVE  TaskOk(FreshTask(k), k)
BY DEF TaskOk, FreshTask, AppendOk, FreshAppend

\* send_manifest1.
LEMMA SendManifest1Ok ==
  ASSUME NEW T, NEW f, NEW s, Ok(s, T, f)
  PROVE  Ok(SendManifest1(s), T, f)
<1> DEFINE n == SendManifest1(s)
<1>1. /\ DOMAIN n = DOMAIN s
      /\ n.cur = s.cur /\ n.applied = s.applied /\ n.complete = s.complete /\ n.task = s.task
      /\ n.buffer = s.buffer /\ n.resend = s.resend /\ n.late = s.late
      /\ n.credit = s.credit /\ n.status = s.status
      /\ n.sent = Append(s.sent, Manifest1)
  BY DEF Ok, Base, Shape, SendManifest1
<1> HIDE DEF n
<1>2. n.sent \in Seq(Orderly(T, f) \cup {Manifest1}) BY <1>1 DEF Ok, Base, QueuesOk
<1>3. PlanOk(n, T, f) /\ Shape(n) /\ TasksOk(n) BY <1>1 DEF Ok, Base, PlanOk, Shape, TasksOk
<1>4. BufferOk(n, T, f) /\ QueuesOk(n, T, f) BY <1>1, <1>2 DEF Ok, Base, BufferOk, QueuesOk, Held
<1>5. Going(n) BY <1>1 DEF Ok, Going, Active
<1> QED BY <1>3, <1>4, <1>5 DEF Ok, Base, n

\* recover_with_manifest1.
LEMMA RecoverOk ==
  ASSUME NEW T, NEW f, NEW s, Base(s, T, f)
  PROVE  Ok(Recover(s), T, f)
<1>1. CASE s.status = "failed" BY <1>1 DEF Recover, Ok, Going
<1>2. CASE s.status # "failed" /\ s.recoveries >= MaxRecoveries BY <1>2, FailOk DEF Recover
<1>3. CASE s.status # "failed" /\ ~(s.recoveries >= MaxRecoveries)
  <2> DEFINE n == [s EXCEPT !.recoveries = @ + 1, !.buffer = << >>, !.resend = << >>,
                            !.applied = FALSE, !.complete = FALSE, !.status = "busy",
                            !.task = [k \in Files |-> FreshTask(k)]]
  <2>1. /\ DOMAIN n = DOMAIN s
        /\ n.cur = s.cur /\ n.applied = FALSE /\ n.complete = FALSE
        /\ n.task = [k \in Files |-> FreshTask(k)]
        /\ n.buffer = << >> /\ n.resend = << >> /\ n.late = s.late
        /\ n.credit = s.credit /\ n.status = "busy" /\ n.sent = s.sent
    BY DEF Base, Shape
  <2>2. Recover(s) = SendManifest1(n) BY <1>3 DEF Recover
  <2> HIDE DEF n
  <2>3. PlanOk(n, T, f) /\ Shape(n) BY <2>1 DEF Base, PlanOk, Shape
  <2>4. TasksOk(n) BY <2>1, FreshTasks DEF TasksOk
  <2>5. Held(n) = {} BY <2>1 DEF Held
  <2>6. BufferOk(n, T, f) /\ QueuesOk(n, T, f) BY <2>1, <2>5 DEF Base, BufferOk, QueuesOk
  <2>7. Going(n) BY <2>1 DEF Going
  <2> QED BY <2>2, <2>3, <2>4, <2>6, <2>7, SendManifest1Ok DEF Ok, Base
<1> QED BY <1>1, <1>2, <1>3

\* check_all_done.
LEMMA CheckAllDoneOk ==
  ASSUME NEW T, NEW f, NEW s, Ok(s, T, f)
  PROVE  Ok(CheckAllDone(s), T, f)
<1>1. CASE s.status = "busy" /\ s.complete
  <2> DEFINE n == CheckAllDone(s)
  <2>1. /\ DOMAIN n = DOMAIN s
        /\ n.cur = s.cur /\ n.applied = s.applied /\ n.complete = s.complete /\ n.task = s.task
        /\ n.buffer = s.buffer /\ n.resend = s.resend /\ n.late = s.late
        /\ n.sent = s.sent /\ n.credit = s.credit /\ n.status = "done"
    BY <1>1 DEF Ok, Base, Shape, CheckAllDone
  <2> HIDE DEF n
  <2>2. PlanOk(n, T, f) /\ Shape(n) /\ TasksOk(n)
    BY <1>1, <2>1 DEF Ok, Base, PlanOk, Shape, TasksOk
  <2>3. BufferOk(n, T, f) /\ QueuesOk(n, T, f) BY <2>1 DEF Ok, Base, BufferOk, QueuesOk, Held
  <2>4. Going(n) BY <2>1 DEF Going
  <2> QED BY <2>2, <2>3, <2>4 DEF Ok, Base, n
<1>2. CASE ~(s.status = "busy" /\ s.complete) BY <1>2 DEF CheckAllDone
<1> QED BY <1>1, <1>2

\* Another state for the task of file k.
LEMMA TaskChange ==
  ASSUME NEW T, NEW f, NEW s, Base(s, T, f), NEW k \in Files, NEW t, TaskOk(t, k),
         s.task[k].append.on => t.append.on
  PROVE  LET n == [s EXCEPT !.task[k] = t]
         IN  /\ Base(n, T, f)
             /\ Going(s) => Ok(n, T, f)
             /\ n.cur = s.cur /\ n.applied = s.applied /\ n.status = s.status
             /\ n.task = [s.task EXCEPT ![k] = t] /\ n.task[k] = t
<1> DEFINE n == [s EXCEPT !.task[k] = t]
<1>1. /\ DOMAIN n = DOMAIN s
      /\ n.cur = s.cur /\ n.applied = s.applied /\ n.complete = s.complete
      /\ n.buffer = s.buffer /\ n.resend = s.resend /\ n.late = s.late
      /\ n.sent = s.sent /\ n.credit = s.credit /\ n.status = s.status
      /\ n.task = [s.task EXCEPT ![k] = t]
  BY DEF Base, Shape
<1> HIDE DEF n
<1>2. /\ DOMAIN n.task = Files /\ n.task[k] = t
      /\ \A j \in Files : j # k => n.task[j] = s.task[j]
  BY <1>1 DEF Base, TasksOk
<1>3. PlanOk(n, T, f) /\ Shape(n) /\ TasksOk(n) BY <1>1, <1>2 DEF Base, PlanOk, Shape, TasksOk
<1>4. QueuesOk(n, T, f) BY <1>1 DEF Base, QueuesOk
<1>5. BufferOk(n, T, f)
  <2>1. \A m \in Held(s) : m.file \in Files BY DEF Base, BufferOk, Orderly, Keys
  <2>2. \A j \in Files : s.task[j].append.on => n.task[j].append.on BY <1>2
  <2> QED BY <1>1, <2>1, <2>2 DEF Base, BufferOk, Held
<1>6. ASSUME Going(s) PROVE Going(n)
  <2>1. CASE s.cur = k
    BY <1>1, <1>2, <1>6, <2>1 DEF Going, Active, Base, TasksOk, TaskOk
  <2>2. CASE s.cur # k BY <1>1, <1>2, <1>6, <2>2 DEF Going, Active
  <2> QED BY <2>1, <2>2
<1> QED BY <1>1, <1>2, <1>3, <1>4, <1>5, <1>6 DEF Ok, Base, n

\* The current file, while a manifest is applied.
LEMMA CurrentReached ==
  ASSUME NEW T, NEW f, NEW s, Base(s, T, f), Active(s), s.applied
  PROVE  Reached(s.cur, T, f)
BY DEF Base, PlanOk, Active, Reached

\* The length of a DATA message.
LEMMA DataLenNat ==
  ASSUME NEW k \in Files, NEW o \in Nat, o < Size[k]
  PROVE  DataLen(k, o) \in Nat
BY SenderAssumption DEF DataLen

\* send_append_if_possible.
LEMMA SendAppendOk ==
  ASSUME NEW T, NEW f, NEW s, Ok(s, T, f), Active(s)
  PROVE  Ok(SendAppend(s), T, f)
<1> DEFINE k == s.cur
           t == s.task[k]
           a == t.append
<1>1. k \in Files /\ TaskOk(t, k) /\ AppendOk(a) BY DEF Active, Ok, Base, TasksOk, TaskOk
<1>2. CASE t.chunked \/ ~s.applied \/ s.status # "busy" \/ s.credit = 0 BY <1>2 DEF SendAppend
<1>3. CASE ~(t.chunked \/ ~s.applied \/ s.status # "busy" \/ s.credit = 0)
  <2>1. Reached(k, T, f) /\ ~ChunkMode(k) /\ a.on
    BY <1>1, <1>3, CurrentReached DEF Ok, Going, TaskOk
  <2>2. CASE a.needs /\ ~a.created
    <3> DEFINE m == Create(k)
               n == SendBuffered(s, m)
               u == [t EXCEPT !.append.created = TRUE]
    <3>1. m \in Orderly(T, f) /\ m.file = k
      BY <1>1, <2>1 DEF Orderly, Create, Msg, Keys, Kinds, ChunkKinds
    <3>2. TaskOk(u, k) /\ u.append.on BY <1>1, <2>1 DEF TaskOk, AppendOk
    <3>3. SendAppend(s) = [n EXCEPT !.task[k].append.created = TRUE] BY <1>3, <2>2 DEF SendAppend
    <3>4. Ok(n, T, f) /\ n.task = s.task BY <2>1, <3>1, BufferedOk
    <3> HIDE DEF n, m
    <3>5. SendAppend(s) = [n EXCEPT !.task[k] = u] BY <3>3, <3>4
    <3> HIDE DEF u
    <3> QED BY <1>1, <3>2, <3>4, <3>5, TaskChange DEF Ok
  <2>3. CASE ~(a.needs /\ ~a.created) /\ (a.needs => a.ready) /\ ~a.data /\ a.next < Size[k]
    <3> DEFINE m == Data(k, a.next)
               d == DataLen(k, a.next)
               n == SendBuffered(s, m)
               u == [t EXCEPT !.append.data = TRUE, !.append.len = d]
    <3>1. m \in Orderly(T, f) /\ m.file = k
      BY <1>1, <2>1, <2>3 DEF Orderly, Data, Msg, Keys, Kinds, ChunkKinds, AppendOk
    <3>0. d \in Nat BY <1>1, <2>3, DataLenNat DEF AppendOk
    <3>3. SendAppend(s) = [n EXCEPT !.task[k].append.data = TRUE, !.task[k].append.len = d]
      BY <1>3, <2>3 DEF SendAppend
    <3>4. Ok(n, T, f) /\ n.task = s.task BY <2>1, <3>1, BufferedOk
    <3> HIDE DEF n, m, d
    <3>2. TaskOk(u, k) /\ u.append.on BY <1>1, <2>1, <3>0 DEF TaskOk, AppendOk
    <3> DEFINE n1 == [n EXCEPT !.task[k].append.data = TRUE]
               u1 == [t EXCEPT !.append.data = TRUE]
    <3>5. TaskOk(u1, k) /\ u1.append.on BY <1>1, <2>1 DEF TaskOk, AppendOk
    <3>6. n1 = [n EXCEPT !.task[k] = u1] BY <3>4
    <3>7. SendAppend(s) = [n1 EXCEPT !.task[k].append.len = d] BY <3>3
    <3>8. u = [u1 EXCEPT !.append.len = d] OBVIOUS
    <3> HIDE DEF u, u1, n1
    <3>9. Ok(n1, T, f) /\ n1.task[k] = u1 BY <1>1, <3>4, <3>5, <3>6, TaskChange DEF Ok
    <3>10. SendAppend(s) = [n1 EXCEPT !.task[k] = u] BY <3>7, <3>8, <3>9
    <3> QED BY <1>1, <3>2, <3>9, <3>10, TaskChange DEF Ok
  <2>4. CASE ~(a.needs /\ ~a.created) /\ ~((a.needs => a.ready) /\ ~a.data /\ a.next < Size[k])
    BY <2>4 DEF SendAppend
  <2> QED BY <2>2, <2>3, <2>4
<1> QED BY <1>2, <1>3

\* apply_append_plan starts the plan of the current file.
LEMMA AppendPlanOk ==
  ASSUME NEW T, NEW f, NEW s, Base(s, T, f), Active(s), ~ChunkMode(s.cur),
         NEW action, NEW offset \in Nat
  PROVE  Ok(ApplyAppendPlan(s, action, offset), T, f)
<1> DEFINE k == s.cur
           t == s.task[k]
<1>1. k \in Files /\ TaskOk(t, k) /\ AppendOk(t.append) BY DEF Active, Base, TasksOk, TaskOk
<1>2. CASE Inflight(t.append) \/ s.status = "done"
  BY <1>1, <1>2 DEF ApplyAppendPlan, Ok, Going, Inflight, AppendOk
<1>3. CASE ~(Inflight(t.append) \/ s.status = "done") /\ offset > Size[k]
  BY <1>3, FailOk DEF ApplyAppendPlan
<1>4. CASE ~(Inflight(t.append) \/ s.status = "done") /\ ~(offset > Size[k])
  <2> DEFINE u == [t EXCEPT !.append = StartAppend(action, offset)]
             n == [s EXCEPT !.task[k] = u]
  <2>1. ApplyAppendPlan(s, action, offset) = SendAppend(n) BY <1>4 DEF ApplyAppendPlan
  <2>2. TaskOk(u, k) /\ u.append.on BY <1>1 DEF TaskOk, AppendOk, StartAppend
  <2> HIDE DEF u
  <2>3. Base(n, T, f) /\ n.cur = k /\ n.task[k] = u BY <1>1, <2>2, TaskChange
  <2> HIDE DEF n
  <2>4. Ok(n, T, f) /\ Active(n) BY <1>1, <2>2, <2>3 DEF Ok, Going, Active
  <2> QED BY <2>1, <2>4, SendAppendOk
<1> QED BY <1>2, <1>3, <1>4

\* send_file_begin.
LEMMA SendFileBeginOk ==
  ASSUME NEW T, NEW f, NEW s, Ok(s, T, f), Active(s)
  PROVE  /\ Ok(SendFileBegin(s), T, f)
         /\ SendFileBegin(s).cur = s.cur
<1> DEFINE k == s.cur
           t == s.task[k]
           m == FileBegin(k)
           n == SendBuffered(s, m)
           u == [t EXCEPT !.begun = TRUE]
<1>1. k \in Files /\ TaskOk(t, k) BY DEF Active, Ok, Base, TasksOk
<1>2. CASE ~t.chunked \/ t.begun \/ ~s.applied \/ s.credit = 0 BY <1>2 DEF SendFileBegin
<1>3. CASE ~(~t.chunked \/ t.begun \/ ~s.applied \/ s.credit = 0)
  <2>1. Reached(k, T, f) /\ ChunkMode(k) BY <1>1, <1>3, CurrentReached DEF Ok, TaskOk
  <2>2. m \in Orderly(T, f) /\ m.kind = "FILE_BEGIN"
    BY <1>1, <2>1 DEF Orderly, FileBegin, Msg, Keys, Kinds, ChunkKinds
  <2>3. TaskOk(u, k) /\ u.append = t.append BY <1>1 DEF TaskOk
  <2>4. SendFileBegin(s) = [n EXCEPT !.task[k].begun = TRUE] BY <1>3 DEF SendFileBegin
  <2>5. Ok(n, T, f) /\ n.task = s.task /\ n.cur = k BY <2>2, BufferedOk
  <2> HIDE DEF n, m
  <2>6. SendFileBegin(s) = [n EXCEPT !.task[k] = u] BY <2>4, <2>5
  <2> HIDE DEF u
  <2> QED BY <1>1, <2>3, <2>5, <2>6, TaskChange DEF Ok
<1> QED BY <1>2, <1>3

\* send_commit.
LEMMA SendCommitOk ==
  ASSUME NEW T, NEW f, NEW s, Ok(s, T, f), Active(s), s.applied, ChunkMode(s.cur)
  PROVE  Ok(SendCommit(s), T, f)
<1> DEFINE k == s.cur
           t == s.task[k]
           m == Commit(k)
           n == SendBuffered(s, m)
           u == [t EXCEPT !.committed = TRUE]
<1>1. k \in Files /\ TaskOk(t, k) BY DEF Active, Ok, Base, TasksOk
<1>2. CASE t.committed \/ s.credit = 0 BY <1>2 DEF SendCommit
<1>3. CASE ~(t.committed \/ s.credit = 0)
  <2>1. Reached(k, T, f) BY CurrentReached DEF Ok
  <2>2. m \in Orderly(T, f) /\ m.kind = "FILE_COMMIT"
    BY <1>1, <2>1 DEF Orderly, Commit, Msg, Keys, Kinds, ChunkKinds
  <2>3. TaskOk(u, k) /\ u.append = t.append BY <1>1 DEF TaskOk
  <2>4. SendCommit(s) = [n EXCEPT !.task[k].committed = TRUE] BY <1>3 DEF SendCommit
  <2>5. Ok(n, T, f) /\ n.task = s.task /\ n.cur = k BY <2>2, BufferedOk
  <2> HIDE DEF n, m
  <2>6. SendCommit(s) = [n EXCEPT !.task[k] = u] BY <2>4, <2>5
  <2> HIDE DEF u
  <2> QED BY <1>1, <2>3, <2>5, <2>6, TaskChange DEF Ok
<1> QED BY <1>2, <1>3

\* A smallest element of a set of integers that is bounded below.
LEMMA LeastInt ==
  ASSUME NEW S \in SUBSET Int, S # {}, NEW b \in Int, \A i \in S : b <= i
  PROVE  Least(S) \in S /\ \A j \in S : Least(S) <= j
<1> DEFINE N == {i - b : i \in S}
<1>0. \A i \in S : i \in Int /\ i - b \in Nat OBVIOUS
<1>1. N \in SUBSET Nat /\ N # {} BY <1>0
<1>2. PICK x \in N : \A y \in N : x <= y
  <2> HIDE DEF N
  <2> QED BY <1>1, LeastNat
<1>3. PICK i \in S : x = i - b BY <1>2
<1>4. \A j \in S : i <= j
  <2> SUFFICES ASSUME NEW j \in S PROVE i <= j OBVIOUS
  <2>1. j - b \in N OBVIOUS
  <2>2. i - b <= j - b BY <1>2, <1>3, <2>1
  <2> QED BY <1>0, <2>2
<1> QED BY <1>3, <1>4 DEF Least

\* Sequences from functions and from sequences over less.
LEMMA SeqFrom ==
  ASSUME NEW S, NEW n \in Nat, NEW q, q = [j \in 1..n |-> q[j]], \A j \in 1..n : q[j] \in S
  PROVE  q \in Seq(S) /\ Len(q) = n
OBVIOUS

LEMMA SeqMono ==
  ASSUME NEW S, NEW R1, S \subseteq R1, NEW q \in Seq(S)
  PROVE  q \in Seq(R1)
OBVIOUS

\* Sending several messages of files that may be sent.
LEMMA SendMany ==
  ASSUME NEW T, NEW f, NEW s, Ok(s, T, f), NEW ms \in Seq(Orderly(T, f)),
         \A m \in Range(ms) : m.kind \in {"CREATE", "DATA"} => s.task[m.file].append.on,
         NEW n, DOMAIN n = DOMAIN s, n.cur = s.cur, n.applied = s.applied,
         n.complete = s.complete, n.task = s.task, n.status = s.status, n.late = s.late,
         n.resend \in Seq(Keys), DOMAIN n.buffer = Held(s) \cup Range(ms),
         n.sent = s.sent \o ms, n.credit \in Int
  PROVE  Ok(n, T, f)
<1>1. PlanOk(n, T, f) /\ Shape(n) /\ TasksOk(n) BY DEF Ok, Base, PlanOk, Shape, TasksOk
<1>2. Range(ms) \subseteq Orderly(T, f) BY DEF Range
<1>3. BufferOk(n, T, f) BY <1>2 DEF Ok, Base, BufferOk, Held
<1>4. n.sent \in Seq(Orderly(T, f) \cup {Manifest1})
  <2>1. ms \in Seq(Orderly(T, f) \cup {Manifest1}) OBVIOUS
  <2> QED BY <2>1 DEF Ok, Base, QueuesOk
<1>5. QueuesOk(n, T, f) BY <1>4 DEF Ok, Base, QueuesOk
<1>6. Going(n) BY DEF Ok, Going, Active
<1> QED BY <1>1, <1>3, <1>5, <1>6 DEF Ok, Base

\* next_chunk_to_send.
LEMMA ChunksToSendType ==
  ASSUME NEW s, s.cur \in Files, ChunkMode(s.cur)
  PROVE  ChunksToSend(s) \in Seq(ChunksOf(s.cur))
<1> DEFINE k == s.cur
           all == [i \in 1..Size[k] |-> i]
           sendable == {i \in 1..Size[k] : CanSendChunk(s, i)}
           A == sendable \cap s.task[k].urgent
           B == sendable \ s.task[k].urgent
<1>0. Size[k] \in Nat BY SenderAssumption
<1>1. Len(all) \in Nat BY <1>0
<1>2. Len(ChunkOrder(k)) \in Nat
  <2>1. <<Size[k]>> \in Seq(Nat) BY <1>0
  <2>2. [i \in 1..(Size[k] - 1) |-> i] \in Seq(Nat)
    <3> DEFINE n == IF Size[k] = 0 THEN 0 ELSE Size[k] - 1
               q == [i \in 1..(Size[k] - 1) |-> i]
    <3>1. n \in Nat /\ 1..(Size[k] - 1) = 1..n BY <1>0
    <3>2. q = [i \in 1..n |-> q[i]] /\ \A i \in 1..n : q[i] \in Nat BY <3>1
    <3> HIDE DEF n, q
    <3> QED BY <3>1, <3>2, SeqFrom DEF q
  <2>3. ChunkOrder(k) \in Seq(Nat) BY <2>1, <2>2 DEF ChunkOrder
  <2> HIDE DEF k
  <2> QED BY <2>3
<1>3. ChunksToSend(s) = Filter(all, A) \o Filter(ChunkOrder(k), B) BY DEF ChunksToSend
<1> HIDE DEF all, A, B
<1>4. Filter(all, A) \in Seq(A) /\ Filter(ChunkOrder(k), B) \in Seq(B) BY <1>1, <1>2, FilterIn
<1>5. A \subseteq ChunksOf(k) /\ B \subseteq ChunksOf(k) BY DEF A, B, ChunksOf
<1>6. Filter(all, A) \in Seq(ChunksOf(k)) /\ Filter(ChunkOrder(k), B) \in Seq(ChunksOf(k))
  BY <1>4, <1>5, SeqMono
<1> QED BY <1>3, <1>6

\* The chunks of a file that may be sent.
LEMMA ChunkOrderly ==
  ASSUME NEW T, NEW f, NEW k \in Files, Reached(k, T, f), ChunkMode(k), NEW i \in ChunksOf(k)
  PROVE  Chunk(k, i) \in Orderly(T, f) /\ Chunk(k, i).kind = "CHUNK"
<1>1. i \in 1..Size[k] /\ i \in Nat BY SenderAssumption DEF ChunksOf
<1> QED BY <1>1 DEF Orderly, Chunk, Msg, Keys, Kinds, ChunkKinds

\* mark_chunk_sent keeps what concerns other states of the task.
LEMMA MarkChunksOk ==
  ASSUME NEW k, NEW t, TaskOk(t, k), NEW is
  PROVE  TaskOk(MarkChunksSent(t, is), k) /\ MarkChunksSent(t, is).append = t.append
BY DEF TaskOk, MarkChunksSent

\* schedule_chunk_work.
LEMMA ChunkWorkOk ==
  ASSUME NEW T, NEW f, NEW s, Ok(s, T, f), Active(s), s.applied, ChunkMode(s.cur)
  PROVE  Ok(ScheduleChunkWork(s), T, f)
<1> DEFINE k     == s.cur
           t     == s.task[k]
           todo  == ChunksToSend(s)
           tired == {j \in 1..Len(todo) : t.attempts[todo[j]] > MaxRetries}
           S     == tired \cup {s.credit + 1, Len(todo) + 1}
           stuck == Least(S)
           ms    == [j \in 1..(stuck - 1) |-> Chunk(k, todo[j])]
           is    == {todo[j] : j \in 1..(stuck - 1)}
           b     == [x \in Held(s) \cup Range(ms) |-> IF x \in Range(ms) THEN 0 ELSE s.buffer[x]]
           sent  == [s EXCEPT !.buffer = b, !.sent = @ \o ms, !.credit = @ - Len(ms)]
           after == [s EXCEPT !.buffer = b, !.sent = @ \o ms, !.credit = @ - Len(ms),
                              !.task[k] = MarkChunksSent(@, is)]
<1>1. k \in Files /\ TaskOk(t, k) /\ s.credit \in Int
  BY DEF Active, Ok, Base, TasksOk, QueuesOk
<1>2. todo \in Seq(ChunksOf(k)) BY <1>1, ChunksToSendType
<1>3. Reached(k, T, f) BY CurrentReached DEF Ok
<1>4. stuck \in Int /\ stuck <= Len(todo) + 1
  <2> DEFINE low == IF s.credit + 1 <= 1 THEN s.credit + 1 ELSE 1
  <2>1. S \in SUBSET Int /\ S # {} /\ low \in Int /\ Len(todo) + 1 \in S
    BY <1>1, <1>2
  <2>2. \A i \in S : low <= i BY <1>1, <1>2
  <2> HIDE DEF S, low
  <2> QED BY <2>1, <2>2, LeastInt
<1>5. ScheduleChunkWork(s) =
        IF ~t.ready THEN SendFileBegin(s)
        ELSE IF stuck \in tired THEN Recover(after)
        ELSE IF stuck <= Len(todo) THEN after
        ELSE IF t.acked = ChunksOf(k) THEN SendCommit(after)
        ELSE after
  BY DEF ScheduleChunkWork
<1> HIDE DEF todo, S, stuck
<1>6. ms \in Seq(Orderly(T, f)) /\ Len(ms) \in Nat /\ \A m \in Range(ms) : m.kind = "CHUNK"
  <2> DEFINE n == IF stuck - 1 >= 0 THEN stuck - 1 ELSE 0
  <2>1. n \in Nat /\ 1..n = 1..(stuck - 1) BY <1>4
  <2>2. \A j \in 1..(stuck - 1) : /\ Chunk(k, todo[j]) \in Orderly(T, f)
                                  /\ Chunk(k, todo[j]).kind = "CHUNK"
    <3> SUFFICES ASSUME NEW j \in 1..(stuck - 1)
                 PROVE  /\ Chunk(k, todo[j]) \in Orderly(T, f)
                        /\ Chunk(k, todo[j]).kind = "CHUNK"
      OBVIOUS
    <3>0. j \in 1..Len(todo) BY <1>2, <1>4
    <3>1. todo[j] \in ChunksOf(k) BY <1>2, <3>0
    <3> QED BY <1>1, <1>3, <3>1, ChunkOrderly
  <2> HIDE DEF n
  <2>3. ms = [j \in 1..n |-> Chunk(k, todo[j])] BY <2>1
  <2>4. ms \in Seq(Orderly(T, f)) /\ Len(ms) = n
    <3>1. ms = [j \in 1..n |-> ms[j]] /\ \A j \in 1..n : ms[j] \in Orderly(T, f)
      BY <2>1, <2>2
    <3> HIDE DEF ms
    <3> QED BY <2>1, <3>1, SeqFrom
  <2>5. \A m \in Range(ms) : m.kind = "CHUNK" BY <2>1, <2>2, <2>4 DEF Range
  <2> QED BY <2>1, <2>4, <2>5
<1> HIDE DEF ms
<1>7. DOMAIN b = Held(s) \cup Range(ms) OBVIOUS
<1> HIDE DEF b
<1>8. Ok(sent, T, f) /\ sent.task = s.task /\ sent.cur = k /\ sent.applied = s.applied
  <2>1. /\ DOMAIN sent = DOMAIN s /\ sent.cur = s.cur /\ sent.applied = s.applied
        /\ sent.complete = s.complete /\ sent.task = s.task /\ sent.status = s.status
        /\ sent.late = s.late /\ sent.resend = s.resend /\ sent.buffer = b
        /\ sent.sent = s.sent \o ms /\ sent.credit = s.credit - Len(ms)
    BY DEF Ok, Base, Shape
  <2> HIDE DEF sent
  <2>2. sent.credit \in Int /\ sent.resend \in Seq(Keys)
    BY <1>1, <1>6, <2>1 DEF Ok, Base, QueuesOk
  <2> HIDE DEF k
  <2> QED BY <1>6, <1>7, <2>1, <2>2, SendMany DEF k
<1>9. Ok(after, T, f) /\ after.cur = k /\ after.applied = s.applied
  <2> DEFINE u == MarkChunksSent(t, is)
  <2>1. after = [sent EXCEPT !.task[k] = u] BY DEF Ok, Base, Shape
  <2>2. TaskOk(u, k) /\ u.append = t.append BY <1>1, MarkChunksOk
  <2> HIDE DEF u, sent, after
  <2>3. Base(sent, T, f) /\ Going(sent) /\ sent.task[k].append = t.append BY <1>8 DEF Ok
  <2> HIDE DEF k, t
  <2>4. sent.task[k].append.on => u.append.on BY <2>2, <2>3
  <2> DEFINE n == [sent EXCEPT !.task[k] = u]
  <2>5. Base(n, T, f) /\ (Going(sent) => Ok(n, T, f)) /\ n.cur = sent.cur /\ n.applied = sent.applied
    BY <1>1, <2>2, <2>3, <2>4, TaskChange
  <2> HIDE DEF n
  <2> QED BY <1>8, <2>1, <2>3, <2>5 DEF n
<1> HIDE DEF after
<1>10. Ok(SendFileBegin(s), T, f) BY SendFileBeginOk
<1>11. Ok(Recover(after), T, f) BY <1>9, RecoverOk DEF Ok
<1>12. Ok(SendCommit(after), T, f) BY <1>1, <1>9, SendCommitOk DEF Active
<1> QED BY <1>5, <1>9, <1>10, <1>11, <1>12

\* mark_task_retransmitted.
LEMMA MarkRetransmittedOk ==
  ASSUME NEW T, NEW f, NEW s, Ok(s, T, f), NEW ms \in Seq(Orderly(T, f)),
         \A m \in Range(ms) : m.kind \in {"CREATE", "DATA"} => s.task[m.file].append.on
  PROVE  Ok(MarkRetransmitted(s, ms), T, f)
<1> DEFINE k    == s.cur
           t    == s.task[k]
           a    == t.append
           mine == {m \in Range(ms) : m.file = k}
           D    == {m \in mine : m.kind = "DATA"}
           data == Filter(ms, D)
           n    == MarkRetransmitted(s, ms)
<1>1. CASE s.complete \/ ~Active(s) BY <1>1 DEF MarkRetransmitted
<1>2. CASE ~(s.complete \/ ~Active(s)) /\ t.chunked
  <2> DEFINE u == MarkChunksSent(t, {i \in ChunksOf(k) : Chunk(k, i) \in mine})
             v == [u EXCEPT !.begun = @ \/ FileBegin(k) \in mine,
                            !.committed = @ \/ Commit(k) \in mine]
  <2>1. k \in Files /\ TaskOk(t, k) BY <1>2 DEF Active, Ok, Base, TasksOk
  <2>2. n = [s EXCEPT !.task[k] = v] BY <1>2 DEF MarkRetransmitted
  <2>3. TaskOk(u, k) /\ u.append = t.append BY <2>1, MarkChunksOk
  <2> HIDE DEF u, n
  <2>4. TaskOk(v, k) /\ v.append = t.append BY <2>3 DEF TaskOk
  <2> HIDE DEF v
  <2> QED BY <2>1, <2>2, <2>4, TaskChange DEF Ok, n
<1>3. CASE ~(s.complete \/ ~Active(s)) /\ ~t.chunked
  <2> DEFINE len == IF data = << >> THEN a.len ELSE DataLen(k, data[Len(data)].pos)
             b   == [a EXCEPT !.created = @ \/ Create(k) \in mine,
                              !.data = @ \/ data # << >>,
                              !.len = len]
             v   == [t EXCEPT !.append = b]
  <2>1. k \in Files /\ TaskOk(t, k) /\ AppendOk(a)
    BY <1>3 DEF Active, Ok, Base, TasksOk, TaskOk
  <2>2. n = [s EXCEPT !.task[k] = v] BY <1>3 DEF MarkRetransmitted
  <2>3. data \in Seq(D)
    <3>1. Len(ms) \in Nat OBVIOUS
    <3> HIDE DEF D
    <3> QED BY <3>1, FilterIn
  <2>4. \A m \in mine : /\ m \in Orderly(T, f) /\ m.file = k
                        /\ m.kind \in {"CREATE", "DATA"} => a.on
    BY DEF Range
  <2>5. \A m \in D : a.on /\ m.pos \in Nat /\ m.pos < Size[k] BY <2>4 DEF Orderly, Keys
  <2>6. data # << >> => data[Len(data)] \in D
    <3> HIDE DEF D, data
    <3> QED BY <2>3
  <2>7. data # << >> => a.on /\ len \in Nat BY <2>1, <2>5, <2>6, DataLenNat
  <2>8. Create(k) \in mine => a.on BY <2>4 DEF Create, Msg
  <2>9. len \in Nat BY <2>1, <2>7 DEF AppendOk
  <2> HIDE DEF len, data, mine, n
  <2>10. AppendOk(b) /\ (a.on => b.on) BY <2>1, <2>7, <2>8, <2>9 DEF AppendOk
  <2> HIDE DEF b
  <2>11. TaskOk(v, k) /\ v.append = b BY <2>1, <2>10 DEF TaskOk
  <2> HIDE DEF v
  <2> QED BY <2>1, <2>2, <2>10, <2>11, TaskChange DEF Ok, n
<1> QED BY <1>1, <1>2, <1>3

\* flush_retransmits: where it stops ...
LEMMA StuckType ==
  ASSUME NEW T, NEW f, NEW s, Ok(s, T, f)
  PROVE  Stuck(s) \in 1..(Len(s.resend) + 1)
<1> DEFINE L == Len(s.resend)
           P == {i \in 1..L :
                   /\ s.resend[i] \in Held(s)
                   /\ \/ s.buffer[s.resend[i]] >= MaxRetries
                      \/ Cardinality({j \in 1..(i - 1) : s.resend[j] \in Held(s)}) >= s.credit}
           S == {L + 1} \cup P
<1>1. L \in Nat BY DEF Ok, Base, QueuesOk
<1>2. Stuck(s) = Least(S) BY DEF Stuck
<1>3. \A i \in P : i \in 1..L OBVIOUS
<1> HIDE DEF P, L
<1>4. \A i \in S : i \in 1..(L + 1) BY <1>1, <1>3
<1>6. S \in SUBSET Nat /\ S # {}
  <2>1. L + 1 \in S /\ \A i \in 1..(L + 1) : i \in Nat BY <1>1
  <2> HIDE DEF S
  <2> QED BY <1>4, <2>1
<1> HIDE DEF S
<1>5. Least(S) \in S BY <1>6, LeastNat
<1> QED BY <1>2, <1>4, <1>5 DEF L

\* ... and what it does.
LEMMA FlushRetransmitsOk ==
  ASSUME NEW T, NEW f, NEW s, Ok(s, T, f)
  PROVE  Ok(FlushRetransmits(s), T, f)
<1> DEFINE stuck == Stuck(s)
           ms    == Filter(SubSeq(s.resend, 1, stuck - 1), Held(s))
           b     == [m \in Held(s) |-> IF m \in Range(ms) THEN s.buffer[m] + 1 ELSE s.buffer[m]]
           n     == [s EXCEPT !.resend = SubSeq(@, stuck, Len(@)), !.buffer = b,
                              !.sent = @ \o ms, !.credit = @ - Len(ms)]
           after == MarkRetransmitted(n, ms)
<1>1. s.resend \in Seq(Keys) /\ s.credit \in Int BY DEF Ok, Base, QueuesOk
<1>2. stuck \in 1..(Len(s.resend) + 1) BY StuckType
<1>3. FlushRetransmits(s) = IF stuck <= Len(s.resend) /\ s.buffer[s.resend[stuck]] >= MaxRetries
                            THEN Recover(after) ELSE after
  BY DEF FlushRetransmits
<1> HIDE DEF stuck
<1>4. SubSeq(s.resend, 1, stuck - 1) \in Seq(Keys) /\ SubSeq(s.resend, stuck, Len(s.resend)) \in Seq(Keys)
  BY <1>1, <1>2
<1>5. ms \in Seq(Held(s))
  <2> DEFINE q == SubSeq(s.resend, 1, stuck - 1)
  <2>1. Len(q) \in Nat BY <1>4
  <2> HIDE DEF q
  <2>2. Filter(q, Held(s)) \in Seq(Held(s)) BY <2>1, FilterIn
  <2> QED BY <2>2 DEF q
<1> HIDE DEF ms
<1>6. /\ Range(ms) \subseteq Held(s)
      /\ Len(ms) \in Nat
      /\ ms \in Seq(Orderly(T, f))
      /\ \A m \in Range(ms) : m.kind \in {"CREATE", "DATA"} => s.task[m.file].append.on
  <2>1. Range(ms) \subseteq Held(s) /\ Len(ms) \in Nat BY <1>5 DEF Range
  <2>2. Held(s) \subseteq Orderly(T, f) BY DEF Ok, Base, BufferOk
  <2>3. ms \in Seq(Orderly(T, f)) BY <1>5, <2>2, SeqMono
  <2> QED BY <2>1, <2>3 DEF Ok, Base, BufferOk
<1>7. DOMAIN b = Held(s) \cup Range(ms) BY <1>6
<1> HIDE DEF b
<1>8. /\ DOMAIN n = DOMAIN s /\ n.cur = s.cur /\ n.applied = s.applied
      /\ n.complete = s.complete /\ n.task = s.task /\ n.status = s.status
      /\ n.late = s.late /\ n.resend = SubSeq(s.resend, stuck, Len(s.resend)) /\ n.buffer = b
      /\ n.sent = s.sent \o ms /\ n.credit = s.credit - Len(ms)
  BY DEF Ok, Base, Shape
<1> HIDE DEF n
<1>9. n.credit \in Int /\ n.resend \in Seq(Keys) BY <1>1, <1>4, <1>6, <1>8
<1>10. Ok(n, T, f) BY <1>6, <1>7, <1>8, <1>9, SendMany
<1>11. Ok(after, T, f) BY <1>6, <1>8, <1>10, MarkRetransmittedOk
<1> HIDE DEF after
<1>12. Ok(Recover(after), T, f) BY <1>11, RecoverOk DEF Ok
<1> QED BY <1>3, <1>11, <1>12

\* Every file counts as told when there is no current one.
LEMMA CompleteOk ==
  ASSUME NEW T, NEW f, NEW s, Base(s, T, f), ~Active(s)
  PROVE  Ok([s EXCEPT !.complete = TRUE], T, f)
<1> DEFINE n == [s EXCEPT !.complete = TRUE]
<1>1. /\ DOMAIN n = DOMAIN s /\ n.cur = s.cur /\ n.applied = s.applied
      /\ n.task = s.task /\ n.status = s.status
      /\ n.late = s.late /\ n.resend = s.resend /\ n.buffer = s.buffer
      /\ n.sent = s.sent /\ n.credit = s.credit
  BY DEF Base, Shape
<1> HIDE DEF n
<1>2. Files \subseteq T BY SenderAssumption DEF Base, PlanOk, Active, Files
<1>3. PlanOk(n, T, f) /\ Shape(n) /\ TasksOk(n)
  BY <1>1, <1>2 DEF Base, PlanOk, Shape, TasksOk
<1>4. BufferOk(n, T, f) /\ QueuesOk(n, T, f) BY <1>1 DEF Base, BufferOk, QueuesOk, Held
<1>5. Going(n) BY <1>1 DEF Going, Active
<1> QED BY <1>3, <1>4, <1>5 DEF Ok, Base, n

\* schedule_work.
LEMMA ScheduleStreamOk ==
  ASSUME NEW T, NEW f, NEW s, Ok(s, T, f)
  PROVE  Ok(ScheduleStream(s), T, f)
<1> DEFINE n == IF ~s.applied \/ s.complete THEN s
                ELSE IF ~Active(s) THEN [s EXCEPT !.complete = TRUE]
                ELSE IF s.task[s.cur].chunked THEN ScheduleChunkWork(s)
                ELSE SendAppend(s)
<1>1. Ok(n, T, f)
  <2>1. CASE ~s.applied \/ s.complete BY <2>1
  <2>2. CASE ~(~s.applied \/ s.complete) /\ ~Active(s) BY <2>2, CompleteOk DEF Ok
  <2>3. CASE ~(~s.applied \/ s.complete) /\ Active(s) /\ s.task[s.cur].chunked
    <3>1. ChunkMode(s.cur) BY <2>3 DEF Active, Ok, Base, TasksOk, TaskOk
    <3> QED BY <2>3, <3>1, ChunkWorkOk
  <2>4. CASE ~(~s.applied \/ s.complete) /\ Active(s) /\ ~s.task[s.cur].chunked
    BY <2>4, SendAppendOk
  <2> QED BY <2>1, <2>2, <2>3, <2>4
<1>2. ScheduleStream(s) = CheckAllDone(n) BY DEF ScheduleStream
<1> HIDE DEF n
<1> QED BY <1>1, <1>2, CheckAllDoneOk

LEMMA ScheduleWorkOk ==
  ASSUME NEW T, NEW f, NEW s, Ok(s, T, f)
  PROVE  Ok(ScheduleWork(s), T, f)
<1> DEFINE q == Enqueue(s, s.late)
<1>1. Len(s.late) \in Nat BY DEF Ok, Base, QueuesOk
<1>2. Ok(q, T, f) BY <1>1, EnqueueOk
<1>3. ScheduleWork(s) \in {s, Recover(s), FlushRetransmits(q), ScheduleStream(FlushRetransmits(q))}
  BY DEF ScheduleWork
<1> HIDE DEF q
<1> QED BY <1>2, <1>3, RecoverOk, FlushRetransmitsOk, ScheduleStreamOk DEF Ok

-----------------------------------------------------------------------------
(* The handlers.                                                            *)

\* A heartbeat that completes no file which does not count as told.
ReportOk(h, T) ==
  /\ \A k \in Files : R!Completes(h, k) => k \in T
  /\ h.file \in Files /\ Size[h.file] = 0 => h.file \in T

\* advance_stream_task: the current file counts as told.
LEMMA AdvanceOk ==
  ASSUME NEW T, NEW f \in Nat, NEW s, Ok(s, T, f), Active(s), s.cur \in T
  PROVE  Ok(Advance(s), T, f)
<1> DEFINE n == [s EXCEPT !.recoveries = 0, !.cur = IF Active(s) THEN @ + 1 ELSE @]
<1>1. /\ DOMAIN n = DOMAIN s /\ n.cur = s.cur + 1 /\ n.applied = s.applied
      /\ n.complete = s.complete /\ n.task = s.task /\ n.status = s.status
      /\ n.late = s.late /\ n.resend = s.resend /\ n.buffer = s.buffer
      /\ n.sent = s.sent /\ n.credit = s.credit
  BY DEF Ok, Base, Shape
<1>2. Advance(s) = IF ~Active(n) THEN CheckAllDone([n EXCEPT !.complete = TRUE])
                   ELSE IF n.task[n.cur].chunked THEN ScheduleWork(SendFileBegin(n))
                   ELSE ApplyAppendPlan(n, "CREATE_MISSING", 0)
  BY DEF Advance
<1> HIDE DEF n
<1>3. PlanOk(n, T, f)
  <2>1. s.cur \in 1..NFiles /\ 1..(s.cur - 1) \subseteq T BY DEF Active, Files, Ok, Base, PlanOk
  <2>2. n.cur \in 1..(NFiles + 1) /\ 1..(n.cur - 1) \subseteq T BY <1>1, <2>1, SenderAssumption
  <2> QED BY <1>1, <2>1, <2>2 DEF Ok, Base, PlanOk
<1>4. Base(n, T, f)
  <2>1. BufferOk(n, T, f) /\ QueuesOk(n, T, f) BY <1>1 DEF Ok, Base, BufferOk, QueuesOk, Held
  <2> QED BY <1>1, <1>3, <2>1 DEF Ok, Base, Shape, TasksOk
<1>5. CASE ~Active(n) BY <1>2, <1>4, <1>5, CompleteOk, CheckAllDoneOk
<1>6. CASE Active(n) /\ n.task[n.cur].chunked
  <2>1. Ok(n, T, f) BY <1>4, <1>6 DEF Ok, Going
  <2> QED BY <1>2, <1>6, <2>1, SendFileBeginOk, ScheduleWorkOk
<1>7. CASE Active(n) /\ ~n.task[n.cur].chunked
  <2>1. ~ChunkMode(n.cur) BY <1>4, <1>7 DEF Active, Base, TasksOk, TaskOk
  <2> QED BY <1>2, <1>4, <1>7, <2>1, AppendPlanOk
<1> QED BY <1>5, <1>6, <1>7

\* What a heartbeat does to the append send state.
LEMMA ReadyOk ==
  ASSUME NEW a, AppendOk(a), NEW k, NEW h
  PROVE  LET b == DataReady(CreateReady(a, k, h), k, h)
         IN  AppendOk(b) /\ (a.on <=> b.on)
<1> DEFINE c == CreateReady(a, k, h)
           b == DataReady(c, k, h)
<1>1. AppendOk(c) /\ (a.on <=> c.on) BY DEF AppendOk, CreateReady
<1> HIDE DEF c
<1>2. AppendOk(b) /\ (c.on <=> b.on) BY <1>1 DEF AppendOk, DataReady
<1> QED BY <1>1, <1>2 DEF c

\* on_heartbeat for a CREATE/DATA file.
LEMMA AppendHeartbeatOk ==
  ASSUME NEW T, NEW f \in Nat, NEW s, Ok(s, T, f), Active(s), ~s.task[s.cur].chunked,
         NEW h, ReportOk(h, T)
  PROVE  Ok(AppendHeartbeat(s, h), T, f)
<1> DEFINE k == s.cur
           t == s.task[k]
           a == IF h.file = k THEN DataReady(CreateReady(t.append, k, h), k, h) ELSE t.append
           v == [t EXCEPT !.append = a]
           n == [s EXCEPT !.task[k] = v]
<1>1. k \in Files /\ TaskOk(t, k) /\ AppendOk(t.append) /\ ~ChunkMode(k)
  BY DEF Active, Ok, Base, TasksOk, TaskOk
<1>2. AppendHeartbeat(s, h) = IF h.file = k /\ AppendComplete(a, k, h) THEN Advance(n) ELSE SendAppend(n)
  BY DEF AppendHeartbeat
<1>3. AppendOk(a) /\ (t.append.on <=> a.on) BY <1>1, ReadyOk
<1> HIDE DEF a
<1>4. TaskOk(v, k) /\ v.append = a BY <1>1, <1>3 DEF TaskOk
<1> HIDE DEF v
<1>5. Ok(n, T, f) /\ n.cur = k BY <1>1, <1>3, <1>4, TaskChange DEF Ok
<1> HIDE DEF n
<1>6. Active(n) BY <1>1, <1>5 DEF Active
<1>7. ASSUME h.file = k, AppendComplete(a, k, h) PROVE k \in T
  <2>1. CASE a.on BY <1>1, <1>7, <2>1 DEF AppendComplete, ReportOk, R!Completes, R!ChunkMode, ChunkMode
  <2>2. CASE ~a.on
    <3>1. a.next = 0 /\ a.next >= Size[k] BY <1>3, <1>7, <2>2 DEF AppendOk, AppendComplete
    <3>2. Size[k] = 0 BY <1>1, <3>1, SenderAssumption
    <3> QED BY <1>1, <1>7, <3>2 DEF ReportOk
  <2> QED BY <2>1, <2>2
<1>8. ASSUME h.file = k, AppendComplete(a, k, h) PROVE Ok(Advance(n), T, f)
  BY <1>5, <1>6, <1>7, <1>8, AdvanceOk
<1>9. Ok(SendAppend(n), T, f) BY <1>5, <1>6, SendAppendOk
<1> QED BY <1>2, <1>8, <1>9

\* on_heartbeat for a chunk file.
LEMMA ChunkHeartbeatOk ==
  ASSUME NEW T, NEW f \in Nat, NEW s, Ok(s, T, f), Active(s), s.task[s.cur].chunked,
         NEW h, ReportOk(h, T)
  PROVE  Ok(ChunkHeartbeat(s, h), T, f)
<1> DEFINE k == s.cur
           t == s.task[k]
           ready  == BeginReady(t, k, h)
           acked  == {i \in ChunksOf(k) : <<k, i>> \in h.chunks}
           hinted == {i \in ChunksOf(k) : <<k, i>> \in h.missing}
           v == [HintChunks(AckChunks(t, acked), hinted) EXCEPT !.ready = @ \/ ready]
           gone == {Chunk(k, i) : i \in acked} \cup (IF ready THEN {FileBegin(k)} ELSE {})
           n1 == [s EXCEPT !.task[k] = v]
           n == [s EXCEPT !.task[k] = v, !.buffer = Without(@, gone)]
<1>1. k \in Files /\ TaskOk(t, k) /\ ChunkMode(k) BY DEF Active, Ok, Base, TasksOk, TaskOk
<1>2. ChunkHeartbeat(s, h) = IF CommitDone(t, k, h) THEN Advance(n) ELSE ScheduleWork(n)
  BY DEF ChunkHeartbeat
<1> HIDE DEF ready, acked, hinted, gone
<1>3. TaskOk(v, k) /\ v.append = t.append BY <1>1 DEF TaskOk, HintChunks, AckChunks
<1> HIDE DEF v
<1>4. Ok(n1, T, f) /\ n1.cur = k BY <1>1, <1>3, TaskChange DEF Ok
<1>5. n = [n1 EXCEPT !.buffer = Without(@, gone)] BY DEF Ok, Base, Shape
<1> HIDE DEF n, n1
<1>6. Ok(n, T, f) /\ n.cur = k
  <2>1. /\ DOMAIN n = DOMAIN n1
        /\ n.cur = n1.cur /\ n.applied = n1.applied /\ n.complete = n1.complete /\ n.task = n1.task
        /\ n.resend = n1.resend /\ n.status = n1.status /\ n.late = n1.late
        /\ n.sent = n1.sent /\ n.credit = n1.credit
        /\ DOMAIN n.buffer \subseteq DOMAIN n1.buffer
    BY <1>4, <1>5 DEF Ok, Base, Shape, Without
  <2>2. PlanOk(n, T, f) /\ Shape(n) /\ TasksOk(n) BY <1>4, <2>1 DEF Ok, Base, PlanOk, Shape, TasksOk
  <2>3. BufferOk(n, T, f) /\ QueuesOk(n, T, f) BY <1>4, <2>1 DEF Ok, Base, BufferOk, QueuesOk, Held
  <2>4. Going(n) BY <1>4, <2>1 DEF Ok, Going, Active
  <2> QED BY <1>4, <2>1, <2>2, <2>3, <2>4 DEF Ok, Base
<1>7. ASSUME CommitDone(t, k, h) PROVE k \in T
  BY <1>1, <1>7 DEF CommitDone, ReportOk, R!Completes, R!ChunkMode, ChunkMode
<1>8. ASSUME CommitDone(t, k, h) PROVE Ok(Advance(n), T, f)
  BY <1>1, <1>6, <1>7, <1>8, AdvanceOk DEF Active
<1>9. Ok(ScheduleWork(n), T, f) BY <1>6, ScheduleWorkOk
<1> QED BY <1>2, <1>8, <1>9

LEMMA HeartbeatOk ==
  ASSUME NEW T, NEW f \in Nat, NEW s, Ok(s, T, f), NEW h, ReportOk(h, T)
  PROVE  Ok(HandleHeartbeat(s, h), T, f)
<1> DEFINE n == EraseCompleted(s, h)
<1>1. Ok(n, T, f) BY EraseOk
<1>2. HandleHeartbeat(s, h) = IF ~Active(n) THEN CheckAllDone(n)
                              ELSE IF n.task[n.cur].chunked THEN ChunkHeartbeat(n, h)
                              ELSE AppendHeartbeat(n, h)
  BY DEF HandleHeartbeat
<1> HIDE DEF n
<1> QED BY <1>1, <1>2, CheckAllDoneOk, ChunkHeartbeatOk, AppendHeartbeatOk

\* on_message with a NACK: whatever it names, only buffered messages are sent again.
LEMMA NackOk ==
  ASSUME NEW T, NEW f, NEW s, Ok(s, T, f), NEW n
  PROVE  Ok(HandleNack(s, n), T, f)
<1> DEFINE found == IF n.file = 0 THEN << >> ELSE KeysForNack(s, n)
           q == <<found[1]>>
<1>1. HandleNack(s, n) = IF found # << >> THEN ScheduleWork(Enqueue(s, q))
                         ELSE IF n.reason \in Recoverable THEN Recover(s) ELSE FinalFail(s)
  BY DEF HandleNack
<1>2. Len(q) \in Nat OBVIOUS
<1> HIDE DEF found, q
<1>3. Ok(Enqueue(s, q), T, f) BY <1>2, EnqueueOk
<1>4. Ok(ScheduleWork(Enqueue(s, q)), T, f) BY <1>3, ScheduleWorkOk
<1>5. Ok(Recover(s), T, f) /\ Ok(FinalFail(s), T, f) BY RecoverOk, FailOk DEF Ok
<1> QED BY <1>1, <1>4, <1>5

\* What a Manifest2 may say.
PlanMessageOk(m, T, f) ==
  /\ m.offset \in Nat
  /\ IF m.action = "IN_SYNC" THEN Files \subseteq T
     ELSE Reached(m.file, T, f) /\ (m.action = "RESUME_EXISTING" => ~ChunkMode(m.file))

\* apply_manifest2_to_stream.
LEMMA ApplyManifest2Ok ==
  ASSUME NEW T, NEW f \in Nat, NEW s, Ok(s, T, f), NEW m, PlanMessageOk(m, T, f),
         f <= NFiles + 1
  PROVE  Ok(ApplyManifest2(s, m), T, f)
<1> DEFINE k == m.file
           v == [s.task[k] EXCEPT !.chunked = @ /\ m.action # "RESUME_EXISTING"]
           p == [s EXCEPT !.cur = k, !.applied = TRUE]
           n == [s EXCEPT !.cur = k, !.applied = TRUE,
                          !.task[k].chunked = @ /\ m.action # "RESUME_EXISTING"]
           d == [s EXCEPT !.cur = NFiles + 1, !.applied = TRUE, !.complete = TRUE]
<1>1. ApplyManifest2(s, m) =
        IF s.applied \/ s.complete THEN s
        ELSE IF m.action = "IN_SYNC" THEN CheckAllDone(d)
        ELSE IF k \notin Files THEN FinalFail(s)
        ELSE IF n.task[k].chunked THEN SendFileBegin(n)
        ELSE ApplyAppendPlan(n, m.action, m.offset)
  BY DEF ApplyManifest2
<1>2. CASE s.applied \/ s.complete BY <1>1, <1>2
<1>3. CASE ~(s.applied \/ s.complete) /\ m.action = "IN_SYNC"
  <2>1. /\ DOMAIN d = DOMAIN s /\ d.cur = NFiles + 1 /\ d.applied = TRUE /\ d.complete = TRUE
        /\ d.task = s.task /\ d.status = s.status
        /\ d.late = s.late /\ d.resend = s.resend /\ d.buffer = s.buffer
        /\ d.sent = s.sent /\ d.credit = s.credit
    BY DEF Ok, Base, Shape
  <2>2. ApplyManifest2(s, m) = CheckAllDone(d) BY <1>1, <1>3
  <2> HIDE DEF d
  <2>3. Files \subseteq T BY <1>3 DEF PlanMessageOk
  <2>4. PlanOk(d, T, f) BY <2>1, <2>3, SenderAssumption DEF PlanOk, Files
  <2>5. BufferOk(d, T, f) /\ QueuesOk(d, T, f) BY <2>1 DEF Ok, Base, BufferOk, QueuesOk, Held
  <2>6. Going(d) BY <2>1, SenderAssumption DEF Going, Active, Files
  <2>7. Ok(d, T, f) BY <2>1, <2>4, <2>5, <2>6 DEF Ok, Base, Shape, TasksOk
  <2> QED BY <2>2, <2>7, CheckAllDoneOk
<1>4. CASE ~(s.applied \/ s.complete) /\ m.action # "IN_SYNC"
  <2>1. Reached(k, T, f) /\ (m.action = "RESUME_EXISTING" => ~ChunkMode(k)) /\ m.offset \in Nat
    BY <1>4 DEF PlanMessageOk
  <2>2. k \in Files BY <2>1 DEF Reached
  <2>3. /\ DOMAIN p = DOMAIN s /\ p.cur = k /\ p.applied = TRUE /\ p.complete = s.complete
        /\ p.task = s.task /\ p.status = s.status
        /\ p.late = s.late /\ p.resend = s.resend /\ p.buffer = s.buffer
        /\ p.sent = s.sent /\ p.credit = s.credit
    BY DEF Ok, Base, Shape
  <2>4. TaskOk(s.task[k], k) BY <2>2 DEF Ok, Base, TasksOk
  <2>5. TaskOk(v, k) /\ v.append = s.task[k].append BY <2>1, <2>4 DEF TaskOk
  <2>6. n = [p EXCEPT !.task[k] = v]
    <3>1. n = [p EXCEPT !.task[k].chunked = s.task[k].chunked /\ m.action # "RESUME_EXISTING"]
      BY DEF Ok, Base, Shape
    <3> HIDE DEF n, p
    <3> QED BY <2>3, <3>1
  <2> HIDE DEF p, v
  <2>7. Base(p, T, f)
    <3>1. PlanOk(p, T, f) BY <2>1, <2>3, SenderAssumption DEF Reached, Files, PlanOk, Ok, Base
    <3>2. BufferOk(p, T, f) /\ QueuesOk(p, T, f) BY <2>3 DEF Ok, Base, BufferOk, QueuesOk, Held
    <3> QED BY <2>3, <3>1, <3>2 DEF Ok, Base, Shape, TasksOk
  <2>8. Base(n, T, f) /\ n.cur = k
    <3> HIDE DEF n
    <3> QED BY <2>2, <2>3, <2>5, <2>6, <2>7, TaskChange
  <2>9. ApplyManifest2(s, m) = IF n.task[k].chunked THEN SendFileBegin(n)
                               ELSE ApplyAppendPlan(n, m.action, m.offset)
    BY <1>1, <1>4, <2>2
  <2> HIDE DEF n
  <2>10. Active(n) BY <2>2, <2>8 DEF Active
  <2>11. CASE n.task[k].chunked
    <3>1. Ok(n, T, f) BY <2>8, <2>11 DEF Ok, Going
    <3> QED BY <2>9, <2>10, <2>11, <3>1, SendFileBeginOk
  <2>12. CASE ~n.task[k].chunked
    <3>1. ~ChunkMode(n.cur) BY <2>2, <2>8, <2>12 DEF Base, TasksOk, TaskOk
    <3> QED BY <2>1, <2>8, <2>9, <2>10, <2>12, <3>1, AppendPlanOk
  <2> QED BY <2>11, <2>12
<1> QED BY <1>2, <1>3, <1>4

LEMMA Manifest2Ok ==
  ASSUME NEW T, NEW f \in Nat, NEW s, Ok(s, T, f), NEW m, PlanMessageOk(m, T, f),
         f <= NFiles + 1
  PROVE  Ok(HandleManifest2(s, m), T, f)
<1> DEFINE n == ApplyManifest2(s, m)
<1>1. Ok(n, T, f) BY ApplyManifest2Ok
<1>2. HandleManifest2(s, m) = ScheduleWork(n) BY DEF HandleManifest2
<1> HIDE DEF n
<1> QED BY <1>1, <1>2, ScheduleWorkOk

\* on_lost_sends.
LEMMA LostSendsOk ==
  ASSUME NEW T, NEW f, NEW s, Ok(s, T, f), NEW lost, Len(lost) \in Nat
  PROVE  Ok(HandleLostSends(s, lost), T, f)
<1> DEFINE k    == s.cur
           q    == LostKept(s, lost)
           gone == LostGone(s, lost)
           kept == Enqueue(s, q)
           n    == IF s.task[k].chunked THEN LostChunked(kept, gone) ELSE LostAppend(kept, gone)
<1>1. CASE s.complete \/ ~Active(s) BY <1>1 DEF HandleLostSends
<1>2. CASE ~(s.complete \/ ~Active(s))
  <2>1. k \in Files BY <1>2 DEF Active
  <2>2. HandleLostSends(s, lost) = IF q # << >> \/ n # kept THEN ScheduleWork(n) ELSE n
    BY <1>2 DEF HandleLostSends
  <2>3. Len(q) \in Nat
    <3>1. q \in Seq({m \in Held(s) : m.file = s.cur}) BY FilterIn DEF LostKept
    <3> HIDE DEF q
    <3> QED BY <3>1
  <2> HIDE DEF q, gone
  <2>4. Ok(kept, T, f) /\ kept.task = s.task /\ kept.cur = k BY <2>3, EnqueueOk
  <2> HIDE DEF kept
  <2> DEFINE t == kept.task[k]
  <2>5. TaskOk(t, k) /\ AppendOk(t.append) BY <2>1, <2>4 DEF Ok, Base, TasksOk, TaskOk
  <2>6. Ok(LostChunked(kept, gone), T, f)
    <3> DEFINE j == kept.cur
               u == LoseChunks(kept.task[j], {i \in ChunksOf(j) : Chunk(j, i) \in gone})
               v == [u EXCEPT !.begun = @ /\ (kept.task[j].ready \/ FileBegin(j) \notin gone),
                              !.committed = @ /\ Commit(j) \notin gone]
    <3>1. LostChunked(kept, gone) = [kept EXCEPT !.task[j] = v] BY DEF LostChunked
    <3>2. TaskOk(v, j) /\ v.append = kept.task[j].append BY <2>4, <2>5 DEF TaskOk, LoseChunks
    <3> HIDE DEF v
    <3> QED BY <2>1, <2>4, <3>1, <3>2, TaskChange DEF Ok
  <2>7. Ok(LostAppend(kept, gone), T, f)
    <3> DEFINE v == [t EXCEPT !.append = ResetInflight(@)]
               p == [kept EXCEPT !.applied = FALSE]
               c == [kept EXCEPT !.applied = FALSE, !.task[k].append = ResetInflight(@)]
    <3>1. LostAppend(kept, gone) = kept \/ LostAppend(kept, gone) = c BY <2>4 DEF LostAppend
    <3>2. TaskOk(v, k) /\ v.append.on = t.append.on BY <2>5 DEF TaskOk, AppendOk, ResetInflight
    <3>3. /\ DOMAIN p = DOMAIN kept /\ p.cur = k /\ p.applied = FALSE /\ p.complete = kept.complete
          /\ p.task = kept.task /\ p.status = kept.status
          /\ p.late = kept.late /\ p.resend = kept.resend /\ p.buffer = kept.buffer
          /\ p.sent = kept.sent /\ p.credit = kept.credit
      BY <2>4 DEF Ok, Base, Shape
    <3>4. c = [p EXCEPT !.task[k] = v]
      <4>1. c = [p EXCEPT !.task[k].append = ResetInflight(t.append)] BY <2>4 DEF Ok, Base, Shape
      <4> HIDE DEF c, p
      <4> QED BY <3>3, <4>1
    <3> HIDE DEF p, v, c
    <3>5. Ok(p, T, f)
      <4>1. PlanOk(p, T, f) BY <2>4, <3>3 DEF PlanOk, Ok, Base
      <4>2. BufferOk(p, T, f) /\ QueuesOk(p, T, f) BY <2>4, <3>3 DEF Ok, Base, BufferOk, QueuesOk, Held
      <4>3. Going(p) BY <3>3 DEF Going
      <4> QED BY <2>4, <3>3, <4>1, <4>2, <4>3 DEF Ok, Base, Shape, TasksOk
    <3>6. Ok(c, T, f) BY <2>1, <3>2, <3>3, <3>4, <3>5, TaskChange DEF Ok
    <3> QED BY <2>4, <3>1, <3>6
  <2>8. Ok(n, T, f) BY <2>6, <2>7
  <2> HIDE DEF n
  <2> QED BY <2>2, <2>8, ScheduleWorkOk
<1> QED BY <1>1, <1>2

\* on_connected.
LEMMA ConnectedOk ==
  ASSUME NEW T, NEW f, NEW s, Ok(s, T, f)
  PROVE  Ok(HandleConnected(s), T, f)
<1>1. Ok(ScheduleWork(SendManifest1(s)), T, f) BY SendManifest1Ok, ScheduleWorkOk
<1> QED BY <1>1 DEF HandleConnected

-----------------------------------------------------------------------------
(* The lines and the inductive invariant.                                   *)

RP == INSTANCE ReceiverToldProofs
        WITH EarlyNext <- TRUE, Watch <- TRUE, BufferedWrite <- FALSE,
             MaxCrashes <- 0, MaxFaults <- 0

Sendings(T, f) == Orderly(T, f) \cup {Manifest1}

\* The receiver's answers: heartbeats that complete no file which does not
\* count as told, NACKs, and plans that begin with a file that may be sent.
Reports(T) ==
  {h \in [kind : {"HEARTBEAT"}, next : Nat, file : 0..NFiles, offset : Nat, durable : Nat,
          chunks : SUBSET (Nat \X Nat), missing : SUBSET (Nat \X Nat)] : ReportOk(h, T)}

Refusals == [kind : {"NACK"}, reason : R!Reasons, file : Nat, got : Nat, expected : Nat, offset : Int]

Plans(T, f) ==
  {m \in [kind : {"MANIFEST2"}, action : {"IN_SYNC", "RESUME_EXISTING", "CREATE_MISSING"},
          file : 0..NFiles, offset : Nat] : PlanMessageOk(m, T, f)}

Answers(T, f) == Reports(T) \cup Refusals \cup Plans(T, f)

WiresOk(T, f) ==
  /\ wire \in [Lines -> Seq(Sendings(T, f))]
  /\ pend \in [Lines -> Seq(Sendings(T, f))]
  /\ control \in Nat

AnswersOk(T, f) ==
  /\ back \in [Lines -> Seq(Answers(T, f))]
  /\ DOMAIN hb = Lines
  /\ \A l \in Lines : hb[l] = NoHeartbeat \/ hb[l].msg \in Reports(T)

\* The inductive invariant: the sender, the lines and the receiver agree on
\* the files that count as told.
SystemInv ==
  /\ Ok(Now(0, << >>), told, floor)
  /\ WiresOk(told, floor)
  /\ AnswersOk(told, floor)
  /\ RP!Composed
  /\ 1..(floor - 1) \subseteq R!InSync

\* More files told: what was in order stays in order.
LEMMA MoreTold ==
  ASSUME NEW T, NEW U, T \subseteq U, NEW f
  PROVE  /\ Orderly(T, f) \subseteq Orderly(U, f)
         /\ Sendings(T, f) \subseteq Sendings(U, f)
         /\ Reports(T) \subseteq Reports(U)
         /\ Answers(T, f) \subseteq Answers(U, f)
         /\ \A s : Ok(s, T, f) => Ok(s, U, f)
<1>1. \A k : Reached(k, T, f) => Reached(k, U, f) BY DEF Reached
<1>2. Orderly(T, f) \subseteq Orderly(U, f) BY <1>1 DEF Orderly
<1>3. Sendings(T, f) \subseteq Sendings(U, f) BY <1>2 DEF Sendings
<1>4. Reports(T) \subseteq Reports(U)
  <2>1. \A h : ReportOk(h, T) => ReportOk(h, U) BY DEF ReportOk
  <2> QED BY <2>1 DEF Reports
<1>5. Plans(T, f) \subseteq Plans(U, f)
  <2>1. \A m : PlanMessageOk(m, T, f) => PlanMessageOk(m, U, f) BY <1>1 DEF PlanMessageOk
  <2> QED BY <2>1 DEF Plans
<1>6. ASSUME NEW s, Ok(s, T, f) PROVE Ok(s, U, f)
  <2>1. PlanOk(s, U, f) BY <1>6 DEF Ok, Base, PlanOk
  <2>2. BufferOk(s, U, f) BY <1>2, <1>6 DEF Ok, Base, BufferOk
  <2>3. s.sent \in Seq(Orderly(U, f) \cup {Manifest1})
    <3>1. s.sent \in Seq(Sendings(T, f)) BY <1>6 DEF Ok, Base, QueuesOk, Sendings
    <3>2. s.sent \in Seq(Sendings(U, f)) BY <1>3, <3>1, SeqMono
    <3> QED BY <3>2 DEF Sendings
  <2>4. QueuesOk(s, U, f) BY <1>6, <2>3 DEF Ok, Base, QueuesOk
  <2> QED BY <1>6, <2>1, <2>2, <2>4 DEF Ok, Base
<1> QED BY <1>2, <1>3, <1>4, <1>5, <1>6 DEF Answers

\* A handler begins with the state of the sender and leaves another.
LEMMA NowOk ==
  ASSUME NEW T, NEW f, Ok(Now(0, << >>), T, f), NEW credit \in Nat, NEW late \in Seq(Keys)
  PROVE  Ok(Now(credit, late), T, f)
<1> DEFINE s == Now(0, << >>)
           n == Now(credit, late)
<1>1. /\ DOMAIN n = DOMAIN s
      /\ n.cur = s.cur /\ n.applied = s.applied /\ n.complete = s.complete /\ n.task = s.task
      /\ n.buffer = s.buffer /\ n.resend = s.resend /\ n.status = s.status /\ n.sent = s.sent
      /\ n.credit = credit /\ n.late = late
  BY DEF Now
<1> HIDE DEF n, s
<1>2. Ok(s, T, f) BY DEF s
<1>3. PlanOk(n, T, f) /\ Shape(n) /\ TasksOk(n) BY <1>1, <1>2 DEF Ok, Base, PlanOk, Shape, TasksOk
<1>4. BufferOk(n, T, f) /\ QueuesOk(n, T, f) BY <1>1, <1>2 DEF Ok, Base, BufferOk, QueuesOk, Held
<1>5. Going(n) BY <1>1, <1>2 DEF Ok, Going, Active
<1> QED BY <1>3, <1>4, <1>5 DEF Ok, Base, n

LEMMA InstallOk ==
  ASSUME NEW s, Ok(s, told, floor), Install(s), UNCHANGED <<told, floor>>
  PROVE  Ok(Now(0, << >>), told, floor)'
<1> DEFINE n == Now(0, << >>)'
<1>1. /\ DOMAIN n = DOMAIN s
      /\ n.cur = s.cur /\ n.applied = s.applied /\ n.complete = s.complete /\ n.task = s.task
      /\ n.buffer = s.buffer /\ n.resend = s.resend /\ n.status = s.status
      /\ n.sent = << >> /\ n.credit = 0 /\ n.late = << >>
  BY DEF Now, Install, Ok, Base, Shape
<1> HIDE DEF n
<1>2. PlanOk(n, told, floor) /\ Shape(n) /\ TasksOk(n)
  BY <1>1 DEF Ok, Base, PlanOk, Shape, TasksOk
<1>3. BufferOk(n, told, floor) /\ QueuesOk(n, told, floor)
  BY <1>1 DEF Ok, Base, BufferOk, QueuesOk, Held
<1>4. Going(n) BY <1>1 DEF Ok, Going, Active
<1>5. Ok(n, told, floor) BY <1>2, <1>3, <1>4 DEF Ok, Base
<1> QED BY <1>5 DEF n

\* What goes on a line is what was sent.
LEMMA OnLineType ==
  ASSUME NEW S, NEW ms \in Seq(S), NEW route, NEW l
  PROVE  OnLine(ms, route, l) \in Seq(S)
<1> DEFINE all  == [j \in 1..Len(ms) |-> j]
           P    == {j \in 1..Len(ms) : route[j] = l}
           mine == Filter(all, P)
           q    == [i \in 1..Len(mine) |-> ms[mine[i]]]
<1>1. OnLine(ms, route, l) = q BY DEF OnLine
<1>2. mine \in Seq(P)
  <2>1. Len(all) \in Nat OBVIOUS
  <2> HIDE DEF all, P
  <2> QED BY <2>1, FilterIn
<1> HIDE DEF mine
<1>3. Len(mine) \in Nat /\ \A i \in 1..Len(mine) : mine[i] \in P
  <2> HIDE DEF P
  <2> QED BY <1>2
<1>4. \A i \in 1..Len(mine) : ms[mine[i]] \in S BY <1>3
<1>5. q = [i \in 1..Len(mine) |-> q[i]] /\ \A i \in 1..Len(mine) : q[i] \in S BY <1>4
<1> HIDE DEF q
<1> QED BY <1>1, <1>3, <1>5, SeqFrom

\* Sequences filtered by their own elements.
LEMMA PartType ==
  ASSUME NEW S, NEW ms \in Seq(S), NEW P, P \subseteq Range(ms)
  PROVE  Filter(ms, P) \in Seq(S)
<1>1. Len(ms) \in Nat /\ P \subseteq S BY DEF Range
<1>2. Filter(ms, P) \in Seq(P) BY <1>1, FilterIn
<1> QED BY <1>1, <1>2, SeqMono

LEMMA PostLines ==
  ASSUME NEW S, Manifest1 \in S, NEW s, s.sent \in Seq(S), control \in Nat, NEW up,
         NEW sending \in [Lines -> Seq(S)], NEW pending \in [Lines -> Seq(S)],
         Post(s, up, sending, pending)
  PROVE  wire' \in [Lines -> Seq(S)] /\ pend' \in [Lines -> Seq(S)] /\ control' \in Nat
<1>1. CASE up = {} BY <1>1 DEF Post
<1>2. CASE up # {}
  <2> DEFINE cs == [i \in 1..control |-> Manifest1]
             ms == cs \o s.sent
  <2>1. ms \in Seq(S)
    <3>1. cs \in Seq(S) OBVIOUS
    <3> HIDE DEF cs
    <3> QED BY <3>1
  <2>2. PICK route \in [1..Len(ms) -> up] :
           /\ wire' = [l \in Lines |-> sending[l] \o OnLine(ms, route, l)]
           /\ pend' = [l \in Lines |->
                 pending[l] \o NotIn(pending[l] \o <<Manifest1>>, OnLine(ms, route, l))]
           /\ control' = 0
    BY <1>2 DEF Post
  <2> HIDE DEF ms
  <2>3. ASSUME NEW l \in Lines
        PROVE  /\ sending[l] \o OnLine(ms, route, l) \in Seq(S)
               /\ pending[l] \o NotIn(pending[l] \o <<Manifest1>>, OnLine(ms, route, l)) \in Seq(S)
    <3> DEFINE q == OnLine(ms, route, l)
               p == pending[l] \o <<Manifest1>>
    <3>1. q \in Seq(S) BY <2>1, OnLineType
    <3> HIDE DEF q, p
    <3>2. NotIn(p, q) \in Seq(S) BY <3>1, PartType DEF NotIn
    <3>3. sending[l] \in Seq(S) /\ pending[l] \in Seq(S) OBVIOUS
    <3>4. sending[l] \o q \in Seq(S) /\ pending[l] \o NotIn(p, q) \in Seq(S) BY <3>1, <3>2, <3>3
    <3> QED BY <3>4 DEF q, p
  <2>4. wire' \in [Lines -> Seq(S)] BY <2>2, <2>3
  <2>5. pend' \in [Lines -> Seq(S)] BY <2>2, <2>3
  <2> QED BY <2>2, <2>4, <2>5
<1> QED BY <1>1, <1>2

-----------------------------------------------------------------------------
(* Steps of the sender.                                                     *)

\* The assumptions of the receiver's proofs hold of its instance here.
LEMMA T0 ==
  /\ NFiles \in Nat
  /\ Size \in [RP!Files -> Nat]
  /\ ChunkThreshold \in Nat
  /\ Block \in Nat \ {0}
  /\ QueueCap \in Nat \ {0}
  /\ TRUE \in BOOLEAN
  /\ TRUE \in BOOLEAN
  /\ FreshStart \in BOOLEAN
  /\ FALSE \in BOOLEAN
  /\ 0 \in Nat
  /\ 0 \in Nat
BY SenderAssumption, SystemAssumption DEF RP!Files, Files

\* What the invariant says of the receiver's variables.
LEMMA ReceiverFacts ==
  ASSUME RP!Composed
  PROVE  /\ floor \in 1..(NFiles + 1)
         /\ told \in SUBSET Files
         /\ present \in SUBSET Files
         /\ content \in [Files -> Seq(Nat)]
         /\ proc \in {"up", "stopping", "down"}
         /\ nack \in R!Reasons
         /\ app.expected \in Nat
         /\ chk.expected \in Nat
<1>1. RP!TypeOK BY DEF RP!Composed, RP!Facts
<1>2. /\ floor \in 1..(NFiles + 1)
      /\ told \in SUBSET Files
      /\ present \in SUBSET Files
      /\ content \in [Files -> Seq(Nat)]
      /\ proc \in {"up", "stopping", "down"}
  BY <1>1 DEF RP!TypeOK, RP!Files, Files
<1>3. app \in RP!AppType /\ chk \in RP!ChkType /\ nack \in RP!Reasons BY <1>1 DEF RP!TypeOK
<1>4. app.expected \in Nat /\ chk.expected \in Nat BY <1>3 DEF RP!AppType, RP!ChkType
<1>5. nack \in R!Reasons BY <1>3 DEF RP!Reasons, R!Reasons
<1> QED BY <1>2, <1>4, <1>5

LEMMA SameInSync == R!InSync = RP!InSync
BY DEF R!InSync, RP!InSync, R!Files, RP!Files

\* The receiver does nothing.
LEMMA IdleStep ==
  ASSUME RP!Composed, ReceiverIdle
  PROVE  /\ RP!Composed'
         /\ RP!ToldInv => RP!ToldInv'
         /\ R!InSync' = R!InSync
         /\ UNCHANGED <<told, floor, present, content>>
<1>1. RP!Idles BY ReceiverFacts DEF ReceiverIdle, RP!Idles, RP!disk, RP!env
<1>2. RP!Composed' /\ (RP!ToldInv => RP!ToldInv')
  BY <1>1, RP!ComposedIdle, T0
<1>3. R!InSync' = R!InSync BY DEF R!InSync, ReceiverIdle
<1> QED BY <1>2, <1>3 DEF ReceiverIdle

\* A callback of the sender.
LEMMA CallbackInv ==
  ASSUME SystemInv, NEW s, Ok(s, told, floor), SenderStep(s), NEW up,
         NEW sending \in [Lines -> Seq(Sendings(told, floor))],
         NEW pending \in [Lines -> Seq(Sendings(told, floor))],
         Post(s, up, sending, pending),
         back' \in [Lines -> Seq(Answers(told, floor))]
  PROVE  SystemInv'
<1>1. /\ RP!Composed' /\ R!InSync' = R!InSync /\ UNCHANGED <<told, floor>>
  BY IdleStep DEF SystemInv, SenderStep
<1>2. Ok(Now(0, << >>), told, floor)' BY <1>1, InstallOk DEF SenderStep
<1>3. s.sent \in Seq(Sendings(told, floor)) BY DEF Ok, Base, QueuesOk, Sendings
<1>4. Manifest1 \in Sendings(told, floor) /\ control \in Nat BY DEF Sendings, SystemInv, WiresOk
<1>5. /\ wire' \in [Lines -> Seq(Sendings(told, floor))]
      /\ pend' \in [Lines -> Seq(Sendings(told, floor))]
      /\ control' \in Nat
  BY <1>3, <1>4, PostLines
<1>6. WiresOk(told, floor)' BY <1>1, <1>5 DEF WiresOk
<1>7. AnswersOk(told, floor)' BY <1>1 DEF SystemInv, AnswersOk, SenderStep, recvVars
<1>8. (1..(floor - 1) \subseteq R!InSync)' BY <1>1 DEF SystemInv
<1> QED BY <1>1, <1>2, <1>6, <1>7, <1>8 DEF SystemInv

\* The sender reads an answer.
LEMMA SenderReceivesInv ==
  ASSUME SystemInv, NEW l \in Lines, SenderReceives(l)
  PROVE  SystemInv'
<1> DEFINE m == Head(back[l])
           S == Sendings(told, floor)
<1>1. floor \in Nat /\ floor <= NFiles + 1 BY ReceiverFacts DEF SystemInv
<1>2. /\ wire \in [Lines -> Seq(S)] /\ pend \in [Lines -> Seq(S)]
      /\ back \in [Lines -> Seq(Answers(told, floor))]
  BY DEF SystemInv, WiresOk, AnswersOk
<1>3. back[l] \in Seq(Answers(told, floor)) /\ back[l] # << >> BY <1>2 DEF SenderReceives
<1>4. m \in Answers(told, floor) /\ Tail(back[l]) \in Seq(Answers(told, floor)) BY <1>3
<1>5. back' \in [Lines -> Seq(Answers(told, floor))]
  <2>1. back' = [back EXCEPT ![l] = Tail(@)] BY DEF SenderReceives
  <2> QED BY <1>2, <1>4, <2>1
<1>6. PICK credit \in Credits :
        LET s == Handle(Now(credit, << >>), m)
        IN  /\ SenderStep(s)
            /\ Post(s, Up, wire, IF m.kind = "HEARTBEAT"
                                 THEN [pend EXCEPT ![l] = InFlightAfter(@, m)] ELSE pend)
  BY DEF SenderReceives
<1>7. PICK s : s = Handle(Now(credit, << >>), m) OBVIOUS
<1>8. PICK q : q = IF m.kind = "HEARTBEAT" THEN [pend EXCEPT ![l] = InFlightAfter(@, m)] ELSE pend
  OBVIOUS
<1>9. SenderStep(s) /\ Post(s, Up, wire, q) BY <1>6, <1>7, <1>8
<1>10. q \in [Lines -> Seq(S)]
  <2>1. pend[l] \in Seq(S) BY <1>2
  <2>2. InFlightAfter(pend[l], m) \in Seq(S)
    <3> HIDE DEF S, m
    <3> QED BY <2>1, PartType DEF InFlightAfter
  <2> HIDE DEF S, m
  <2> QED BY <1>2, <1>8, <2>2
<1>11. Ok(s, told, floor)
  <2>1. credit \in Nat BY SystemAssumption DEF Credits
  <2>2. << >> \in Seq(Keys) OBVIOUS
  <2>3. Ok(Now(credit, << >>), told, floor) BY <2>1, <2>2, NowOk DEF SystemInv
  <2> DEFINE n == Now(credit, << >>)
  <2> HIDE DEF n, m
  <2>4. CASE m \in Reports(told)
    <3>1. m.kind = "HEARTBEAT" /\ ReportOk(m, told) BY <2>4 DEF Reports
    <3>2. s = HandleHeartbeat(n, m) BY <1>7, <3>1 DEF Handle, n
    <3> QED BY <1>1, <2>3, <3>1, <3>2, HeartbeatOk DEF n
  <2>5. CASE m \in Refusals
    <3>1. m.kind = "NACK" BY <2>5 DEF Refusals
    <3>2. s = HandleNack(n, m) BY <1>7, <3>1 DEF Handle, n
    <3> QED BY <2>3, <3>2, NackOk DEF n
  <2>6. CASE m \in Plans(told, floor)
    <3>1. m.kind = "MANIFEST2" /\ PlanMessageOk(m, told, floor) BY <2>6 DEF Plans
    <3>2. s = HandleManifest2(n, m) BY <1>7, <3>1 DEF Handle, n
    <3> QED BY <1>1, <2>3, <3>1, <3>2, Manifest2Ok DEF n
  <2> QED BY <1>4, <2>4, <2>5, <2>6 DEF Answers
<1> QED BY <1>2, <1>5, <1>9, <1>10, <1>11, CallbackInv

\* The sender's timers.
LEMMA SenderTickInv ==
  ASSUME SystemInv, NEW credit \in Nat, NEW late \in Seq(Keys), SenderTick(credit, late)
  PROVE  SystemInv'
<1>1. PICK s : s = ScheduleWork(Now(credit, late)) OBVIOUS
<1>2. SenderStep(s) /\ Post(s, Up, wire, pend) /\ UNCHANGED back BY <1>1 DEF SenderTick
<1>3. Ok(Now(credit, late), told, floor) BY NowOk DEF SystemInv
<1>4. Ok(s, told, floor) BY <1>1, <1>3, ScheduleWorkOk
<1>5. /\ wire \in [Lines -> Seq(Sendings(told, floor))] /\ pend \in [Lines -> Seq(Sendings(told, floor))]
      /\ back' \in [Lines -> Seq(Answers(told, floor))]
  BY <1>2 DEF SystemInv, WiresOk, AnswersOk
<1> QED BY <1>2, <1>4, <1>5, CallbackInv

LEMMA TicksInv ==
  ASSUME SystemInv,
         (\E credit \in Credits : TimerTick(credit)) \/ (\E m \in DOMAIN buffer : Overdue(m))
  PROVE  SystemInv'
<1>1. Credits \subseteq Nat BY SystemAssumption DEF Credits
<1>2. << >> \in Seq(Keys) OBVIOUS
<1>3. ASSUME NEW m \in DOMAIN buffer PROVE <<m>> \in Seq(Keys)
  <2>1. m \in Keys BY <1>3 DEF SystemInv, Ok, Base, BufferOk, Held, Now, Orderly
  <2> QED BY <2>1
<1>4. PICK credit \in Nat, late \in Seq(Keys) : SenderTick(credit, late)
  BY <1>1, <1>2, <1>3 DEF TimerTick, Overdue
<1> QED BY <1>4, SenderTickInv

\* A line connects.
LEMMA LineConnectsInv ==
  ASSUME SystemInv, NEW l \in Lines, LineConnects(l)
  PROVE  SystemInv'
<1>1. PICK credit \in 0..MaxCredit :
        LET s == HandleConnected(Now(credit, << >>))
        IN  SenderStep(s) /\ Post(s, Up \cup {l}, wire, pend)
  BY DEF LineConnects
<1>2. PICK s : s = HandleConnected(Now(credit, << >>)) OBVIOUS
<1>3. SenderStep(s) /\ Post(s, Up \cup {l}, wire, pend) BY <1>1, <1>2
<1>4. credit \in Nat /\ << >> \in Seq(Keys) BY <1>1, SystemAssumption
<1>5. Ok(Now(credit, << >>), told, floor) BY <1>4, NowOk DEF SystemInv
<1>6. Ok(s, told, floor) BY <1>2, <1>5, ConnectedOk
<1>7. /\ wire \in [Lines -> Seq(Sendings(told, floor))] /\ pend \in [Lines -> Seq(Sendings(told, floor))]
      /\ back' \in [Lines -> Seq(Answers(told, floor))]
  BY DEF SystemInv, WiresOk, AnswersOk, LineConnects
<1> QED BY <1>3, <1>6, <1>7, CallbackInv

\* A line is lost.
LEMMA LineDropsInv ==
  ASSUME SystemInv, NEW l \in Lines, LineDrops(l)
  PROVE  SystemInv'
<1> DEFINE S == Sendings(told, floor)
<1>1. /\ wire \in [Lines -> Seq(S)] /\ pend \in [Lines -> Seq(S)]
      /\ back \in [Lines -> Seq(Answers(told, floor))]
  BY DEF SystemInv, WiresOk, AnswersOk
<1>2. PICK arrives \in 0..Len(wire[l]), credit \in (IF Up = {l} THEN {0} ELSE 0..MaxCredit) :
        LET s == HandleLostSends(Now(credit, << >>), pend[l])
        IN  /\ SenderStep(s)
            /\ Post(s, Up \ {l}, [wire EXCEPT ![l] = SubSeq(@, 1, arrives)],
                                 [pend EXCEPT ![l] = << >>])
  BY DEF LineDrops
<1>3. PICK s : s = HandleLostSends(Now(credit, << >>), pend[l]) OBVIOUS
<1>4. PICK w : w = [wire EXCEPT ![l] = SubSeq(@, 1, arrives)] OBVIOUS
<1>5. PICK q : q = [pend EXCEPT ![l] = << >>] OBVIOUS
<1>6. SenderStep(s) /\ Post(s, Up \ {l}, w, q) BY <1>2, <1>3, <1>4, <1>5
<1>7. credit \in Nat /\ << >> \in Seq(Keys) BY <1>2, SystemAssumption
<1>8. Ok(Now(credit, << >>), told, floor) BY <1>7, NowOk DEF SystemInv
<1>9. Len(pend[l]) \in Nat /\ wire[l] \in Seq(S)
  <2> HIDE DEF S
  <2>1. pend[l] \in Seq(S) /\ wire[l] \in Seq(S) BY <1>1
  <2> QED BY <2>1
<1>10. Ok(s, told, floor) BY <1>3, <1>8, <1>9, LostSendsOk
<1> HIDE DEF S
<1>11. w \in [Lines -> Seq(S)] /\ q \in [Lines -> Seq(S)]
  <2>1. SubSeq(wire[l], 1, arrives) \in Seq(S) BY <1>2, <1>9
  <2>2. << >> \in Seq(S) OBVIOUS
  <2> QED BY <1>1, <1>4, <1>5, <2>1, <2>2
<1>12. back' \in [Lines -> Seq(Answers(told, floor))]
  <2>1. << >> \in Seq(Answers(told, floor)) /\ back' = [back EXCEPT ![l] = << >>] BY DEF LineDrops
  <2> QED BY <1>1, <2>1
<1> QED BY <1>6, <1>10, <1>11, <1>12, CallbackInv DEF S

-----------------------------------------------------------------------------
(* Receiver with the constants of this composition, as System and as the    *)
(* receiver's proofs name it.                                               *)

LEMMA SameApplyCreate ==
  ASSUME NEW k
  PROVE  R!ApplyCreate(k) <=> RP!ApplyCreate(k)
BY DEF R!Files, RP!Files, R!disk, RP!disk, R!env, RP!env, R!ChunkMode, RP!ChunkMode,
       R!Larger, RP!Larger, R!ClosedApp, RP!ClosedApp, R!Completes, RP!Completes,
       R!Sendable, RP!Sendable, R!Latest, RP!Latest, R!ScanNext, RP!ScanNext,
       R!ResetSession, RP!ResetSession, R!RefreshChunk, RP!RefreshChunk, R!AppendReceiver,
       RP!AppendReceiver, R!Heartbeat, RP!Heartbeat, R!AppendHeartbeat,
       RP!AppendHeartbeat, R!Emit, RP!Emit, R!Reject, RP!Reject, R!ResetDurable,
       RP!ResetDurable, R!CreateReason, RP!CreateReason, R!CreateAccepted,
       RP!CreateAccepted, R!CreateNew, RP!CreateNew, R!CreateStale, RP!CreateStale,
       R!CreateRejected, RP!CreateRejected, R!CreateFails, RP!CreateFails, R!ApplyCreate,
       RP!ApplyCreate, R!Cardinality, RP!Cardinality

LEMMA SameApplyData ==
  ASSUME NEW k, NEW o
  PROVE  R!ApplyData(k, o) <=> RP!ApplyData(k, o)
BY DEF R!Files, RP!Files, R!disk, RP!disk, R!env, RP!env, R!ChunkMode, RP!ChunkMode,
       R!Larger, RP!Larger, R!Smaller, RP!Smaller, R!ClosedApp, RP!ClosedApp, R!Completes,
       RP!Completes, R!Sendable, RP!Sendable, R!Latest, RP!Latest, R!ScanNext,
       RP!ScanNext, R!ResetSession, RP!ResetSession, R!RefreshChunk, RP!RefreshChunk,
       R!AppendReceiver, RP!AppendReceiver, R!Heartbeat, RP!Heartbeat, R!AppendHeartbeat,
       RP!AppendHeartbeat, R!Emit, RP!Emit, R!Reject, RP!Reject, R!ResetDurable,
       RP!ResetDurable, R!WantsFsync, RP!WantsFsync, R!FsyncTarget, RP!FsyncTarget,
       R!EnqueueFsync, RP!EnqueueFsync, R!QueueFsync, RP!QueueFsync, R!DataLen,
       RP!DataLen, R!AppendResume, RP!AppendResume, R!DataStale, RP!DataStale,
       R!RestoringFinalSize, RP!RestoringFinalSize, R!DataReason, RP!DataReason, R!Bytes,
       RP!Bytes, R!DataAccepted, RP!DataAccepted, R!DataAppended, RP!DataAppended,
       R!DataIgnored, RP!DataIgnored, R!DataRejected, RP!DataRejected, R!DataTorn,
       RP!DataTorn, R!ApplyData, RP!ApplyData, R!Cardinality, RP!Cardinality

LEMMA SameApplyBegin ==
  ASSUME NEW k
  PROVE  R!ApplyBegin(k) <=> RP!ApplyBegin(k)
BY DEF R!Files, RP!Files, R!ChunkMode, RP!ChunkMode, R!ClosedChk, RP!ClosedChk,
       R!Completes, RP!Completes, R!Sendable, RP!Sendable, R!ScanNext, RP!ScanNext,
       R!ChunkReceiver, RP!ChunkReceiver, R!TempFiles, RP!TempFiles, R!Heartbeat,
       RP!Heartbeat, R!Emit, RP!Emit, R!Reject, RP!Reject, R!BeginReason, RP!BeginReason,
       R!BeginOpens, RP!BeginOpens, R!BeginAccepted, RP!BeginAccepted, R!ChunkRefused,
       RP!ChunkRefused, R!BeginRejected, RP!BeginRejected, R!ApplyBegin, RP!ApplyBegin,
       R!Cardinality, RP!Cardinality

LEMMA SameApplyChunk ==
  ASSUME NEW k, NEW i
  PROVE  R!ApplyChunk(k, i) <=> RP!ApplyChunk(k, i)
BY DEF R!Files, RP!Files, R!ChunkMode, RP!ChunkMode, R!ClosedChk, RP!ClosedChk,
       R!Completes, RP!Completes, R!Sendable, RP!Sendable, R!ScanNext, RP!ScanNext,
       R!ChunkReceiver, RP!ChunkReceiver, R!TempFiles, RP!TempFiles, R!Heartbeat,
       RP!Heartbeat, R!Emit, RP!Emit, R!Reject, RP!Reject, R!ChunkRefused,
       RP!ChunkRefused, R!ChunkReason, RP!ChunkReason, R!ChunkStores, RP!ChunkStores,
       R!ChunkAccepted, RP!ChunkAccepted, R!ChunkRejected, RP!ChunkRejected, R!ApplyChunk,
       RP!ApplyChunk, R!Cardinality, RP!Cardinality

LEMMA SameApplyCommit ==
  ASSUME NEW k
  PROVE  R!ApplyCommit(k) <=> RP!ApplyCommit(k)
BY DEF R!Files, RP!Files, R!env, RP!env, R!ChunkMode, RP!ChunkMode, R!ChunksOf,
       RP!ChunksOf, R!ClosedChk, RP!ClosedChk, R!Completes, RP!Completes, R!Sendable,
       RP!Sendable, R!ScanNext, RP!ScanNext, R!ChunkReceiver, RP!ChunkReceiver,
       R!TempFiles, RP!TempFiles, R!Heartbeat, RP!Heartbeat, R!Emit, RP!Emit, R!Reject,
       RP!Reject, R!Silent, RP!Silent, R!CommitReason, RP!CommitReason,
       R!CommitWhileQueued, RP!CommitWhileQueued, R!CommitStale, RP!CommitStale,
       R!CommitQueued, RP!CommitQueued, R!CommitRejected, RP!CommitRejected,
       R!ApplyCommit, RP!ApplyCommit, R!Cardinality, RP!Cardinality

LEMMA SamePoll == R!Poll <=> RP!Poll
BY DEF R!Files, RP!Files, R!disk, RP!disk, R!env, RP!env, R!ChunkMode, RP!ChunkMode,
       R!Larger, RP!Larger, R!NoCommit, RP!NoCommit, R!Completes, RP!Completes, R!Latest,
       RP!Latest, R!ScanNext, RP!ScanNext, R!RefreshApp, RP!RefreshApp, R!Heartbeat,
       RP!Heartbeat, R!AppendHeartbeat, RP!AppendHeartbeat, R!Emit, RP!Emit, R!Silent,
       RP!Silent, R!WantsFsync, RP!WantsFsync, R!FsyncTarget, RP!FsyncTarget,
       R!EnqueueFsync, RP!EnqueueFsync, R!QueueFsync, RP!QueueFsync, R!Harvest,
       RP!Harvest, R!FsyncNews, RP!FsyncNews, R!FsyncHeartbeats, RP!FsyncHeartbeats,
       R!PollFsync, RP!PollFsync, R!FinishCommit, RP!FinishCommit, R!CommitHeartbeat,
       RP!CommitHeartbeat, R!PollIdle, RP!PollIdle, R!PollCommitDone, RP!PollCommitDone,
       R!PollFailure, RP!PollFailure, R!Poll, RP!Poll, R!Cardinality, RP!Cardinality

LEMMA SameWriter == R!Writer <=> RP!Writer
BY DEF R!disk, RP!disk, R!ChunksOf, RP!ChunksOf, R!Smaller, RP!Smaller, R!NoTask,
       RP!NoTask, R!LoopIdle, RP!LoopIdle, R!WriterTake, RP!WriterTake, R!WriterFsync,
       RP!WriterFsync, R!CommitIntact, RP!CommitIntact, R!FileOf, RP!FileOf,
       R!WriterRename, RP!WriterRename, R!WriterCommitSync, RP!WriterCommitSync,
       R!WriterFails, RP!WriterFails, R!Writer, RP!Writer, R!Cardinality, RP!Cardinality

LEMMA SameExit == R!Exit <=> RP!Exit
BY DEF R!disk, RP!disk, R!env, RP!env, R!NoTask, RP!NoTask, R!Exit, RP!Exit,
       R!Cardinality, RP!Cardinality

LEMMA SameApplyManifest1 == R!ApplyManifest1 <=> RP!ApplyManifest1
BY DEF R!Files, RP!Files, R!disk, RP!disk, R!env, RP!env, R!InSync, RP!InSync,
       R!ApplyManifest1, RP!ApplyManifest1, R!Cardinality, RP!Cardinality

LEMMA SameInit == R!Init <=> RP!Init
BY DEF R!Files, RP!Files, R!ChunkMode, RP!ChunkMode, R!NoTask, RP!NoTask, R!NoCommit,
       RP!NoCommit, R!ClosedApp, RP!ClosedApp, R!ClosedChk, RP!ClosedChk, R!FreshDur,
       RP!FreshDur, R!InitialDisk, RP!InitialDisk, R!Started, RP!Started, R!Init, RP!Init,
       R!Cardinality, RP!Cardinality

LEMMA SameStarted == R!Started <=> RP!Started
BY DEF R!Files, RP!Files, R!NoTask, RP!NoTask, R!NoCommit, RP!NoCommit, R!ClosedApp,
       RP!ClosedApp, R!ClosedChk, RP!ClosedChk, R!FreshDur, RP!FreshDur, R!Started,
       RP!Started, R!Cardinality, RP!Cardinality

LEMMA SameFsyncHeartbeats == R!FsyncHeartbeats = RP!FsyncHeartbeats
BY DEF R!Heartbeat, RP!Heartbeat, R!AppendHeartbeat, RP!AppendHeartbeat, R!FsyncNews,
       RP!FsyncNews, R!FsyncHeartbeats, RP!FsyncHeartbeats, R!Cardinality, RP!Cardinality

LEMMA SameCommitHeartbeat == R!CommitHeartbeat = RP!CommitHeartbeat
BY DEF R!Larger, RP!Larger, R!Heartbeat, RP!Heartbeat, R!FinishCommit, RP!FinishCommit,
       R!CommitHeartbeat, RP!CommitHeartbeat, R!Cardinality, RP!Cardinality

-----------------------------------------------------------------------------
(* Steps of the receiver.                                                   *)

\* The record its network works on: answers in A on the lines, of which the
\* reports in H wait to be sent.
NetIn(net, A, H) ==
  /\ DOMAIN net = {"hb", "back"}
  /\ net.back \in [Lines -> Seq(A)]
  /\ DOMAIN net.hb = Lines
  /\ \A l \in Lines : net.hb[l] = NoHeartbeat \/ net.hb[l].msg \in H

\* Reports that queue_heartbeat may merge.
Mergeable(H) == \A h, g \in H : [h EXCEPT !.chunks = @ \cup g.chunks] \in H

NetOk(net, T, f) == NetIn(net, Answers(T, f), Reports(T))

LEMMA SendBackIn ==
  ASSUME NEW A, NEW H, NEW net, NetIn(net, A, H), NEW l, NEW m, l \in Lines => m \in A
  PROVE  NetIn(SendBack(net, l, m), A, H) /\ SendBack(net, l, m).hb = net.hb
<1> DEFINE n == [net EXCEPT !.back[l] = Append(@, m)]
<1>1. /\ DOMAIN n = DOMAIN net /\ n.hb = net.hb
      /\ n.back = [net.back EXCEPT ![l] = Append(net.back[l], m)]
  BY DEF NetIn
<1>2. n.back \in [Lines -> Seq(A)]
  <2>1. CASE l \in Lines
    <3>1. net.back[l] \in Seq(A) BY <2>1 DEF NetIn
    <3>2. Append(net.back[l], m) \in Seq(A) BY <2>1, <3>1
    <3> QED BY <1>1, <3>2 DEF NetIn
  <2>2. CASE l \notin Lines BY <1>1, <2>2 DEF NetIn
  <2> QED BY <2>1, <2>2
<1> HIDE DEF n
<1>3. NetIn(n, A, H) BY <1>1, <1>2 DEF NetIn
<1> QED BY <1>1, <1>3 DEF SendBack, n

\* Another pending heartbeat of line l.
LEMMA PendingIn ==
  ASSUME NEW A, NEW H, NEW net, NetIn(net, A, H), NEW l, NEW p,
         l \in Lines => p = NoHeartbeat \/ p.msg \in H
  PROVE  NetIn([net EXCEPT !.hb[l] = p], A, H)
<1> DEFINE n == [net EXCEPT !.hb[l] = p]
<1>1. DOMAIN n = DOMAIN net /\ n.back = net.back /\ n.hb = [net.hb EXCEPT ![l] = p] BY DEF NetIn
<1> HIDE DEF n
<1>2. DOMAIN n.hb = Lines /\ \A j \in Lines : n.hb[j] = IF j = l THEN p ELSE net.hb[j]
  BY <1>1 DEF NetIn
<1> QED BY <1>1, <1>2 DEF NetIn, n

\* flush_heartbeats.
LEMMA FlushIn ==
  ASSUME NEW A, NEW H, H \subseteq A, NEW net, NetIn(net, A, H), NEW l
  PROVE  NetIn(Flush(net, l), A, H)
<1>1. CASE net.hb[l] = NoHeartbeat BY <1>1 DEF Flush
<1>2. CASE net.hb[l] # NoHeartbeat
  <2> DEFINE m == net.hb[l].msg
             n == SendBack(net, l, m)
  <2>1. l \in Lines => m \in A BY <1>2 DEF NetIn
  <2>2. NetIn(n, A, H) BY <2>1, SendBackIn
  <2>3. Flush(net, l) = [n EXCEPT !.hb[l] = NoHeartbeat] BY <1>2 DEF Flush
  <2> HIDE DEF n
  <2> QED BY <2>2, <2>3, PendingIn
<1> QED BY <1>1, <1>2

\* queue_heartbeat.
LEMMA QueueHeartbeatIn ==
  ASSUME NEW A, NEW H, H \subseteq A, Mergeable(H), NEW net, NetIn(net, A, H), NEW l, NEW h \in H,
         NEW flush
  PROVE  NetIn(QueueHeartbeat(net, l, h, flush), A, H)
<1> DEFINE p == Merged(net.hb[l], h)
           n == [net EXCEPT !.hb[l] = Merged(@, h)]
<1>1. n = [net EXCEPT !.hb[l] = p] OBVIOUS
<1>2. ASSUME l \in Lines PROVE p.msg \in H
  <2> DEFINE old == net.hb[l]
  <2>1. p.msg = IF old = NoHeartbeat THEN h ELSE [h EXCEPT !.chunks = @ \cup old.msg.chunks]
    BY DEF Merged
  <2>2. old # NoHeartbeat => old.msg \in H BY <1>2 DEF NetIn
  <2> HIDE DEF old, p
  <2> QED BY <2>1, <2>2 DEF Mergeable
<1> HIDE DEF p
<1>3. NetIn(n, A, H) BY <1>1, <1>2, PendingIn
<1>4. QueueHeartbeat(net, l, h, flush) = Flush(n, l) \/ QueueHeartbeat(net, l, h, flush) = n
  BY DEF QueueHeartbeat
<1> HIDE DEF n
<1> QED BY <1>3, <1>4, FlushIn

\* flush_all_heartbeats.
LEMMA FlushedAllIn ==
  ASSUME NEW A, NEW H, H \subseteq A, NEW net, NetIn(net, A, H)
  PROVE  NetIn(FlushedAll(net), A, H)
<1>1. ASSUME NEW l \in Lines PROVE Flush(net, l).back[l] \in Seq(A)
  <2> DEFINE n == Flush(net, l)
  <2>1. NetIn(n, A, H) BY FlushIn
  <2> HIDE DEF n
  <2>2. n.back[l] \in Seq(A) BY <2>1 DEF NetIn
  <2> QED BY <2>2 DEF n
<1>2. [l \in Lines |-> Flush(net, l).back[l]] \in [Lines -> Seq(A)] BY <1>1
<1> QED BY <1>2 DEF NetIn, FlushedAll

\* More answers.
LEMMA NetMono ==
  ASSUME NEW A, NEW H, NEW B, NEW G, A \subseteq B, H \subseteq G, NEW net, NetIn(net, A, H)
  PROVE  NetIn(net, B, G)
<1>1. \A q \in Seq(A) : q \in Seq(B) BY SeqMono
<1>2. net.back \in [Lines -> Seq(B)] BY <1>1 DEF NetIn
<1> QED BY <1>2 DEF NetIn

\* A merged heartbeat says what the newest one says.
LEMMA ReportsMerge ==
  ASSUME NEW T
  PROVE  /\ Mergeable(Reports(T))
         /\ \A h, g \in Reports(T) : LET x == [h EXCEPT !.chunks = @ \cup g.chunks]
                                     IN  x.next = h.next /\ x.file = h.file
<1> SUFFICES ASSUME NEW h \in Reports(T), NEW g \in Reports(T)
             PROVE  LET x == [h EXCEPT !.chunks = @ \cup g.chunks]
                    IN  x \in Reports(T) /\ x.next = h.next /\ x.file = h.file
  BY DEF Mergeable
<1> DEFINE x == [h EXCEPT !.chunks = @ \cup g.chunks]
<1>1. /\ x \in [kind : {"HEARTBEAT"}, next : Nat, file : 0..NFiles, offset : Nat, durable : Nat,
                chunks : SUBSET (Nat \X Nat), missing : SUBSET (Nat \X Nat)]
      /\ x.next = h.next /\ x.file = h.file /\ x.durable = h.durable
  BY DEF Reports
<1> HIDE DEF x
<1>2. ReportOk(x, T) BY <1>1 DEF Reports, ReportOk, R!Completes
<1> QED BY <1>1, <1>2 DEF Reports, x

LEMMA ReportsAreAnswers ==
  ASSUME NEW T, NEW f
  PROVE  Reports(T) \subseteq Answers(T, f) /\ Refusals \subseteq Answers(T, f)
BY DEF Answers

\* A report of the receiver as a message.
LEMMA MessageOk ==
  ASSUME NEW T, NEW h \in RP!Report, \A k \in Files : RP!Completes(h, k) => k \in T,
         h.file \in Files /\ Size[h.file] = 0 => h.file \in T,
         NEW missing \in SUBSET (Nat \X Nat)
  PROVE  HeartbeatMessage(h, missing) \in Reports(T)
<1> DEFINE x == HeartbeatMessage(h, missing)
           cs == {h.file} \X h.chunks
<1>1. cs \in SUBSET (Nat \X Nat) BY SenderAssumption DEF RP!Report
<1>2. /\ x = [kind |-> "HEARTBEAT", next |-> h.next, file |-> h.file, offset |-> h.offset,
              durable |-> h.durable, chunks |-> cs, missing |-> missing]
  BY DEF HeartbeatMessage
<1> HIDE DEF cs, x
<1>3. /\ x \in [kind : {"HEARTBEAT"}, next : Nat, file : 0..NFiles, offset : Nat, durable : Nat,
                chunks : SUBSET (Nat \X Nat), missing : SUBSET (Nat \X Nat)]
      /\ x.next = h.next /\ x.file = h.file /\ x.durable = h.durable
  BY <1>1, <1>2 DEF RP!Report
<1>4. ReportOk(x, T)
  BY <1>3 DEF ReportOk, R!Completes, RP!Completes, R!ChunkMode, RP!ChunkMode
<1> QED BY <1>3, <1>4 DEF Reports, x

\* missing_ranges.
LEMMA MissingType ==
  ASSUME NEW c, NEW k \in Nat, Size[k] \in Nat
  PROVE  Missing(c, k) \in SUBSET (Nat \X Nat)
BY DEF Missing, R!ChunksOf

\* The answer to a Manifest1.
LEMMA Manifest2Type ==
  ASSUME SystemInv, NEW T, R!InSync \subseteq T
  PROVE  Manifest2 \in Plans(T, floor)
<1> DEFINE k == R!FirstOutside(R!InSync)
<1>0. R!InSync = RP!InSync /\ k = RP!FirstOutside(RP!InSync)
  BY SameInSync DEF R!FirstOutside, RP!FirstOutside
<1>1. /\ k \in 1..(NFiles + 1) /\ 1..(k - 1) \subseteq R!InSync /\ k \notin R!InSync
      /\ k \in present => ~RP!ChunkMode(k)
  <2>1. RP!Facts BY DEF SystemInv, RP!Composed
  <2> QED BY <1>0, <2>1, RP!DiffStream, T0
<1>2. Manifest2 = IF k > NFiles
      THEN [kind |-> "MANIFEST2", action |-> "IN_SYNC", file |-> 0, offset |-> 0]
      ELSE IF k \in present
      THEN [kind |-> "MANIFEST2", action |-> "RESUME_EXISTING", file |-> k, offset |-> Len(content[k])]
      ELSE [kind |-> "MANIFEST2", action |-> "CREATE_MISSING", file |-> k, offset |-> 0]
  BY DEF Manifest2
<1> HIDE DEF k
<1>3. floor \in 1..(NFiles + 1) /\ content \in [Files -> Seq(Nat)] BY ReceiverFacts DEF SystemInv
<1>4. floor <= k
  <2>1. ~(k \in 1..(floor - 1)) BY <1>1 DEF SystemInv
  <2> QED BY <1>1, <1>3, <2>1, SenderAssumption
<1>5. CASE k > NFiles
  <2>1. Files \subseteq T BY <1>1, <1>5, SenderAssumption DEF Files
  <2> QED BY <1>2, <1>5, <2>1, SenderAssumption DEF Plans, PlanMessageOk
<1>6. CASE ~(k > NFiles)
  <2>1. k \in Files /\ k \in 0..NFiles BY <1>1, <1>6, SenderAssumption DEF Files
  <2>2. Reached(k, T, floor) BY <1>1, <1>4, <2>1 DEF Reached
  <2>3. Len(content[k]) \in Nat
    <3>1. content[k] \in Seq(Nat) BY <1>3, <2>1
    <3> QED BY <3>1
  <2>4. k \in present => ~ChunkMode(k) BY <1>1 DEF RP!ChunkMode, ChunkMode
  <2> QED BY <1>2, <1>6, <2>1, <2>2, <2>3, <2>4 DEF Plans, PlanMessageOk
<1> QED BY <1>5, <1>6

\* A step of the receiver that leaves net behind.
LEMMA ReceiverStepInv ==
  ASSUME SystemInv, RP!Message \/ RP!Poll \/ RP!Writer \/ RP!ApplyManifest1 \/ RP!Exit,
         UNCHANGED <<senderVars, pend, control>>,
         wire' \in [Lines -> Seq(Sendings(told, floor))],
         NEW net, NetOk(net, told', floor), hb' = net.hb, back' = net.back
  PROVE  SystemInv'
<1>1. /\ RP!Composed' /\ told \subseteq told' /\ RP!InSync \subseteq RP!InSync' /\ floor' = floor
  <2>1. RP!Composed /\ ~FALSE /\ 0 = 0 BY DEF SystemInv
  <2> QED BY <2>1, RP!ComposedStep, T0
<1>2. PICK U : U = told' OBVIOUS
<1>3. /\ Sendings(told, floor) \subseteq Sendings(U, floor)
      /\ \A s : Ok(s, told, floor) => Ok(s, U, floor)
  BY <1>1, <1>2, MoreTold
<1>4. Ok(Now(0, << >>), told, floor)'
  <2>1. Now(0, << >>)' = Now(0, << >>) BY DEF Now, senderVars
  <2>2. Ok(Now(0, << >>), U, floor) BY <1>3 DEF SystemInv
  <2>3. Ok(Now(0, << >>)', told', floor') BY <1>1, <1>2, <2>1, <2>2
  <2> QED BY <2>3
<1>5. WiresOk(told, floor)'
  <2>1. \A q \in Seq(Sendings(told, floor)) : q \in Seq(Sendings(U, floor)) BY <1>3, SeqMono
  <2>2. wire' \in [Lines -> Seq(Sendings(U, floor))] BY <2>1
  <2>3. pend' \in [Lines -> Seq(Sendings(U, floor))] /\ control' \in Nat
    BY <2>1 DEF SystemInv, WiresOk
  <2> QED BY <1>1, <1>2, <2>2, <2>3 DEF WiresOk
<1>6. AnswersOk(told, floor)' BY <1>1, <1>2 DEF NetOk, NetIn, AnswersOk
<1>7. (1..(floor - 1) \subseteq R!InSync)'
  <2>1. R!InSync = RP!InSync /\ R!InSync' = RP!InSync' BY DEF R!InSync, RP!InSync, R!Files, RP!Files
  <2> QED BY <1>1, <2>1 DEF SystemInv
<1> QED BY <1>1, <1>4, <1>5, <1>6, <1>7 DEF SystemInv

\* The network's record before the step.
LEMMA NetBefore ==
  ASSUME SystemInv, NEW U, told \subseteq U
  PROVE  NetOk(ReceiverNet, U, floor)
<1>1. Answers(told, floor) \subseteq Answers(U, floor) /\ Reports(told) \subseteq Reports(U)
  BY MoreTold
<1>2. NetOk(ReceiverNet, told, floor) BY DEF SystemInv, AnswersOk, NetOk, NetIn, ReceiverNet
<1> QED BY <1>1, <1>2, NetMono DEF NetOk

\* The receiver's messages are the ones its proofs are about.
LEMMA IsMessage ==
  ASSUME SystemInv, NEW m \in Orderly(told, floor),
         \/ m.kind = "CREATE" /\ R!ApplyCreate(m.file)
         \/ m.kind = "DATA" /\ R!ApplyData(m.file, m.pos)
         \/ m.kind = "FILE_BEGIN" /\ R!ApplyBegin(m.file)
         \/ m.kind = "CHUNK" /\ R!ApplyChunk(m.file, m.pos)
         \/ m.kind = "FILE_COMMIT" /\ R!ApplyCommit(m.file)
  PROVE  RP!Message
<1> DEFINE k == m.file
<1>1. /\ k \in RP!Files /\ Size[k] \in Nat /\ m.pos \in Nat
      /\ m.kind = "DATA" => m.pos < Size[k]
      /\ m.kind = "CHUNK" => m.pos \in 1..Size[k]
  BY SenderAssumption DEF Orderly, Keys, Files, RP!Files
<1>2. CASE R!ApplyCreate(k) BY <1>1, <1>2, SameApplyCreate DEF RP!Message
<1>3. CASE m.kind = "DATA" /\ R!ApplyData(k, m.pos)
  <2>1. m.pos \in 0..(Size[k] - 1) BY <1>1, <1>3
  <2> QED BY <1>1, <1>3, <2>1, SameApplyData DEF RP!Message
<1>4. CASE R!ApplyBegin(k) BY <1>1, <1>4, SameApplyBegin DEF RP!Message
<1>5. CASE m.kind = "CHUNK" /\ R!ApplyChunk(k, m.pos)
  <2>1. m.pos \in RP!ChunksOf(k) BY <1>1, <1>5 DEF RP!ChunksOf
  <2> QED BY <1>1, <1>5, <2>1, SameApplyChunk DEF RP!Message
<1>6. CASE R!ApplyCommit(k) BY <1>1, <1>6, SameApplyCommit DEF RP!Message
<1> QED BY <1>2, <1>3, <1>4, <1>5, <1>6

\* Its answer to one, when A holds every refusal and H every report it makes.
LEMMA AnswerIn ==
  ASSUME SystemInv, RP!Message, NEW l \in Lines, NEW m \in Orderly(told, floor), Answer(l, m),
         NEW A, NEW H, H \subseteq A, Refusals \subseteq A, Mergeable(H), NetIn(ReceiverNet, A, H),
         \A h \in heartbeats' : \A z \in SUBSET (Nat \X Nat) : HeartbeatMessage(h, z) \in H
  PROVE  \E net : NetIn(net, A, H) /\ hb' = net.hb /\ back' = net.back
<1>1. RP!Composed'
  <2>1. RP!Composed /\ ~FALSE /\ 0 = 0 BY DEF SystemInv
  <2> QED BY <2>1, RP!ComposedStep, T0
<1>4. PICK e, c, r, hs : e = app'.expected /\ c = chk' /\ r = nack' /\ hs = heartbeats' OBVIOUS
<1>5. e \in Nat /\ c.expected \in Nat /\ r \in R!Reasons
  <2>1. RP!TypeOK' BY <1>1 DEF RP!Composed, RP!Facts
  <2>2. app' \in RP!AppType /\ c \in RP!ChkType /\ r \in RP!Reasons
    BY <1>4, <2>1 DEF RP!TypeOK, RP!AppType, RP!ChkType, RP!Reasons, RP!Files
  <2>3. e \in Nat /\ c.expected \in Nat BY <1>4, <2>2 DEF RP!AppType, RP!ChkType
  <2> QED BY <2>2, <2>3 DEF RP!Reasons, R!Reasons
<1>6. m.kind # "MANIFEST1" /\ m.file \in Nat /\ m.pos \in Nat /\ Size[m.file] \in Nat
  BY SenderAssumption DEF Orderly, Keys, Kinds, Files
<1> DEFINE missing == IF m.kind = "CHUNK" THEN Missing(chk', m.file) ELSE {}
           x  == IF m.kind \in {"CREATE", "DATA"} THEN app'.expected ELSE chk'.expected
           nm == NackMessage(m, x)
           h  == CHOOSE y \in heartbeats' : TRUE
           hm == HeartbeatMessage(h, missing)
           net == IF nack' # "none" THEN SendBack(ReceiverNet, l, nm)
                  ELSE IF heartbeats' = {} THEN ReceiverNet
                  ELSE QueueHeartbeat(ReceiverNet, l, hm, m.kind \notin {"DATA", "CHUNK"})
<1>7. hb' = net.hb /\ back' = net.back BY <1>6 DEF Answer
<1>8. nm \in A
  <2>1. nm = [kind |-> "NACK", reason |-> r, file |-> m.file, got |-> m.file,
              expected |-> IF m.kind \in {"CREATE", "DATA"} THEN e ELSE c.expected,
              offset |-> IF m.kind = "CHUNK" THEN m.pos - 1 ELSE m.pos]
    BY <1>4 DEF NackMessage
  <2>2. nm \in Refusals BY <1>5, <1>6, <2>1 DEF Refusals
  <2> HIDE DEF nm
  <2> QED BY <2>2
<1>9. NetIn(SendBack(ReceiverNet, l, nm), A, H) BY <1>8, SendBackIn
<1>10. ASSUME heartbeats' # {}
       PROVE  NetIn(QueueHeartbeat(ReceiverNet, l, hm, m.kind \notin {"DATA", "CHUNK"}), A, H)
  <2>1. PICK y \in heartbeats' : y = h BY <1>10
  <2>2. PICK z : z = missing OBVIOUS
  <2>3. z \in SUBSET (Nat \X Nat)
    <3>1. z = IF m.kind = "CHUNK" THEN Missing(c, m.file) ELSE {} BY <1>4, <2>2
    <3> QED BY <1>6, <3>1, MissingType
  <2>4. HeartbeatMessage(y, z) \in H BY <2>1, <2>3
  <2>5. hm = HeartbeatMessage(y, z) BY <2>1, <2>2
  <2> HIDE DEF hm
  <2> QED BY <2>4, <2>5, QueueHeartbeatIn
<1>11. NetIn(net, A, H)
  <2> HIDE DEF nm, hm
  <2> QED BY <1>9, <1>10
<1> HIDE DEF net
<1> QED BY <1>7, <1>11

LEMMA AnswerOk ==
  ASSUME SystemInv, RP!Message, NEW l \in Lines, NEW m \in Orderly(told, floor), Answer(l, m)
  PROVE  \E net : NetOk(net, told', floor) /\ hb' = net.hb /\ back' = net.back
<1>1. told \subseteq told' /\ \A h \in heartbeats' : RP!Honest(h)'
  <2>1. RP!Composed /\ ~FALSE /\ 0 = 0 BY DEF SystemInv
  <2> QED BY <2>1, RP!ComposedStep, T0
<1>2. PICK U : U = told' OBVIOUS
<1>3. PICK A, H : A = Answers(U, floor) /\ H = Reports(U) OBVIOUS
<1>4. NetIn(ReceiverNet, A, H) BY <1>1, <1>2, <1>3, NetBefore DEF NetOk
<1>5. H \subseteq A /\ Refusals \subseteq A /\ Mergeable(H)
  BY <1>3, ReportsAreAnswers, ReportsMerge
<1>6. ASSUME NEW y \in heartbeats', NEW z \in SUBSET (Nat \X Nat) PROVE HeartbeatMessage(y, z) \in H
  <2>1. RP!Honest(y)' BY <1>1
  <2>2. /\ y \in RP!Report /\ \A k \in Files : RP!Completes(y, k) => k \in U
        /\ y.file \in Files /\ Size[y.file] = 0 => y.file \in U
    BY <1>2, <2>1 DEF RP!Honest, RP!Files, Files, RP!Completes
  <2> QED BY <1>3, <2>2, MessageOk
<1>7. \E net : NetIn(net, A, H) /\ hb' = net.hb /\ back' = net.back
  BY <1>4, <1>5, <1>6, AnswerIn
<1> QED BY <1>2, <1>3, <1>7 DEF NetOk

\* The receiver reads a message.
LEMMA ReceiverReceivesInv ==
  ASSUME SystemInv, NEW l \in Lines, ReceiverReceives(l)
  PROVE  SystemInv'
<1> DEFINE S == Sendings(told, floor)
<1>1. PICK m : m = Head(wire[l]) OBVIOUS
<1>2. wire[l] \in Seq(S) /\ wire[l] # << >> /\ wire \in [Lines -> Seq(S)]
  BY DEF SystemInv, WiresOk, ReceiverReceives
<1>3. m \in S /\ Tail(wire[l]) \in Seq(S)
  <2> HIDE DEF S
  <2> QED BY <1>1, <1>2
<1>4. wire' \in [Lines -> Seq(S)]
  <2>1. wire' = [wire EXCEPT ![l] = Tail(@)] BY DEF ReceiverReceives
  <2> HIDE DEF S
  <2> QED BY <1>2, <1>3, <2>1
<1>5. UNCHANGED <<senderVars, pend, control>> BY DEF ReceiverReceives
<1>6. Answer(l, m) BY <1>1 DEF ReceiverReceives
<1>7. CASE m.kind = "MANIFEST1"
  <2>1. R!ApplyManifest1 BY <1>1, <1>7 DEF ReceiverReceives
  <2>2. RP!ApplyManifest1 BY <2>1, SameApplyManifest1
  <2>3. PICK U : U = told' OBVIOUS
  <2>4. told \subseteq U /\ R!InSync \subseteq U BY <2>1, <2>3 DEF R!ApplyManifest1
  <2>5. PICK net : net = SendBack(ReceiverNet, l, Manifest2) OBVIOUS
  <2>6. hb' = net.hb /\ back' = net.back BY <1>6, <1>7, <2>5 DEF Answer
  <2>7. Manifest2 \in Answers(U, floor) BY <2>4, Manifest2Type DEF Answers
  <2>8. NetOk(net, U, floor) BY <2>4, <2>5, <2>7, NetBefore, SendBackIn DEF NetOk
  <2> QED BY <1>4, <1>5, <2>2, <2>3, <2>6, <2>8, ReceiverStepInv
<1>8. CASE m.kind # "MANIFEST1"
  <2>1. m \in Orderly(told, floor) BY <1>3, <1>8 DEF Sendings, Manifest1
  <2>2. RP!Message BY <1>1, <1>8, <2>1, IsMessage DEF ReceiverReceives
  <2>3. PICK net : NetOk(net, told', floor) /\ hb' = net.hb /\ back' = net.back
    BY <1>6, <2>1, <2>2, AnswerOk
  <2> QED BY <1>4, <1>5, <2>2, <2>3, ReceiverStepInv
<1> QED BY <1>7, <1>8

\* The answers to poll_completions, when H holds its heartbeats.
LEMMA PollIn ==
  ASSUME NEW A, NEW H, H \subseteq A, Mergeable(H), NetIn(ReceiverNet, A, H),
         \A h \in R!FsyncHeartbeats : HeartbeatMessage(h, {}) \in H,
         cmt.state = "done" => HeartbeatMessage(R!CommitHeartbeat, {}) \in H
  PROVE  NetIn(Polled, A, H) /\ NetIn(FlushedAll(Polled), A, H)
<1>1. PICK fs, ch : fs = R!FsyncHeartbeats /\ ch = R!CommitHeartbeat OBVIOUS
<1>2. NetIn(AfterFsync, A, H)
  <2>1. AfterFsync = IF fs = {} THEN ReceiverNet
                     ELSE QueueHeartbeat(ReceiverNet, appendLine,
                                         HeartbeatMessage(CHOOSE h \in fs : TRUE, {}), FALSE)
    BY <1>1 DEF AfterFsync
  <2>2. fs # {} => HeartbeatMessage(CHOOSE h \in fs : TRUE, {}) \in H BY <1>1
  <2> QED BY <2>1, <2>2, QueueHeartbeatIn
<1>3. NetIn(Polled, A, H)
  <2>1. Polled = AfterFsync \/
        /\ cmt.state = "done"
        /\ Polled = QueueHeartbeat(AfterFsync, commitLine, HeartbeatMessage(ch, {}), TRUE)
    BY <1>1 DEF Polled
  <2> QED BY <1>1, <1>2, <2>1, QueueHeartbeatIn
<1> QED BY <1>3, FlushedAllIn

\* poll_completions: every heartbeat of it is honest.
LEMMA PollInv ==
  ASSUME SystemInv, R!Poll, UNCHANGED <<senderVars, wire, pend, control>>,
         \/ hb' = Polled.hb /\ back' = Polled.back
         \/ hb' = FlushedAll(Polled).hb /\ back' = FlushedAll(Polled).back
  PROVE  SystemInv'
<1>1. RP!Poll BY SamePoll
<1>2. /\ told \subseteq told'
      /\ \A h \in RP!FsyncHeartbeats : RP!Honest(h)'
      /\ cmt.state = "done" => \A h \in {RP!CommitHeartbeat} : RP!Honest(h)'
  <2>1. RP!Facts /\ RP!EmptyPassed(app) /\ ~dur.failed BY DEF SystemInv, RP!Composed
  <2> QED BY <1>1, <2>1, RP!PollHonest, T0
<1>3. PICK U : U = told' OBVIOUS
<1>4. PICK A, H : A = Answers(U, floor) /\ H = Reports(U) OBVIOUS
<1>5. H \subseteq A /\ Mergeable(H) /\ NetIn(ReceiverNet, A, H)
  BY <1>2, <1>3, <1>4, NetBefore, ReportsAreAnswers, ReportsMerge DEF NetOk
<1>6. ASSUME NEW h, RP!Honest(h)' PROVE HeartbeatMessage(h, {}) \in H
  <2>1. /\ h \in RP!Report /\ \A k \in Files : RP!Completes(h, k) => k \in U
        /\ h.file \in Files /\ Size[h.file] = 0 => h.file \in U
    BY <1>3, <1>6 DEF RP!Honest, RP!Files, Files, RP!Completes
  <2>2. {} \in SUBSET (Nat \X Nat) OBVIOUS
  <2> QED BY <1>4, <2>1, <2>2, MessageOk
<1>7. PICK fs, ch : fs = RP!FsyncHeartbeats /\ ch = RP!CommitHeartbeat OBVIOUS
<1>8. /\ \A h \in fs : HeartbeatMessage(h, {}) \in H
      /\ cmt.state = "done" => HeartbeatMessage(ch, {}) \in H
  <2>1. \A h \in fs : HeartbeatMessage(h, {}) \in H BY <1>2, <1>6, <1>7
  <2>2. \A h \in {ch} : cmt.state = "done" => RP!Honest(h)' BY <1>2, <1>7
  <2> QED BY <1>6, <2>1, <2>2
<1>9. NetIn(Polled, A, H) /\ NetIn(FlushedAll(Polled), A, H)
  BY <1>5, <1>7, <1>8, PollIn, SameFsyncHeartbeats, SameCommitHeartbeat
<1>10. PICK net : NetOk(net, U, floor) /\ hb' = net.hb /\ back' = net.back
  BY <1>4, <1>9 DEF NetOk
<1>11. wire' \in [Lines -> Seq(Sendings(told, floor))] BY DEF SystemInv, WiresOk
<1> QED BY <1>1, <1>3, <1>10, <1>11, ReceiverStepInv

\* The writer thread.
LEMMA WriterThreadInv ==
  ASSUME SystemInv, WriterThread
  PROVE  SystemInv'
<1>1. RP!Writer \/ RP!Exit BY SameWriter, SameExit DEF WriterThread
<1>2. told \subseteq told'
  <2>1. RP!Composed /\ ~FALSE /\ 0 = 0 BY DEF SystemInv
  <2> QED BY <1>1, <2>1, RP!ComposedStep, T0
<1>3. PICK U, net : U = told' /\ net = ReceiverNet OBVIOUS
<1>4. NetOk(net, U, floor) BY <1>2, <1>3, NetBefore
<1>5. hb' = net.hb /\ back' = net.back BY <1>3 DEF WriterThread, lineVars, recvVars, ReceiverNet
<1>6. wire' \in [Lines -> Seq(Sendings(told, floor))] /\ UNCHANGED <<senderVars, pend, control>>
  BY DEF WriterThread, lineVars, SystemInv, WiresOk
<1> QED BY <1>1, <1>3, <1>4, <1>5, <1>6, ReceiverStepInv

\* Steps that touch neither the sender nor what is on the lines.
LEMMA SilentInv ==
  ASSUME SystemInv, RP!Composed', UNCHANGED <<present, content, told, floor>>,
         UNCHANGED <<senderVars, wire, back, pend, control, hb>>
  PROVE  SystemInv'
<1>1. Now(0, << >>)' = Now(0, << >>) BY DEF Now, senderVars
<1>2. Ok(Now(0, << >>)', told', floor') BY <1>1 DEF SystemInv
<1>3. WiresOk(told, floor)' BY DEF SystemInv, WiresOk
<1>4. AnswersOk(told, floor)' BY DEF SystemInv, AnswersOk
<1>5. (1..(floor - 1) \subseteq R!InSync)' BY DEF SystemInv, R!InSync
<1> QED BY <1>2, <1>3, <1>4, <1>5 DEF SystemInv

LEMMA ThrowsIdle ==
  ASSUME SystemInv, HeartbeatTickThrows
  PROVE  RP!Idles /\ RP!Composed'
<1>1. RP!Idles BY DEF HeartbeatTickThrows, RP!Idles, RP!disk, RP!env
<1> QED BY <1>1, RP!ComposedIdle, T0 DEF SystemInv

LEMMA QuietStepsInv ==
  ASSUME SystemInv, HeartbeatTickThrows \/ \E l \in Lines : EndOfStream(l)
  PROVE  SystemInv'
<1>1. CASE HeartbeatTickThrows
  BY <1>1, ThrowsIdle, SilentInv DEF HeartbeatTickThrows, lineVars, recvVars
<1>2. ASSUME NEW l \in Lines, EndOfStream(l) PROVE SystemInv'
  <2>1. RP!Composed' /\ UNCHANGED <<told, floor, present, content>>
    BY <1>2, IdleStep DEF EndOfStream, SystemInv
  <2> QED BY <1>2, <2>1, SilentInv DEF EndOfStream, recvVars
<1> QED BY <1>1, <1>2

LEMMA StutterInv ==
  ASSUME SystemInv, UNCHANGED vars
  PROVE  SystemInv'
<1>1. UNCHANGED RP!vars BY DEF vars, R!vars, RP!vars, R!disk, RP!disk, R!env, RP!env
<1>2. RP!Facts'
  <2>1. RP!Facts /\ ~FALSE /\ [RP!Next]_(RP!vars) BY <1>1 DEF SystemInv, RP!Composed
  <2> QED BY <2>1, RP!NextFacts, T0
<1>3. RP!Composed' BY <1>1, <1>2 DEF SystemInv, RP!Composed, RP!vars, RP!EmptyPassed, RP!Files
<1>4. UNCHANGED <<present, content, told, floor>> BY <1>1 DEF RP!vars, RP!disk, RP!env
<1> QED BY <1>3, <1>4, SilentInv DEF vars, lineVars, recvVars

LEMMA NextInv == SystemInv /\ [Next]_vars => SystemInv'
<1> SUFFICES ASSUME SystemInv, [Next]_vars PROVE SystemInv' OBVIOUS
<1>1. ASSUME NEW l \in Lines, SenderReceives(l) PROVE SystemInv' BY <1>1, SenderReceivesInv
<1>2. ASSUME NEW l \in Lines, LineConnects(l) PROVE SystemInv' BY <1>2, LineConnectsInv
<1>3. ASSUME NEW l \in Lines, ReceiverReceives(l) PROVE SystemInv' BY <1>3, ReceiverReceivesInv
<1>4. ASSUME NEW l \in Lines, EndOfStream(l) PROVE SystemInv' BY <1>4, QuietStepsInv
<1>5. ASSUME NEW l \in Lines, LineDrops(l) PROVE SystemInv' BY <1>5, LineDropsInv
<1>6. CASE (\E credit \in Credits : TimerTick(credit)) \/ (\E m \in DOMAIN buffer : Overdue(m))
  BY <1>6, TicksInv
<1>7. CASE HeartbeatTick \/ CommitPollTick BY <1>7, PollInv DEF HeartbeatTick, CommitPollTick
<1>8. CASE HeartbeatTickThrows BY <1>8, QuietStepsInv
<1>9. CASE WriterThread BY <1>9, WriterThreadInv
<1>10. CASE UNCHANGED vars BY <1>10, StutterInv
<1> QED BY <1>1, <1>2, <1>3, <1>4, <1>5, <1>6, <1>7, <1>8, <1>9, <1>10 DEF Next, Progress

\* The sender as it starts.
LEMMA SenderInitOk ==
  ASSUME SenderInit, NEW T, NEW f
  PROVE  Ok(Now(0, << >>), T, f)
<1> DEFINE n == Now(0, << >>)
<1>1. /\ DOMAIN n = {"cur", "applied", "complete", "task", "buffer", "resend", "recoveries", "status",
                     "sent", "credit", "late"}
      /\ n.cur = 1 /\ n.applied = FALSE /\ n.complete = FALSE /\ n.task = [k \in Files |-> FreshTask(k)]
      /\ n.buffer = << >> /\ n.resend = << >> /\ n.status = "busy"
      /\ n.sent = << >> /\ n.credit = 0 /\ n.late = << >>
  BY DEF Now, SenderInit
<1> HIDE DEF n
<1>2. PlanOk(n, T, f) /\ Shape(n) BY <1>1, SenderAssumption DEF PlanOk, Shape
<1>3. TasksOk(n) BY <1>1, FreshTasks DEF TasksOk
<1>4. Held(n) = {} BY <1>1 DEF Held
<1>5. BufferOk(n, T, f) /\ QueuesOk(n, T, f) BY <1>1, <1>4 DEF BufferOk, QueuesOk
<1>6. Going(n) BY <1>1 DEF Going
<1> QED BY <1>2, <1>3, <1>5, <1>6 DEF Ok, Base, n

LEMMA InitInv ==
  ASSUME \A k \in Grown : ~ChunkMode(k)
  PROVE  Init => SystemInv
<1> SUFFICES ASSUME Init PROVE SystemInv OBVIOUS
<1>1. Ok(Now(0, << >>), told, floor) BY SenderInitOk DEF Init
<1>2. \A S : [l \in Lines |-> << >>] \in [Lines -> Seq(S)] OBVIOUS
<1>3. WiresOk(told, floor) BY <1>2 DEF Init, WiresOk
<1>4. AnswersOk(told, floor) BY <1>2 DEF Init, AnswersOk
<1>5. RP!Composed /\ 1..(floor - 1) \subseteq RP!InSync
  <2>1. CASE Grown = {}
    <3>1. RP!Init BY <2>1, SameInit DEF Init
    <3> QED BY <3>1, RP!InitComposed, T0
  <2>2. CASE Grown # {}
    <3>1. TargetBehind BY <2>2 DEF Init
    <3>2. /\ Grown \in SUBSET RP!Files
          /\ \A k \in Grown : Size[k] > 0 /\ ~RP!ChunkMode(k)
      BY SystemAssumption DEF RP!Files, Files, RP!ChunkMode, ChunkMode
    <3>3. /\ present = RP!Files
          /\ content = [k \in RP!Files |-> [i \in 1..(IF k \in Grown THEN Size[k] - 1 ELSE Size[k]) |-> i]]
      BY <3>1 DEF TargetBehind, RP!Files, Files
    <3>4. told = RP!InSync /\ floor = RP!FirstOutside(RP!InSync) /\ RP!Started
      BY <3>1, SameInSync, SameStarted DEF TargetBehind, R!FirstOutside, RP!FirstOutside
    <3> QED BY <3>2, <3>3, <3>4, RP!BehindComposed, T0
  <2> QED BY <2>1, <2>2
<1> QED BY <1>1, <1>3, <1>4, <1>5, SameInSync DEF SystemInv

\* What SenderKeepsOrder asks for.
LEMMA InvImpliesOrder == SystemInv => SenderKeepsOrder
<1> SUFFICES ASSUME SystemInv, NEW l \in Lines, NEW m \in Range(wire[l]), m.kind # "MANIFEST1"
             PROVE  /\ R!Sendable(m.file)
                    /\ R!ChunkMode(m.file) = (m.kind \in {"FILE_BEGIN", "CHUNK", "FILE_COMMIT"})
  BY DEF SenderKeepsOrder
<1>1. m \in Sendings(told, floor)
  <2>1. wire[l] \in Seq(Sendings(told, floor)) BY DEF SystemInv, WiresOk
  <2> QED BY <2>1 DEF Range
<1>2. m \in Orderly(told, floor) BY <1>1 DEF Sendings, Manifest1
<1>3. Reached(m.file, told, floor) /\ (ChunkMode(m.file) <=> m.kind \in ChunkKinds)
  BY <1>2 DEF Orderly
<1> QED BY <1>3 DEF Reached, R!Sendable, R!ChunkMode, ChunkMode, ChunkKinds

\* Whatever the lines do to messages and connections, with every batch size,
\* retry limit and credit: no message of a file is on a line before the
\* receiver has completed the files before it, and the message is of the kind
\* that the file's size asks for.  This is the assumption under which the
\* receiver's own theorems are proved (send_plan, advance_stream_task and
\* erase_completed of the sender).  Files that grew are CREATE/DATA files: a
\* chunk file that grew is resumed with DATA, which this leaves out.
THEOREM SenderKeepsItsOrder ==
  ASSUME \A k \in Grown : ~ChunkMode(k)
  PROVE  Spec => []SenderKeepsOrder
<1>1. Init => SystemInv BY InitInv
<1>2. SystemInv /\ [Next]_vars => SystemInv' BY NextInv
<1>3. SystemInv => SenderKeepsOrder BY InvImpliesOrder
<1> QED BY <1>1, <1>2, <1>3, PTL DEF Spec

-----------------------------------------------------------------------------
(* The refinement of OrderedTransfer.                                       *)

\* With ChunkFilesLast no CREATE/DATA file is created while a commit is in
\* flight.  In addition to SystemInv, what counts as told is whole.
TransferInv == SystemInv /\ RP!ToldInv

LEMMA NoneEarly ==
  ASSUME ChunkFilesLast, RP!Facts
  PROVE  RP!NotEarly
<1> SUFFICES ASSUME NEW k \in RP!Files, ~RP!ChunkMode(k), cmt.state # "none", ~(k <= cmt.seq)
             PROVE  FALSE
  BY DEF RP!NotEarly
<1>1. cmt.seq \in RP!Files /\ RP!ChunkMode(cmt.seq) BY DEF RP!Facts, RP!VisibleInv, RP!CommitPlaced
<1>2. k \in Files /\ cmt.seq \in Files /\ k \in Nat /\ cmt.seq \in Nat
  BY <1>1, SenderAssumption DEF RP!Files, Files
<1>3. ChunkMode(cmt.seq) /\ ~ChunkMode(k) BY <1>1 DEF RP!ChunkMode, ChunkMode
<1> QED BY <1>2, <1>3 DEF ChunkFilesLast

\* Either the sender does nothing and the receiver takes a step of its own, or
\* the receiver does nothing and the sender perhaps takes a step.
ReceiverMoves == [RP!Next]_(RP!vars) /\ UNCHANGED senderVars
SenderMoves   == RP!Idles /\ (status' = status \/ status = "busy")

LEMMA OneSideMoves ==
  ASSUME SystemInv, [Next]_vars
  PROVE  ReceiverMoves \/ SenderMoves
<1>i. ReceiverIdle => RP!Idles
  BY ReceiverFacts DEF SystemInv, ReceiverIdle, RP!Idles, RP!disk, RP!env
<1>s. ASSUME NEW s, SenderStep(s) PROVE SenderMoves
  BY <1>i, <1>s DEF SenderStep, SenderMoves
<1>1. ASSUME NEW l \in Lines, SenderReceives(l) PROVE SenderMoves
  BY <1>s, <1>1 DEF SenderReceives
<1>2. ASSUME NEW l \in Lines, LineConnects(l) PROVE SenderMoves BY <1>s, <1>2 DEF LineConnects
<1>3. ASSUME NEW l \in Lines, LineDrops(l) PROVE SenderMoves BY <1>s, <1>3 DEF LineDrops
<1>4. ASSUME NEW l \in Lines, EndOfStream(l) PROVE SenderMoves
  BY <1>i, <1>4 DEF EndOfStream, SenderMoves, senderVars
<1>5. CASE (\E credit \in Credits : TimerTick(credit)) \/ (\E m \in DOMAIN buffer : Overdue(m))
  BY <1>s, <1>5 DEF TimerTick, Overdue, SenderTick
<1>6. CASE HeartbeatTickThrows
  BY <1>6, ThrowsIdle DEF HeartbeatTickThrows, SenderMoves, senderVars
<1>7. ASSUME NEW l \in Lines, ReceiverReceives(l) PROVE ReceiverMoves
  <2>1. PICK m : m = Head(wire[l]) OBVIOUS
  <2>2. m \in Sendings(told, floor)
    <3>1. wire[l] \in Seq(Sendings(told, floor)) /\ wire[l] # << >>
      BY <1>7 DEF SystemInv, WiresOk, ReceiverReceives
    <3> QED BY <2>1, <3>1
  <2>3. CASE m.kind = "MANIFEST1"
    <3>1. R!ApplyManifest1 BY <1>7, <2>1, <2>3 DEF ReceiverReceives
    <3>2. RP!ApplyManifest1 BY <3>1, SameApplyManifest1
    <3> QED BY <1>7, <3>2 DEF RP!Next, ReceiverMoves, ReceiverReceives
  <2>4. CASE m.kind # "MANIFEST1"
    <3>1. m \in Orderly(told, floor) BY <2>2, <2>4 DEF Sendings, Manifest1
    <3>2. RP!Message BY <1>7, <2>1, <2>4, <3>1, IsMessage DEF ReceiverReceives
    <3> QED BY <1>7, <3>2 DEF RP!Next, ReceiverMoves, ReceiverReceives
  <2> QED BY <2>3, <2>4
<1>8. CASE HeartbeatTick \/ CommitPollTick
  <2>1. RP!Poll BY <1>8, SamePoll DEF HeartbeatTick, CommitPollTick
  <2> QED BY <1>8, <2>1 DEF HeartbeatTick, CommitPollTick, RP!Next, ReceiverMoves
<1>9. CASE WriterThread
  <2>1. RP!Writer \/ RP!Exit BY <1>9, SameWriter, SameExit DEF WriterThread
  <2> QED BY <1>9, <2>1 DEF WriterThread, RP!Next, ReceiverMoves
<1>10. CASE UNCHANGED vars
  BY <1>10 DEF vars, R!vars, RP!vars, R!disk, RP!disk, R!env, RP!env, ReceiverMoves
<1> QED BY <1>1, <1>2, <1>3, <1>4, <1>5, <1>6, <1>7, <1>8, <1>9, <1>10 DEF Next, Progress

LEMMA NextTransfer ==
  ASSUME ChunkFilesLast, TransferInv, [Next]_vars
  PROVE  TransferInv'
<1>1. SystemInv /\ SystemInv' BY NextInv DEF TransferInv
<1>2. RP!Facts /\ RP!Facts' /\ RP!Composed BY <1>1 DEF SystemInv, RP!Composed
<1>3. CASE ReceiverMoves
  <2>1. RP!NotEarly /\ RP!ToldInv /\ [RP!Next]_(RP!vars)
    BY <1>2, <1>3, NoneEarly DEF TransferInv, ReceiverMoves
  <2>2. RP!ToldInv' BY <1>2, <2>1, RP!NextTold, T0
  <2> QED BY <1>1, <2>2 DEF TransferInv
<1>4. CASE SenderMoves
  <2>1. RP!ToldInv => RP!ToldInv' BY <1>2, <1>4, RP!ComposedIdle, T0 DEF SenderMoves
  <2> QED BY <1>1, <2>1 DEF TransferInv
<1> QED BY <1>1, <1>3, <1>4, OneSideMoves

\* The length of every entry that a reader sees.
Target == [k \in Files |-> IF k \in present THEN Len(content[k]) ELSE -1]

LEMMA TargetFacts ==
  ASSUME TransferInv
  PROVE  /\ Files = Transfer!Files
         /\ present \in SUBSET Files
         /\ \A k \in Files : Size[k] \in Nat /\ Len(content[k]) \in Nat
         /\ \A k \in present : Len(content[k]) <= Size[k]
         /\ \A k \in Files : RP!Whole(k) => Target[k] = Size[k]
<1>1. RP!Composed BY DEF TransferInv, SystemInv
<1>2. present \in SUBSET Files /\ content \in [Files -> Seq(Nat)] BY <1>1, ReceiverFacts
<1>3. \A k \in Files : Size[k] \in Nat /\ Len(content[k]) \in Nat
  <2> SUFFICES ASSUME NEW k \in Files PROVE Size[k] \in Nat /\ Len(content[k]) \in Nat OBVIOUS
  <2>1. content[k] \in Seq(Nat) BY <1>2
  <2> QED BY <2>1, SenderAssumption
<1>4. \A k \in present : Len(content[k]) <= Size[k]
  BY <1>1 DEF RP!Composed, RP!Facts, RP!PrefixInv, RP!VisibleIsPrefix
<1>5. ASSUME NEW k \in Files, RP!Whole(k) PROVE Target[k] = Size[k]
  <2>1. k \in present /\ content[k] = [i \in 1..Size[k] |-> i] BY <1>5 DEF RP!Whole
  <2>2. Len([i \in 1..Size[k] |-> i]) = Size[k] BY <1>3
  <2> QED BY <2>1, <2>2 DEF Target
<1> QED BY <1>2, <1>3, <1>4, <1>5 DEF Files, Transfer!Files

\* A reader of the directory sees what OrderedTransfer allows.
LEMMA ReaderSees ==
  ASSUME TransferInv, RP!VisibleStep, status' = status
  PROVE  \/ Target' = Target
         \/ \E k \in Files : Transfer!Appear(k) \/ Transfer!Extend(k)
<1> DEFINE Shows(p, c) == [k \in Files |-> IF k \in p THEN Len(c[k]) ELSE -1]
<1>0. PICK p, c, q, d : p = present /\ c = content /\ q = present' /\ d = content' OBVIOUS
<1>1. /\ Target = Shows(p, c) /\ Target' = Shows(q, d)
      /\ Files = Transfer!Files
      /\ p \in SUBSET Files
      /\ \A k \in Files : Size[k] \in Nat /\ Len(c[k]) \in Nat
      /\ (status = "done")' = (status = "done")
  BY <1>0, TargetFacts DEF Target
<1>2. CASE present' = present /\ RP!SameLengths(present)
  <2>1. q = p /\ \A j \in p : Len(d[j]) = Len(c[j]) BY <1>0, <1>2 DEF RP!SameLengths
  <2> QED BY <1>1, <2>1
<1>3. ASSUME NEW k \in RP!Files, k \notin present, present' = present \cup {k},
             \A j \in 1..(k - 1) : RP!Whole(j),
             Len(content'[k]) = IF RP!ChunkMode(k) THEN Size[k] ELSE 0,
             RP!SameLengths(present)
      PROVE  Transfer!Appear(k)
  <2>1. k \in Files /\ k \notin p /\ q = p \cup {k} /\ \A j \in p : Len(d[j]) = Len(c[j])
    BY <1>0, <1>3 DEF RP!SameLengths, RP!Files, Files
  <2>2. Len(d[k]) = IF k \in {i \in Files : ChunkMode(i)} THEN Size[k] ELSE 0
    BY <1>0, <1>3, <2>1 DEF RP!ChunkMode, ChunkMode
  <2>3. \A j \in 1..(k - 1) : Target[j] = Size[j]
    <3>1. \A j \in 1..(k - 1) : j \in Files BY <2>1, SenderAssumption DEF Files
    <3> QED BY <1>3, <3>1, TargetFacts
  <2>4. Target[k] = -1 BY <1>1, <2>1
  <2>5. Target' = [Target EXCEPT ![k] = IF k \in {i \in Files : ChunkMode(i)} THEN Size[k] ELSE 0]
    <3>1. \A j \in Files : j # k => (j \in q <=> j \in p) BY <2>1
    <3> QED BY <1>1, <2>1, <2>2, <3>1
  <2> QED BY <1>1, <2>3, <2>4, <2>5 DEF Transfer!Appear, Transfer!Absent, Transfer!Whole, Target
<1>4. ASSUME NEW k \in present, ~RP!ChunkMode(k), present' = present,
             Len(content'[k]) \in (Len(content[k]) + 1)..Size[k], RP!SameLengths(present \ {k})
      PROVE  Transfer!Extend(k)
  <2>1. k \in Files /\ k \in p /\ q = p /\ \A j \in p \ {k} : Len(d[j]) = Len(c[j])
    BY <1>0, <1>1, <1>4 DEF RP!SameLengths
  <2>2. k \notin {i \in Files : ChunkMode(i)} BY <1>4 DEF RP!ChunkMode, ChunkMode
  <2>3. Target[k] = Len(c[k]) /\ Target[k] # -1 BY <1>1, <2>1
  <2>4. Len(d[k]) \in (Target[k] + 1)..Size[k] BY <1>0, <1>4, <2>3
  <2>5. Target' = [Target EXCEPT ![k] = Len(d[k])] BY <1>1, <2>1
  <2> QED BY <1>1, <2>2, <2>3, <2>4, <2>5 DEF Transfer!Extend, Transfer!Absent, Target
<1>5. present \subseteq Files BY TargetFacts
<1> QED BY <1>1, <1>2, <1>3, <1>4, <1>5 DEF RP!VisibleStep, RP!Files, Files

\* The sender says it is done when every file is whole.
LEMMA SenderFinishes ==
  ASSUME TransferInv', TransferInv, UNCHANGED <<present, content>>,
         status' = status \/ status = "busy"
  PROVE  \/ Target' = Target /\ (status = "done")' = (status = "done")
         \/ Transfer!Finish
<1>1. Target' = Target BY DEF Target
<1>2. CASE status' = status BY <1>1, <1>2
<1>3. CASE status' # "done" /\ status = "busy" BY <1>1, <1>3
<1>4. CASE status' = "done"
  <2>1. Ok(Now(0, << >>), told, floor)' BY DEF TransferInv, SystemInv
  <2>2. Files \subseteq told'
    <3>1. PlanOk(Now(0, << >>), told, floor)' BY <2>1 DEF Ok, Base
    <3> QED BY <1>4, <3>1 DEF PlanOk, Now
  <2>3. \A k \in Files : RP!Whole(k)' BY <2>2 DEF TransferInv, RP!ToldInv, RP!ToldIsWhole
  <2>4. \A k \in Files : RP!Whole(k) BY <2>3 DEF RP!Whole
  <2>5. \A k \in Files : Target[k] = Size[k] BY <2>4, TargetFacts
  <2> QED BY <1>1, <1>4, <2>5, TargetFacts DEF Transfer!Finish, Transfer!Whole, Target
<1> QED BY <1>2, <1>3, <1>4

LEMMA StepsRefine ==
  ASSUME TransferInv, TransferInv', [Next]_vars
  PROVE  [Transfer!Next]_(<<Target, status = "done">>)
<1>1. SystemInv /\ RP!Facts /\ RP!Facts' /\ RP!ToldInv' /\ Files = Transfer!Files
  BY TargetFacts DEF TransferInv, SystemInv, RP!Composed
<1>2. CASE ReceiverMoves
  <2>1. RP!VisibleStep BY <1>1, <1>2, RP!StepsAreOrdered, T0 DEF ReceiverMoves
  <2>2. status' = status BY <1>2 DEF ReceiverMoves, senderVars
  <2> QED BY <1>1, <2>1, <2>2, ReaderSees DEF Transfer!Next
<1>3. CASE SenderMoves
  <2>1. UNCHANGED <<present, content>> /\ (status' = status \/ status = "busy")
    BY <1>3 DEF SenderMoves, RP!Idles, RP!disk
  <2> QED BY <2>1, SenderFinishes DEF Transfer!Next
<1> QED BY <1>1, <1>2, <1>3, OneSideMoves

LEMMA InitTransfer ==
  ASSUME Grown = {}
  PROVE  Init => TransferInv /\ Transfer!Init
<1> SUFFICES ASSUME Init PROVE TransferInv /\ Transfer!Init OBVIOUS
<1>1. SystemInv BY InitInv
<1>2. RP!Init BY SameInit DEF Init
<1>3. RP!ToldInv BY <1>2, RP!InitTold, T0
<1>4. TransferInv BY <1>1, <1>3 DEF TransferInv
<1>5. (status = "done") = FALSE BY DEF Init, SenderInit
<1>6. \A k \in Files : Target[k] \in {-1} \cup Nat /\ Target[k] <= Size[k]
  BY <1>4, TargetFacts DEF Target
<1>7. Target \in [Files -> {-1} \cup Nat] BY <1>6 DEF Target
<1>8. Transfer!Init BY <1>4, <1>5, <1>6, <1>7, TargetFacts DEF Transfer!Init, Transfer!Absent, Target
<1> QED BY <1>4, <1>8

\* Sender, lines and receiver together implement OrderedTransfer, for every
\* number and size of files and however messages overtake one another, are sent
\* again or are lost with their connection: entries appear in order, each after
\* whole ones, nothing shrinks, chunk files appear whole, and the sender says it
\* is done (check_all_done) only when every file is whole on the receiver's
\* disk.  CREATE/DATA files come before chunk files: MCSystemEarly.cfg shows what
\* a CREATE does that is faster than the poll of a commit.
THEOREM SystemImplementsTransfer ==
  ASSUME Grown = {}, ChunkFilesLast
  PROVE  Spec => ImplementsOrderedTransfer
<1>1. Init => TransferInv /\ Transfer!Init BY InitTransfer
<1>2. TransferInv /\ [Next]_vars => TransferInv' BY NextTransfer
<1>3. TransferInv /\ TransferInv' /\ [Next]_vars
      => [Transfer!Next]_(<<Target, status = "done">>)
  BY StepsRefine
<1> QED BY <1>1, <1>2, <1>3, PTL DEF Spec, ImplementsOrderedTransfer, Transfer!Spec, Target

\* Under the same conditions the sender is done only when every file is whole at
\* the receiver (append_complete_by_heartbeat, commits and manifests): what
\* MCSystemEarly.cfg refutes when a CREATE/DATA file comes after a chunk file.
THEOREM DoneMeansWhole ==
  ASSUME Grown = {}, ChunkFilesLast
  PROVE  Spec => []CompletedIsWhole
<1>1. Init => TransferInv BY InitTransfer
<1>2. TransferInv /\ [Next]_vars => TransferInv' BY NextTransfer
<1>3. TransferInv => CompletedIsWhole
  <2> SUFFICES ASSUME TransferInv, status = "done", NEW k \in Files PROVE R!Whole(k)
    BY DEF CompletedIsWhole
  <2>1. PlanOk(Now(0, << >>), told, floor) BY DEF TransferInv, SystemInv, Ok, Base
  <2>2. k \in told BY <2>1 DEF PlanOk, Now
  <2>3. RP!Whole(k) BY <2>2 DEF TransferInv, RP!ToldInv, RP!ToldIsWhole
  <2> QED BY <2>3 DEF RP!Whole, R!Whole
<1> QED BY <1>1, <1>2, <1>3, PTL DEF Spec

-----------------------------------------------------------------------------
(* What the sender waits for is in its buffer.  W are the files that count  *)
(* as whole, x is the partial file the receiver was started with (0: none), *)
(* which is resumed with DATA and never created.                            *)

\* What task t of chunk file k waits for, and H holds.
ChunkKept(t, k, H) ==
  /\ t.begun /\ ~t.ready => FileBegin(k) \in H
  /\ \A i \in t.out \ t.acked : Chunk(k, i) \in H
  /\ t.committed => Commit(k) \in H

\* The same for a CREATE/DATA file: it sends one DATA at a time, only while it
\* is at work, and H holds no other DATA of it.
AppendKept(a, k, working, H) ==
  /\ a.created => Create(k) \in H
  /\ a.data => working /\ Data(k, a.next) \in H
  /\ \A m \in H : m.file = k /\ m.kind = "DATA"
                  => a.data /\ m.pos = a.next /\ a.len = DataLen(k, a.next)

FileKept(t, k, working, H) ==
  IF ChunkMode(k) THEN ChunkKept(t, k, H) ELSE AppendKept(t.append, k, working, H)

Working(s, k) == k = s.cur /\ s.applied

NeverCreated(s, x) ==
  x # 0 => /\ x \in Files
           /\ ~ChunkMode(x)
           /\ ~s.task[x].append.needs
           /\ ~s.task[x].append.created
           /\ Create(x) \notin Held(s)

Kept(s, W, x) ==
  /\ NeverCreated(s, x)
  /\ \A k \in Files \ W : FileKept(s.task[k], k, Working(s, k), Held(s))

\* Nothing of this changes.
LEMMA SameKept ==
  ASSUME NEW W, NEW x, NEW s, Kept(s, W, x), NEW n, n.task = s.task, n.cur = s.cur,
         n.applied = s.applied, Held(n) = Held(s)
  PROVE  Kept(n, W, x)
BY DEF Kept, NeverCreated, Working

\* More files are whole.
LEMMA MoreWhole ==
  ASSUME NEW W, NEW U, W \subseteq U, NEW x, NEW s, Kept(s, W, x)
  PROVE  Kept(s, U, x)
BY DEF Kept

\* FileKept is about the messages of its file alone.
LEMMA OwnMessages ==
  ASSUME NEW t, NEW k, NEW g, NEW H, NEW G, FileKept(t, k, g, H),
         \A m \in H \cup G : m.file = k => (m \in H <=> m \in G)
  PROVE  FileKept(t, k, g, G)
<1>1. /\ FileBegin(k).file = k /\ Commit(k).file = k /\ Create(k).file = k
      /\ \A i : Chunk(k, i).file = k /\ Data(k, i).file = k
  BY DEF FileBegin, Commit, Create, Chunk, Data, Msg
<1>2. ASSUME ChunkKept(t, k, H) PROVE ChunkKept(t, k, G) BY <1>1, <1>2 DEF ChunkKept
<1>3. ASSUME AppendKept(t.append, k, g, H) PROVE AppendKept(t.append, k, g, G)
  BY <1>1, <1>3 DEF AppendKept
<1> QED BY <1>2, <1>3 DEF FileKept

\* The current task changes, and messages of its file are added.
LEMMA ChangeKept ==
  ASSUME NEW W, NEW x, NEW s, Kept(s, W, x), NEW n, s.cur \in Files, DOMAIN s.task = Files,
         n.cur = s.cur, n.applied = s.applied, NEW u, n.task = [s.task EXCEPT ![s.cur] = u],
         NEW M, Held(n) = Held(s) \cup M, \A m \in M : m.file = s.cur,
         s.cur \notin W => FileKept(u, s.cur, Working(s, s.cur), Held(n)),
         x = s.cur => ~u.append.needs /\ ~u.append.created /\ Create(x) \notin M
  PROVE  Kept(n, W, x)
<1>1. n.task[s.cur] = u /\ \A j \in Files : j # s.cur => n.task[j] = s.task[j] OBVIOUS
<1>2. NeverCreated(n, x)
  <2>1. Create(x).file = x BY DEF Create, Msg
  <2> QED BY <1>1, <2>1 DEF Kept, NeverCreated
<1>3. ASSUME NEW k \in Files \ W PROVE FileKept(n.task[k], k, Working(n, k), Held(n))
  <2>1. CASE k = s.cur BY <1>1, <2>1 DEF Working
  <2>2. CASE k # s.cur
    <3>1. FileKept(n.task[k], k, Working(n, k), Held(s)) BY <1>1, <2>2 DEF Kept, Working
    <3>2. \A m \in Held(s) \cup Held(n) : m.file = k => (m \in Held(s) <=> m \in Held(n))
      BY <2>2
    <3> QED BY <3>1, <3>2, OwnMessages
  <2> QED BY <2>1, <2>2
<1> QED BY <1>2, <1>3 DEF Kept

\* send_buffered of a message of the current file, which changes its task to u.
LEMMA SendKept ==
  ASSUME NEW T, NEW f, NEW W, NEW x, NEW s, Ok(s, T, f), Active(s), Kept(s, W, x),
         NEW m, m.file = s.cur, NEW u,
         s.cur \notin W => FileKept(u, s.cur, Working(s, s.cur), Held(s) \cup {m}),
         x = s.cur => ~u.append.needs /\ ~u.append.created /\ m # Create(x),
         NEW n, n = [SendBuffered(s, m) EXCEPT !.task[s.cur] = u]
  PROVE  Kept(n, W, x)
<1> DEFINE p == SendBuffered(s, m)
<1>1. /\ DOMAIN p = DOMAIN s /\ p.cur = s.cur /\ p.applied = s.applied /\ p.task = s.task
      /\ p.buffer = [z \in Held(s) \cup {m} |-> IF z = m THEN 0 ELSE s.buffer[z]]
  BY DEF Ok, Base, Shape, SendBuffered
<1>2. n = [p EXCEPT !.task[s.cur] = u] OBVIOUS
<1> HIDE DEF p
<1>3. /\ n.cur = s.cur /\ n.applied = s.applied /\ n.task = [s.task EXCEPT ![s.cur] = u]
      /\ n.buffer = p.buffer
  BY <1>1, <1>2 DEF Ok, Base, Shape
<1>4. Held(n) = Held(s) \cup {m} BY <1>1, <1>3 DEF Held
<1>5. s.cur \in Files /\ DOMAIN s.task = Files BY DEF Active, Ok, Base, TasksOk
<1> DEFINE M == {m}
<1>6. Held(n) = Held(s) \cup M /\ (\A z \in M : z.file = s.cur) /\ (x = s.cur => Create(x) \notin M)
  BY <1>4
<1> HIDE DEF M
<1>7. s.cur \notin W => FileKept(u, s.cur, Working(s, s.cur), Held(n)) BY <1>4
<1> QED BY <1>3, <1>5, <1>6, <1>7, ChangeKept

\* recover_with_manifest1 forgets all of it.
LEMMA RecoverKept ==
  ASSUME NEW T, NEW f, NEW W, NEW x, NEW s, Base(s, T, f), Kept(s, W, x)
  PROVE  Kept(Recover(s), W, x)
<1>1. CASE s.status = "failed" BY <1>1 DEF Recover
<1>2. CASE s.status # "failed" /\ s.recoveries >= MaxRecoveries
  <2>1. Recover(s) = FinalFail(s) BY <1>2 DEF Recover
  <2> DEFINE n == FinalFail(s)
  <2>2. n.task = s.task /\ n.cur = s.cur /\ n.applied = s.applied /\ n.buffer = s.buffer
    BY DEF Base, Shape, FinalFail
  <2> HIDE DEF n
  <2>3. Kept(n, W, x) BY <2>2, SameKept DEF Held
  <2> QED BY <2>1, <2>3 DEF n
<1>3. CASE s.status # "failed" /\ ~(s.recoveries >= MaxRecoveries)
  <2> DEFINE n == Recover(s)
  <2>1. n.task = [k \in Files |-> FreshTask(k)] /\ n.buffer = << >>
    BY <1>3 DEF Base, Shape, Recover, SendManifest1
  <2> HIDE DEF n
  <2>2. Held(n) = {} BY <2>1 DEF Held
  <2>3. NeverCreated(n, x)
    BY <2>1, <2>2 DEF Kept, NeverCreated, FreshTask, FreshAppend
  <2>4. ASSUME NEW k \in Files PROVE FileKept(n.task[k], k, Working(n, k), Held(n))
    BY <2>1, <2>2 DEF FileKept, ChunkKept, AppendKept, FreshTask, FreshAppend
  <2> QED BY <2>3, <2>4 DEF Kept, n
<1> QED BY <1>1, <1>2, <1>3

\* send_append_if_possible.
LEMMA SendAppendKept ==
  ASSUME NEW T, NEW f, NEW W, NEW x, NEW s, Ok(s, T, f), Active(s), Kept(s, W, x)
  PROVE  Kept(SendAppend(s), W, x)
<1> DEFINE k == s.cur
           t == s.task[k]
           a == t.append
<1>1. k \in Files /\ TaskOk(t, k) /\ AppendOk(a) BY DEF Active, Ok, Base, TasksOk, TaskOk
<1>2. CASE t.chunked \/ ~s.applied \/ s.status # "busy" \/ s.credit = 0 BY <1>2 DEF SendAppend
<1>3. CASE ~(t.chunked \/ ~s.applied \/ s.status # "busy" \/ s.credit = 0)
  <2>1. ~ChunkMode(k) /\ Working(s, k) BY <1>1, <1>3 DEF TaskOk, Working
  <2>5. k \notin W => AppendKept(a, k, TRUE, Held(s)) BY <1>1, <2>1 DEF Kept, FileKept
  <2>6. x = k => x # 0 /\ ~a.needs /\ ~a.created BY <1>1 DEF Kept, NeverCreated, Files
  <2>2. CASE a.needs /\ ~a.created
    <3> DEFINE m == Create(k)
               p == SendBuffered(s, m)
               u == [t EXCEPT !.append.created = TRUE]
    <3>1. m.file = k /\ m.kind = "CREATE" BY DEF Create, Msg
    <3>2. SendAppend(s) = [p EXCEPT !.task[k].append.created = TRUE] BY <1>3, <2>2 DEF SendAppend
    <3>3. p.task = s.task BY DEF Ok, Base, Shape, SendBuffered
    <3> HIDE DEF p
    <3>4. SendAppend(s) = [p EXCEPT !.task[k] = u] BY <3>2, <3>3
    <3>5. k \notin W => AppendKept(u.append, k, TRUE, Held(s) \cup {m})
      BY <1>1, <2>5, <3>1 DEF AppendKept, TaskOk, AppendOk
    <3>6. k \notin W => FileKept(u, k, Working(s, k), Held(s) \cup {m})
      BY <2>1, <3>5 DEF FileKept
    <3>7. x = k => ~u.append.needs /\ ~u.append.created /\ m # Create(x) BY <2>2, <2>6
    <3> DEFINE n == SendAppend(s)
    <3>8. n = [SendBuffered(s, m) EXCEPT !.task[s.cur] = u] BY <3>4 DEF p
    <3> HIDE DEF u, m, n
    <3>9. Kept(n, W, x) BY <3>1, <3>6, <3>7, <3>8, SendKept
    <3> QED BY <3>9 DEF n
  <2>3. CASE ~(a.needs /\ ~a.created) /\ (a.needs => a.ready) /\ ~a.data /\ a.next < Size[k]
    <3> DEFINE m == Data(k, a.next)
               d == DataLen(k, a.next)
               p == SendBuffered(s, m)
               u == [t EXCEPT !.append.data = TRUE, !.append.len = d]
    <3>1. m.file = k /\ m.kind = "DATA" /\ m.pos = a.next /\ Create(x).kind = "CREATE"
      BY DEF Data, Create, Msg
    <3>2. SendAppend(s) = [p EXCEPT !.task[k].append.data = TRUE, !.task[k].append.len = d]
      BY <1>3, <2>3 DEF SendAppend
    <3>3. p.task = s.task /\ DOMAIN p = DOMAIN s BY DEF Ok, Base, Shape, SendBuffered
    <3>8. u.append = [a EXCEPT !.data = TRUE, !.len = d] /\ DOMAIN u = DOMAIN t
      BY <1>1 DEF TaskOk
    <3> HIDE DEF p, d
    <3>4. SendAppend(s) = [p EXCEPT !.task[k] = u]
      <4>1. k \in DOMAIN p.task /\ "task" \in DOMAIN p BY <1>1, <3>3 DEF Ok, Base, TasksOk, Shape
      <4> DEFINE q == [p EXCEPT !.task[k].append.data = TRUE]
      <4>2. q.task[k] = [t EXCEPT !.append.data = TRUE] /\ DOMAIN q = DOMAIN p
        BY <3>3, <4>1
      <4>3. SendAppend(s) = [q EXCEPT !.task[k].append.len = d] BY <3>2
      <4>4. SendAppend(s) = [q EXCEPT !.task[k] = u] BY <4>2, <4>3
      <4>5. [q EXCEPT !.task[k] = u] = [p EXCEPT !.task[k] = u] BY <4>1
      <4> QED BY <4>4, <4>5
    <3> HIDE DEF u
    <3>5. k \notin W => AppendKept(u.append, k, TRUE, Held(s) \cup {m})
      <4>1. u.append.data /\ u.append.next = a.next /\ u.append.len = d /\ u.append.created = a.created
        BY <1>1, <3>8 DEF AppendOk
      <4> HIDE DEF m, k, a
      <4> QED BY <2>3, <2>5, <3>1, <4>1 DEF AppendKept, m, d
    <3>6. k \notin W => FileKept(u, k, Working(s, k), Held(s) \cup {m})
      BY <2>1, <3>5 DEF FileKept
    <3>7. x = k => ~u.append.needs /\ ~u.append.created /\ m # Create(x)
      BY <1>1, <2>6, <3>1, <3>8 DEF AppendOk
    <3> HIDE DEF m
    <3> QED BY <3>1, <3>4, <3>6, <3>7, SendKept DEF p
  <2>4. CASE ~(a.needs /\ ~a.created) /\ ~((a.needs => a.ready) /\ ~a.data /\ a.next < Size[k])
    BY <2>4 DEF SendAppend
  <2> QED BY <2>2, <2>3, <2>4
<1> QED BY <1>2, <1>3

\* Another state for the task of the current file.
LEMMA TaskKept ==
  ASSUME NEW T, NEW f, NEW W, NEW x, NEW s, Base(s, T, f), Active(s), Kept(s, W, x), NEW u,
         s.cur \notin W => FileKept(u, s.cur, Working(s, s.cur), Held(s)),
         x = s.cur => ~u.append.needs /\ ~u.append.created
  PROVE  Kept([s EXCEPT !.task[s.cur] = u], W, x)
<1> DEFINE n == [s EXCEPT !.task[s.cur] = u]
<1>1. /\ n.cur = s.cur /\ n.applied = s.applied /\ n.task = [s.task EXCEPT ![s.cur] = u]
      /\ n.buffer = s.buffer
  BY DEF Base, Shape
<1> HIDE DEF n
<1> DEFINE M == {}
<1>2. /\ Held(n) = Held(s) /\ Held(n) = Held(s) \cup M
      /\ \A m \in M : m.file = s.cur
      /\ Create(x) \notin M
  BY <1>1 DEF Held
<1>3. s.cur \in Files /\ DOMAIN s.task = Files BY DEF Active, Base, TasksOk
<1>4. s.cur \notin W => FileKept(u, s.cur, Working(s, s.cur), Held(n)) BY <1>2
<1> HIDE DEF M
<1>5. Kept(n, W, x) BY <1>1, <1>2, <1>3, <1>4, ChangeKept
<1> QED BY <1>5 DEF n

\* final_fail.
LEMMA FailKept ==
  ASSUME NEW T, NEW f, NEW W, NEW x, NEW s, Base(s, T, f), Kept(s, W, x)
  PROVE  Kept(FinalFail(s), W, x)
<1> DEFINE n == FinalFail(s)
<1>2. n.task = s.task /\ n.cur = s.cur /\ n.applied = s.applied /\ n.buffer = s.buffer
  BY DEF Base, Shape, FinalFail
<1> HIDE DEF n
<1>3. Kept(n, W, x) BY <1>2, SameKept DEF Held
<1> QED BY <1>3 DEF n

\* apply_append_plan: the partial file is not created.
LEMMA AppendPlanKept ==
  ASSUME NEW T, NEW f, NEW W, NEW x, NEW s, Base(s, T, f), Active(s), ~ChunkMode(s.cur),
         Kept(s, W, x), NEW action, NEW offset \in Nat, x = s.cur => action # "CREATE_MISSING",
         s.cur \notin W => ~s.task[s.cur].append.data
  PROVE  Kept(ApplyAppendPlan(s, action, offset), W, x)
<1> DEFINE k == s.cur
           t == s.task[k]
<1>1. k \in Files /\ TaskOk(t, k) /\ AppendOk(t.append) BY DEF Active, Base, TasksOk, TaskOk
<1>2. CASE Inflight(t.append) \/ s.status = "done" BY <1>2 DEF ApplyAppendPlan
<1>3. CASE ~(Inflight(t.append) \/ s.status = "done") /\ offset > Size[k]
  BY <1>3, FailKept DEF ApplyAppendPlan
<1>4. CASE ~(Inflight(t.append) \/ s.status = "done") /\ ~(offset > Size[k])
  <2> DEFINE u == [t EXCEPT !.append = StartAppend(action, offset)]
             n == [s EXCEPT !.task[k] = u]
  <2>1. ApplyAppendPlan(s, action, offset) = SendAppend(n) BY <1>4 DEF ApplyAppendPlan
  <2>2. TaskOk(u, k) /\ u.append.on BY <1>1 DEF TaskOk, AppendOk, StartAppend
  <2>5. k \notin W => FileKept(u, k, Working(s, k), Held(s))
    <3>1. k \notin W => AppendKept(t.append, k, Working(s, k), Held(s))
      BY <1>1 DEF Kept, FileKept
    <3>2. ~u.append.created /\ ~u.append.data BY <1>1 DEF StartAppend, TaskOk
    <3> HIDE DEF u
    <3>3. k \notin W => AppendKept(u.append, k, Working(s, k), Held(s))
      BY <3>1, <3>2 DEF AppendKept
    <3> QED BY <3>3 DEF FileKept
  <2>6. x = k => ~u.append.needs /\ ~u.append.created BY <1>1 DEF StartAppend, TaskOk
  <2> HIDE DEF u
  <2>3. Base(n, T, f) /\ n.cur = k /\ n.task[k] = u BY <1>1, <2>2, TaskChange
  <2>7. Kept(n, W, x) BY <2>5, <2>6, TaskKept
  <2> HIDE DEF n
  <2>4. Ok(n, T, f) /\ Active(n) BY <1>1, <2>2, <2>3 DEF Ok, Going, Active
  <2> QED BY <2>1, <2>4, <2>7, SendAppendKept
<1> QED BY <1>2, <1>3, <1>4

\* The partial file is not a chunk file.
LEMMA ChunkNotPartial ==
  ASSUME NEW W, NEW x, NEW s, Kept(s, W, x), NEW k \in Files, ChunkMode(k)
  PROVE  x # k
BY DEF Kept, NeverCreated, Files

\* send_file_begin.
LEMMA SendFileBeginKept ==
  ASSUME NEW T, NEW f, NEW W, NEW x, NEW s, Ok(s, T, f), Active(s), Kept(s, W, x)
  PROVE  Kept(SendFileBegin(s), W, x)
<1> DEFINE k == s.cur
           t == s.task[k]
           m == FileBegin(k)
           p == SendBuffered(s, m)
           u == [t EXCEPT !.begun = TRUE]
<1>1. k \in Files /\ TaskOk(t, k) BY DEF Active, Ok, Base, TasksOk
<1>2. CASE ~t.chunked \/ t.begun \/ ~s.applied \/ s.credit = 0 BY <1>2 DEF SendFileBegin
<1>3. CASE ~(~t.chunked \/ t.begun \/ ~s.applied \/ s.credit = 0)
  <2>1. ChunkMode(k) BY <1>1, <1>3 DEF TaskOk
  <2>2. m.file = k BY DEF FileBegin, Msg
  <2>4. SendFileBegin(s) = [p EXCEPT !.task[k].begun = TRUE] BY <1>3 DEF SendFileBegin
  <2>5. p.task = s.task BY DEF Ok, Base, Shape, SendBuffered
  <2>7. k \notin W => FileKept(u, k, Working(s, k), Held(s) \cup {m})
    <3>1. k \notin W => ChunkKept(t, k, Held(s)) BY <1>1, <2>1 DEF Kept, FileKept
    <3>2. /\ u.ready = t.ready /\ u.out = t.out /\ u.acked = t.acked
          /\ u.committed = t.committed
      BY <1>1 DEF TaskOk
    <3> HIDE DEF u
    <3>3. k \notin W => ChunkKept(u, k, Held(s) \cup {m}) BY <3>1, <3>2 DEF ChunkKept
    <3> QED BY <2>1, <3>3 DEF FileKept
  <2>8. x = k => ~u.append.needs /\ ~u.append.created /\ m # Create(x)
    BY <1>1, <2>1, ChunkNotPartial
  <2> HIDE DEF p, m
  <2> DEFINE n == SendFileBegin(s)
  <2>6. n = [SendBuffered(s, m) EXCEPT !.task[s.cur] = u] BY <2>4, <2>5 DEF p
  <2> HIDE DEF u, n
  <2>9. Kept(n, W, x) BY <2>2, <2>6, <2>7, <2>8, SendKept
  <2> QED BY <2>9 DEF n
<1> QED BY <1>2, <1>3

\* send_commit.
LEMMA SendCommitKept ==
  ASSUME NEW T, NEW f, NEW W, NEW x, NEW s, Ok(s, T, f), Active(s), ChunkMode(s.cur),
         Kept(s, W, x)
  PROVE  Kept(SendCommit(s), W, x)
<1> DEFINE k == s.cur
           t == s.task[k]
           m == Commit(k)
           p == SendBuffered(s, m)
           u == [t EXCEPT !.committed = TRUE]
<1>1. k \in Files /\ TaskOk(t, k) BY DEF Active, Ok, Base, TasksOk
<1>2. CASE t.committed \/ s.credit = 0 BY <1>2 DEF SendCommit
<1>3. CASE ~(t.committed \/ s.credit = 0)
  <2>2. m.file = k BY DEF Commit, Msg
  <2>4. SendCommit(s) = [p EXCEPT !.task[k].committed = TRUE] BY <1>3 DEF SendCommit
  <2>5. p.task = s.task BY DEF Ok, Base, Shape, SendBuffered
  <2>7. k \notin W => FileKept(u, k, Working(s, k), Held(s) \cup {m})
    <3>1. k \notin W => ChunkKept(t, k, Held(s)) BY <1>1 DEF Kept, FileKept
    <3>2. /\ u.ready = t.ready /\ u.out = t.out /\ u.acked = t.acked /\ u.begun = t.begun
      BY <1>1 DEF TaskOk
    <3> HIDE DEF u
    <3>3. k \notin W => ChunkKept(u, k, Held(s) \cup {m}) BY <3>1, <3>2 DEF ChunkKept
    <3> QED BY <3>3 DEF FileKept
  <2>8. x = k => ~u.append.needs /\ ~u.append.created /\ m # Create(x)
    BY <1>1, ChunkNotPartial
  <2> HIDE DEF p, m
  <2> DEFINE n == SendCommit(s)
  <2>6. n = [SendBuffered(s, m) EXCEPT !.task[s.cur] = u] BY <2>4, <2>5 DEF p
  <2> HIDE DEF u, n
  <2>9. Kept(n, W, x) BY <2>2, <2>6, <2>7, <2>8, SendKept
  <2> QED BY <2>9 DEF n
<1> QED BY <1>2, <1>3

\* schedule_chunk_work.
LEMMA ChunkWorkKept ==
  ASSUME NEW T, NEW f, NEW W, NEW x, NEW s, Ok(s, T, f), Active(s), s.applied,
         ChunkMode(s.cur), Kept(s, W, x)
  PROVE  Kept(ScheduleChunkWork(s), W, x)
<1> DEFINE k     == s.cur
           t     == s.task[k]
           todo  == ChunksToSend(s)
           tired == {j \in 1..Len(todo) : t.attempts[todo[j]] > MaxRetries}
           S     == tired \cup {s.credit + 1, Len(todo) + 1}
           stuck == Least(S)
           ms    == [j \in 1..(stuck - 1) |-> Chunk(k, todo[j])]
           is    == {todo[j] : j \in 1..(stuck - 1)}
           b     == [z \in Held(s) \cup Range(ms) |-> IF z \in Range(ms) THEN 0 ELSE s.buffer[z]]
           sent  == [s EXCEPT !.buffer = b, !.sent = @ \o ms, !.credit = @ - Len(ms)]
           after == [s EXCEPT !.buffer = b, !.sent = @ \o ms, !.credit = @ - Len(ms),
                              !.task[k] = MarkChunksSent(@, is)]
<1>1. k \in Files /\ TaskOk(t, k) /\ s.credit \in Int /\ DOMAIN s.task = Files
  BY DEF Active, Ok, Base, TasksOk, QueuesOk
<1>2. todo \in Seq(ChunksOf(k)) BY <1>1, ChunksToSendType
<1>3. Reached(k, T, f) BY CurrentReached DEF Ok
<1>4. stuck \in Int /\ stuck <= Len(todo) + 1
  <2> DEFINE low == IF s.credit + 1 <= 1 THEN s.credit + 1 ELSE 1
  <2>1. S \in SUBSET Int /\ S # {} /\ low \in Int /\ Len(todo) + 1 \in S
    BY <1>1, <1>2
  <2>2. \A i \in S : low <= i BY <1>1, <1>2
  <2> HIDE DEF S, low
  <2> QED BY <2>1, <2>2, LeastInt
<1>5. ScheduleChunkWork(s) =
        IF ~t.ready THEN SendFileBegin(s)
        ELSE IF stuck \in tired THEN Recover(after)
        ELSE IF stuck <= Len(todo) THEN after
        ELSE IF t.acked = ChunksOf(k) THEN SendCommit(after)
        ELSE after
  BY DEF ScheduleChunkWork
<1> HIDE DEF todo, S, stuck
<1>6. /\ ms \in Seq(Orderly(T, f)) /\ Len(ms) \in Nat
      /\ Range(ms) = {Chunk(k, i) : i \in is}
  <2> DEFINE n == IF stuck - 1 >= 0 THEN stuck - 1 ELSE 0
  <2>1. n \in Nat /\ 1..n = 1..(stuck - 1) BY <1>4
  <2>2. \A j \in 1..(stuck - 1) : Chunk(k, todo[j]) \in Orderly(T, f)
    <3> SUFFICES ASSUME NEW j \in 1..(stuck - 1)
                 PROVE  Chunk(k, todo[j]) \in Orderly(T, f)
      OBVIOUS
    <3>0. j \in 1..Len(todo) BY <1>2, <1>4
    <3>1. todo[j] \in ChunksOf(k) BY <1>2, <3>0
    <3> QED BY <1>1, <1>3, <3>1, ChunkOrderly
  <2> HIDE DEF n
  <2>3. ms = [j \in 1..n |-> Chunk(k, todo[j])] BY <2>1
  <2>4. ms \in Seq(Orderly(T, f)) /\ Len(ms) = n
    <3>1. ms = [j \in 1..n |-> ms[j]] /\ \A j \in 1..n : ms[j] \in Orderly(T, f)
      BY <2>1, <2>2
    <3> HIDE DEF ms
    <3> QED BY <2>1, <3>1, SeqFrom
  <2>5. Range(ms) = {Chunk(k, todo[j]) : j \in 1..n} BY <2>3, <2>4 DEF Range
  <2>6. {Chunk(k, todo[j]) : j \in 1..n} = {Chunk(k, i) : i \in is} BY <2>1
  <2> QED BY <2>1, <2>4, <2>5, <2>6
<1> HIDE DEF ms, is
<1>15. \A m \in Range(ms) : m.file = k /\ m.kind = "CHUNK" BY <1>6 DEF Chunk, Msg
<1>7. DOMAIN b = Held(s) \cup Range(ms) OBVIOUS
<1> HIDE DEF b
<1>8. Ok(sent, T, f) /\ sent.task = s.task /\ sent.cur = k /\ sent.applied = s.applied
  <2>1. /\ DOMAIN sent = DOMAIN s /\ sent.cur = s.cur /\ sent.applied = s.applied
        /\ sent.complete = s.complete /\ sent.task = s.task /\ sent.status = s.status
        /\ sent.late = s.late /\ sent.resend = s.resend /\ sent.buffer = b
        /\ sent.sent = s.sent \o ms /\ sent.credit = s.credit - Len(ms)
    BY DEF Ok, Base, Shape
  <2> HIDE DEF sent
  <2>2. sent.credit \in Int /\ sent.resend \in Seq(Keys)
    BY <1>1, <1>6, <2>1 DEF Ok, Base, QueuesOk
  <2> HIDE DEF k
  <2> QED BY <1>6, <1>7, <1>15, <2>1, <2>2, SendMany DEF k
<1> DEFINE u == MarkChunksSent(t, is)
<1>9. Ok(after, T, f) /\ after.cur = k /\ after.applied = s.applied
  <2>1. after = [sent EXCEPT !.task[k] = u] BY DEF Ok, Base, Shape
  <2>2. TaskOk(u, k) /\ u.append = t.append BY <1>1, MarkChunksOk
  <2> HIDE DEF u, sent, after
  <2>3. Base(sent, T, f) /\ Going(sent) /\ sent.task[k].append = t.append BY <1>8 DEF Ok
  <2> HIDE DEF k, t
  <2>4. sent.task[k].append.on => u.append.on BY <2>2, <2>3
  <2> DEFINE n == [sent EXCEPT !.task[k] = u]
  <2>5. Base(n, T, f) /\ (Going(sent) => Ok(n, T, f)) /\ n.cur = sent.cur /\ n.applied = sent.applied
    BY <1>1, <2>2, <2>3, <2>4, TaskChange
  <2> HIDE DEF n
  <2> QED BY <1>8, <2>1, <2>3, <2>5 DEF n
<1>13. Kept(after, W, x)
  <2>1. after.task = [s.task EXCEPT ![k] = u] /\ after.buffer = b BY DEF Ok, Base, Shape
  <2> HIDE DEF after
  <2>2. Held(after) = Held(s) \cup Range(ms) BY <1>7, <2>1 DEF Held
  <2>3. k \notin W => FileKept(u, k, Working(s, k), Held(after))
    <3>1. k \notin W => ChunkKept(t, k, Held(s)) BY <1>1 DEF Kept, FileKept
    <3>2. /\ u.ready = t.ready /\ u.acked = t.acked /\ u.begun = t.begun
          /\ u.committed = t.committed /\ u.out = t.out \cup is
      BY <1>1 DEF TaskOk, MarkChunksSent
    <3> HIDE DEF u
    <3>3. \A i \in is : Chunk(k, i) \in Held(after) BY <1>6, <2>2
    <3>4. k \notin W => ChunkKept(u, k, Held(after)) BY <2>2, <3>1, <3>2, <3>3 DEF ChunkKept
    <3> QED BY <3>4 DEF FileKept
  <2>4. x # k BY <1>1, ChunkNotPartial
  <2>5. x = k => ~u.append.needs /\ ~u.append.created /\ Create(x) \notin Range(ms) BY <2>4
  <2> HIDE DEF u
  <2> QED BY <1>1, <1>9, <1>15, <2>1, <2>2, <2>3, <2>5, ChangeKept
<1> HIDE DEF after
<1>10. Kept(SendFileBegin(s), W, x) BY SendFileBeginKept
<1>11. Kept(Recover(after), W, x) BY <1>9, <1>13, RecoverKept DEF Ok
<1>12. Kept(SendCommit(after), W, x) BY <1>1, <1>9, <1>13, SendCommitKept DEF Active
<1> QED BY <1>5, <1>10, <1>11, <1>12, <1>13

\* mark_task_retransmitted: what is sent again is what the task waits for.
LEMMA MarkRetransmittedKept ==
  ASSUME NEW T, NEW f, NEW W, NEW x, NEW s, Ok(s, T, f), Kept(s, W, x), NEW ms,
         Len(ms) \in Nat, Range(ms) \subseteq Held(s)
  PROVE  Kept(MarkRetransmitted(s, ms), W, x)
<1> DEFINE k    == s.cur
           t    == s.task[k]
           a    == t.append
           mine == {m \in Range(ms) : m.file = k}
           D    == {m \in mine : m.kind = "DATA"}
           data == Filter(ms, D)
           n    == MarkRetransmitted(s, ms)
<1>1. CASE s.complete \/ ~Active(s) BY <1>1 DEF MarkRetransmitted
<1>2. CASE ~(s.complete \/ ~Active(s)) /\ t.chunked
  <2> DEFINE is == {i \in ChunksOf(k) : Chunk(k, i) \in mine}
             u == MarkChunksSent(t, is)
             v == [u EXCEPT !.begun = @ \/ FileBegin(k) \in mine,
                            !.committed = @ \/ Commit(k) \in mine]
  <2>1. k \in Files /\ TaskOk(t, k) /\ ChunkMode(k) BY <1>2 DEF Active, Ok, Base, TasksOk, TaskOk
  <2>2. n = [s EXCEPT !.task[k] = v] BY <1>2 DEF MarkRetransmitted
  <2>3. k \notin W => FileKept(v, k, Working(s, k), Held(s))
    <3>1. k \notin W => ChunkKept(t, k, Held(s)) BY <2>1 DEF Kept, FileKept
    <3>2. /\ v.ready = t.ready /\ v.acked = t.acked /\ v.begun = (t.begun \/ FileBegin(k) \in mine)
          /\ v.committed = (t.committed \/ Commit(k) \in mine) /\ v.out = t.out \cup is
      BY <2>1 DEF TaskOk, MarkChunksSent
    <3> HIDE DEF v
    <3>4. k \notin W => ChunkKept(v, k, Held(s)) BY <3>1, <3>2 DEF ChunkKept
    <3> QED BY <2>1, <3>4 DEF FileKept
  <2>4. x = k => ~v.append.needs /\ ~v.append.created BY <2>1, ChunkNotPartial
  <2> HIDE DEF v, n
  <2>5. Base(s, T, f) /\ Active(s) BY <1>2 DEF Ok
  <2>6. Kept([s EXCEPT !.task[s.cur] = v], W, x) BY <2>3, <2>4, <2>5, TaskKept
  <2> QED BY <2>2, <2>6 DEF n
<1>3. CASE ~(s.complete \/ ~Active(s)) /\ ~t.chunked
  <2> DEFINE len == IF data = << >> THEN a.len ELSE DataLen(k, data[Len(data)].pos)
             b   == [a EXCEPT !.created = @ \/ Create(k) \in mine,
                              !.data = @ \/ data # << >>,
                              !.len = len]
             v   == [t EXCEPT !.append = b]
  <2>1. k \in Files /\ TaskOk(t, k) /\ AppendOk(a) /\ ~ChunkMode(k)
    BY <1>3 DEF Active, Ok, Base, TasksOk, TaskOk
  <2>2. n = [s EXCEPT !.task[k] = v] BY <1>3 DEF MarkRetransmitted
  <2>3. data \in Seq(D)
    <3> HIDE DEF D
    <3> QED BY FilterIn
  <2>4. D \subseteq {m \in Held(s) : m.file = k /\ m.kind = "DATA"} OBVIOUS
  <2>6. data # << >> => data[Len(data)] \in D
    <3> HIDE DEF D, data
    <3> QED BY <2>3
  <2>5. k \notin W => AppendKept(a, k, Working(s, k), Held(s)) BY <2>1 DEF Kept, FileKept
  <2>7. k \notin W /\ data # << >> => a.data /\ len = DataLen(k, a.next) /\ a.len = len
    <3> HIDE DEF D, data, k, a
    <3> QED BY <2>4, <2>5, <2>6 DEF AppendKept
  <2>8. /\ b.created = (a.created \/ Create(k) \in mine) /\ b.data = (a.data \/ data # << >>)
        /\ b.len = len /\ b.next = a.next /\ b.needs = a.needs
    BY <2>1 DEF AppendOk
  <2>9. len = a.len \/ data # << >> OBVIOUS
  <2> HIDE DEF b, len, data
  <2>10. v.append = b BY <2>1 DEF TaskOk
  <2>11. k \notin W => AppendKept(b, k, Working(s, k), Held(s))
    <3> HIDE DEF a
    <3>1. ASSUME k \notin W PROVE (Create(k) \in mine => Create(k) \in Held(s))
      OBVIOUS
    <3>2. ASSUME k \notin W PROVE b.data <=> a.data BY <2>7, <2>8, <3>2
    <3>3. ASSUME k \notin W PROVE b.len = a.len BY <2>7, <2>8, <2>9, <3>3
    <3>4. (b.created => a.created \/ Create(k) \in mine) /\ b.next = a.next BY <2>8
    <3> HIDE DEF k, mine
    <3>5. SUFFICES ASSUME k \notin W PROVE AppendKept(b, k, Working(s, k), Held(s)) OBVIOUS
    <3>6. AppendKept(a, k, Working(s, k), Held(s)) BY <2>5, <3>5
    <3>7. (b.data <=> a.data) /\ b.len = a.len /\ (b.created => Create(k) \in Held(s))
      BY <3>1, <3>2, <3>3, <3>4, <3>5, <3>6 DEF AppendKept
    <3> QED BY <3>4, <3>6, <3>7 DEF AppendKept
  <2>12. k \notin W => FileKept(v, k, Working(s, k), Held(s)) BY <2>1, <2>10, <2>11 DEF FileKept
  <2>13. x = k => ~v.append.needs /\ ~v.append.created
    <3>1. x = k => ~a.needs /\ ~a.created /\ Create(k) \notin mine
      BY <2>1 DEF Kept, NeverCreated, Files
    <3>2. v.append.needs = a.needs /\ v.append.created = (a.created \/ Create(k) \in mine)
      BY <2>8, <2>10
    <3> HIDE DEF v, a, mine, k
    <3> QED BY <3>1, <3>2
  <2> HIDE DEF v, n
  <2>14. Base(s, T, f) /\ Active(s) BY <1>3 DEF Ok
  <2>15. Kept([s EXCEPT !.task[s.cur] = v], W, x) BY <2>12, <2>13, <2>14, TaskKept
  <2> QED BY <2>2, <2>15 DEF n
<1> QED BY <1>1, <1>2, <1>3

\* flush_retransmits.
LEMMA FlushRetransmitsKept ==
  ASSUME NEW T, NEW f, NEW W, NEW x, NEW s, Ok(s, T, f), Kept(s, W, x)
  PROVE  Kept(FlushRetransmits(s), W, x)
<1> DEFINE stuck == Stuck(s)
           ms    == Filter(SubSeq(s.resend, 1, stuck - 1), Held(s))
           b     == [m \in Held(s) |-> IF m \in Range(ms) THEN s.buffer[m] + 1 ELSE s.buffer[m]]
           n     == [s EXCEPT !.resend = SubSeq(@, stuck, Len(@)), !.buffer = b,
                              !.sent = @ \o ms, !.credit = @ - Len(ms)]
           after == MarkRetransmitted(n, ms)
<1>1. s.resend \in Seq(Keys) /\ s.credit \in Int BY DEF Ok, Base, QueuesOk
<1>2. stuck \in 1..(Len(s.resend) + 1) BY StuckType
<1>3. FlushRetransmits(s) = IF stuck <= Len(s.resend) /\ s.buffer[s.resend[stuck]] >= MaxRetries
                            THEN Recover(after) ELSE after
  BY DEF FlushRetransmits
<1> HIDE DEF stuck
<1>4. SubSeq(s.resend, 1, stuck - 1) \in Seq(Keys) /\ SubSeq(s.resend, stuck, Len(s.resend)) \in Seq(Keys)
  BY <1>1, <1>2
<1>5. ms \in Seq(Held(s))
  <2> DEFINE q == SubSeq(s.resend, 1, stuck - 1)
  <2>1. Len(q) \in Nat BY <1>4
  <2> HIDE DEF q
  <2>2. Filter(q, Held(s)) \in Seq(Held(s)) BY <2>1, FilterIn
  <2> QED BY <2>2 DEF q
<1> HIDE DEF ms
<1>6. /\ Range(ms) \subseteq Held(s)
      /\ Len(ms) \in Nat
      /\ ms \in Seq(Orderly(T, f))
      /\ \A m \in Range(ms) : m.kind \in {"CREATE", "DATA"} => s.task[m.file].append.on
  <2>1. Range(ms) \subseteq Held(s) /\ Len(ms) \in Nat BY <1>5 DEF Range
  <2>2. Held(s) \subseteq Orderly(T, f) BY DEF Ok, Base, BufferOk
  <2>3. ms \in Seq(Orderly(T, f)) BY <1>5, <2>2, SeqMono
  <2> QED BY <2>1, <2>3 DEF Ok, Base, BufferOk
<1>7. DOMAIN b = Held(s) /\ DOMAIN b = Held(s) \cup Range(ms) BY <1>6
<1> HIDE DEF b
<1>8. /\ DOMAIN n = DOMAIN s /\ n.cur = s.cur /\ n.applied = s.applied
      /\ n.complete = s.complete /\ n.task = s.task /\ n.status = s.status
      /\ n.late = s.late /\ n.resend = SubSeq(s.resend, stuck, Len(s.resend)) /\ n.buffer = b
      /\ n.sent = s.sent \o ms /\ n.credit = s.credit - Len(ms)
  BY DEF Ok, Base, Shape
<1> HIDE DEF n
<1>9. n.credit \in Int /\ n.resend \in Seq(Keys) BY <1>1, <1>4, <1>6, <1>8
<1>10. Ok(n, T, f) BY <1>6, <1>7, <1>8, <1>9, SendMany
<1>13. Held(n) = Held(s) BY <1>7, <1>8 DEF Held
<1>14. Kept(n, W, x) BY <1>8, <1>13, SameKept
<1>11. Ok(after, T, f) BY <1>6, <1>8, <1>10, MarkRetransmittedOk
<1>15. Kept(after, W, x) BY <1>6, <1>10, <1>13, <1>14, MarkRetransmittedKept
<1> HIDE DEF after
<1>12. Kept(Recover(after), W, x) BY <1>11, <1>15, RecoverKept DEF Ok
<1> QED BY <1>3, <1>12, <1>15

\* Completing the stream.
LEMMA CompleteKept ==
  ASSUME NEW T, NEW f, NEW W, NEW x, NEW s, Base(s, T, f), Kept(s, W, x)
  PROVE  Kept([s EXCEPT !.complete = TRUE], W, x)
<1> DEFINE n == [s EXCEPT !.complete = TRUE]
<1>2. n.task = s.task /\ n.cur = s.cur /\ n.applied = s.applied /\ n.buffer = s.buffer
  BY DEF Base, Shape
<1> HIDE DEF n
<1>3. Kept(n, W, x) BY <1>2, SameKept DEF Held
<1> QED BY <1>3 DEF n

LEMMA CheckAllDoneKept ==
  ASSUME NEW T, NEW f, NEW W, NEW x, NEW s, Base(s, T, f), Kept(s, W, x)
  PROVE  Kept(CheckAllDone(s), W, x)
<1> DEFINE n == CheckAllDone(s)
<1>2. n.task = s.task /\ n.cur = s.cur /\ n.applied = s.applied /\ n.buffer = s.buffer
  BY DEF Base, Shape, CheckAllDone
<1> HIDE DEF n
<1>3. Kept(n, W, x) BY <1>2, SameKept DEF Held
<1> QED BY <1>3 DEF n

\* enqueue_retransmit and send_manifest1 leave tasks and buffer alone.
LEMMA EnqueueKept ==
  ASSUME NEW T, NEW f, NEW W, NEW x, NEW s, Base(s, T, f), Kept(s, W, x), NEW ms
  PROVE  Kept(Enqueue(s, ms), W, x) /\ Held(Enqueue(s, ms)) = Held(s)
<1> DEFINE n == Enqueue(s, ms)
           q == Filter(ms, Held(s) \ Range(s.resend))
<1>0. n = [s EXCEPT !.resend = s.resend \o q] BY DEF Enqueue
<1> HIDE DEF n, q
<1>2. n.task = s.task /\ n.cur = s.cur /\ n.applied = s.applied /\ n.buffer = s.buffer
  BY <1>0 DEF Base, Shape
<1>3. Held(n) = Held(s) BY <1>2 DEF Held
<1>4. Kept(n, W, x) BY <1>2, <1>3, SameKept
<1> QED BY <1>3, <1>4 DEF n

LEMMA SendManifest1Kept ==
  ASSUME NEW T, NEW f, NEW W, NEW x, NEW s, Base(s, T, f), Kept(s, W, x)
  PROVE  Kept(SendManifest1(s), W, x)
<1> DEFINE n == SendManifest1(s)
<1>2. n.task = s.task /\ n.cur = s.cur /\ n.applied = s.applied /\ n.buffer = s.buffer
  BY DEF Base, Shape, SendManifest1
<1> HIDE DEF n
<1>3. Kept(n, W, x) BY <1>2, SameKept DEF Held
<1> QED BY <1>3 DEF n

\* schedule_work.
LEMMA ScheduleStreamKept ==
  ASSUME NEW T, NEW f, NEW W, NEW x, NEW s, Ok(s, T, f), Kept(s, W, x)
  PROVE  Kept(ScheduleStream(s), W, x)
<1> DEFINE n == IF ~s.applied \/ s.complete THEN s
                ELSE IF ~Active(s) THEN [s EXCEPT !.complete = TRUE]
                ELSE IF s.task[s.cur].chunked THEN ScheduleChunkWork(s)
                ELSE SendAppend(s)
<1>1. Ok(n, T, f) /\ Kept(n, W, x)
  <2>1. CASE ~s.applied \/ s.complete BY <2>1
  <2>2. CASE ~(~s.applied \/ s.complete) /\ ~Active(s)
    BY <2>2, CompleteOk, CompleteKept DEF Ok
  <2>3. CASE ~(~s.applied \/ s.complete) /\ Active(s) /\ s.task[s.cur].chunked
    <3>1. ChunkMode(s.cur) BY <2>3 DEF Active, Ok, Base, TasksOk, TaskOk
    <3> QED BY <2>3, <3>1, ChunkWorkOk, ChunkWorkKept
  <2>4. CASE ~(~s.applied \/ s.complete) /\ Active(s) /\ ~s.task[s.cur].chunked
    BY <2>4, SendAppendOk, SendAppendKept
  <2> QED BY <2>1, <2>2, <2>3, <2>4
<1>2. ScheduleStream(s) = CheckAllDone(n) BY DEF ScheduleStream
<1> HIDE DEF n
<1> QED BY <1>1, <1>2, CheckAllDoneKept DEF Ok

LEMMA ScheduleWorkKept ==
  ASSUME NEW T, NEW f, NEW W, NEW x, NEW s, Ok(s, T, f), Kept(s, W, x)
  PROVE  Kept(ScheduleWork(s), W, x)
<1> DEFINE q == Enqueue(s, s.late)
<1>1. Len(s.late) \in Nat BY DEF Ok, Base, QueuesOk
<1>2. Ok(q, T, f) /\ Kept(q, W, x) BY <1>1, EnqueueOk, EnqueueKept DEF Ok
<1>3. ScheduleWork(s) \in {s, Recover(s), FlushRetransmits(q), ScheduleStream(FlushRetransmits(q))}
  BY DEF ScheduleWork
<1> HIDE DEF q
<1>4. Ok(FlushRetransmits(q), T, f) /\ Kept(FlushRetransmits(q), W, x)
  BY <1>2, FlushRetransmitsOk, FlushRetransmitsKept
<1>5. Kept(Recover(s), W, x) BY RecoverKept DEF Ok
<1>6. Kept(ScheduleStream(FlushRetransmits(q)), W, x) BY <1>4, ScheduleStreamKept
<1> QED BY <1>3, <1>4, <1>5, <1>6

\* A task that is not at work has no DATA out.
LEMMA IdleKept ==
  ASSUME NEW t, NEW k, NEW g, NEW H, FileKept(t, k, FALSE, H)
  PROVE  FileKept(t, k, g, H) /\ (~ChunkMode(k) => ~t.append.data)
BY DEF FileKept, AppendKept

\* Another file becomes the current one when no unfinished file is at work.
LEMMA MoveKept ==
  ASSUME NEW W, NEW x, NEW s, Kept(s, W, x), \A k \in Files \ W : ~Working(s, k),
         NEW n, n.task = s.task, Held(n) = Held(s)
  PROVE  /\ Kept(n, W, x)
         /\ \A k \in Files \ W : ~ChunkMode(k) => ~n.task[k].append.data
<1>1. NeverCreated(n, x) BY DEF Kept, NeverCreated
<1>2. ASSUME NEW k \in Files \ W
      PROVE  /\ FileKept(n.task[k], k, Working(n, k), Held(n))
             /\ ~ChunkMode(k) => ~n.task[k].append.data
  <2>1. FileKept(s.task[k], k, Working(s, k), Held(s)) /\ ~Working(s, k) BY DEF Kept
  <2>2. Working(s, k) = FALSE BY <2>1 DEF Working
  <2>3. FileKept(s.task[k], k, FALSE, Held(s)) BY <2>1, <2>2
  <2> QED BY <2>3, IdleKept
<1> QED BY <1>1, <1>2 DEF Kept

\* advance_stream_task: the file that ends is whole, and the next one is not the
\* partial one.
LEMMA AdvanceKept ==
  ASSUME NEW T, NEW f \in Nat, NEW W, NEW x, NEW s, Ok(s, T, f), Active(s), s.cur \in T,
         s.cur \in W, x # s.cur + 1, Kept(s, W, x)
  PROVE  Kept(Advance(s), W, x)
<1> DEFINE n == [s EXCEPT !.recoveries = 0, !.cur = IF Active(s) THEN @ + 1 ELSE @]
<1>1. /\ DOMAIN n = DOMAIN s /\ n.cur = s.cur + 1 /\ n.applied = s.applied
      /\ n.complete = s.complete /\ n.task = s.task /\ n.status = s.status
      /\ n.late = s.late /\ n.resend = s.resend /\ n.buffer = s.buffer
      /\ n.sent = s.sent /\ n.credit = s.credit
  BY DEF Ok, Base, Shape
<1>2. Advance(s) = IF ~Active(n) THEN CheckAllDone([n EXCEPT !.complete = TRUE])
                   ELSE IF n.task[n.cur].chunked THEN ScheduleWork(SendFileBegin(n))
                   ELSE ApplyAppendPlan(n, "CREATE_MISSING", 0)
  BY DEF Advance
<1> HIDE DEF n
<1>3. PlanOk(n, T, f)
  <2>1. s.cur \in 1..NFiles /\ 1..(s.cur - 1) \subseteq T BY DEF Active, Files, Ok, Base, PlanOk
  <2>2. n.cur \in 1..(NFiles + 1) /\ 1..(n.cur - 1) \subseteq T BY <1>1, <2>1, SenderAssumption
  <2> QED BY <1>1, <2>1, <2>2 DEF Ok, Base, PlanOk
<1>4. Base(n, T, f)
  <2>1. BufferOk(n, T, f) /\ QueuesOk(n, T, f) BY <1>1 DEF Ok, Base, BufferOk, QueuesOk, Held
  <2> QED BY <1>1, <1>3, <2>1 DEF Ok, Base, Shape, TasksOk
<1>8. Kept(n, W, x) /\ \A k \in Files \ W : ~ChunkMode(k) => ~n.task[k].append.data
  <2>1. \A k \in Files \ W : ~Working(s, k) BY DEF Working
  <2>2. Held(n) = Held(s) BY <1>1 DEF Held
  <2> QED BY <1>1, <2>1, <2>2, MoveKept
<1>5. CASE ~Active(n)
  <2> DEFINE c == [n EXCEPT !.complete = TRUE]
  <2>1. Ok(c, T, f) /\ Kept(c, W, x) BY <1>4, <1>5, <1>8, CompleteOk, CompleteKept
  <2>2. Advance(s) = CheckAllDone(c) BY <1>2, <1>5
  <2> HIDE DEF c
  <2> QED BY <2>1, <2>2, CheckAllDoneKept DEF Ok
<1>6. CASE Active(n) /\ n.task[n.cur].chunked
  <2>1. Ok(n, T, f) BY <1>4, <1>6 DEF Ok, Going
  <2>2. Ok(SendFileBegin(n), T, f) /\ Kept(SendFileBegin(n), W, x)
    BY <1>6, <1>8, <2>1, SendFileBeginOk, SendFileBeginKept
  <2> QED BY <1>2, <1>6, <2>2, ScheduleWorkKept
<1>7. CASE Active(n) /\ ~n.task[n.cur].chunked
  <2>1. ~ChunkMode(n.cur) BY <1>4, <1>7 DEF Active, Base, TasksOk, TaskOk
  <2>2. n.cur \notin W => ~n.task[n.cur].append.data BY <1>7, <1>8, <2>1 DEF Active
  <2>3. x # n.cur BY <1>1
  <2>4. Kept(ApplyAppendPlan(n, "CREATE_MISSING", 0), W, x)
    BY <1>4, <1>7, <1>8, <2>1, <2>2, <2>3, AppendPlanKept
  <2> QED BY <1>2, <1>7, <2>4
<1> QED BY <1>5, <1>6, <1>7

\* A heartbeat about file h.file.  Everything before h.next is whole, except
\* that the partial file x, while the heartbeats are about it, is only written.
Candid(h, W, x) ==
  /\ h.next \in Nat \ {0}
  /\ h.file \in Nat
  /\ x <= h.file
  /\ \A k \in Files : k < h.next => k \in W \/ (k = x /\ k = h.file)

\* What a DATA message carries.
LEMMA DataLenPos ==
  ASSUME NEW k \in Files, NEW o \in Nat, o < Size[k]
  PROVE  DataLen(k, o) \in Nat \ {0}
BY SenderAssumption DEF DataLen

\* erase_completed takes nothing of a file that is not whole, but for the DATA
\* of the file the heartbeat is about.
LEMMA EraseKeeps ==
  ASSUME NEW T, NEW f, NEW W, NEW x, NEW s, Ok(s, T, f), Kept(s, W, x),
         NEW h, Candid(h, W, x), NEW m \in Held(s), m.file \notin W,
         m.file # h.file \/ (m.kind # "DATA" /\ m.file # x)
  PROVE  m \in Held(EraseCompleted(s, h))
<1>1. m.file \in Files BY DEF Ok, Base, BufferOk, Orderly, Keys
<1>2. ~(m.file < h.next) BY <1>1 DEF Candid
<1>3. ~Acknowledges(h, m) BY <1>2 DEF Acknowledges
<1>4. EraseCompleted(s, h).buffer = s.buffer
      \/ EraseCompleted(s, h).buffer = Without(s.buffer, {z \in DOMAIN s.buffer : Acknowledges(h, z)})
  BY DEF EraseCompleted, Ok, Base, Shape
<1> QED BY <1>3, <1>4 DEF Without, Held

LEMMA EraseOther ==
  ASSUME NEW T, NEW f, NEW W, NEW x, NEW s, Ok(s, T, f), Kept(s, W, x),
         NEW h, Candid(h, W, x), NEW k \in Files \ W,
         k # h.file \/ ChunkMode(k) \/ ~Working(s, k)
  PROVE  FileKept(s.task[k], k, Working(s, k), Held(EraseCompleted(s, h)))
<1> DEFINE G == Held(EraseCompleted(s, h))
           t == s.task[k]
<1>0. FileKept(t, k, Working(s, k), Held(s)) BY DEF Kept
<1>1. G \subseteq Held(s)
  <2>1. EraseCompleted(s, h).buffer = s.buffer
        \/ EraseCompleted(s, h).buffer = Without(s.buffer, {z \in DOMAIN s.buffer : Acknowledges(h, z)})
    BY DEF EraseCompleted, Ok, Base, Shape
  <2> QED BY <2>1 DEF Without, Held
<1>2. \A m \in Held(s) : /\ m \in Orderly(T, f)
                         /\ m.file = k /\ (k # h.file \/ (m.kind # "DATA" /\ k # x)) => m \in G
  BY EraseKeeps DEF Ok, Base, BufferOk
<1> HIDE DEF G
<1>3. CASE k # h.file
  <2>1. \A m \in Held(s) \cup G : m.file = k => (m \in Held(s) <=> m \in G) BY <1>1, <1>2, <1>3
  <2> QED BY <1>0, <2>1, OwnMessages DEF G
<1>4. CASE ChunkMode(k)
  <2>1. k # x BY <1>4, ChunkNotPartial
  <2>2. \A m \in Held(s) : m.file = k => m.kind # "DATA"
    BY <1>2, <1>4 DEF Orderly, ChunkKinds
  <2>3. \A m \in Held(s) \cup G : m.file = k => (m \in Held(s) <=> m \in G)
    BY <1>1, <1>2, <2>1, <2>2
  <2> QED BY <1>0, <2>3, OwnMessages DEF G
<1>5. CASE ~ChunkMode(k) /\ ~Working(s, k)
  <2>1. Working(s, k) = FALSE BY <1>5 DEF Working
  <2>2. AppendKept(t.append, k, FALSE, Held(s)) BY <1>0, <1>5, <2>1 DEF FileKept
  <2>3. Create(k).file = k /\ Create(k).kind = "CREATE" BY DEF Create, Msg
  <2>4. k = x => ~t.append.created BY DEF Kept, NeverCreated, Files
  <2>5. t.append.created => Create(k) \in G BY <1>2, <2>2, <2>3, <2>4 DEF AppendKept
  <2>6. AppendKept(t.append, k, FALSE, G) BY <1>1, <2>2, <2>5 DEF AppendKept
  <2>7. FileKept(t, k, FALSE, G) BY <1>5, <2>6 DEF FileKept
  <2> QED BY <2>7, IdleKept DEF G
<1> QED BY <1>3, <1>4, <1>5

\* ... which the append send state no longer waits for.
LEMMA EraseCurrent ==
  ASSUME NEW T, NEW f, NEW W, NEW x, NEW s, Ok(s, T, f), Kept(s, W, x), Active(s),
         ~ChunkMode(s.cur), NEW h, Candid(h, W, x), h.file = s.cur, s.cur \notin W
  PROVE  AppendKept(DataReady(CreateReady(s.task[s.cur].append, s.cur, h), s.cur, h), s.cur,
                    Working(s, s.cur), Held(EraseCompleted(s, h)))
<1> DEFINE k == s.cur
           a == s.task[k].append
           c == CreateReady(a, k, h)
           b == DataReady(c, k, h)
           G == Held(EraseCompleted(s, h))
           g == Working(s, k)
           end == a.next + a.len
           done == h.next > k \/ h.offset >= end \/ h.durable >= end
<1>1. k \in Files /\ AppendOk(a) /\ k \in Nat
  BY SenderAssumption DEF Active, Ok, Base, TasksOk, TaskOk, Files
<1>2. AppendKept(a, k, g, Held(s)) BY <1>1 DEF Kept, FileKept
<1>3. G = {m \in Held(s) : ~Acknowledges(h, m)}
  <2>1. EraseCompleted(s, h).buffer = Without(s.buffer, {z \in DOMAIN s.buffer : Acknowledges(h, z)})
    BY DEF EraseCompleted, Ok, Base, Shape, Candid
  <2> QED BY <2>1 DEF Without, Held
<1>4. a.created => Create(k) \in G
  <2>1. Create(k).file = k /\ Create(k).kind = "CREATE" BY DEF Create, Msg
  <2>2. x = k => ~a.created BY <1>1 DEF Kept, NeverCreated, Files
  <2> QED BY <1>2, <2>1, <2>2, EraseKeeps DEF AppendKept
<1>5. /\ DOMAIN c = DOMAIN a /\ c.on = a.on /\ c.created = a.created /\ c.data = a.data
      /\ c.next = a.next /\ c.len = a.len
  BY <1>1 DEF CreateReady, AppendOk
<1>6. b = IF a.data /\ (h.next > SeqOf(c, k) \/ h.offset >= end \/ h.durable >= end)
          THEN [c EXCEPT !.next = @ + a.len, !.data = FALSE, !.len = 0] ELSE c
  BY <1>5 DEF DataReady
<1> HIDE DEF c, b, G
<1>7. CASE ~a.data
  <2>1. b = c BY <1>6, <1>7
  <2>2. ~b.data /\ b.created = a.created BY <1>5, <1>7, <2>1
  <2>3. \A m \in G : ~(m.file = k /\ m.kind = "DATA") BY <1>2, <1>3, <1>7 DEF AppendKept
  <2>4. AppendKept(b, k, g, G) BY <1>4, <2>2, <2>3 DEF AppendKept
  <2> QED BY <2>4 DEF b, c, G
<1>8. CASE a.data
  <2> DEFINE m == Data(k, a.next)
  <2>1. m \in Held(s) /\ m.file = k /\ m.kind = "DATA" /\ m.pos = a.next
    BY <1>2, <1>8 DEF AppendKept, Data, Msg
  <2>2. a.len = DataLen(k, a.next) /\ g BY <1>2, <1>8, <2>1 DEF AppendKept
  <2>3. m \in Orderly(T, f) BY <2>1 DEF Ok, Base, BufferOk
  <2>4. a.next \in Nat /\ a.next < Size[k] BY <1>1, <2>1, <2>3 DEF Orderly, AppendOk
  <2>5. end # 0 BY <1>1, <2>2, <2>4, DataLenPos
  <2>6. Acknowledges(h, m) <=> done
    <3>1. m.pos + DataLen(m.file, m.pos) = end BY <2>1, <2>2
    <3>2. m.file < h.next <=> h.next > k BY <2>1
    <3> QED BY <2>1, <2>5, <3>1, <3>2 DEF Acknowledges
  <2>7. SeqOf(c, k) = k BY <1>1, <1>5, <1>8 DEF SeqOf, AppendOk
  <2>8. \A z \in Held(s) : z.file = k /\ z.kind = "DATA" => z = m
    <3>1. \A z \in Held(s) : z \in Keys BY DEF Ok, Base, BufferOk, Orderly
    <3>2. \A z \in Held(s) : z.file = k /\ z.kind = "DATA" => z.pos = a.next BY <1>2 DEF AppendKept
    <3> QED BY <3>1, <3>2 DEF Keys, Data, Msg
  <2> HIDE DEF m
  <2>9. CASE done
    <3>1. b = [c EXCEPT !.next = @ + a.len, !.data = FALSE, !.len = 0] BY <1>6, <1>8, <2>7, <2>9
    <3>2. ~b.data /\ b.created = a.created BY <1>1, <1>5, <3>1 DEF AppendOk
    <3>3. m \notin G BY <1>3, <2>6, <2>9
    <3>4. \A z \in G : ~(z.file = k /\ z.kind = "DATA") BY <1>3, <2>8, <3>3
    <3>5. AppendKept(b, k, g, G) BY <1>4, <3>2, <3>4 DEF AppendKept
    <3> QED BY <3>5 DEF b, c, G
  <2>10. CASE ~done
    <3>1. b = c BY <1>6, <2>7, <2>10
    <3>2. b.data = a.data /\ b.created = a.created /\ b.next = a.next /\ b.len = a.len
      BY <1>5, <3>1
    <3>3. m \in G BY <1>3, <2>1, <2>6, <2>10
    <3>4. b.data => g /\ Data(k, b.next) \in G BY <2>2, <3>2, <3>3 DEF m
    <3>5. \A z \in G : z.file = k /\ z.kind = "DATA"
                       => b.data /\ z.pos = b.next /\ b.len = DataLen(k, b.next)
      BY <1>2, <1>3, <1>8, <3>2 DEF AppendKept
    <3>6. AppendKept(b, k, g, G) BY <1>4, <3>2, <3>4, <3>5 DEF AppendKept
    <3> QED BY <3>6 DEF b, c, G
  <2> QED BY <2>9, <2>10
<1> QED BY <1>7, <1>8

\* on_heartbeat for a CREATE/DATA file.
LEMMA AppendHeartbeatKept ==
  ASSUME NEW T, NEW f \in Nat, NEW W, T \subseteq W, NEW x \in Nat, NEW s, Ok(s, T, f), Kept(s, W, x),
         Active(s), ~s.task[s.cur].chunked, NEW h, ReportOk(h, T), Candid(h, W, x)
  PROVE  Kept(AppendHeartbeat(EraseCompleted(s, h), h), W, x)
<1> DEFINE e == EraseCompleted(s, h)
           k == s.cur
           t == s.task[k]
           a == IF h.file = k THEN DataReady(CreateReady(t.append, k, h), k, h) ELSE t.append
           v == [t EXCEPT !.append = a]
           n == [e EXCEPT !.task[k] = v]
<1>1. k \in Files /\ TaskOk(t, k) /\ AppendOk(t.append) /\ ~ChunkMode(k) /\ DOMAIN s.task = Files
  BY DEF Active, Ok, Base, TasksOk, TaskOk
<1>10. Ok(e, T, f) /\ e.task = s.task /\ e.cur = s.cur /\ e.applied = s.applied
  BY EraseOk DEF EraseCompleted, Ok, Base, Shape
<1>11. Held(e) \subseteq Held(s)
  <2>1. e.buffer = s.buffer
        \/ e.buffer = Without(s.buffer, {z \in DOMAIN s.buffer : Acknowledges(h, z)})
    BY DEF EraseCompleted, Ok, Base, Shape
  <2> QED BY <2>1 DEF Without, Held
<1>2. AppendHeartbeat(e, h) = IF h.file = k /\ AppendComplete(a, k, h) THEN Advance(n) ELSE SendAppend(n)
  <2> HIDE DEF e
  <2> QED BY <1>10 DEF AppendHeartbeat
<1>3. AppendOk(a) /\ (t.append.on <=> a.on) BY <1>1, ReadyOk
<1>12. a.needs = t.append.needs /\ a.created = t.append.created
  BY <1>1 DEF DataReady, CreateReady, AppendOk
<1>13. k \notin W => AppendKept(a, k, Working(s, k), Held(e))
  <2>1. CASE h.file = k BY <1>1, <2>1, EraseCurrent
  <2>2. CASE h.file # k
    <3>1. k \notin W => FileKept(t, k, Working(s, k), Held(e)) BY <1>1, <2>2, EraseOther
    <3> QED BY <1>1, <2>2, <3>1 DEF FileKept
  <2> QED BY <2>1, <2>2
<1>14. \A j \in Files \ W : j # k => FileKept(s.task[j], j, Working(s, j), Held(e))
  BY EraseOther DEF Working
<1> HIDE DEF a, e
<1>4. TaskOk(v, k) /\ v.append = a BY <1>1, <1>3 DEF TaskOk
<1> HIDE DEF v
<1>5. Ok(n, T, f) /\ n.cur = k /\ n.task = [e.task EXCEPT ![k] = v] /\ n.applied = e.applied
  BY <1>1, <1>3, <1>4, <1>10, TaskChange DEF Ok
<1>15. Held(n) = Held(e) BY <1>10 DEF Ok, Base, Shape, Held
<1> HIDE DEF n
<1>16. n.task[k] = v /\ \A j \in Files : j # k => n.task[j] = s.task[j] BY <1>1, <1>5, <1>10
<1>6. Active(n) BY <1>1, <1>5 DEF Active
<1>17. Kept(n, W, x)
  <2>1. NeverCreated(n, x)
    <3>1. NeverCreated(s, x) BY DEF Kept
    <3>2. Create(x) \notin Held(s) => Create(x) \notin Held(n) BY <1>11, <1>15
    <3>3. x # 0 => ~n.task[x].append.needs /\ ~n.task[x].append.created
      <4>1. CASE x = k BY <1>4, <1>12, <1>16, <3>1, <4>1 DEF NeverCreated
      <4>2. CASE x # k BY <1>16, <3>1, <4>2 DEF NeverCreated
      <4> QED BY <4>1, <4>2
    <3> QED BY <3>1, <3>2, <3>3 DEF NeverCreated
  <2>2. ASSUME NEW j \in Files \ W PROVE FileKept(n.task[j], j, Working(n, j), Held(n))
    <3>1. Working(n, j) = Working(s, j) BY <1>5, <1>10 DEF Working
    <3>2. CASE j = k
      <4>1. AppendKept(v.append, k, Working(n, k), Held(n)) BY <1>4, <1>13, <1>15, <3>1, <3>2
      <4> QED BY <1>1, <1>16, <3>2, <4>1 DEF FileKept
    <3>3. CASE j # k BY <1>14, <1>15, <1>16, <3>1, <3>3
    <3> QED BY <3>2, <3>3
  <2> QED BY <2>1, <2>2 DEF Kept
<1>7. ASSUME h.file = k, AppendComplete(a, k, h) PROVE k \in T
  <2>1. CASE a.on BY <1>1, <1>7, <2>1 DEF AppendComplete, ReportOk, R!Completes, R!ChunkMode, ChunkMode
  <2>2. CASE ~a.on
    <3>1. a.next = 0 /\ a.next >= Size[k] BY <1>3, <1>7, <2>2 DEF AppendOk, AppendComplete
    <3>2. Size[k] = 0 BY <1>1, <3>1, SenderAssumption
    <3> QED BY <1>1, <1>7, <3>2 DEF ReportOk
  <2> QED BY <2>1, <2>2
<1>8. ASSUME h.file = k, AppendComplete(a, k, h) PROVE Kept(Advance(n), W, x)
  <2>1. k \in T /\ k \in W BY <1>7, <1>8
  <2>2. x # n.cur + 1 BY <1>5, <1>8 DEF Candid
  <2> QED BY <1>5, <1>6, <1>17, <2>1, <2>2, AdvanceKept
<1>9. Kept(SendAppend(n), W, x) BY <1>5, <1>6, <1>17, SendAppendKept
<1> QED BY <1>2, <1>8, <1>9 DEF e

\* on_heartbeat for a chunk file: what it acknowledges is no longer waited for.
LEMMA ChunkHeartbeatKept ==
  ASSUME NEW T, NEW f \in Nat, NEW W, T \subseteq W, NEW x \in Nat, NEW s, Ok(s, T, f), Kept(s, W, x),
         ChunkFilesLast, Active(s), s.task[s.cur].chunked, NEW h, ReportOk(h, T)
  PROVE  Kept(ChunkHeartbeat(s, h), W, x)
<1> DEFINE k == s.cur
           t == s.task[k]
           ready  == BeginReady(t, k, h)
           acked  == {i \in ChunksOf(k) : <<k, i>> \in h.chunks}
           hinted == {i \in ChunksOf(k) : <<k, i>> \in h.missing}
           v == [HintChunks(AckChunks(t, acked), hinted) EXCEPT !.ready = @ \/ ready]
           gone == {Chunk(k, i) : i \in acked} \cup (IF ready THEN {FileBegin(k)} ELSE {})
           n1 == [s EXCEPT !.task[k] = v]
           n == [s EXCEPT !.task[k] = v, !.buffer = Without(@, gone)]
<1>1. k \in Files /\ TaskOk(t, k) /\ ChunkMode(k) /\ DOMAIN s.task = Files
  BY DEF Active, Ok, Base, TasksOk, TaskOk
<1>2. ChunkHeartbeat(s, h) = IF CommitDone(t, k, h) THEN Advance(n) ELSE ScheduleWork(n)
  BY DEF ChunkHeartbeat
<1>12. /\ \A i : Chunk(k, i) \in gone => i \in acked
       /\ FileBegin(k) \in gone => ready
       /\ Commit(k) \notin gone
       /\ \A m \in gone : m.file = k
  <2>1. /\ \A i : Chunk(k, i).kind = "CHUNK" /\ Chunk(k, i).pos = i /\ Chunk(k, i).file = k
        /\ FileBegin(k).kind = "FILE_BEGIN" /\ FileBegin(k).file = k
        /\ Commit(k).kind = "FILE_COMMIT"
    BY DEF Chunk, FileBegin, Commit, Msg
  <2>2. \A m \in gone : (\E i \in acked : m = Chunk(k, i)) \/ (ready /\ m = FileBegin(k)) OBVIOUS
  <2> HIDE DEF gone, acked, ready
  <2> QED BY <2>1, <2>2
<1> HIDE DEF ready, acked, hinted, gone
<1>3. TaskOk(v, k) /\ v.append = t.append BY <1>1 DEF TaskOk, HintChunks, AckChunks
<1>13. /\ v.begun = t.begun /\ v.ready = (t.ready \/ ready) /\ v.committed = t.committed
       /\ v.out = t.out \cup acked /\ v.acked = t.acked \cup acked
  BY <1>1 DEF TaskOk, HintChunks, AckChunks
<1> HIDE DEF v
<1>4. Ok(n1, T, f) /\ n1.cur = k BY <1>1, <1>3, TaskChange DEF Ok
<1>5. n = [n1 EXCEPT !.buffer = Without(@, gone)] BY DEF Ok, Base, Shape
<1>14. /\ n.cur = k /\ n.applied = s.applied /\ n.task = [s.task EXCEPT ![k] = v]
       /\ Held(n) = Held(s) \ gone
  BY DEF Ok, Base, Shape, Held, Without
<1> HIDE DEF n, n1
<1>6. Ok(n, T, f) /\ n.cur = k
  <2>1. /\ DOMAIN n = DOMAIN n1
        /\ n.cur = n1.cur /\ n.applied = n1.applied /\ n.complete = n1.complete /\ n.task = n1.task
        /\ n.resend = n1.resend /\ n.status = n1.status /\ n.late = n1.late
        /\ n.sent = n1.sent /\ n.credit = n1.credit
        /\ DOMAIN n.buffer \subseteq DOMAIN n1.buffer
    BY <1>4, <1>5 DEF Ok, Base, Shape, Without
  <2>2. PlanOk(n, T, f) /\ Shape(n) /\ TasksOk(n) BY <1>4, <2>1 DEF Ok, Base, PlanOk, Shape, TasksOk
  <2>3. BufferOk(n, T, f) /\ QueuesOk(n, T, f) BY <1>4, <2>1 DEF Ok, Base, BufferOk, QueuesOk, Held
  <2>4. Going(n) BY <1>4, <2>1 DEF Ok, Going, Active
  <2> QED BY <1>4, <2>1, <2>2, <2>3, <2>4 DEF Ok, Base
<1>15. n.task[k] = v /\ \A j \in Files : j # k => n.task[j] = s.task[j] BY <1>1, <1>14
<1>16. Kept(n, W, x)
  <2>1. NeverCreated(n, x)
    <3>1. x # k BY <1>1, ChunkNotPartial
    <3> QED BY <1>14, <1>15, <3>1 DEF Kept, NeverCreated
  <2>2. ASSUME NEW j \in Files \ W PROVE FileKept(n.task[j], j, Working(n, j), Held(n))
    <3>0. FileKept(s.task[j], j, Working(s, j), Held(s)) BY DEF Kept
    <3>1. CASE j = k
      <4>1. ChunkKept(t, k, Held(s)) BY <1>1, <3>0, <3>1 DEF FileKept
      <4>2. v.begun /\ ~v.ready => FileBegin(k) \in Held(n)
        BY <1>12, <1>13, <1>14, <4>1 DEF ChunkKept
      <4>3. \A i \in v.out \ v.acked : Chunk(k, i) \in Held(n)
        BY <1>12, <1>13, <1>14, <4>1 DEF ChunkKept
      <4>4. v.committed => Commit(k) \in Held(n) BY <1>12, <1>13, <1>14, <4>1 DEF ChunkKept
      <4>5. ChunkKept(v, k, Held(n)) BY <4>2, <4>3, <4>4 DEF ChunkKept
      <4> QED BY <1>1, <1>15, <3>1, <4>5 DEF FileKept
    <3>2. CASE j # k
      <4>1. \A m \in Held(s) \cup Held(n) : m.file = j => (m \in Held(s) <=> m \in Held(n))
        BY <1>12, <1>14, <3>2
      <4>2. FileKept(s.task[j], j, Working(s, j), Held(n)) BY <3>0, <4>1, OwnMessages
      <4>3. Working(n, j) = Working(s, j) BY <1>14 DEF Working
      <4> QED BY <1>15, <3>2, <4>2, <4>3
    <3> QED BY <3>1, <3>2
  <2> QED BY <2>1, <2>2 DEF Kept
<1>7. ASSUME CommitDone(t, k, h) PROVE k \in T
  BY <1>1, <1>7 DEF CommitDone, ReportOk, R!Completes, R!ChunkMode, ChunkMode
<1>8. ASSUME CommitDone(t, k, h) PROVE Kept(Advance(n), W, x)
  <2>1. x # k + 1
    <3>1. x # 0 => x \in Files /\ ~ChunkMode(x) BY DEF Kept, NeverCreated
    <3>2. x = k + 1 => x # 0 /\ k < x BY <1>1, SenderAssumption DEF Files
    <3> QED BY <1>1, <3>1, <3>2 DEF ChunkFilesLast
  <2>2. n.cur \in T /\ n.cur \in W /\ Active(n) BY <1>1, <1>6, <1>7, <1>8 DEF Active
  <2> QED BY <1>6, <1>16, <2>1, <2>2, AdvanceKept
<1>9. Kept(ScheduleWork(n), W, x) BY <1>6, <1>16, ScheduleWorkKept
<1> QED BY <1>2, <1>8, <1>9

LEMMA HeartbeatKept ==
  ASSUME NEW T, NEW f \in Nat, NEW W, T \subseteq W, NEW x \in Nat, NEW s, Ok(s, T, f), Kept(s, W, x),
         ChunkFilesLast, NEW h, ReportOk(h, T), Candid(h, W, x)
  PROVE  Kept(HandleHeartbeat(s, h), W, x)
<1> DEFINE n == EraseCompleted(s, h)
<1>1. Ok(n, T, f) /\ n.task = s.task /\ n.cur = s.cur /\ n.applied = s.applied
  BY EraseOk DEF EraseCompleted, Ok, Base, Shape
<1>2. HandleHeartbeat(s, h) = IF ~Active(n) THEN CheckAllDone(n)
                              ELSE IF n.task[n.cur].chunked THEN ChunkHeartbeat(n, h)
                              ELSE AppendHeartbeat(n, h)
  BY DEF HandleHeartbeat
<1>3. Held(n) \subseteq Held(s)
  <2>1. n.buffer = s.buffer
        \/ n.buffer = Without(s.buffer, {z \in DOMAIN s.buffer : Acknowledges(h, z)})
    BY DEF EraseCompleted, Ok, Base, Shape
  <2> QED BY <2>1 DEF Without, Held
<1>4. CASE Active(s) /\ ~s.task[s.cur].chunked
  BY <1>1, <1>2, <1>4, AppendHeartbeatKept DEF Active
<1>5. CASE ~Active(s) \/ s.task[s.cur].chunked
  <2>1. ASSUME NEW k \in Files \ W
        PROVE  FileKept(s.task[k], k, Working(s, k), Held(n))
    <3>1. ChunkMode(k) \/ ~Working(s, k)
      BY <1>5 DEF Active, Working, Ok, Base, TasksOk, TaskOk
    <3> QED BY <3>1, EraseOther
  <2> HIDE DEF n
  <2>2. Kept(n, W, x) BY <1>1, <1>3, <2>1 DEF Kept, NeverCreated, Working
  <2>3. CASE ~Active(n) BY <1>1, <1>2, <2>2, <2>3, CheckAllDoneKept DEF Ok
  <2>4. CASE Active(n)
    <3>1. n.task[n.cur].chunked BY <1>1, <1>5, <2>4 DEF Active
    <3> QED BY <1>1, <1>2, <2>2, <2>4, <3>1, ChunkHeartbeatKept
  <2> QED BY <2>3, <2>4
<1> QED BY <1>4, <1>5

\* on_message with a NACK.
LEMMA NackKept ==
  ASSUME NEW T, NEW f, NEW W, NEW x, NEW s, Ok(s, T, f), Kept(s, W, x), NEW n
  PROVE  Kept(HandleNack(s, n), W, x)
<1> DEFINE found == IF n.file = 0 THEN << >> ELSE KeysForNack(s, n)
           q == <<found[1]>>
<1>1. HandleNack(s, n) = IF found # << >> THEN ScheduleWork(Enqueue(s, q))
                         ELSE IF n.reason \in Recoverable THEN Recover(s) ELSE FinalFail(s)
  BY DEF HandleNack
<1>2. Len(q) \in Nat OBVIOUS
<1> HIDE DEF found, q
<1>3. Ok(Enqueue(s, q), T, f) /\ Kept(Enqueue(s, q), W, x) BY <1>2, EnqueueOk, EnqueueKept DEF Ok
<1>4. Kept(ScheduleWork(Enqueue(s, q)), W, x) BY <1>3, ScheduleWorkKept
<1>5. Kept(Recover(s), W, x) /\ Kept(FinalFail(s), W, x) BY RecoverKept, FailKept DEF Ok
<1> QED BY <1>1, <1>4, <1>5

\* apply_manifest2_to_stream: no file is at work before, and the partial file is
\* resumed.
LEMMA ApplyManifest2Kept ==
  ASSUME NEW T, NEW f \in Nat, NEW W, NEW x, NEW s, Ok(s, T, f), Kept(s, W, x),
         NEW m, PlanMessageOk(m, T, f), f <= NFiles + 1,
         m.action = "CREATE_MISSING" => m.file # x
  PROVE  Kept(ApplyManifest2(s, m), W, x)
<1> DEFINE k == m.file
           v == [s.task[k] EXCEPT !.chunked = @ /\ m.action # "RESUME_EXISTING"]
           p == [s EXCEPT !.cur = k, !.applied = TRUE]
           n == [s EXCEPT !.cur = k, !.applied = TRUE,
                          !.task[k].chunked = @ /\ m.action # "RESUME_EXISTING"]
           d == [s EXCEPT !.cur = NFiles + 1, !.applied = TRUE, !.complete = TRUE]
<1>1. ApplyManifest2(s, m) =
        IF s.applied \/ s.complete THEN s
        ELSE IF m.action = "IN_SYNC" THEN CheckAllDone(d)
        ELSE IF k \notin Files THEN FinalFail(s)
        ELSE IF n.task[k].chunked THEN SendFileBegin(n)
        ELSE ApplyAppendPlan(n, m.action, m.offset)
  BY DEF ApplyManifest2
<1>2. CASE s.applied \/ s.complete BY <1>1, <1>2
<1>3. CASE ~(s.applied \/ s.complete) /\ m.action = "IN_SYNC"
  <2>1. d.task = s.task /\ d.buffer = s.buffer /\ DOMAIN d = DOMAIN s /\ d.status = s.status
    BY DEF Ok, Base, Shape
  <2>2. ApplyManifest2(s, m) = CheckAllDone(d) BY <1>1, <1>3
  <2> HIDE DEF d
  <2>3. Kept(d, W, x)
    <3>1. \A j \in Files \ W : ~Working(s, j) BY <1>3 DEF Working
    <3> QED BY <2>1, <3>1, MoveKept DEF Held
  <2> DEFINE c == CheckAllDone(d)
  <2>4. c.task = d.task /\ c.cur = d.cur /\ c.applied = d.applied /\ c.buffer = d.buffer
    BY <2>1 DEF Ok, Base, Shape, CheckAllDone
  <2> HIDE DEF c
  <2>5. Kept(c, W, x) BY <2>3, <2>4, SameKept DEF Held
  <2> QED BY <2>2, <2>5 DEF c
<1>4. CASE ~(s.applied \/ s.complete) /\ m.action # "IN_SYNC"
  <2>1. Reached(k, T, f) /\ (m.action = "RESUME_EXISTING" => ~ChunkMode(k)) /\ m.offset \in Nat
    BY <1>4 DEF PlanMessageOk
  <2>2. k \in Files BY <2>1 DEF Reached
  <2>3. /\ DOMAIN p = DOMAIN s /\ p.cur = k /\ p.applied = TRUE /\ p.complete = s.complete
        /\ p.task = s.task /\ p.status = s.status
        /\ p.late = s.late /\ p.resend = s.resend /\ p.buffer = s.buffer
        /\ p.sent = s.sent /\ p.credit = s.credit
    BY DEF Ok, Base, Shape
  <2>4. TaskOk(s.task[k], k) BY <2>2 DEF Ok, Base, TasksOk
  <2>5. TaskOk(v, k) /\ v.append = s.task[k].append BY <2>1, <2>4 DEF TaskOk
  <2>13. /\ v.begun = s.task[k].begun /\ v.ready = s.task[k].ready /\ v.out = s.task[k].out
         /\ v.acked = s.task[k].acked /\ v.committed = s.task[k].committed
    BY <2>4 DEF TaskOk
  <2>6. n = [p EXCEPT !.task[k] = v]
    <3>1. n = [p EXCEPT !.task[k].chunked = s.task[k].chunked /\ m.action # "RESUME_EXISTING"]
      BY DEF Ok, Base, Shape
    <3> HIDE DEF n, p
    <3> QED BY <2>3, <3>1
  <2> HIDE DEF p, v
  <2>7. Base(p, T, f)
    <3>1. PlanOk(p, T, f) BY <2>1, <2>3, SenderAssumption DEF Reached, Files, PlanOk, Ok, Base
    <3>2. BufferOk(p, T, f) /\ QueuesOk(p, T, f) BY <2>3 DEF Ok, Base, BufferOk, QueuesOk, Held
    <3> QED BY <2>3, <3>1, <3>2 DEF Ok, Base, Shape, TasksOk
  <2>14. Kept(p, W, x) /\ \A j \in Files \ W : ~ChunkMode(j) => ~p.task[j].append.data
    <3>1. \A j \in Files \ W : ~Working(s, j) BY <1>4 DEF Working
    <3> QED BY <2>3, <3>1, MoveKept DEF Held
  <2>8. Base(n, T, f) /\ n.cur = k /\ n.task[k] = v
    <3> HIDE DEF n
    <3> QED BY <2>2, <2>3, <2>5, <2>6, <2>7, TaskChange
  <2>15. Kept(n, W, x)
    <3>1. k \notin W => FileKept(p.task[k], k, Working(p, k), Held(p)) BY <2>2, <2>14 DEF Kept
    <3>2. k \notin W => FileKept(v, k, Working(p, k), Held(p))
      BY <2>3, <2>5, <2>13, <3>1 DEF FileKept, ChunkKept
    <3>3. x = k => ~v.append.needs /\ ~v.append.created
      BY <2>2, <2>5 DEF Kept, NeverCreated, Files
    <3>4. Active(p) BY <2>2, <2>3 DEF Active
    <3>5. Kept([p EXCEPT !.task[p.cur] = v], W, x)
      BY <2>3, <2>7, <2>14, <3>2, <3>3, <3>4, TaskKept
    <3> HIDE DEF n
    <3> QED BY <2>3, <2>6, <3>5
  <2>9. ApplyManifest2(s, m) = IF n.task[k].chunked THEN SendFileBegin(n)
                               ELSE ApplyAppendPlan(n, m.action, m.offset)
    BY <1>1, <1>4, <2>2
  <2> HIDE DEF n
  <2>10. Active(n) BY <2>2, <2>8 DEF Active
  <2>11. CASE n.task[k].chunked
    <3>1. Ok(n, T, f) BY <2>8, <2>11 DEF Ok, Going
    <3> QED BY <2>9, <2>10, <2>11, <2>15, <3>1, SendFileBeginKept
  <2>12. CASE ~n.task[k].chunked
    <3>1. ~ChunkMode(n.cur) BY <2>2, <2>8, <2>12 DEF Base, TasksOk, TaskOk
    <3>2. n.cur \notin W => ~n.task[n.cur].append.data
      BY <2>2, <2>3, <2>5, <2>8, <2>14, <3>1
    <3>3. x = n.cur => m.action # "CREATE_MISSING" BY <2>8
    <3> QED BY <2>1, <2>8, <2>9, <2>10, <2>12, <2>15, <3>1, <3>2, <3>3, AppendPlanKept
  <2> QED BY <2>11, <2>12
<1> QED BY <1>2, <1>3, <1>4

LEMMA Manifest2Kept ==
  ASSUME NEW T, NEW f \in Nat, NEW W, NEW x, NEW s, Ok(s, T, f), Kept(s, W, x),
         NEW m, PlanMessageOk(m, T, f), f <= NFiles + 1,
         m.action = "CREATE_MISSING" => m.file # x
  PROVE  Kept(HandleManifest2(s, m), W, x)
<1> DEFINE n == ApplyManifest2(s, m)
<1>1. Ok(n, T, f) BY ApplyManifest2Ok
<1>2. Kept(n, W, x) BY ApplyManifest2Kept
<1>3. HandleManifest2(s, m) = ScheduleWork(n) BY DEF HandleManifest2
<1> HIDE DEF n
<1> QED BY <1>1, <1>2, <1>3, ScheduleWorkKept

\* on_lost_sends: what the task of an unfinished file waits for is not gone.
LEMMA LostSendsKept ==
  ASSUME NEW T, NEW f, NEW W, NEW x, NEW s, Ok(s, T, f), Kept(s, W, x),
         NEW lost \in Seq(Orderly(T, f) \cup {Manifest1})
  PROVE  Kept(HandleLostSends(s, lost), W, x)
<1> DEFINE k    == s.cur
           q    == LostKept(s, lost)
           gone == LostGone(s, lost)
           kept == Enqueue(s, q)
           n    == IF s.task[k].chunked THEN LostChunked(kept, gone) ELSE LostAppend(kept, gone)
<1>1. CASE s.complete \/ ~Active(s) BY <1>1 DEF HandleLostSends
<1>2. CASE ~(s.complete \/ ~Active(s))
  <2>1. k \in Files BY <1>2 DEF Active
  <2>2. HandleLostSends(s, lost) = IF q # << >> \/ n # kept THEN ScheduleWork(n) ELSE n
    BY <1>2 DEF HandleLostSends
  <2>3. Len(q) \in Nat
    <3>1. q \in Seq({m \in Held(s) : m.file = s.cur}) BY FilterIn DEF LostKept
    <3> HIDE DEF q
    <3> QED BY <3>1
  <2>12. \A m \in gone : m \in Orderly(T, f) /\ m.file = k /\ m \notin Held(s)
    <3>1. \A m \in Range(lost) : m \in Orderly(T, f) \cup {Manifest1} BY DEF Range
    <3>2. Manifest1.file # k BY <2>1, SenderAssumption DEF Manifest1, Files
    <3> QED BY <3>1, <3>2 DEF LostGone
  <2> HIDE DEF q, gone
  <2>4. Ok(kept, T, f) /\ kept.task = s.task /\ kept.cur = k BY <2>3, EnqueueOk
  <2>13. Kept(kept, W, x) /\ Held(kept) = Held(s) BY EnqueueKept DEF Ok
  <2> HIDE DEF kept
  <2> DEFINE t == kept.task[k]
             a == t.append
  <2>5. TaskOk(t, k) /\ AppendOk(a) /\ Active(kept) BY <2>1, <2>4 DEF Ok, Base, TasksOk, TaskOk, Active
  <2>6. ASSUME ChunkMode(k)
        PROVE  Ok(LostChunked(kept, gone), T, f) /\ Kept(LostChunked(kept, gone), W, x)
    <3> DEFINE is == {i \in ChunksOf(k) : Chunk(k, i) \in gone}
               u == LoseChunks(t, is)
               v == [u EXCEPT !.begun = @ /\ (t.ready \/ FileBegin(k) \notin gone),
                              !.committed = @ /\ Commit(k) \notin gone]
    <3>1. LostChunked(kept, gone) = [kept EXCEPT !.task[k] = v] BY <2>4 DEF LostChunked
    <3>2. TaskOk(v, k) /\ v.append = t.append BY <2>4, <2>5 DEF TaskOk, LoseChunks
    <3>3. /\ v.ready = t.ready /\ v.acked = t.acked /\ (v.begun => t.begun)
          /\ (v.committed => t.committed) /\ v.out \subseteq t.out
      BY <2>5 DEF TaskOk, LoseChunks
    <3> HIDE DEF v
    <3>4. Ok(LostChunked(kept, gone), T, f)
      <4>1. Base(kept, T, f) /\ Going(kept) /\ (kept.task[k].append.on => v.append.on)
        BY <2>4, <3>2 DEF Ok
      <4>2. Ok([kept EXCEPT !.task[k] = v], T, f)
        <5> HIDE DEF k
        <5> QED BY <2>1, <3>2, <4>1, TaskChange
      <4> QED BY <3>1, <4>2
    <3>5. k \notin W => FileKept(v, k, Working(kept, k), Held(kept))
      <4>1. k \notin W => ChunkKept(t, k, Held(kept)) BY <2>1, <2>6, <2>13 DEF Kept, FileKept
      <4>2. k \notin W => ChunkKept(v, k, Held(kept)) BY <3>3, <4>1 DEF ChunkKept
      <4> QED BY <2>6, <4>2 DEF FileKept
    <3>6. x = k => ~v.append.needs /\ ~v.append.created BY <2>1, <2>6, ChunkNotPartial
    <3>7. Kept([kept EXCEPT !.task[kept.cur] = v], W, x)
      BY <2>4, <2>5, <2>13, <3>5, <3>6, TaskKept DEF Ok
    <3> QED BY <2>4, <3>1, <3>4, <3>7
  <2>7. ASSUME ~ChunkMode(k)
        PROVE  Ok(LostAppend(kept, gone), T, f) /\ Kept(LostAppend(kept, gone), W, x)
    <3> DEFINE v == [t EXCEPT !.append = ResetInflight(@)]
               p == [kept EXCEPT !.applied = FALSE]
               c == [kept EXCEPT !.applied = FALSE, !.task[k].append = ResetInflight(@)]
    <3>1. LostAppend(kept, gone) = IF \E m \in gone : LostMatches(a, m) THEN c ELSE kept
      BY <2>4 DEF LostAppend
    <3>2. TaskOk(v, k) /\ v.append.on = a.on /\ v.append.needs = a.needs /\ ~v.append.created
      BY <2>5 DEF TaskOk, AppendOk, ResetInflight
    <3>3. /\ DOMAIN p = DOMAIN kept /\ p.cur = k /\ p.applied = FALSE /\ p.complete = kept.complete
          /\ p.task = kept.task /\ p.status = kept.status
          /\ p.late = kept.late /\ p.resend = kept.resend /\ p.buffer = kept.buffer
          /\ p.sent = kept.sent /\ p.credit = kept.credit
      BY <2>4 DEF Ok, Base, Shape
    <3>4. c = [p EXCEPT !.task[k] = v]
      <4>1. c = [p EXCEPT !.task[k].append = ResetInflight(a)] BY <2>4 DEF Ok, Base, Shape
      <4> HIDE DEF c, p
      <4> QED BY <3>3, <4>1
    <3> HIDE DEF p, v, c
    <3>5. Ok(p, T, f)
      <4>1. PlanOk(p, T, f) BY <2>4, <3>3 DEF PlanOk, Ok, Base
      <4>2. BufferOk(p, T, f) /\ QueuesOk(p, T, f) BY <2>4, <3>3 DEF Ok, Base, BufferOk, QueuesOk, Held
      <4>3. Going(p) BY <3>3 DEF Going
      <4> QED BY <2>4, <3>3, <4>1, <4>2, <4>3 DEF Ok, Base, Shape, TasksOk
    <3>6. Ok(c, T, f) BY <2>1, <3>2, <3>3, <3>4, <3>5, TaskChange DEF Ok
    <3>7. ASSUME NEW m \in gone, LostMatches(a, m) PROVE k \in W
      <4> SUFFICES ASSUME k \notin W PROVE FALSE OBVIOUS
      <4>1. AppendKept(a, k, Working(kept, k), Held(s))
        BY <2>1, <2>7, <2>13 DEF Kept, FileKept
      <4>2. m \in Keys /\ m.file = k /\ m \notin Held(s) /\ (m.kind = "CREATE" => m.pos = 0)
        BY <2>12 DEF Orderly
      <4>3. m.kind = "CREATE" => m = Create(k) BY <4>2 DEF Keys, Create, Msg
      <4>4. m.kind = "DATA" => m = Data(k, m.pos) BY <4>2 DEF Keys, Data, Msg
      <4> QED BY <3>7, <4>1, <4>2, <4>3, <4>4 DEF LostMatches, AppendKept
    <3>8. ASSUME k \in W PROVE Kept(c, W, x)
      <4>1. \A j \in Files \ W : ~Working(kept, j) BY <2>4, <3>8 DEF Working
      <4>2. Kept(p, W, x) BY <2>13, <3>3, <4>1, MoveKept DEF Held
      <4>3. x = k => ~v.append.needs /\ ~v.append.created
        BY <2>1, <2>13, <3>2 DEF Kept, NeverCreated, Files
      <4>4. Active(p) BY <2>1, <3>3 DEF Active
      <4>5. Kept([p EXCEPT !.task[p.cur] = v], W, x)
        BY <3>3, <3>5, <3>8, <4>2, <4>3, <4>4, TaskKept DEF Ok
      <4> QED BY <3>3, <3>4, <4>5
    <3> QED BY <2>4, <2>13, <3>1, <3>6, <3>7, <3>8
  <2>8. Ok(n, T, f) /\ Kept(n, W, x)
    <3>1. s.task[k].chunked <=> ChunkMode(k) BY <2>1 DEF Ok, Base, TasksOk, TaskOk
    <3> QED BY <2>6, <2>7, <3>1
  <2> HIDE DEF n
  <2> QED BY <2>2, <2>8, ScheduleWorkKept
<1> QED BY <1>1, <1>2

\* on_connected.
LEMMA ConnectedKept ==
  ASSUME NEW T, NEW f, NEW W, NEW x, NEW s, Ok(s, T, f), Kept(s, W, x)
  PROVE  Kept(HandleConnected(s), W, x)
<1>1. Ok(SendManifest1(s), T, f) /\ Kept(SendManifest1(s), W, x)
  BY SendManifest1Ok, SendManifest1Kept DEF Ok
<1>2. Kept(ScheduleWork(SendManifest1(s)), W, x) BY <1>1, ScheduleWorkKept
<1> QED BY <1>2 DEF HandleConnected

-----------------------------------------------------------------------------
(* The answers that keep it so, and the invariant.                          *)

CandidReports(T, W, x) == {h \in Reports(T) : Candid(h, W, x)}

\* A plan never creates the partial file.
CandidAnswers(T, f, W, x) ==
  CandidReports(T, W, x) \cup Refusals
    \cup {m \in Plans(T, f) : m.action = "CREATE_MISSING" => m.file # x}

\* The receiver resumes x if anything, its answers are candid about it, and the
\* sender has what it waits for.
KeptWith(x) ==
  /\ RP!Resuming(x)
  /\ Kept(Now(0, << >>), RP!WholeFiles, x)
  /\ NetIn(ReceiverNet, CandidAnswers(told, floor, RP!WholeFiles, x),
           CandidReports(told, RP!WholeFiles, x))

KeptInv == \E x \in 0..NFiles : KeptWith(x)

LEMMA CandidMerge ==
  ASSUME NEW T, NEW f, NEW W, NEW x
  PROVE  /\ Mergeable(CandidReports(T, W, x))
         /\ CandidReports(T, W, x) \subseteq CandidAnswers(T, f, W, x)
         /\ Refusals \subseteq CandidAnswers(T, f, W, x)
<1>1. ASSUME NEW h \in CandidReports(T, W, x), NEW g \in CandidReports(T, W, x)
      PROVE  [h EXCEPT !.chunks = @ \cup g.chunks] \in CandidReports(T, W, x)
  <2> DEFINE y == [h EXCEPT !.chunks = @ \cup g.chunks]
  <2>1. h \in Reports(T) /\ g \in Reports(T) /\ Candid(h, W, x) BY <1>1 DEF CandidReports
  <2>2. y \in Reports(T) /\ y.next = h.next /\ y.file = h.file BY <2>1, ReportsMerge DEF Mergeable
  <2> HIDE DEF y
  <2>3. Candid(y, W, x) BY <2>1, <2>2 DEF Candid
  <2>4. y \in CandidReports(T, W, x) BY <2>2, <2>3 DEF CandidReports
  <2> QED BY <2>4 DEF y
<1>2. Mergeable(CandidReports(T, W, x)) BY <1>1 DEF Mergeable
<1> QED BY <1>2 DEF CandidAnswers

\* More files told and more files whole.
LEMMA MoreCandidAnswers ==
  ASSUME NEW T, NEW U, T \subseteq U, NEW f, NEW W, NEW V, W \subseteq V, NEW x
  PROVE  /\ CandidReports(T, W, x) \subseteq CandidReports(U, V, x)
         /\ CandidAnswers(T, f, W, x) \subseteq CandidAnswers(U, f, V, x)
<1>1. \A h : Candid(h, W, x) => Candid(h, V, x) BY DEF Candid
<1>2. Reports(T) \subseteq Reports(U) BY MoreTold
<1>3. Plans(T, f) \subseteq Plans(U, f)
  <2>1. \A k : Reached(k, T, f) => Reached(k, U, f) BY DEF Reached
  <2>2. \A m : PlanMessageOk(m, T, f) => PlanMessageOk(m, U, f) BY <2>1 DEF PlanMessageOk
  <2> QED BY <2>2 DEF Plans
<1>4. CandidReports(T, W, x) \subseteq CandidReports(U, V, x) BY <1>1, <1>2 DEF CandidReports
<1> QED BY <1>3, <1>4 DEF CandidAnswers

\* What the invariant of the refinement says of the receiver.
LEMMA TransferFacts ==
  ASSUME TransferInv, ChunkFilesLast
  PROVE  /\ SystemInv /\ RP!Facts /\ RP!ToldInv /\ RP!LastChunks
         /\ told \subseteq RP!WholeFiles
         /\ floor \in Nat /\ floor <= NFiles + 1
<1>1. SystemInv /\ RP!Composed /\ RP!ToldInv BY DEF TransferInv, SystemInv
<1>2. RP!Facts BY <1>1 DEF RP!Composed
<1>3. floor \in Nat /\ floor <= NFiles + 1 /\ told \subseteq Files BY <1>1, ReceiverFacts
<1>4. told \subseteq RP!WholeFiles
  BY <1>1, <1>3 DEF RP!ToldInv, RP!ToldIsWhole, RP!WholeFiles, RP!Files, Files
<1>5. RP!LastChunks BY DEF ChunkFilesLast, RP!LastChunks, RP!Files, Files, RP!ChunkMode, ChunkMode
<1> QED BY <1>1, <1>2, <1>3, <1>4, <1>5

-----------------------------------------------------------------------------
(* Steps of the sender.                                                     *)

LEMMA NowKept ==
  ASSUME NEW W, NEW x, Kept(Now(0, << >>), W, x), NEW credit, NEW late
  PROVE  Kept(Now(credit, late), W, x)
<1> DEFINE s == Now(0, << >>)
           n == Now(credit, late)
<1>1. n.task = s.task /\ n.cur = s.cur /\ n.applied = s.applied /\ n.buffer = s.buffer BY DEF Now
<1> HIDE DEF n, s
<1>2. Held(n) = Held(s) BY <1>1 DEF Held
<1>3. Kept(s, W, x) BY DEF s
<1>4. Kept(n, W, x) BY <1>1, <1>2, <1>3, SameKept
<1> QED BY <1>4 DEF n

LEMMA InstallKept ==
  ASSUME NEW W, NEW x, NEW s, Kept(s, W, x), Install(s), NEW n, n = Now(0, << >>)'
  PROVE  Kept(n, W, x)
<1>1. n.task = s.task /\ n.cur = s.cur /\ n.applied = s.applied /\ n.buffer = s.buffer
  BY DEF Now, Install
<1>2. Held(n) = Held(s) BY <1>1 DEF Held
<1> QED BY <1>1, <1>2, SameKept

\* A callback that takes answers from the lines and adds none.
LEMMA CallbackKept ==
  ASSUME TransferInv, ChunkFilesLast, NEW x, KeptWith(x), NEW s,
         Kept(s, RP!WholeFiles, x), SenderStep(s),
         back' \in [Lines -> Seq(CandidAnswers(told, floor, RP!WholeFiles, x))]
  PROVE  KeptWith(x)'
<1> DEFINE W == RP!WholeFiles
<1>1. UNCHANGED <<present, content, app, chk, floor, told>> /\ Install(s) /\ hb' = hb
  BY DEF SenderStep, ReceiverIdle, recvVars
<1>2. RP!Resuming(x)' /\ RP!WholeFiles' = W BY <1>1, RP!ResumingIdle, T0 DEF KeptWith
<1>3. PICK n : n = Now(0, << >>)' OBVIOUS
<1> HIDE DEF W
<1>4. Kept(n, W, x) BY <1>1, <1>3, InstallKept DEF W
<1>5. PICK A, H : A = CandidAnswers(told, floor, W, x) /\ H = CandidReports(told, W, x) OBVIOUS
<1>6. PICK m : m = ReceiverNet' OBVIOUS
<1>7. NetIn(m, A, H)
  <2>1. NetIn(ReceiverNet, A, H) BY <1>5 DEF KeptWith, W
  <2>2. m = [hb |-> hb, back |-> back'] BY <1>1, <1>6 DEF ReceiverNet
  <2>3. back' \in [Lines -> Seq(A)] BY <1>5 DEF W
  <2> QED BY <2>1, <2>2, <2>3 DEF NetIn, ReceiverNet
<1>8. A = CandidAnswers(told', floor', RP!WholeFiles', x) /\ H = CandidReports(told', RP!WholeFiles', x)
  BY <1>1, <1>2, <1>5
<1>9. Kept(n, RP!WholeFiles', x) BY <1>2, <1>4
<1>10. NetIn(ReceiverNet', CandidAnswers(told', floor', RP!WholeFiles', x),
             CandidReports(told', RP!WholeFiles', x))
  BY <1>6, <1>7, <1>8
<1>11. Kept(Now(0, << >>)', RP!WholeFiles', x) BY <1>3, <1>9
<1> QED BY <1>2, <1>10, <1>11 DEF KeptWith

\* What a callback starts from.
LEMMA StartKept ==
  ASSUME TransferInv, NEW x, KeptWith(x), NEW credit \in Nat, NEW late \in Seq(Keys)
  PROVE  /\ Ok(Now(credit, late), told, floor)
         /\ Kept(Now(credit, late), RP!WholeFiles, x)
<1>1. Ok(Now(0, << >>), told, floor) BY DEF TransferInv, SystemInv
<1>2. Kept(Now(0, << >>), RP!WholeFiles, x) BY DEF KeptWith
<1> QED BY <1>1, <1>2, NowOk, NowKept

LEMMA SenderReceivesKept ==
  ASSUME TransferInv, ChunkFilesLast, NEW x \in Nat, KeptWith(x), NEW l \in Lines, SenderReceives(l)
  PROVE  KeptWith(x)'
<1> DEFINE m == Head(back[l])
<1>1. PICK T, f, W : T = told /\ f = floor /\ W = RP!WholeFiles OBVIOUS
<1>2. PICK A : A = CandidAnswers(T, f, W, x) OBVIOUS
<1>3. T \subseteq W /\ f \in Nat /\ f <= NFiles + 1 BY <1>1, TransferFacts
<1>4. back \in [Lines -> Seq(A)] BY <1>1, <1>2 DEF KeptWith, NetIn, ReceiverNet
<1>5. back[l] \in Seq(A) /\ back[l] # << >> BY <1>4 DEF SenderReceives
<1>6. m \in A /\ Tail(back[l]) \in Seq(A) BY <1>5
<1>7. back' \in [Lines -> Seq(A)]
  <2>1. back' = [back EXCEPT ![l] = Tail(@)] BY DEF SenderReceives
  <2> QED BY <1>4, <1>6, <2>1
<1>8. PICK credit \in Credits : SenderStep(Handle(Now(credit, << >>), m)) BY DEF SenderReceives
<1>9. PICK n, s : n = Now(credit, << >>) /\ s = Handle(n, m) OBVIOUS
<1>10. Ok(n, T, f) /\ Kept(n, W, x)
  <2>1. credit \in Nat BY SystemAssumption DEF Credits
  <2>2. << >> \in Seq(Keys) OBVIOUS
  <2> QED BY <1>1, <1>9, <2>1, <2>2, StartKept
<1>11. SenderStep(s) BY <1>8, <1>9
<1> HIDE DEF m
<1>12. Kept(s, W, x)
  <2>1. CASE m \in CandidReports(T, W, x)
    <3>1. m.kind = "HEARTBEAT" /\ ReportOk(m, T) /\ Candid(m, W, x)
      BY <2>1 DEF CandidReports, Reports
    <3>2. s = HandleHeartbeat(n, m) BY <1>9, <3>1 DEF Handle
    <3> QED BY <1>3, <1>10, <3>1, <3>2, HeartbeatKept
  <2>2. CASE m \in Refusals
    <3>1. m.kind = "NACK" BY <2>2 DEF Refusals
    <3>2. s = HandleNack(n, m) BY <1>9, <3>1 DEF Handle
    <3> QED BY <1>10, <3>2, NackKept
  <2>3. CASE m \in Plans(T, f) /\ (m.action = "CREATE_MISSING" => m.file # x)
    <3>1. m.kind = "MANIFEST2" /\ PlanMessageOk(m, T, f) BY <2>3 DEF Plans
    <3>2. s = HandleManifest2(n, m) BY <1>9, <3>1 DEF Handle
    <3> QED BY <1>3, <1>10, <2>3, <3>1, <3>2, Manifest2Kept
  <2> QED BY <1>2, <1>6, <2>1, <2>2, <2>3 DEF CandidAnswers
<1> QED BY <1>1, <1>2, <1>7, <1>11, <1>12, CallbackKept

\* The timers, a new connection, a lost one.
LEMMA TickKept ==
  ASSUME TransferInv, ChunkFilesLast, NEW x, KeptWith(x),
         NEW credit \in Nat, NEW late \in Seq(Keys), SenderTick(credit, late)
  PROVE  KeptWith(x)'
<1>1. PICK T, f, W : T = told /\ f = floor /\ W = RP!WholeFiles OBVIOUS
<1>2. PICK n, s : n = Now(credit, late) /\ s = ScheduleWork(n) OBVIOUS
<1>3. Ok(n, T, f) /\ Kept(n, W, x) BY <1>1, <1>2, StartKept
<1>4. Kept(s, W, x) BY <1>2, <1>3, ScheduleWorkKept
<1>5. SenderStep(s) /\ back' = back BY <1>2 DEF SenderTick
<1>6. back' \in [Lines -> Seq(CandidAnswers(told, floor, RP!WholeFiles, x))]
  BY <1>5 DEF KeptWith, NetIn, ReceiverNet
<1> QED BY <1>1, <1>4, <1>5, <1>6, CallbackKept

LEMMA TicksKept ==
  ASSUME TransferInv, ChunkFilesLast, NEW x, KeptWith(x),
         (\E credit \in Credits : TimerTick(credit)) \/ (\E m \in DOMAIN buffer : Overdue(m))
  PROVE  KeptWith(x)'
<1>1. Credits \subseteq Nat BY SystemAssumption DEF Credits
<1>2. << >> \in Seq(Keys) OBVIOUS
<1>3. ASSUME NEW m \in DOMAIN buffer PROVE <<m>> \in Seq(Keys)
  <2>1. m \in Keys BY <1>3 DEF TransferInv, SystemInv, Ok, Base, BufferOk, Held, Now, Orderly
  <2> QED BY <2>1
<1>4. PICK credit \in Nat, late \in Seq(Keys) : SenderTick(credit, late)
  BY <1>1, <1>2, <1>3 DEF TimerTick, Overdue
<1> QED BY <1>4, TickKept

LEMMA LineConnectsKept ==
  ASSUME TransferInv, ChunkFilesLast, NEW x, KeptWith(x), NEW l \in Lines, LineConnects(l)
  PROVE  KeptWith(x)'
<1>1. PICK T, f, W : T = told /\ f = floor /\ W = RP!WholeFiles OBVIOUS
<1>2. PICK credit \in 0..MaxCredit : SenderStep(HandleConnected(Now(credit, << >>))) BY DEF LineConnects
<1>3. PICK n, s : n = Now(credit, << >>) /\ s = HandleConnected(n) OBVIOUS
<1>4. credit \in Nat /\ << >> \in Seq(Keys) BY <1>2, SystemAssumption
<1>5. Ok(n, T, f) /\ Kept(n, W, x) BY <1>1, <1>3, <1>4, StartKept
<1>6. Kept(s, W, x) BY <1>3, <1>5, ConnectedKept
<1>7. SenderStep(s) /\ back' = back BY <1>2, <1>3 DEF LineConnects
<1>8. back' \in [Lines -> Seq(CandidAnswers(told, floor, RP!WholeFiles, x))]
  BY <1>7 DEF KeptWith, NetIn, ReceiverNet
<1> QED BY <1>1, <1>6, <1>7, <1>8, CallbackKept

LEMMA LineDropsKept ==
  ASSUME TransferInv, ChunkFilesLast, NEW x, KeptWith(x), NEW l \in Lines, LineDrops(l)
  PROVE  KeptWith(x)'
<1>1. PICK T, f, W : T = told /\ f = floor /\ W = RP!WholeFiles OBVIOUS
<1>2. PICK A : A = CandidAnswers(T, f, W, x) OBVIOUS
<1>3. PICK lost : lost = pend[l] OBVIOUS
<1>4. PICK arrives \in 0..Len(wire[l]), credit \in (IF Up = {l} THEN {0} ELSE 0..MaxCredit) :
        SenderStep(HandleLostSends(Now(credit, << >>), pend[l]))
  BY DEF LineDrops
<1>5. PICK n, s : n = Now(credit, << >>) /\ s = HandleLostSends(n, lost) OBVIOUS
<1>6. credit \in Nat /\ << >> \in Seq(Keys) BY <1>4, SystemAssumption
<1>7. Ok(n, T, f) /\ Kept(n, W, x) BY <1>1, <1>5, <1>6, StartKept
<1>8. lost \in Seq(Orderly(T, f) \cup {Manifest1})
  BY <1>1, <1>3 DEF TransferInv, SystemInv, WiresOk, Sendings
<1>9. Kept(s, W, x) BY <1>5, <1>7, <1>8, LostSendsKept
<1>10. SenderStep(s) BY <1>3, <1>4, <1>5
<1>11. back' \in [Lines -> Seq(A)]
  <2>1. back \in [Lines -> Seq(A)] BY <1>1, <1>2 DEF KeptWith, NetIn, ReceiverNet
  <2>2. << >> \in Seq(A) /\ back' = [back EXCEPT ![l] = << >>] BY DEF LineDrops
  <2> QED BY <2>1, <2>2
<1> QED BY <1>1, <1>2, <1>9, <1>10, <1>11, CallbackKept

-----------------------------------------------------------------------------
(* Steps of the receiver.                                                   *)

\* A step of the receiver that leaves net behind.
LEMMA ReceiverKept ==
  ASSUME TransferInv, TransferInv', ChunkFilesLast, NEW x, KeptWith(x),
         RP!Message \/ RP!Poll \/ RP!Writer \/ RP!ApplyManifest1 \/ RP!Exit,
         UNCHANGED senderVars, NEW net, hb' = net.hb, back' = net.back,
         NetIn(net, CandidAnswers(told', floor, RP!WholeFiles', x),
               CandidReports(told', RP!WholeFiles', x))
  PROVE  KeptWith(x)'
<1>1. RP!Facts /\ RP!Facts' /\ RP!ToldInv /\ RP!ToldInv' /\ RP!LastChunks /\ RP!Resuming(x)
  BY TransferFacts DEF TransferInv, SystemInv, RP!Composed, KeptWith
<1>2. RP!Resuming(x)' /\ RP!WholeFiles \subseteq RP!WholeFiles' BY <1>1, RP!ResumingStep, T0
<1>3. floor' = floor
  <2>1. RP!Composed /\ ~FALSE /\ 0 = 0 BY DEF TransferInv, SystemInv
  <2> QED BY <2>1, RP!ComposedStep, T0
<1>4. PICK U, V, n : U = told' /\ V = RP!WholeFiles' /\ n = Now(0, << >>) OBVIOUS
<1>5. Kept(n, V, x) BY <1>2, <1>4, MoreWhole DEF KeptWith
<1>6. Now(0, << >>)' = n BY <1>4 DEF Now, senderVars
<1>7. PICK m : m = ReceiverNet' OBVIOUS
<1>8. NetIn(m, CandidAnswers(U, floor, V, x), CandidReports(U, V, x))
  <2>1. m = [hb |-> net.hb, back |-> net.back] BY <1>7 DEF ReceiverNet
  <2>2. NetIn(net, CandidAnswers(U, floor, V, x), CandidReports(U, V, x)) BY <1>4
  <2> QED BY <2>1, <2>2 DEF NetIn
<1>9. NetIn(ReceiverNet', CandidAnswers(told', floor', RP!WholeFiles', x),
            CandidReports(told', RP!WholeFiles', x))
  BY <1>3, <1>4, <1>7, <1>8
<1>10. Kept(Now(0, << >>)', RP!WholeFiles', x) BY <1>4, <1>5, <1>6
<1> QED BY <1>2, <1>9, <1>10 DEF KeptWith

\* The network's record before the step.
LEMMA NetBeforeKept ==
  ASSUME NEW x, KeptWith(x), NEW U, told \subseteq U, NEW V, RP!WholeFiles \subseteq V
  PROVE  NetIn(ReceiverNet, CandidAnswers(U, floor, V, x), CandidReports(U, V, x))
<1>1. PICK W : W = RP!WholeFiles OBVIOUS
<1>2. /\ CandidReports(told, W, x) \subseteq CandidReports(U, V, x)
      /\ CandidAnswers(told, floor, W, x) \subseteq CandidAnswers(U, floor, V, x)
  BY <1>1, MoreCandidAnswers
<1>3. NetIn(ReceiverNet, CandidAnswers(told, floor, W, x), CandidReports(told, W, x))
  BY <1>1 DEF KeptWith
<1> QED BY <1>2, <1>3, NetMono

\* A report of the receiver as a message.
LEMMA CandidMessage ==
  ASSUME NEW T, NEW W, NEW x, NEW h \in RP!Report, \A k \in Files : RP!Completes(h, k) => k \in T,
         h.file \in Files /\ Size[h.file] = 0 => h.file \in T, RP!CandidReport(h, W, x),
         NEW missing \in SUBSET (Nat \X Nat)
  PROVE  HeartbeatMessage(h, missing) \in CandidReports(T, W, x)
<1> DEFINE y == HeartbeatMessage(h, missing)
<1>1. y \in Reports(T) BY MessageOk
<1>2. y.next = h.next /\ y.file = h.file BY DEF HeartbeatMessage
<1> HIDE DEF y
<1>3. Candid(y, W, x) BY <1>2 DEF Candid, RP!CandidReport, RP!Files, Files
<1>4. y \in CandidReports(T, W, x) BY <1>1, <1>3 DEF CandidReports
<1> QED BY <1>4 DEF y

\* What the step gives for the answers made in it.
LEMMA HonestAndCandid ==
  ASSUME TransferInv, TransferInv', ChunkFilesLast, NEW x, KeptWith(x),
         RP!Message \/ RP!Poll \/ RP!Writer \/ RP!ApplyManifest1 \/ RP!Exit
  PROVE  /\ told \subseteq told' /\ RP!WholeFiles \subseteq RP!WholeFiles'
         /\ RP!Message => \A h \in heartbeats' :
              RP!Honest(h)' /\ RP!CandidReport(h, RP!WholeFiles', x)
         /\ RP!Poll => /\ \A h \in RP!FsyncHeartbeats :
                            RP!Honest(h)' /\ RP!CandidReport(h, RP!WholeFiles', x)
                       /\ \A h \in {RP!CommitHeartbeat} : cmt.state = "done" =>
                            RP!Honest(h)' /\ RP!CandidReport(h, RP!WholeFiles', x)
<1>1. RP!Facts /\ RP!Facts' /\ RP!ToldInv /\ RP!ToldInv' /\ RP!LastChunks /\ RP!Resuming(x)
  BY TransferFacts DEF TransferInv, SystemInv, RP!Composed, KeptWith
<1>2. PICK V : V = RP!WholeFiles' OBVIOUS
<1>3. /\ RP!WholeFiles \subseteq V
      /\ RP!Message => \A h \in heartbeats' : RP!CandidReport(h, V, x)
      /\ RP!Poll => /\ \A h \in RP!FsyncHeartbeats : RP!CandidReport(h, V, x)
                    /\ cmt.state = "done" => RP!CandidReport(RP!CommitHeartbeat, V, x)
  BY <1>1, <1>2, RP!ResumingStep, T0
<1>4. RP!Composed /\ ~FALSE /\ 0 = 0 BY DEF TransferInv, SystemInv
<1>5. told \subseteq told' /\ (RP!Message => \A h \in heartbeats' : RP!Honest(h)')
  BY <1>4, RP!ComposedStep, T0
<1>6. RP!Poll => /\ \A h \in RP!FsyncHeartbeats : RP!Honest(h)'
                 /\ \A h \in {RP!CommitHeartbeat} : cmt.state = "done" => RP!Honest(h)'
  <2>1. RP!Facts /\ RP!EmptyPassed(app) /\ ~dur.failed BY <1>4 DEF RP!Composed
  <2> QED BY <2>1, RP!PollHonest, T0
<1> QED BY <1>2, <1>3, <1>5, <1>6

\* The receiver reads a message.
LEMMA MessageKept ==
  ASSUME TransferInv, TransferInv', ChunkFilesLast, NEW x, KeptWith(x), RP!Message,
         NEW l \in Lines, NEW m \in Orderly(told, floor), Answer(l, m), UNCHANGED senderVars
  PROVE  KeptWith(x)'
<1>1. /\ told \subseteq told' /\ RP!WholeFiles \subseteq RP!WholeFiles'
      /\ \A h \in heartbeats' : RP!Honest(h)' /\ RP!CandidReport(h, RP!WholeFiles', x)
  BY HonestAndCandid
<1>2. PICK U, V : U = told' /\ V = RP!WholeFiles' OBVIOUS
<1>3. PICK A, H : A = CandidAnswers(U, floor, V, x) /\ H = CandidReports(U, V, x) OBVIOUS
<1>4. NetIn(ReceiverNet, A, H) BY <1>1, <1>2, <1>3, NetBeforeKept
<1>5. H \subseteq A /\ Refusals \subseteq A /\ Mergeable(H) BY <1>3, CandidMerge
<1>6. ASSUME NEW y \in heartbeats', NEW z \in SUBSET (Nat \X Nat) PROVE HeartbeatMessage(y, z) \in H
  <2>1. RP!Honest(y)' /\ RP!CandidReport(y, V, x) BY <1>1, <1>2
  <2>2. /\ y \in RP!Report /\ \A k \in Files : RP!Completes(y, k) => k \in U
        /\ y.file \in Files /\ Size[y.file] = 0 => y.file \in U
    BY <1>2, <2>1 DEF RP!Honest, RP!Files, Files, RP!Completes
  <2> QED BY <1>3, <2>1, <2>2, CandidMessage
<1>7. PICK net : NetIn(net, A, H) /\ hb' = net.hb /\ back' = net.back
  BY <1>4, <1>5, <1>6, AnswerIn DEF TransferInv
<1> QED BY <1>2, <1>3, <1>7, ReceiverKept

\* It answers a Manifest1.
LEMMA Manifest1Kept ==
  ASSUME TransferInv, TransferInv', ChunkFilesLast, NEW x, KeptWith(x), R!ApplyManifest1,
         NEW l \in Lines, NEW m, m.kind = "MANIFEST1", Answer(l, m), UNCHANGED senderVars
  PROVE  KeptWith(x)'
<1>1. RP!ApplyManifest1 BY SameApplyManifest1
<1>2. told \subseteq told' /\ RP!WholeFiles \subseteq RP!WholeFiles' BY <1>1, HonestAndCandid
<1>3. PICK U, V : U = told' /\ V = RP!WholeFiles' OBVIOUS
<1>4. PICK A, H : A = CandidAnswers(U, floor, V, x) /\ H = CandidReports(U, V, x) OBVIOUS
<1>5. NetIn(ReceiverNet, A, H) BY <1>2, <1>3, <1>4, NetBeforeKept
<1>6. PICK p : p = Manifest2 OBVIOUS
<1>7. p \in Plans(U, floor)
  <2>1. R!InSync \subseteq U BY <1>3 DEF R!ApplyManifest1
  <2> QED BY <1>6, <2>1, Manifest2Type DEF TransferInv
<1>8. p.action = "CREATE_MISSING" => p.file # x
  <2>1. x \in present \/ x = 0 BY DEF KeptWith, RP!Resuming
  <2>2. p.action = "CREATE_MISSING" => p.file \notin present BY <1>6 DEF Manifest2
  <2>3. p.action = "CREATE_MISSING" => p.file \in Files
    BY <1>7 DEF Plans, PlanMessageOk, Reached
  <2> QED BY <2>1, <2>2, <2>3, SenderAssumption DEF Files
<1>9. p \in A BY <1>4, <1>7, <1>8 DEF CandidAnswers
<1>10. PICK net : net = SendBack(ReceiverNet, l, p) OBVIOUS
<1>11. NetIn(net, A, H) BY <1>5, <1>9, <1>10, SendBackIn
<1>12. hb' = net.hb /\ back' = net.back BY <1>6, <1>10 DEF Answer
<1> QED BY <1>1, <1>3, <1>4, <1>11, <1>12, ReceiverKept

LEMMA ReceiverReceivesKept ==
  ASSUME TransferInv, TransferInv', ChunkFilesLast, NEW x, KeptWith(x),
         NEW l \in Lines, ReceiverReceives(l)
  PROVE  KeptWith(x)'
<1>1. PICK m : m = Head(wire[l]) OBVIOUS
<1>2. m \in Sendings(told, floor)
  <2>1. wire[l] \in Seq(Sendings(told, floor)) /\ wire[l] # << >>
    BY DEF TransferInv, SystemInv, WiresOk, ReceiverReceives
  <2> QED BY <1>1, <2>1
<1>3. Answer(l, m) /\ UNCHANGED senderVars BY <1>1 DEF ReceiverReceives
<1>4. CASE m.kind = "MANIFEST1"
  <2>1. R!ApplyManifest1 BY <1>1, <1>4 DEF ReceiverReceives
  <2> QED BY <1>3, <1>4, <2>1, Manifest1Kept
<1>5. CASE m.kind # "MANIFEST1"
  <2>1. m \in Orderly(told, floor) BY <1>2, <1>5 DEF Sendings, Manifest1
  <2>2. RP!Message BY <1>1, <1>5, <2>1, IsMessage DEF ReceiverReceives, TransferInv
  <2> QED BY <1>3, <2>1, <2>2, MessageKept
<1> QED BY <1>4, <1>5

\* poll_completions.
LEMMA PollKept ==
  ASSUME TransferInv, TransferInv', ChunkFilesLast, NEW x, KeptWith(x), HeartbeatTick \/ CommitPollTick
  PROVE  KeptWith(x)'
<1>1. RP!Poll /\ UNCHANGED senderVars BY SamePoll DEF HeartbeatTick, CommitPollTick
<1>2. /\ told \subseteq told' /\ RP!WholeFiles \subseteq RP!WholeFiles'
      /\ \A h \in RP!FsyncHeartbeats : RP!Honest(h)' /\ RP!CandidReport(h, RP!WholeFiles', x)
      /\ \A h \in {RP!CommitHeartbeat} :
           cmt.state = "done" => RP!Honest(h)' /\ RP!CandidReport(h, RP!WholeFiles', x)
  BY <1>1, HonestAndCandid
<1>3. PICK U, V : U = told' /\ V = RP!WholeFiles' OBVIOUS
<1>4. PICK A, H : A = CandidAnswers(U, floor, V, x) /\ H = CandidReports(U, V, x) OBVIOUS
<1>5. NetIn(ReceiverNet, A, H) /\ H \subseteq A /\ Mergeable(H)
  BY <1>2, <1>3, <1>4, NetBeforeKept, CandidMerge
<1>6. ASSUME NEW h, RP!Honest(h)', RP!CandidReport(h, V, x) PROVE HeartbeatMessage(h, {}) \in H
  <2>1. /\ h \in RP!Report /\ \A k \in Files : RP!Completes(h, k) => k \in U
        /\ h.file \in Files /\ Size[h.file] = 0 => h.file \in U
    BY <1>3, <1>6 DEF RP!Honest, RP!Files, Files, RP!Completes
  <2>2. {} \in SUBSET (Nat \X Nat) OBVIOUS
  <2> QED BY <1>4, <1>6, <2>1, <2>2, CandidMessage
<1>7. PICK fs, ch : fs = RP!FsyncHeartbeats /\ ch = RP!CommitHeartbeat OBVIOUS
<1>8. /\ \A h \in fs : HeartbeatMessage(h, {}) \in H
      /\ cmt.state = "done" => HeartbeatMessage(ch, {}) \in H
  <2>1. \A h \in fs : HeartbeatMessage(h, {}) \in H BY <1>2, <1>3, <1>6, <1>7
  <2>2. \A h \in {ch} : cmt.state = "done" => RP!Honest(h)' /\ RP!CandidReport(h, V, x)
    BY <1>2, <1>3, <1>7
  <2> QED BY <1>6, <2>1, <2>2
<1>9. NetIn(Polled, A, H) /\ NetIn(FlushedAll(Polled), A, H)
  BY <1>5, <1>7, <1>8, PollIn, SameFsyncHeartbeats, SameCommitHeartbeat
<1>10. PICK net : NetIn(net, A, H) /\ hb' = net.hb /\ back' = net.back
  BY <1>9 DEF HeartbeatTick, CommitPollTick
<1> QED BY <1>1, <1>3, <1>4, <1>10, ReceiverKept

\* The writer thread.
LEMMA WriterThreadKept ==
  ASSUME TransferInv, TransferInv', ChunkFilesLast, NEW x, KeptWith(x), WriterThread
  PROVE  KeptWith(x)'
<1>1. RP!Writer \/ RP!Exit BY SameWriter, SameExit DEF WriterThread
<1>2. told \subseteq told' /\ RP!WholeFiles \subseteq RP!WholeFiles' BY <1>1, HonestAndCandid
<1>3. PICK U, V, net : U = told' /\ V = RP!WholeFiles' /\ net = ReceiverNet OBVIOUS
<1>4. NetIn(net, CandidAnswers(U, floor, V, x), CandidReports(U, V, x)) BY <1>2, <1>3, NetBeforeKept
<1>5. hb' = net.hb /\ back' = net.back BY <1>3 DEF WriterThread, lineVars, recvVars, ReceiverNet
<1>6. UNCHANGED senderVars BY DEF WriterThread
<1> QED BY <1>1, <1>3, <1>4, <1>5, <1>6, ReceiverKept

\* Steps that touch neither the sender nor the answers.
LEMMA SilentKept ==
  ASSUME NEW x, KeptWith(x), UNCHANGED <<present, content, app, chk, told, floor>>,
         UNCHANGED <<senderVars, back, hb>>
  PROVE  KeptWith(x)'
<1>1. RP!Resuming(x)' /\ RP!WholeFiles' = RP!WholeFiles BY RP!ResumingIdle, T0 DEF KeptWith
<1>2. Now(0, << >>)' = Now(0, << >>) BY DEF Now, senderVars
<1>3. ReceiverNet' = ReceiverNet BY DEF ReceiverNet
<1>4. Kept(Now(0, << >>)', RP!WholeFiles', x) BY <1>1, <1>2 DEF KeptWith
<1>5. NetIn(ReceiverNet', CandidAnswers(told', floor', RP!WholeFiles', x),
            CandidReports(told', RP!WholeFiles', x))
  BY <1>1, <1>3 DEF KeptWith
<1> QED BY <1>1, <1>4, <1>5 DEF KeptWith

LEMMA QuietStepsKept ==
  ASSUME NEW x, KeptWith(x),
         HeartbeatTickThrows \/ (\E l \in Lines : EndOfStream(l)) \/ UNCHANGED vars
  PROVE  KeptWith(x)'
<1>1. UNCHANGED <<present, content, app, chk, told, floor>>
  BY DEF HeartbeatTickThrows, EndOfStream, ReceiverIdle, vars, R!vars, R!disk, R!env
<1>2. UNCHANGED <<senderVars, back, hb>>
  BY DEF HeartbeatTickThrows, EndOfStream, lineVars, recvVars, vars
<1> QED BY <1>1, <1>2, SilentKept

LEMMA NextKept ==
  ASSUME ChunkFilesLast, TransferInv, KeptInv, [Next]_vars
  PROVE  KeptInv'
<1>1. PICK x \in 0..NFiles : KeptWith(x) BY DEF KeptInv
<1>2. TransferInv' BY NextTransfer
<1>3. x \in Nat BY SenderAssumption
<1>4. KeptWith(x)'
  <2>1. ASSUME NEW l \in Lines, SenderReceives(l) PROVE KeptWith(x)'
    BY <1>1, <1>3, <2>1, SenderReceivesKept
  <2>2. ASSUME NEW l \in Lines, LineConnects(l) PROVE KeptWith(x)' BY <1>1, <2>2, LineConnectsKept
  <2>3. ASSUME NEW l \in Lines, ReceiverReceives(l) PROVE KeptWith(x)'
    BY <1>1, <1>2, <2>3, ReceiverReceivesKept
  <2>4. ASSUME NEW l \in Lines, EndOfStream(l) PROVE KeptWith(x)' BY <1>1, <2>4, QuietStepsKept
  <2>5. ASSUME NEW l \in Lines, LineDrops(l) PROVE KeptWith(x)' BY <1>1, <2>5, LineDropsKept
  <2>6. CASE (\E credit \in Credits : TimerTick(credit)) \/ (\E m \in DOMAIN buffer : Overdue(m))
    BY <1>1, <2>6, TicksKept
  <2>7. CASE HeartbeatTick \/ CommitPollTick BY <1>1, <1>2, <2>7, PollKept
  <2>8. CASE HeartbeatTickThrows \/ UNCHANGED vars BY <1>1, <2>8, QuietStepsKept
  <2>9. CASE WriterThread BY <1>1, <1>2, <2>9, WriterThreadKept
  <2> QED BY <2>1, <2>2, <2>3, <2>4, <2>5, <2>6, <2>7, <2>8, <2>9 DEF Next, Progress
<1>5. PICK y \in 0..NFiles : y = x OBVIOUS
<1> QED BY <1>4 DEF KeptInv

LEMMA InitKept ==
  ASSUME Grown = {}, Init
  PROVE  KeptInv
<1>1. RP!Init BY SameInit DEF Init
<1>2. PICK x \in 0..NFiles : RP!Resuming(x) BY <1>1, RP!InitResuming, T0
<1>3. PICK W, n : W = RP!WholeFiles /\ n = Now(0, << >>) OBVIOUS
<1>4. n.task = [k \in Files |-> FreshTask(k)] /\ n.buffer = << >>
  BY <1>3 DEF Now, Init, SenderInit
<1>5. Held(n) = {} BY <1>4 DEF Held
<1>6. ASSUME NEW k \in Files PROVE FileKept(n.task[k], k, Working(n, k), Held(n))
  <2>1. n.task[k] = FreshTask(k) BY <1>4
  <2> QED BY <1>5, <2>1 DEF FileKept, ChunkKept, AppendKept, FreshTask, FreshAppend
<1>7. NeverCreated(n, x)
  <2>1. x # 0 => x \in Files /\ ~ChunkMode(x)
    BY <1>2, SenderAssumption DEF RP!Resuming, RP!ChunkMode, ChunkMode, Files
  <2>2. x # 0 => n.task[x] = FreshTask(x) BY <1>4, <2>1
  <2> QED BY <1>5, <2>1, <2>2 DEF NeverCreated, FreshTask, FreshAppend
<1>8. Kept(n, W, x) BY <1>6, <1>7 DEF Kept
<1>9. PICK A, H : A = CandidAnswers(told, floor, W, x) /\ H = CandidReports(told, W, x) OBVIOUS
<1>10. NetIn(ReceiverNet, A, H)
  <2>1. << >> \in Seq(A) OBVIOUS
  <2>2. ReceiverNet = [hb |-> [l \in Lines |-> NoHeartbeat], back |-> [l \in Lines |-> << >>]]
    BY DEF ReceiverNet, Init
  <2> QED BY <2>1, <2>2 DEF NetIn
<1> QED BY <1>2, <1>3, <1>8, <1>9, <1>10 DEF KeptInv, KeptWith

\* What NothingForgotten asks for.
LEMMA KeptRemembers ==
  ASSUME TransferInv, KeptInv
  PROVE  NothingForgotten
<1>1. PICK x \in 0..NFiles : Kept(Now(0, << >>), RP!WholeFiles, x) BY DEF KeptInv, KeptWith
<1>2. PICK s : s = Now(0, << >>) OBVIOUS
<1>3. s.cur = cur /\ s.task = task /\ s.applied = applied BY <1>2 DEF Now
<1> SUFFICES ASSUME Active(s), ~R!Whole(cur)
             PROVE  IF task[cur].chunked THEN ChunkKept(task[cur], cur, Held(s))
                    ELSE /\ task[cur].append.created => Create(cur) \in Held(s)
                         /\ task[cur].append.data => Data(cur, task[cur].append.next) \in Held(s)
  BY <1>2 DEF NothingForgotten, ChunkKept
<1>4. cur \in Files BY <1>3 DEF Active
<1>5. cur \notin RP!WholeFiles BY DEF RP!WholeFiles, RP!Whole, R!Whole
<1>6. FileKept(task[cur], cur, Working(s, cur), Held(s)) BY <1>1, <1>2, <1>3, <1>4, <1>5 DEF Kept
<1>7. task[cur].chunked => ChunkMode(cur)
  BY <1>2, <1>3, <1>4 DEF TransferInv, SystemInv, Ok, Base, TasksOk, TaskOk
<1>8. ~task[cur].chunked => ~ChunkMode(cur)
  BY <1>2, <1>3, <1>4 DEF TransferInv, SystemInv, Ok, Base, TasksOk, TaskOk
<1> QED BY <1>6, <1>7, <1>8 DEF FileKept, AppendKept

\* For every number and size of files, of lines, credits, retries and lost
\* connections: what the active task waits for (a FILE_BEGIN or CREATE without
\* its answer, a chunk without its acknowledgement, a FILE_COMMIT, the DATA in
\* flight) is in the send buffer, from where it is sent again, unless the
\* receiver already has the whole file (erase_completed, on_lost_sends and
\* mark_retransmitted of the sender).  CREATE/DATA files come before chunk files.
THEOREM NothingIsForgotten ==
  ASSUME Grown = {}, ChunkFilesLast
  PROVE  Spec => []NothingForgotten
<1>1. Init => TransferInv /\ KeptInv BY InitTransfer, InitKept
<1>2. TransferInv /\ KeptInv /\ [Next]_vars => TransferInv' /\ KeptInv' BY NextTransfer, NextKept
<1>3. TransferInv /\ KeptInv => NothingForgotten BY KeptRemembers
<1> QED BY <1>1, <1>2, <1>3, PTL DEF Spec

=============================================================================
