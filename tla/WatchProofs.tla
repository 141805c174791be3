---------------------------- MODULE WatchProofs ----------------------------
(***************************************************************************)
(* Theorems about Watch, for every directory tree, watch backend, length   *)
(* of the kernel's queue and number of connections.                        *)
(***************************************************************************)
EXTENDS Watch, FiniteSetTheorems, SequenceTheorems, TLAPS

Types ==
  /\ src \in [Entries -> Int]
  /\ snapshot \in [Entries -> Int]
  /\ manifest \in [Entries -> [size : Int, sum : Int]]
  /\ task \in [Entries -> [size : Int, full : Int]]
  /\ events \in Seq(Entries \cup {Overflow})
  /\ watched \subseteq Dirs \cup {Root}
  /\ flags \in [dirty : BOOLEAN, overflow : BOOLEAN, storing : BOOLEAN]
  /\ at \in {"scan", "sum", "files", "full", "start", "idle", "descend", "poll", "dirty", "polled"}
  /\ entry \in Entries \cup {Root}
  /\ left \subseteq Entries
  /\ backend \in {"polling", "inotify", "fsevents"}

\* The source only grows, in manifest order; nobody knows more than it has.
GrowInv ==
  \A e \in Entries :
    /\ Absent <= snapshot[e] /\ snapshot[e] <= src[e]
    /\ Absent <= manifest[e].size /\ manifest[e].size <= src[e]
    /\ \A j \in 1..(e - 1) : /\ src[e] # Absent => src[j] # Absent
                             /\ snapshot[e] # Absent => snapshot[j] # Absent

\* Where the event loop can be, and where a reported change is remembered.
ControlInv ==
  /\ changed => watching /\ at \in {"poll", "descend", "dirty", "polled"}
  /\ at \in {"dirty", "polled"} => backend = "fsevents"
  /\ at = "poll" => backend \in {"inotify", "fsevents"} /\ (backend = "fsevents" => ~changed)
  /\ at = "descend" => backend = "inotify" /\ entry \in Dirs \cup {Root}
                       /\ (watching => changed) /\ (~watching => entry = Root)
  /\ at \in {"idle", "poll", "dirty", "polled"} => watching
  /\ at = "start" => ~watching
  /\ at = "sum" => entry \in Files \cap left /\ Parent[entry] \notin left
  /\ backend = "inotify" /\ (watching \/ at = "descend") => Root \in watched

\* A directory is read before its entries, by both passes.
PassInv ==
  /\ at \in {"scan", "sum", "files"} => \A e \in Entries : Parent[e] \in left => e \in left
  /\ \A e \in Entries :
       /\ ToBeRead(e) => manifest[e].size = Absent
       /\ manifest[e].size # Absent /\ Parent[e] # Root => manifest[Parent[e]].size # Absent
       /\ at \in {"scan", "sum"} /\ ~ToBeRead(e) /\ snapshot[e] # Absent
            => manifest[e].size # Absent
       /\ manifest[e].size # Absent /\ (at = "files" => e \notin left)
            /\ at \notin {"scan", "sum"} => task[e].size >= manifest[e].size

\* inotify: a directory without a watch will get one, as the event of a
\* directory above it, or an overflow, is still to be handled.
Announced(d) ==
  \/ Overflow \in Range(events)
  \/ \E a \in Dirs : a \in Range(events) /\ d \in Below[a]
  \/ at = "descend" /\ d \in Below[entry]

WatchInv ==
  backend = "inotify" /\ (watching \/ at = "descend") =>
    \A d \in Dirs : src[d] # Absent /\ d \notin watched => Announced(d)

\* Polling looks at files only; the others notice directories as well.
StaleInv ==
  ~early => \A e \in Entries :
    src[e] # manifest[e].size /\ (watching /\ backend = "polling" => e \in Files)
      => ToBeRead(e) \/ (watching /\ Noticed)

IInv == Types /\ GrowInv /\ ControlInv /\ PassInv /\ WatchInv /\ StaleInv

-----------------------------------------------------------------------------
(* The kernel's queue.                                                      *)

\* What is in a queue.
LEMMA RangeIs ==
  ASSUME NEW S, NEW q \in Seq(S)
  PROVE  Range(q) = {q[i] : i \in 1..Len(q)}
  BY DEF Range

\* Appending to the queue keeps what is in it.
LEMMA AppendRange ==
  ASSUME NEW S, NEW q \in Seq(S), NEW x \in S
  PROVE  /\ Append(q, x) \in Seq(S) /\ Append(q, x) # << >>
         /\ Range(Append(q, x)) = Range(q) \cup {x}
<1> DEFINE a == Append(q, x)
<1>1. a \in Seq(S) /\ a # << >> /\ Len(a) = Len(q) + 1 /\ Len(q) \in Nat
  OBVIOUS
<1>2. a[Len(q) + 1] = x /\ \A i \in 1..Len(q) : a[i] = q[i]
  OBVIOUS
<1>3. \A i \in 1..Len(a) : i \in 1..Len(q) \/ i = Len(q) + 1
  BY <1>1
<1> HIDE DEF a
<1>4. Range(a) = {a[i] : i \in 1..Len(a)} /\ Range(q) = {q[i] : i \in 1..Len(q)}
  BY <1>1, RangeIs
<1>5. Range(a) = Range(q) \cup {x}
  BY <1>1, <1>2, <1>3, <1>4
<1> QED
  BY <1>1, <1>5 DEF a

\* Taking the head loses nothing else.
LEMMA TailRange ==
  ASSUME NEW S, NEW q \in Seq(S), q # << >>
  PROVE  /\ Tail(q) \in Seq(S) /\ Head(q) \in S
         /\ Range(q) \subseteq Range(Tail(q)) \cup {Head(q)}
<1>1. Tail(q) \in Seq(S) /\ Head(q) \in S /\ Len(q) \in Nat \ {0} /\ Len(Tail(q)) = Len(q) - 1
  OBVIOUS
<1>2. \A i \in 1..Len(Tail(q)) : Tail(q)[i] = q[i + 1]
  OBVIOUS
<1>3. Head(q) = q[1]
  OBVIOUS
<1>4. ASSUME NEW i \in 1..Len(q) PROVE q[i] = Head(q) \/ (i - 1 \in 1..Len(Tail(q)) /\ q[i] = Tail(q)[i - 1])
  BY <1>1, <1>2, <1>3
<1>5. Range(q) = {q[i] : i \in 1..Len(q)}
      /\ Range(Tail(q)) = {Tail(q)[i] : i \in 1..Len(Tail(q))}
  BY <1>1, RangeIs
<1> QED
  BY <1>1, <1>2, <1>3, <1>4, <1>5

\* A queue with something in it is not empty.
LEMMA RangeNonEmpty ==
  ASSUME NEW q, NEW x \in Range(q)
  PROVE  q # << >>
  BY DEF Range

-----------------------------------------------------------------------------
\* The tree: an entry comes after its directory and is below whatever that
\* is below.
LEMMA TreeFacts ==
  ASSUME NEW e \in Entries
  PROVE  /\ e \in Int
         /\ Parent[e] \in Dirs \cup {Root}
         /\ Parent[e] # e
         /\ Parent[e] # Root => Parent[e] \in Dirs
         /\ Parent[e] \in Dirs => Parent[e] \in Entries /\ Parent[e] \in 1..(e - 1)
         /\ e \in Below[Root]
         /\ \A d \in Dirs : Parent[e] \in Below[d] => e \in Below[d]
<1>1. e \in Int /\ Parent[e] \in Dirs \cup {Root} /\ Parent[e] < e /\ Root = 0
  BY WatchAssumption DEF Entries, Root
<1>2. Dirs \subseteq Entries
  BY WatchAssumption
<1>3. Parent[e] \in Dirs => Parent[e] \in Int /\ 1 <= Parent[e]
  <2>1. \A x \in Entries : x \in Int /\ 1 <= x
    BY WatchAssumption DEF Entries
  <2> QED
    BY <1>2, <2>1
<1>4. Parent[e] \in Dirs => Parent[e] \in 1..(e - 1)
  BY <1>1, <1>3
<1>5. Parent[e] # e
  BY <1>1, <1>3
<1>6. e \in Below[Root] /\ \A d \in Dirs : Parent[e] \in Below[d] => e \in Below[d]
  BY WatchAssumption
<1> QED
  BY <1>1, <1>2, <1>4, <1>5, <1>6

\* An entry before another is an entry.
LEMMA BeforeIsEntry ==
  ASSUME NEW e \in Entries, NEW j \in 1..(e - 1)
  PROVE  j \in Entries
  BY WatchAssumption DEF Entries

-----------------------------------------------------------------------------
\* A sender that has not read anything has missed nothing.
LEMMA InitIInv == Init => IInv
<1> SUFFICES ASSUME Init PROVE IInv
  OBVIOUS
<1>1. Types
  BY WatchAssumption DEF Init, Types, Entries, Files, Root, Absent, NoEntry, NoTask, NoFlags
<1>2. GrowInv
  BY WatchAssumption DEF Init, GrowInv, Entries, Absent, NoEntry
<1>3. ControlInv
  BY DEF Init, ControlInv
<1>4. PassInv
  BY WatchAssumption DEF Init, PassInv, ToBeRead, Entries, Absent, NoEntry
<1>5. WatchInv
  BY DEF Init, WatchInv
<1>6. StaleInv
  BY DEF Init, StaleInv, ToBeRead
<1> QED
  BY <1>1, <1>2, <1>3, <1>4, <1>5, <1>6 DEF IInv

\* The exchange with the receiver: it may move a deferred rescan to the
\* timer, and touches nothing else the invariant speaks of.
LEMMA ExchangeIInv ==
  ASSUME IInv, UNCHANGED <<source, notices, loop, scan, backend>>,
         scheduled \/ pending => scheduled' \/ pending'
  PROVE  IInv'
<1>1. Types' /\ GrowInv'
  BY DEF IInv, Types, GrowInv, source, notices, loop, scan
<1>2. ControlInv'
  BY DEF IInv, ControlInv, source, notices, loop, scan
<1>3. PassInv'
  BY DEF IInv, PassInv, ToBeRead, source, notices, loop, scan
<1>4. WatchInv'
  BY DEF IInv, WatchInv, Announced, source, notices, loop, scan
<1>5. StaleInv'
  BY DEF IInv, StaleInv, ToBeRead, Noticed, source, notices, loop, scan
<1> QED
  BY <1>1, <1>2, <1>3, <1>4, <1>5 DEF IInv

-----------------------------------------------------------------------------
(* The writers of the source.                                               *)

\* Reading is never ahead of the queue: a change in a directory that inotify
\* watches is queued, one elsewhere is below a directory announced there.
LEMMA NotifiedFacts ==
  ASSUME Types, NEW e \in Entries
  PROVE  /\ Notified(e) \in Seq(Entries \cup {Overflow})
         /\ Range(events) \subseteq Range(Notified(e))
         /\ events # << >> => Notified(e) # << >>
         /\ (backend = "inotify" /\ Parent[e] \in watched) \/ (backend = "fsevents" /\ watching)
              => /\ Notified(e) # << >>
                 /\ e \in Range(Notified(e)) \/ Overflow \in Range(Notified(e))
<1>1. e \in Entries \cup {Overflow} /\ Overflow \in Entries \cup {Overflow}
  OBVIOUS
<1>2. events \in Seq(Entries \cup {Overflow})
  BY DEF Types
<1>3. CASE Notified(e) = Append(events, e)
  BY <1>1, <1>2, <1>3, AppendRange
<1>4. CASE Notified(e) = Append(events, Overflow)
  BY <1>1, <1>2, <1>4, AppendRange
<1>5. CASE /\ Notified(e) = events
           /\ backend = "polling" \/ (backend = "fsevents" /\ ~watching)
                \/ (backend = "inotify" /\ Parent[e] \notin watched)
  BY <1>2, <1>5
<1>6. CASE Notified(e) = events /\ Overflow \in Range(events)
  BY <1>2, <1>6, RangeNonEmpty
<1> QED
  BY <1>3, <1>4, <1>5, <1>6 DEF Notified

\* A write the watchers can see is queued or announced; one they cannot see
\* yet is early or still to be read.
LEMMA ChangeIInv ==
  ASSUME IInv, NEW e \in Entries, NEW size \in Int, Change(e, size),
         src[e] < size, \A j \in 1..(e - 1) : src[j] # Absent
  PROVE  IInv'
<1>1. /\ src' \in [Entries -> Int]
      /\ src'[e] = size
      /\ \A x \in Entries : x # e => src'[x] = src[x]
      /\ events' = Notified(e)
      /\ UNCHANGED <<watched, snapshot, flags, watching, scheduled, pending, at, entry, left,
                     changed, manifest, task, backend>>
      /\ early' = (early \/ ~(watching \/ ToBeRead(e)))
  BY DEF Change, IInv, Types, timers, loop, scan
<1>2. Types'
  BY <1>1, NotifiedFacts DEF IInv, Types
<1>3. GrowInv'
  <2>1. \A x \in Entries :
          /\ src[x] \in Int /\ snapshot[x] \in Int /\ manifest[x].size \in Int
          /\ Absent <= snapshot[x] /\ snapshot[x] <= src[x]
          /\ Absent <= manifest[x].size /\ manifest[x].size <= src[x]
    BY DEF IInv, GrowInv, Types
  <2>2. \A x \in Entries : src'[x] \in Int /\ src[x] <= src'[x]
    <3> TAKE x \in Entries
    <3>1. CASE x = e
      BY <1>1, <2>1, <3>1
    <3>2. CASE x # e
      BY <1>1, <2>1, <3>2
    <3> QED
      BY <3>1, <3>2
  <2>3. \A x \in Entries : /\ Absent <= snapshot'[x] /\ snapshot'[x] <= src'[x]
                           /\ Absent <= manifest'[x].size /\ manifest'[x].size <= src'[x]
    BY <1>1, <2>1, <2>2
  <2>4. ASSUME NEW x \in Entries, NEW j \in 1..(x - 1), src'[x] # Absent
        PROVE  src'[j] # Absent
    <3>1. j \in Entries
      BY BeforeIsEntry
    <3>2. src[j] # Absent
      BY <1>1, <2>4 DEF IInv, GrowInv
    <3> QED
      BY <2>1, <2>2, <3>1, <3>2 DEF Absent
  <2>5. \A x \in Entries : \A j \in 1..(x - 1) : snapshot'[x] # Absent => snapshot'[j] # Absent
    BY <1>1 DEF IInv, GrowInv
  <2> QED
    BY <2>3, <2>4, <2>5 DEF GrowInv
<1>4. ControlInv'
  BY <1>1 DEF IInv, ControlInv
<1>5. PassInv'
  BY <1>1 DEF IInv, PassInv, ToBeRead
<1>6. backend = "inotify" /\ (watching \/ at = "descend") =>
        Parent[e] \in watched \/ (Parent[e] \in Dirs /\ Announced(Parent[e]))
  <2>1. Parent[e] \in Dirs => src[Parent[e]] # Absent
    BY TreeFacts
  <2> QED
    BY <2>1, TreeFacts DEF IInv, ControlInv, WatchInv
<1>7. \A d \in Dirs : Announced(d) => Announced(d)'
  BY <1>1, NotifiedFacts DEF IInv, Announced
<1>8. WatchInv'
  <2> SUFFICES ASSUME NEW d \in Dirs, backend = "inotify", watching \/ at = "descend",
                      src'[d] # Absent, d \notin watched
               PROVE  Announced(d)'
    BY <1>1 DEF WatchInv
  <2>0. Dirs \subseteq Entries /\ d \in Below[d]
    BY WatchAssumption
  <2>1. CASE d # e
    BY <1>1, <1>7, <2>0, <2>1 DEF IInv, WatchInv
  <2>2. CASE d = e /\ Parent[e] \in watched
    BY <1>1, <2>0, <2>2, NotifiedFacts DEF IInv, Announced
  <2>3. CASE d = e /\ Parent[e] \in Dirs /\ Announced(Parent[e])
    <3>1. Announced(e)
      BY <2>3, TreeFacts DEF IInv, ControlInv, Announced
    <3> QED
      BY <1>7, <2>3, <3>1
  <2> QED
    BY <1>6, <2>1, <2>2, <2>3
<1>9. StaleInv'
  <2> SUFFICES ASSUME ~early', NEW x \in Entries, src'[x] # manifest'[x].size,
                      watching' /\ backend' = "polling" => x \in Files
               PROVE  ToBeRead(x)' \/ (watching' /\ Noticed')
    BY DEF StaleInv
  <2>1. \A y \in Entries : ToBeRead(y)' = ToBeRead(y)
    BY <1>1 DEF ToBeRead
  <2>2. Noticed => Noticed'
    <3>1. \A f \in Files : src[f] # snapshot[f] => src'[f] # snapshot'[f]
      BY <1>1 DEF IInv, GrowInv, Types, Files
    <3>2. events # << >> => events' # << >>
      BY <1>1, NotifiedFacts DEF IInv
    <3> QED
      BY <1>1, <3>1, <3>2 DEF Noticed
  <2>3. CASE x # e
    BY <1>1, <2>1, <2>2, <2>3 DEF IInv, StaleInv
  <2>4. CASE x = e /\ ~watching
    BY <1>1, <2>1, <2>4
  <2>5. CASE x = e /\ watching /\ backend = "polling"
    BY <1>1, <2>5 DEF IInv, GrowInv, Types, Noticed
  <2>6. CASE x = e /\ watching /\ backend = "fsevents"
    BY <1>1, <2>6, NotifiedFacts DEF IInv, Noticed
  <2>7. CASE x = e /\ watching /\ backend = "inotify"
    <3>1. events' # << >> \/ changed
      <4>1. CASE Parent[e] \in watched
        BY <1>1, <2>7, <4>1, NotifiedFacts DEF IInv
      <4>2. CASE Announced(Parent[e])
        BY <1>1, <2>7, <4>2, NotifiedFacts, RangeNonEmpty DEF IInv, Announced, ControlInv
      <4> QED
        BY <1>6, <2>7, <4>1, <4>2
    <3> QED
      BY <1>1, <2>7, <3>1 DEF Noticed
  <2> QED
    BY <2>3, <2>4, <2>5, <2>6, <2>7 DEF IInv, Types
<1> QED
  BY <1>2, <1>3, <1>4, <1>5, <1>8, <1>9 DEF IInv

\* Both writes make the source grow.
LEMMA WritersIInv == IInv /\ Writers => IInv'
<1> SUFFICES ASSUME IInv, NEW e \in Entries, Appear(e) \/ Grow(e) PROVE IInv'
  BY DEF Writers
<1>1. src[e] \in Int
  BY DEF IInv, Types
<1>2. CASE Appear(e)
  <2>1. src[e] < 0 /\ 0 \in Int
    BY <1>2 DEF Appear, Absent
  <2> QED
    BY <1>2, <2>1, ChangeIInv DEF Appear
<1>3. CASE Grow(e)
  <2>1. src[e] # Absent /\ src[e] < src[e] + 1 /\ src[e] + 1 \in Int
    BY <1>1, <1>3, WatchAssumption DEF Grow, Absent
  <2>2. \A j \in 1..(e - 1) : src[j] # Absent
    BY <2>1 DEF IInv, GrowInv
  <2> QED
    BY <1>3, <2>1, <2>2, ChangeIInv DEF Grow
<1> QED
  BY <1>2, <1>3

-----------------------------------------------------------------------------
(* The scan.                                                                *)

\* What a pass over the directory finds of an entry is what is there, unless
\* the entry's directory was not there when the pass came by.
LEMMA ReadSizeIInv ==
  ASSUME IInv, NEW e \in Entries, ReadSize(e)
  PROVE  IInv'
<1> DEFINE r == Reads(e, manifest)
<1>1. /\ at = "scan" /\ e \in left /\ Parent[e] \notin left
      /\ manifest' = [manifest EXCEPT ![e].size = r]
      /\ \/ e \in Files /\ r # Absent /\ at' = "sum" /\ entry' = e /\ left' = left
         \/ ~(e \in Files /\ r # Absent) /\ at' = at /\ entry' = entry /\ left' = left \ {e}
      /\ UNCHANGED <<src, early, events, watched, snapshot, flags, watching, scheduled, pending,
                     changed, task, backend>>
  BY DEF ReadSize, CanRead, source, notices, timers
<1>2. r \in Int /\ Absent <= r /\ r <= src[e]
  <2>1. src[e] \in Int /\ Absent <= src[e]
    BY DEF IInv, Types, GrowInv, Absent
  <2> QED
    BY <2>1 DEF Reads, Absent
<1> HIDE DEF r
<1>3. /\ manifest' \in [Entries -> [size : Int, sum : Int]]
      /\ manifest'[e].size = r
      /\ \A x \in Entries : x # e => manifest'[x] = manifest[x]
  BY <1>1, <1>2 DEF IInv, Types
<1>4. \A x \in Entries : ToBeRead(x)' <=> ToBeRead(x) /\ x # e
  BY <1>1 DEF ToBeRead
<1>5. ToBeRead(e) /\ manifest[e].size = Absent
  BY <1>1 DEF IInv, PassInv, ToBeRead
<1>6. Types'
  BY <1>1, <1>3 DEF IInv, Types
<1>7. GrowInv'
  BY <1>1, <1>2, <1>3 DEF IInv, GrowInv
<1>8. ControlInv'
  BY <1>1 DEF IInv, ControlInv
<1>9. r # Absent /\ Parent[e] # Root => manifest[Parent[e]].size # Absent
  BY DEF r, Reads
<1>10. r = Absent /\ src[e] # Absent =>
         /\ Parent[e] \in Dirs /\ manifest[Parent[e]].size = Absent
         /\ src[Parent[e]] # Absent /\ ~ToBeRead(Parent[e])
  <2> SUFFICES ASSUME r = Absent, src[e] # Absent
               PROVE  /\ Parent[e] \in Dirs /\ manifest[Parent[e]].size = Absent
                      /\ src[Parent[e]] # Absent /\ ~ToBeRead(Parent[e])
    OBVIOUS
  <2>1. Parent[e] # Root /\ manifest[Parent[e]].size = Absent
    BY DEF r, Reads
  <2>2. Parent[e] \in Dirs /\ Parent[e] \in 1..(e - 1)
    BY <2>1, TreeFacts
  <2> QED
    BY <1>1, <2>1, <2>2 DEF IInv, GrowInv, ToBeRead
<1>11. PassInv'
  <2>1. \A x \in Entries : Parent[x] \in left' => x \in left'
    BY <1>1 DEF IInv, PassInv
  <2>2. \A x \in Entries : ToBeRead(x)' => manifest'[x].size = Absent
    BY <1>3, <1>4 DEF IInv, PassInv
  <2>3. ASSUME NEW x \in Entries, manifest'[x].size # Absent, Parent[x] # Root
        PROVE  manifest'[Parent[x]].size # Absent
    <3>1. Parent[x] \in Entries /\ Parent[x] # x
      BY <2>3, TreeFacts
    <3>2. CASE x = e
      BY <1>3, <1>9, <2>3, <3>1, <3>2
    <3>3. CASE x # e
      BY <1>3, <1>5, <2>3, <3>1, <3>3 DEF IInv, PassInv
    <3> QED
      BY <3>2, <3>3
  <2>4. ASSUME NEW x \in Entries, ~ToBeRead(x)', snapshot'[x] # Absent
        PROVE  manifest'[x].size # Absent
    <3>1. CASE x # e
      BY <1>1, <1>3, <1>4, <2>4, <3>1 DEF IInv, PassInv
    <3>2. CASE x = e
      <4> SUFFICES ASSUME r = Absent PROVE FALSE
        BY <1>3, <3>2
      <4>1. src[e] # Absent
        BY <1>1, <2>4, <3>2 DEF IInv, Types, GrowInv, Absent
      <4>2. snapshot[Parent[e]] # Absent
        BY <1>1, <1>10, <2>4, <3>2, <4>1, TreeFacts DEF IInv, GrowInv
      <4> QED
        BY <1>1, <1>10, <4>1, <4>2, TreeFacts DEF IInv, PassInv
    <3> QED
      BY <3>1, <3>2
  <2> QED
    BY <1>1, <2>1, <2>2, <2>3, <2>4 DEF PassInv
<1>12. WatchInv'
  BY <1>1 DEF IInv, WatchInv, Announced, ControlInv
<1>13. StaleInv'
  <2> SUFFICES ASSUME ~early', NEW x \in Entries, src'[x] # manifest'[x].size,
                      watching' /\ backend' = "polling" => x \in Files
               PROVE  ToBeRead(x)' \/ (watching' /\ Noticed')
    BY DEF StaleInv
  <2>1. Noticed' = Noticed
    BY <1>1 DEF Noticed
  <2>2. CASE x # e
    BY <1>1, <1>3, <1>4, <2>1, <2>2 DEF IInv, StaleInv
  <2>3. CASE x = e
    <3>1. r = Absent /\ src[e] # Absent
      BY <1>1, <1>3, <2>3 DEF r, Reads
    <3>2. /\ Parent[e] \in Entries /\ src[Parent[e]] # manifest[Parent[e]].size
          /\ ~ToBeRead(Parent[e])
      BY <1>10, <3>1, TreeFacts
    <3>3. CASE ~(watching /\ backend = "polling")
      BY <1>1, <2>1, <3>2, <3>3 DEF IInv, StaleInv
    <3>4. CASE watching /\ backend = "polling"
      <4>1. snapshot[Parent[e]] = Absent
        BY <1>1, <1>10, <3>1, <3>2 DEF IInv, PassInv
      <4>2. snapshot[e] = Absent
        BY <1>10, <3>1, <4>1, TreeFacts DEF IInv, GrowInv
      <4> QED
        BY <1>1, <2>1, <2>3, <3>1, <3>4, <4>2 DEF Noticed
    <3> QED
      BY <3>3, <3>4
  <2> QED
    BY <2>2, <2>3
<1> QED
  BY <1>6, <1>7, <1>8, <1>11, <1>12, <1>13 DEF IInv

\* The checksum is read after the size and leaves it alone.
LEMMA ReadChecksumIInv ==
  ASSUME IInv, ReadChecksum
  PROVE  IInv'
<1>1. /\ at = "sum" /\ at' = "scan" /\ left' = left \ {entry}
      /\ manifest' = [manifest EXCEPT ![entry].sum = src[entry]]
      /\ UNCHANGED <<src, early, events, watched, snapshot, flags, watching, scheduled, pending,
                     entry, changed, task, backend>>
  BY DEF ReadChecksum, source, notices, timers
<1>2. entry \in Entries /\ entry \in left /\ Parent[entry] \notin left
  BY <1>1 DEF IInv, ControlInv, Files
<1>3. /\ manifest' \in [Entries -> [size : Int, sum : Int]]
      /\ \A x \in Entries : manifest'[x].size = manifest[x].size
  BY <1>1, <1>2 DEF IInv, Types
<1>4. \A x \in Entries : ToBeRead(x)' = ToBeRead(x)
  BY <1>1 DEF ToBeRead
<1>5. Types'
  BY <1>1, <1>3 DEF IInv, Types
<1>6. GrowInv'
  BY <1>1, <1>3 DEF IInv, GrowInv
<1>7. ControlInv'
  BY <1>1 DEF IInv, ControlInv
<1>8. PassInv'
  <2>1. \A x \in Entries : Parent[x] \in left' => x \in left'
    BY <1>1, <1>2 DEF IInv, PassInv
  <2>2. \A x \in Entries : Parent[x] # Root => Parent[x] \in Entries
    BY TreeFacts
  <2> QED
    BY <1>1, <1>3, <1>4, <2>1, <2>2 DEF IInv, PassInv
<1>9. WatchInv'
  BY <1>1 DEF IInv, WatchInv, Announced, ControlInv
<1>10. StaleInv'
  BY <1>1, <1>3, <1>4 DEF IInv, StaleInv, Noticed
<1> QED
  BY <1>5, <1>6, <1>7, <1>8, <1>9, <1>10 DEF IInv

\* The second scan finds every entry the first one found: the directory of a
\* listed entry is listed, so by now it is among the tasks.
LEMMA ReadTaskIInv ==
  ASSUME IInv, NEW e \in Entries, ReadTask(e)
  PROVE  IInv'
<1> DEFINE r == Reads(e, task)
<1>1. /\ at = "files" /\ e \in left /\ Parent[e] \notin left
      /\ task' = [task EXCEPT ![e].size = r]
      /\ left' = left \ {e}
      /\ UNCHANGED <<src, early, events, watched, snapshot, flags, watching, scheduled, pending,
                     at, entry, changed, manifest, backend>>
  BY DEF ReadTask, CanRead, source, notices, timers
<1>2. src[e] \in Int /\ manifest[e].size \in Int /\ manifest[e].size <= src[e]
  BY DEF IInv, Types, GrowInv
<1>3. r \in Int
  BY <1>2 DEF Reads, Absent
<1>4. manifest[e].size # Absent => r >= manifest[e].size
  <2> SUFFICES ASSUME manifest[e].size # Absent PROVE r >= manifest[e].size
    OBVIOUS
  <2>1. CASE Parent[e] = Root
    BY <1>2, <2>1 DEF Reads
  <2>2. CASE Parent[e] # Root
    <3>1. Parent[e] \in Entries
      BY <2>2, TreeFacts
    <3>2. manifest[Parent[e]].size # Absent
      BY <2>2 DEF IInv, PassInv
    <3>3. task[Parent[e]].size >= manifest[Parent[e]].size
      BY <1>1, <3>1, <3>2 DEF IInv, PassInv
    <3>4. Absent <= manifest[Parent[e]].size
      BY <3>1 DEF IInv, GrowInv
    <3>5. task[Parent[e]].size \in Int /\ manifest[Parent[e]].size \in Int
      BY <3>1 DEF IInv, Types
    <3>6. task[Parent[e]].size # Absent
      BY <3>2, <3>3, <3>4, <3>5 DEF Absent
    <3> QED
      BY <1>2, <3>6 DEF Reads
  <2> QED
    BY <2>1, <2>2
<1> HIDE DEF r
<1>5. /\ task' \in [Entries -> [size : Int, full : Int]]
      /\ task'[e].size = r
      /\ \A x \in Entries : x # e => task'[x] = task[x]
  BY <1>1, <1>3 DEF IInv, Types
<1>6. Types'
  BY <1>1, <1>5 DEF IInv, Types
<1>7. GrowInv'
  BY <1>1 DEF IInv, GrowInv
<1>8. ControlInv'
  BY <1>1 DEF IInv, ControlInv
<1>9. PassInv'
  <2>1. \A x \in Entries : Parent[x] \in left' => x \in left'
    BY <1>1 DEF IInv, PassInv
  <2>2. \A x \in Entries : manifest[x].size # Absent /\ x \notin left' => task'[x].size >= manifest[x].size
    BY <1>1, <1>4, <1>5 DEF IInv, PassInv
  <2> QED
    BY <1>1, <2>1, <2>2 DEF IInv, PassInv, ToBeRead
<1>10. WatchInv'
  BY <1>1 DEF IInv, WatchInv, Announced, ControlInv
<1>11. StaleInv'
  BY <1>1 DEF IInv, StaleInv, Noticed, ToBeRead
<1> QED
  BY <1>6, <1>7, <1>8, <1>9, <1>10, <1>11 DEF IInv

\* full_checksum leaves the sizes of the tasks alone.
LEMMA ReadFullIInv ==
  ASSUME IInv, NEW e \in Entries, ReadFull(e)
  PROVE  IInv'
<1>1. /\ at = "full" /\ left' = left \ {e}
      /\ task' = [task EXCEPT ![e].full = src[e]]
      /\ UNCHANGED <<src, early, events, watched, snapshot, flags, watching, scheduled, pending,
                     at, entry, changed, manifest, backend>>
  BY DEF ReadFull, source, notices, timers
<1>2. /\ task' \in [Entries -> [size : Int, full : Int]]
      /\ \A x \in Entries : task'[x].size = task[x].size
  BY <1>1 DEF IInv, Types
<1>3. Types' /\ GrowInv' /\ ControlInv'
  BY <1>1, <1>2 DEF IInv, Types, GrowInv, ControlInv
<1>4. PassInv'
  BY <1>1, <1>2 DEF IInv, PassInv, ToBeRead
<1>5. WatchInv'
  BY <1>1 DEF IInv, WatchInv, Announced, ControlInv
<1>6. StaleInv'
  BY <1>1 DEF IInv, StaleInv, Noticed, ToBeRead
<1> QED
  BY <1>3, <1>4, <1>5, <1>6 DEF IInv

\* The end of a pass: whatever is stale by now has been noticed.
LEMMA PassDoneIInv ==
  ASSUME IInv, PassDone
  PROVE  IInv'
<1>1. /\ left = {} /\ left' \subseteq Entries
      /\ \/ at = "scan" /\ at' = "files" /\ left' = Entries
         \/ at = "files" /\ at' = "full"
      /\ UNCHANGED <<src, early, events, watched, snapshot, flags, watching, scheduled, pending,
                     entry, changed, manifest, task, backend>>
  BY DEF PassDone, source, notices, timers, scan, Listed
<1>2. Types'
  BY <1>1 DEF IInv, Types
<1>3. GrowInv' /\ ControlInv'
  BY <1>1 DEF IInv, GrowInv, ControlInv
<1>4. PassInv'
  BY <1>1 DEF IInv, PassInv, ToBeRead
<1>5. WatchInv'
  BY <1>1 DEF IInv, WatchInv, Announced, ControlInv
<1>6. StaleInv'
  BY <1>1 DEF IInv, StaleInv, Noticed, ToBeRead
<1> QED
  BY <1>2, <1>3, <1>4, <1>5, <1>6 DEF IInv

\* The end of build_source_streams.
LEMMA BuildDoneIInv ==
  ASSUME IInv, BuildDone
  PROVE  IInv'
<1>1. /\ at = "full" /\ at' = IF watching THEN "idle" ELSE "start"
      /\ UNCHANGED <<src, early, events, watched, snapshot, flags, watching, scheduled, pending,
                     entry, left, changed, manifest, task, backend>>
  BY DEF BuildDone, source, notices, timers, scan
<1>2. Types' /\ GrowInv'
  BY <1>1 DEF IInv, Types, GrowInv
<1>3. ControlInv'
  BY <1>1 DEF IInv, ControlInv
<1>4. PassInv'
  BY <1>1 DEF IInv, PassInv, ToBeRead
<1>5. WatchInv'
  BY <1>1 DEF IInv, WatchInv, Announced, ControlInv
<1>6. StaleInv'
  BY <1>1 DEF IInv, StaleInv, Noticed, ToBeRead
<1> QED
  BY <1>2, <1>3, <1>4, <1>5, <1>6 DEF IInv

\* The debounced rescan forgets the manifest: everything is still to be read.
LEMMA RescanIInv ==
  ASSUME IInv, Rescan
  PROVE  IInv'
<1>1. CASE ~done
  BY <1>1, ExchangeIInv DEF Rescan, loop, scan
<1>2. CASE done
  <2>1. /\ at = "idle" /\ at' = "scan" /\ left' = Entries
        /\ manifest' = [e \in Entries |-> NoEntry]
        /\ task' = [e \in Entries |-> NoTask]
        /\ UNCHANGED <<src, early, events, watched, snapshot, flags, watching, pending, entry,
                       changed, backend>>
    BY <1>2 DEF Rescan, Idle, source, notices
  <2>2. Types'
    BY <2>1 DEF IInv, Types, NoEntry, NoTask, Absent
  <2>3. GrowInv'
    <3>1. \A e \in Entries : manifest'[e].size = Absent /\ src[e] \in Int /\ Absent <= src[e]
      BY <2>1 DEF IInv, Types, GrowInv, NoEntry, Absent
    <3> QED
      BY <2>1, <3>1 DEF IInv, GrowInv, Absent
  <2>4. ControlInv'
    BY <2>1 DEF IInv, ControlInv
  <2>5. PassInv'
    <3>1. \A x \in Entries : manifest'[x].size = Absent
      BY <2>1 DEF NoEntry
    <3>2. \A x \in Entries : ToBeRead(x)'
      BY <2>1 DEF ToBeRead
    <3> QED
      BY <2>1, <3>1, <3>2 DEF PassInv
  <2>6. WatchInv'
    BY <2>1 DEF IInv, WatchInv, Announced
  <2>7. StaleInv'
    BY <2>1 DEF StaleInv, ToBeRead
  <2> QED
    BY <2>2, <2>3, <2>4, <2>5, <2>6, <2>7 DEF IInv
<1> QED
  BY <1>1, <1>2

-----------------------------------------------------------------------------
(* The watchers.                                                            *)

\* Nothing has changed unseen before the watchers start, and inotify watches
\* the root before it looks for directories.
LEMMA StartWatchersIInv ==
  ASSUME IInv, StartWatchers
  PROVE  IInv'
<1>1. /\ at = "start" /\ ~watching /\ ~changed
      /\ UNCHANGED <<src, early, events, flags, scheduled, pending, left, changed, manifest, task,
                     backend>>
  BY DEF IInv, ControlInv, StartWatchers, source, timers, scan
<1>2. \/ /\ backend = "inotify" /\ at' = "descend" /\ entry' = Root /\ watched' = {Root}
         /\ UNCHANGED <<snapshot, watching>>
      \/ /\ backend # "inotify" /\ at' = "idle" /\ watching' = TRUE
         /\ snapshot' = IF backend = "polling" THEN src ELSE snapshot
         /\ UNCHANGED <<watched, entry>>
  BY DEF StartWatchers
<1>3. Types'
  BY <1>1, <1>2 DEF IInv, Types
<1>4. GrowInv'
  <2>1. \A e \in Entries : src[e] \in Int /\ snapshot[e] \in Int /\ manifest[e].size \in Int
    BY DEF IInv, Types
  <2>2. snapshot' = snapshot \/ snapshot' = src
    BY <1>2
  <2>3. \A e \in Entries : Absent <= src[e] /\ src[e] <= src[e]
    BY <2>1 DEF IInv, GrowInv, Absent
  <2> QED
    BY <1>1, <2>2, <2>3 DEF IInv, GrowInv
<1>5. ControlInv'
  BY <1>1, <1>2 DEF IInv, ControlInv
<1>6. PassInv'
  BY <1>1, <1>2 DEF IInv, PassInv, ToBeRead
<1>7. WatchInv'
  <2>1. \A d \in Dirs : d \in Below[Root]
    BY WatchAssumption
  <2> QED
    BY <1>1, <1>2, <2>1 DEF WatchInv, Announced
<1>8. StaleInv'
  BY <1>1, <1>2 DEF IInv, StaleInv, ToBeRead
<1> QED
  BY <1>3, <1>4, <1>5, <1>6, <1>7, <1>8 DEF IInv

\* add_recursive gives a watch to everything that was announced below entry.
LEMMA DescendIInv ==
  ASSUME IInv, Descend
  PROVE  IInv'
<1>1. /\ at = "descend" /\ backend = "inotify" /\ entry \in Dirs \cup {Root}
      /\ watched' = watched \cup {d \in Dirs \cap Below[entry] : src[d] # Absent}
      /\ watching' = TRUE /\ at' = IF watching THEN "poll" ELSE "idle"
      /\ UNCHANGED <<src, early, events, snapshot, flags, scheduled, pending, entry, left, changed,
                     manifest, task, backend>>
  BY DEF IInv, ControlInv, Descend, source, timers, scan
<1>2. Types' /\ GrowInv'
  BY <1>1 DEF IInv, Types, GrowInv
<1>3. ~watching => ~changed
  BY <1>1 DEF IInv, ControlInv
<1>4. ControlInv'
  BY <1>1, <1>3 DEF IInv, ControlInv
<1>5. PassInv'
  BY <1>1 DEF IInv, PassInv, ToBeRead
<1>6. WatchInv'
  BY <1>1 DEF IInv, WatchInv, Announced
<1>7. StaleInv'
  BY <1>1 DEF IInv, StaleInv, Noticed, ToBeRead
<1> QED
  BY <1>2, <1>4, <1>5, <1>6, <1>7 DEF IInv

\* The polling watcher takes its new snapshot and asks for a rescan if it
\* differs from the old one.
LEMMA PollScanIInv ==
  ASSUME IInv, PollScan
  PROVE  IInv'
<1>1. /\ at = "idle" /\ backend = "polling"
      /\ scheduled' = (scheduled \/ \E f \in Files : src[f] # snapshot[f])
      /\ snapshot' = src
      /\ UNCHANGED <<src, early, events, watched, flags, watching, pending, at, entry, left,
                     changed, manifest, task, backend>>
  BY DEF PollScan, Idle, Request, source, loop, scan
<1>2. Types'
  BY <1>1 DEF IInv, Types
<1>3. GrowInv'
  <2>1. \A e \in Entries : src[e] \in Int /\ snapshot[e] \in Int
    BY DEF IInv, Types
  <2>2. \A e \in Entries : Absent <= src[e] /\ src[e] <= src[e]
    BY <2>1 DEF IInv, GrowInv, Absent
  <2> QED
    BY <1>1, <2>2 DEF IInv, GrowInv
<1>4. ControlInv'
  BY <1>1 DEF IInv, ControlInv
<1>5. PassInv'
  BY <1>1 DEF IInv, PassInv, ToBeRead
<1>6. WatchInv'
  BY <1>1 DEF WatchInv
<1>7. StaleInv'
  <2>1. Noticed => Noticed'
    BY <1>1 DEF Noticed
  <2> QED
    BY <1>1, <2>1 DEF IInv, StaleInv, ToBeRead
<1> QED
  BY <1>2, <1>3, <1>4, <1>5, <1>6, <1>7 DEF IInv

\* A tick of watch_poll_tick begins.
LEMMA PollBeginIInv ==
  ASSUME IInv, PollBegin
  PROVE  IInv'
<1>1. /\ at = "idle" /\ backend # "polling" /\ at' = "poll"
      /\ UNCHANGED <<src, early, events, watched, snapshot, flags, watching, scheduled, pending,
                     entry, left, changed, manifest, task, backend>>
  BY DEF PollBegin, Idle, source, notices, timers, scan
<1>2. Types' /\ GrowInv'
  BY <1>1 DEF IInv, Types, GrowInv
<1>3. ControlInv'
  BY <1>1 DEF IInv, ControlInv, Types
<1>4. PassInv'
  BY <1>1 DEF IInv, PassInv, ToBeRead
<1>5. WatchInv'
  BY <1>1 DEF IInv, WatchInv, Announced, ControlInv
<1>6. StaleInv'
  BY <1>1 DEF IInv, StaleInv, Noticed, ToBeRead
<1> QED
  BY <1>2, <1>3, <1>4, <1>5, <1>6 DEF IInv

\* An event taken from the queue is remembered by changed, and the
\* directories it announced by the descent that follows.
LEMMA HandleEventIInv ==
  ASSUME IInv, HandleEvent
  PROVE  IInv'
<1> DEFINE h == Head(events)
<1>1. /\ at = "poll" /\ backend = "inotify" /\ events # << >> /\ events' = Tail(events) /\ changed'
      /\ \/ h = Overflow /\ at' = "descend" /\ entry' = Root /\ watched' = watched
         \/ h \in Dirs /\ at' = "descend" /\ entry' = h /\ watched' = watched \cup {h}
         \/ h # Overflow /\ h \notin Dirs /\ at' = at /\ entry' = entry /\ watched' = watched
      /\ UNCHANGED <<src, early, snapshot, flags, watching, scheduled, pending, left, manifest, task,
                     backend>>
  BY DEF HandleEvent, source, timers, scan
<1>2. watching
  BY <1>1 DEF IInv, ControlInv
<1>3. /\ events' \in Seq(Entries \cup {Overflow})
      /\ Range(events) \subseteq Range(events') \cup {h}
  BY <1>1, TailRange DEF IInv, Types
<1>4. Dirs \subseteq Entries /\ Overflow \notin Dirs
  BY WatchAssumption DEF Entries, Overflow
<1> HIDE DEF h
<1>5. Types' /\ GrowInv'
  BY <1>1, <1>3, <1>4 DEF IInv, Types, GrowInv
<1>6. ControlInv'
  BY <1>1, <1>2 DEF IInv, ControlInv
<1>7. PassInv'
  BY <1>1 DEF IInv, PassInv, ToBeRead
<1>8. WatchInv'
  <2> SUFFICES ASSUME NEW d \in Dirs, src[d] # Absent, d \notin watched' PROVE Announced(d)'
    BY <1>1 DEF WatchInv
  <2>1. Announced(d) /\ at # "descend"
    BY <1>1, <1>2 DEF IInv, WatchInv
  <2>2. d \in Below[Root]
    BY <1>4, WatchAssumption
  <2>3. CASE h = Overflow
    BY <1>1, <1>4, <2>2, <2>3 DEF Announced
  <2>4. CASE h # Overflow /\ Overflow \in Range(events)
    BY <1>3, <2>4 DEF Announced
  <2>5. CASE h # Overflow /\ \E a \in Dirs : a \in Range(events) /\ d \in Below[a]
    BY <1>1, <1>3, <2>5 DEF Announced
  <2> QED
    BY <2>1, <2>3, <2>4, <2>5 DEF Announced
<1>9. StaleInv'
  BY <1>1, <1>2 DEF StaleInv, Noticed
<1> QED
  BY <1>5, <1>6, <1>7, <1>8, <1>9 DEF IInv

\* The flags of FSEvents hold what the queue held until changed holds it.
LEMMA FlagsIInv ==
  ASSUME IInv, TakeOverflow \/ TakeDirty \/ Callback
  PROVE  IInv'
<1>1. /\ backend = "fsevents"
      /\ \/ at' = at /\ changed' = changed
         \/ at = "poll" /\ at' = "dirty" /\ changed' = flags.overflow
         \/ at = "dirty" /\ at' = "polled" /\ changed' = (changed \/ flags.dirty)
      /\ events' = events \/ events' = << >>
      /\ UNCHANGED <<src, early, watched, snapshot, watching, scheduled, pending, entry, left,
                     manifest, task, backend>>
  BY DEF IInv, ControlInv, TakeOverflow, TakeDirty, Callback, source, timers, loop, scan
<1>2. flags' \in [dirty : BOOLEAN, overflow : BOOLEAN, storing : BOOLEAN]
  BY DEF IInv, Types, TakeOverflow, TakeDirty, Callback
<1>3. events' \in Seq(Entries \cup {Overflow})
  <2>1. << >> \in Seq(Entries \cup {Overflow})
    OBVIOUS
  <2> QED
    BY <1>1, <2>1 DEF IInv, Types
<1>4. Types' /\ GrowInv'
  BY <1>1, <1>2, <1>3 DEF IInv, Types, GrowInv
<1>5. ControlInv'
  BY <1>1 DEF IInv, ControlInv
<1>6. PassInv'
  BY <1>1 DEF IInv, PassInv, ToBeRead
<1>7. WatchInv'
  BY <1>1 DEF WatchInv
<1>8. Noticed => Noticed'
  <2> SUFFICES ASSUME Noticed PROVE Noticed'
    OBVIOUS
  <2> USE DEF IInv, Types
  <2>1. CASE TakeOverflow
    BY <1>1, <2>1 DEF Noticed, TakeOverflow, ControlInv, timers
  <2>2. CASE TakeDirty
    <3>1. flags'.storing = flags.storing /\ flags'.overflow = flags.overflow
      BY <2>2 DEF TakeDirty
    <3>2. changed \/ flags.dirty => changed'
      BY <2>2 DEF TakeDirty
    <3>3. events' = events
      BY <2>2 DEF TakeDirty
    <3> QED
      BY <1>1, <3>1, <3>2, <3>3 DEF Noticed
  <2>3. CASE Callback
    BY <1>1, <2>3 DEF Noticed, Callback, timers, loop
  <2> QED
    BY <2>1, <2>2, <2>3
<1>9. StaleInv'
  BY <1>1, <1>8 DEF IInv, StaleInv, ToBeRead
<1> QED
  BY <1>4, <1>5, <1>6, <1>7, <1>9 DEF IInv

\* What a tick has seen is handed to request_rescan.
LEMMA PollEndIInv ==
  ASSUME IInv, PollEnd
  PROVE  IInv'
<1>1. /\ at \in {"poll", "polled"} /\ at' = "idle" /\ ~changed'
      /\ scheduled' = (scheduled \/ changed)
      /\ UNCHANGED <<src, early, events, watched, snapshot, flags, watching, pending, entry, left,
                     manifest, task, backend>>
  BY DEF PollEnd, Request, source, notices, scan
<1>2. Types' /\ GrowInv'
  BY <1>1 DEF IInv, Types, GrowInv
<1>3. ControlInv'
  BY <1>1 DEF IInv, ControlInv
<1>4. PassInv'
  BY <1>1 DEF IInv, PassInv, ToBeRead
<1>5. WatchInv'
  BY <1>1 DEF IInv, WatchInv, Announced, ControlInv
<1>6. StaleInv'
  BY <1>1 DEF IInv, StaleInv, Noticed, ToBeRead
<1> QED
  BY <1>2, <1>3, <1>4, <1>5, <1>6 DEF IInv

-----------------------------------------------------------------------------
(* The exchange, and every step.                                            *)

\* check_all_done hands a deferred rescan to the timer.
LEMMA CheckAllDoneKeeps ==
  ASSUME NEW c, CheckAllDone(c), scheduled \/ pending
  PROVE  scheduled' \/ pending'
  BY DEF CheckAllDone, Request

\* No answer, transfer or connection loses a rescan.
LEMMA ExchangeStep ==
  ASSUME IInv, Exchange \/ Connect
  PROVE  IInv'
<1>1. CASE Connect
  BY <1>1, ExchangeIInv DEF Connect, timers
<1>2. ASSUME NEW i \in 1..Len(asked), Answer(i) PROVE IInv'
  BY <1>2, ExchangeIInv DEF Answer, timers
<1>3. ASSUME NEW i \in 1..Len(answers), OnAnswer(i) PROVE IInv'
  <2>1. scheduled \/ pending => scheduled' \/ pending'
    BY <1>3, CheckAllDoneKeeps DEF OnAnswer, OnManifest2, Recover, timers
  <2> QED
    BY <1>3, <2>1, ExchangeIInv DEF OnAnswer
<1>4. CASE Transfer
  <2>1. scheduled \/ pending => scheduled' \/ pending'
    BY <1>4, CheckAllDoneKeeps DEF Transfer, Advance, Recover, timers
  <2> QED
    BY <1>4, <2>1, ExchangeIInv DEF Transfer
<1> QED
  BY <1>1, <1>2, <1>3, <1>4 DEF Exchange

\* IInv is inductive.
LEMMA NextIInv == IInv /\ [Next]_vars => IInv'
<1> SUFFICES ASSUME IInv, [Next]_vars PROVE IInv'
  OBVIOUS
<1>1. CASE Build
  BY <1>1, ReadSizeIInv, ReadTaskIInv, ReadFullIInv, ReadChecksumIInv, PassDoneIInv,
     BuildDoneIInv, StartWatchersIInv DEF Build
<1>2. CASE Poll
  BY <1>2, PollScanIInv, PollBeginIInv, HandleEventIInv, DescendIInv, FlagsIInv, PollEndIInv
     DEF Poll
<1>3. CASE Callback \/ Rescan
  BY <1>3, FlagsIInv, RescanIInv
<1>4. CASE Exchange \/ Connect
  BY <1>4, ExchangeStep
<1>5. CASE Writers
  BY <1>5, WritersIInv
<1>6. CASE UNCHANGED vars
  BY <1>6, ExchangeIInv DEF vars, timers
<1> QED
  BY <1>1, <1>2, <1>3, <1>4, <1>5, <1>6 DEF Next

\* It holds of every reachable state.
LEMMA Invariance == Spec => []IInv
<1>1. Init => IInv
  BY InitIInv
<1>2. IInv /\ [Next]_vars => IInv'
  BY NextIInv
<1> QED
  BY <1>1, <1>2, PTL DEF Spec

-----------------------------------------------------------------------------
\* A file that differs from Manifest1 leads to a rescan, with every backend,
\* directory tree, queue length and order of writes, events, polls, timers,
\* scans and answers (request_rescan, watch_poll_tick, handle_event).
THEOREM StaleNoticed == Spec => []StaleIsNoticed
<1>1. IInv => StaleIsNoticed
  BY DEF IInv, StaleInv, StaleIsNoticed, Files
<1> QED
  BY <1>1, Invariance, PTL

\* build_source_streams scans the directory twice while it grows: every
\* entry the first scan put into Manifest1 has a task from the second one,
\* at least as long.
THEOREM TasksCover == Spec => []TasksCoverManifest
<1>1. IInv => TasksCoverManifest
  <2> SUFFICES ASSUME IInv, at \notin {"scan", "sum", "files"}, NEW e \in Listed(manifest)
               PROVE  e \in Listed(task) /\ manifest[e].size <= task[e].size
    BY DEF TasksCoverManifest
  <2>1. e \in Entries /\ manifest[e].size # Absent
    BY DEF Listed
  <2>2. task[e].size >= manifest[e].size /\ Absent <= manifest[e].size
    BY <2>1 DEF IInv, PassInv, GrowInv
  <2>3. task[e].size \in Int /\ manifest[e].size \in Int
    BY <2>1 DEF IInv, Types
  <2> QED
    BY <2>1, <2>2, <2>3 DEF Listed, Absent
<1> QED
  BY <1>1, Invariance, PTL

-----------------------------------------------------------------------------
(* The types of the plan and of the exchange.                               *)

Manifests == [Entries -> [size : Length, sum : Length]]
Answers   == [action : {"IN_SYNC", "CREATE_MISSING", "RESUME_EXISTING", "NACK"},
              file : 0..NEntries, offset : Length]
Questions == [list : Manifests, own : BOOLEAN]
Replies   == [diff : Answers, own : BOOLEAN]

\* The rest of TypeOK, with what is on its way between the two nodes.
Sized ==
  /\ src \in [Entries -> Length]
  /\ recv \in [Entries -> Length]
  /\ snapshot \in [Entries -> Length]
  /\ manifest \in Manifests
  /\ task \in [Entries -> [size : Length, full : Length]]
  /\ cur \in 1..(NEntries + 1)
  /\ start \in Length
  /\ recoveries \in 0..MaxRecoveries
  /\ asked \in Seq(Questions)
  /\ answers \in Seq(Replies)
  /\ connects \in Nat

LEMMA LengthFacts ==
  /\ Absent \in Length /\ 0 \in Length
  /\ \A x \in Length : x \in Int /\ x >= Absent /\ (x # Absent => x >= 0)
BY WatchAssumption DEF Length, Absent

\* A non-empty set of entries has a first one.
LEMMA LeastIs ==
  ASSUME NEW S \in SUBSET Entries, S # {}
  PROVE  Least(S) \in S /\ \A x \in S : Least(S) <= x
<1> DEFINE R == {ss \in Nat \X Nat : ss[1] < ss[2]}
<1>0. S \subseteq Nat BY DEF Entries
<1>1. IsWellFoundedOn(R, Nat) BY NatLessThanWellFounded DEF OpToRel
<1> HIDE DEF R
<1>2. PICK x \in S : \A y \in S : <<y, x>> \notin R BY <1>0, <1>1, WFMin
<1>3. ASSUME NEW y \in S PROVE x <= y
  <2>1. <<y, x>> \in Nat \X Nat /\ x \in Nat /\ y \in Nat BY <1>0
  <2>2. ~ (y < x) BY <1>2, <2>1 DEF R
  <2> QED BY <2>1, <2>2
<1> QED BY <1>2, <1>3 DEF Least

\* A message that has arrived is no longer on its way.
LEMMA Removed ==
  ASSUME NEW S, NEW q \in Seq(S), NEW i \in 1..Len(q)
  PROVE  LET r == SubSeq(q, 1, i - 1) \o SubSeq(q, i + 1, Len(q))
         IN  /\ r \in Seq(S) /\ Len(r) = Len(q) - 1
             /\ \A k \in 1..Len(r) : \E j \in 1..Len(q) : r[k] = q[j]
<1> DEFINE a == SubSeq(q, 1, i - 1)
           b == SubSeq(q, i + 1, Len(q))
<1>1. a \in Seq(S) /\ Len(a) = i - 1 /\ \A k \in 1..(i - 1) : a[k] = q[k] OBVIOUS
<1>2. b \in Seq(S) /\ Len(b) = Len(q) - i /\ \A k \in 1..(Len(q) - i) : b[k] = q[i + k]
  <2>1. b \in Seq(S) /\ Len(b) = Len(q) - i OBVIOUS
  <2>2. ASSUME NEW k \in 1..(Len(q) - i) PROVE b[k] = q[i + k]
    <3>1. /\ i + 1 \in Int /\ Len(q) \in Int /\ k \in 1..(Len(q) - (i + 1) + 1)
          /\ (i + 1) + k - 1 = i + k
      OBVIOUS
    <3>2. b[k] = q[(i + 1) + k - 1] BY <3>1
    <3> QED BY <3>1, <3>2
  <2> QED BY <2>1, <2>2
<1>3. Len(q) \in Nat /\ i \in Nat OBVIOUS
<1> HIDE DEF a, b
<1>4. a \o b \in Seq(S) /\ Len(a \o b) = Len(a) + Len(b)
  <2>1. a \in Seq(S) /\ b \in Seq(S) BY <1>1, <1>2
  <2> QED BY <2>1
<1>5. Len(a \o b) = Len(q) - 1 BY <1>1, <1>2, <1>3, <1>4
<1>6. ASSUME NEW k \in 1..Len(a \o b) PROVE \E j \in 1..Len(q) : (a \o b)[k] = q[j]
  <2>1. CASE k <= i - 1
    <3>1. (a \o b)[k] = a[k] /\ k \in 1..(i - 1) /\ k \in 1..Len(q)
      BY <1>1, <1>2, <1>3, <1>5, <2>1
    <3> QED BY <1>1, <3>1
  <2>2. CASE ~(k <= i - 1)
    <3>1. (a \o b)[k] = b[k - (i - 1)] /\ k - (i - 1) \in 1..(Len(q) - i) /\ k + 1 \in 1..Len(q)
      BY <1>1, <1>2, <1>3, <1>5, <2>2
    <3>2. b[k - (i - 1)] = q[k + 1] BY <1>2, <1>3, <3>1
    <3> QED BY <3>1, <3>2
  <2> QED BY <2>1, <2>2
<1> QED BY <1>4, <1>5, <1>6 DEF a, b

\* A new question, and those a rescan makes old.
LEMMA AskingType ==
  ASSUME Sized
  PROVE  Asking \in Seq(Questions)
<1>1. [list |-> manifest, own |-> TRUE] \in Questions BY DEF Sized, Questions
<1> QED BY <1>1 DEF Sized, Asking

LEMMA OutdatedIs ==
  ASSUME NEW S, NEW q \in Seq(S), \A x \in S : [x EXCEPT !.own = FALSE] \in S
  PROVE  /\ Outdated(q) \in Seq(S) /\ Len(Outdated(q)) = Len(q)
         /\ \A i \in 1..Len(q) : Outdated(q)[i] = [q[i] EXCEPT !.own = FALSE]
<1>1. Len(q) \in Nat /\ \A i \in 1..Len(q) : q[i] \in S OBVIOUS
<1>2. Outdated(q) = [i \in 1..Len(q) |-> [q[i] EXCEPT !.own = FALSE]] BY DEF Outdated
<1>3. Outdated(q) \in [1..Len(q) -> S] BY <1>1, <1>2
<1>4. Outdated(q) \in Seq(S) BY <1>1, <1>3, SeqDef
<1>5. Len(Outdated(q)) = Len(q) BY <1>1, <1>2, <1>4
<1> QED BY <1>2, <1>4, <1>5

LEMMA OutdatedType ==
  ASSUME Sized
  PROVE  /\ Outdated(asked) \in Seq(Questions) /\ Outdated(answers) \in Seq(Replies)
         /\ \A i \in 1..Len(Outdated(asked)) : ~Outdated(asked)[i].own
         /\ \A i \in 1..Len(Outdated(answers)) : ~Outdated(answers)[i].own
<1>1. asked \in Seq(Questions) /\ answers \in Seq(Replies) BY DEF Sized
<1>2. /\ \A x \in Questions : [x EXCEPT !.own = FALSE] \in Questions
      /\ \A x \in Replies : [x EXCEPT !.own = FALSE] \in Replies
  <2>1. ASSUME NEW x \in Questions PROVE [x EXCEPT !.own = FALSE] \in Questions
    BY DEF Questions
  <2>2. ASSUME NEW x \in Replies PROVE [x EXCEPT !.own = FALSE] \in Replies
    BY DEF Replies
  <2> QED BY <2>1, <2>2
<1>3. /\ Outdated(asked) \in Seq(Questions) /\ Len(Outdated(asked)) = Len(asked)
      /\ \A i \in 1..Len(asked) : Outdated(asked)[i] = [asked[i] EXCEPT !.own = FALSE]
  BY <1>1, <1>2, OutdatedIs, Zenon
<1>4. /\ Outdated(answers) \in Seq(Replies) /\ Len(Outdated(answers)) = Len(answers)
      /\ \A i \in 1..Len(answers) : Outdated(answers)[i] = [answers[i] EXCEPT !.own = FALSE]
  BY <1>1, <1>2, OutdatedIs, Zenon
<1>5. /\ \A i \in 1..Len(asked) : asked[i] \in Questions
      /\ \A i \in 1..Len(answers) : answers[i] \in Replies
  BY <1>1
<1> QED BY <1>3, <1>4, <1>5 DEF Questions, Replies

\* What diff_stream answers.
LEMMA DiffType ==
  ASSUME recv \in [Entries -> Length], NEW l \in Manifests
  PROVE  Diff(l) \in Answers
<1> DEFINE todo == {e \in Listed(l) : \E j \in 1..e : j \in Listed(l) /\ ~InSync(l, j)}
           f == Least(todo)
<1>1. todo \in SUBSET Entries BY DEF Listed
<1>2. todo # {} => f \in Entries BY <1>1, LeastIs
<1>3. 0 \in 0..NEntries /\ Entries \subseteq 0..NEntries BY WatchAssumption DEF Entries
<1>4. todo # {} => recv[f] \in Length BY <1>2
<1>5. \/ todo = {} /\ Diff(l) = [action |-> "IN_SYNC", file |-> 0, offset |-> 0]
      \/ todo # {} /\ Diff(l) = [action |-> "CREATE_MISSING", file |-> f, offset |-> 0]
      \/ todo # {} /\ Diff(l) = [action |-> "RESUME_EXISTING", file |-> f, offset |-> recv[f]]
      \/ Diff(l) = [action |-> "NACK", file |-> 0, offset |-> 0]
  BY Zenon DEF Diff
<1>6. todo # {} => f \in 0..NEntries BY <1>2, <1>3
<1> DEFINE d == Diff(l)
<1> HIDE DEF todo, f, d
<1>7. \/ d = [action |-> "IN_SYNC", file |-> 0, offset |-> 0]
      \/ d = [action |-> "NACK", file |-> 0, offset |-> 0]
      \/ f \in 0..NEntries /\ d = [action |-> "CREATE_MISSING", file |-> f, offset |-> 0]
      \/ /\ f \in 0..NEntries /\ recv[f] \in Length
         /\ d = [action |-> "RESUME_EXISTING", file |-> f, offset |-> recv[f]]
  BY <1>4, <1>5, <1>6 DEF d
<1>8. d \in Answers BY <1>3, <1>7, LengthFacts DEF Answers
<1> QED BY <1>8 DEF d

\* Writing, scanning and watching.
LEMMA ScanSized ==
  ASSUME IInv, Sized, Build \/ Poll \/ Callback \/ Rescan \/ Writers
  PROVE  Sized'
<1> USE DEF source, notices, timers, loop, scan, plan, exchange
<1>1. CASE Writers
  <2>1. PICK e \in Entries, size \in Length : Change(e, size)
    <3>1. ASSUME NEW e \in Entries, Appear(e) PROVE \E x \in Length : Change(e, x)
      BY <3>1, LengthFacts DEF Appear
    <3>2. ASSUME NEW e \in Entries, Grow(e) PROVE \E x \in Length : Change(e, x)
      <4>1. src[e] + 1 \in Length BY <3>2, WatchAssumption DEF Grow, Length
      <4> QED BY <3>2, <4>1 DEF Grow
    <3> QED BY <1>1, <3>1, <3>2 DEF Writers
  <2> QED BY <2>1 DEF Change, Sized
<1>2. ASSUME NEW e \in Entries, ReadSize(e) PROVE Sized'
  <2>1. Reads(e, manifest) \in Length BY LengthFacts DEF Reads, Sized
  <2>2. manifest' = [manifest EXCEPT ![e].size = Reads(e, manifest)] BY <1>2 DEF ReadSize
  <2>3. manifest' \in Manifests BY <2>1, <2>2 DEF Sized, Manifests
  <2> QED BY <1>2, <2>3 DEF ReadSize, Sized
<1>3. CASE ReadChecksum
  <2>1. entry \in Entries BY <1>3 DEF ReadChecksum, IInv, ControlInv, Files
  <2>2. src[entry] \in Length BY <2>1 DEF Sized
  <2>3. manifest' \in Manifests BY <1>3, <2>1, <2>2 DEF ReadChecksum, Sized, Manifests
  <2> QED BY <1>3, <2>3 DEF ReadChecksum, Sized
<1>4. ASSUME NEW e \in Entries, ReadTask(e) PROVE Sized'
  <2>1. Reads(e, task) \in Length BY LengthFacts DEF Reads, Sized
  <2>2. task' = [task EXCEPT ![e].size = Reads(e, task)] BY <1>4 DEF ReadTask
  <2>3. task' \in [Entries -> [size : Length, full : Length]] BY <2>1, <2>2 DEF Sized
  <2> QED BY <1>4, <2>3 DEF ReadTask, Sized
<1>5. ASSUME NEW e \in Entries, ReadFull(e) PROVE Sized'
  <2>1. task' \in [Entries -> [size : Length, full : Length]] BY <1>5 DEF ReadFull, Sized
  <2> QED BY <1>5, <2>1 DEF ReadFull, Sized
<1>6. CASE BuildDone
  <2>1. asked' \in Seq(Questions) BY <1>6, AskingType DEF BuildDone, Sized
  <2> QED BY <1>6, <2>1 DEF BuildDone, Sized
<1>7. CASE PassDone \/ StartWatchers
  BY <1>7 DEF PassDone, StartWatchers, Sized
<1>8. CASE Poll \/ Callback
  BY <1>8 DEF Poll, PollScan, PollBegin, HandleEvent, Descend, TakeOverflow, TakeDirty, PollEnd,
              Callback, Sized
<1>9. CASE Rescan
  <2>1. [e \in Entries |-> NoEntry] \in Manifests
        /\ [e \in Entries |-> NoTask] \in [Entries -> [size : Length, full : Length]]
    BY LengthFacts DEF NoEntry, NoTask, Manifests
  <2>2. asked' \in Seq(Questions) /\ answers' \in Seq(Replies)
    BY <1>9, OutdatedType DEF Rescan, Sized
  <2> QED BY <1>9, <2>1, <2>2 DEF Rescan, Sized
<1> QED BY <1>1, <1>2, <1>3, <1>4, <1>5, <1>6, <1>7, <1>8, <1>9 DEF Build

\* recover_with_manifest1
LEMMA RecoverSized ==
  ASSUME Sized, Recover
  PROVE  recoveries' \in 0..MaxRecoveries /\ asked' \in Seq(Questions)
<1>1. recoveries \in 0..MaxRecoveries /\ asked \in Seq(Questions) BY DEF Sized
<1>2. Asking \in Seq(Questions) BY AskingType
<1>3. CASE recoveries >= MaxRecoveries BY <1>1, <1>3 DEF Recover
<1>4. CASE ~(recoveries >= MaxRecoveries)
  <2>1. recoveries' = recoveries + 1 /\ asked' = Asking BY <1>4 DEF Recover
  <2> QED BY <1>1, <1>2, <1>4, <2>1, WatchAssumption
<1> QED BY <1>3, <1>4

\* advance_stream_task
LEMMA AdvanceSized ==
  ASSUME Sized, Advance
  PROVE  /\ recoveries' \in 0..MaxRecoveries /\ asked' = asked
         /\ cur' \in 1..(NEntries + 1) /\ start' \in Length
<1> DEFINE rest == {e \in Listed(task) : e > cur}
<1>1. rest \in SUBSET Entries BY DEF Listed
<1>2. cur' = IF rest = {} THEN NEntries + 1 ELSE Least(rest) BY DEF Advance
<1>3. rest # {} => Least(rest) \in Entries BY <1>1, LeastIs
<1>4. cur' \in 1..(NEntries + 1) BY <1>2, <1>3, WatchAssumption DEF Entries
<1> QED BY <1>4, LengthFacts, WatchAssumption DEF Advance

\* Questions, answers and transfers.
LEMMA ExchangeSized ==
  ASSUME Sized, Exchange \/ Connect
  PROVE  Sized'
<1> USE DEF source, notices, timers, loop, scan, plan, exchange
<1>1. CASE Connect
  <2>1. asked' \in Seq(Questions) /\ connects' \in Nat BY <1>1, AskingType DEF Connect, Sized
  <2> QED BY <1>1, <2>1 DEF Connect, Sized
<1>2. ASSUME NEW i \in 1..Len(asked), Answer(i) PROVE Sized'
  <2>1. asked[i] \in Questions BY DEF Sized
  <2>2. [diff |-> Diff(asked[i].list), own |-> asked[i].own] \in Replies
    BY <2>1, DiffType DEF Sized, Questions, Replies
  <2>3. answers' \in Seq(Replies) BY <1>2, <2>2 DEF Answer, Sized
  <2>4. asked' \in Seq(Questions) BY <1>2, Removed DEF Answer, Sized
  <2> QED BY <1>2, <2>3, <2>4 DEF Answer, Sized
<1>3. ASSUME NEW i \in 1..Len(answers), OnAnswer(i) PROVE Sized'
  <2> DEFINE m == answers[i].diff
  <2>1. m \in Answers
    <3>1. answers[i] \in Replies BY DEF Sized
    <3> QED BY <3>1 DEF Replies
  <2>2. answers' \in Seq(Replies) BY <1>3, Removed DEF OnAnswer, Sized
  <2>3. UNCHANGED <<src, snapshot, manifest, task, recv, connects>> BY <1>3 DEF OnAnswer
  <2>4. CASE m.action = "NACK"
    <3>1. Recover /\ cur' = cur /\ start' = start BY <1>3, <2>4 DEF OnAnswer
    <3> QED BY <2>2, <2>3, <3>1, RecoverSized DEF Sized
  <2>5. CASE m.action # "NACK"
    <3>1. OnManifest2(m, answers[i].own) /\ recoveries' = recoveries /\ asked' = asked
      BY <1>3, <2>5 DEF OnAnswer
    <3>2. cur' \in 1..(NEntries + 1) /\ start' \in Length
      <4>1. \/ cur' = cur \/ cur' = NEntries + 1
            \/ cur' = m.file /\ m.file \in Listed(task)
        BY <3>1 DEF OnManifest2
      <4>2. start' = start \/ start' = Absent \/ start' = m.offset
        BY <3>1 DEF OnManifest2
      <4>3. m.offset \in Length BY <2>1 DEF Answers
      <4> HIDE DEF m
      <4> QED BY <4>1, <4>2, <4>3, LengthFacts, WatchAssumption DEF Sized, Listed, Entries
    <3> QED BY <2>2, <2>3, <3>1, <3>2 DEF Sized
  <2> QED BY <2>4, <2>5
<1>4. CASE Transfer
  <2>1. UNCHANGED <<src, snapshot, manifest, task, answers, connects>> BY <1>4 DEF Transfer
  <2>2. cur \in Entries BY <1>4 DEF Transfer, Listed
  <2>3. task[cur].size \in Length BY <2>2 DEF Sized
  <2>4. \/ recv' = recv
        \/ recv' = [recv EXCEPT ![cur] = task[cur].size]
    BY <1>4 DEF Transfer
  <2>5. recv' \in [Entries -> Length] BY <2>2, <2>3, <2>4 DEF Sized
  <2>6. Advance \/ (Recover /\ cur' = cur /\ start' = start) BY <1>4 DEF Transfer
  <2> QED BY <2>1, <2>5, <2>6, AdvanceSized, RecoverSized DEF Sized
<1> QED BY <1>1, <1>2, <1>3, <1>4 DEF Exchange

\* A start, and one step.
LEMMA InitSized == Init => Sized
<1> SUFFICES ASSUME Init PROVE Sized OBVIOUS
<1>1. src \in [Entries -> Length] /\ recv \in [Entries -> Length]
  BY LengthFacts DEF Init
<1>2. manifest \in Manifests /\ task \in [Entries -> [size : Length, full : Length]]
  BY LengthFacts DEF Init, NoEntry, NoTask, Manifests
<1>3. snapshot \in [Entries -> Length] /\ start \in Length BY LengthFacts DEF Init
<1>4. /\ cur \in 1..(NEntries + 1) /\ recoveries \in 0..MaxRecoveries
      /\ asked \in Seq(Questions) /\ answers \in Seq(Replies) /\ connects \in Nat
  BY WatchAssumption DEF Init
<1> QED BY <1>1, <1>2, <1>3, <1>4 DEF Sized

LEMMA NextSized == ASSUME IInv, Sized, [Next]_vars PROVE Sized'
<1>1. CASE UNCHANGED vars
  BY <1>1 DEF vars, source, notices, timers, loop, scan, plan, exchange, Sized
<1> QED BY <1>1, ScanSized, ExchangeSized DEF Next

\* Every piece of the watching sender's state keeps its type, for every
\* directory tree, backend and order of steps: no answer takes the plan to an
\* entry that is not there, nor past the recoveries it is allowed.
THEOREM WatchTypeCorrect == Spec => []TypeOK
<1>1. Init => IInv /\ Sized BY InitIInv, InitSized
<1>2. IInv /\ Sized /\ [Next]_vars => (IInv /\ Sized)' BY NextIInv, NextSized
<1>3. IInv /\ Sized => TypeOK BY DEF IInv, Types, Sized, Manifests, TypeOK
<1> QED BY <1>1, <1>2, <1>3, PTL DEF Spec

-----------------------------------------------------------------------------
(* A plan from an answer to the manifest the sender has.                    *)

Scanning == {"scan", "sum", "files", "full"}

\* The target has what the manifest says of the entries before f.
Behind(f) == \A e \in Entries : e < f => recv[e] >= manifest[e].size

\* It is right to create entries from f on: what the target has are tasks, as
\* long as the manifest says, and from f on without a gap.
CreateFrom(f) ==
  /\ Behind(f)
  /\ \A e \in Entries : recv[e] # Absent =>
       /\ task[e].size # Absent /\ recv[e] >= manifest[e].size
       /\ \A j \in Entries : f <= j /\ j <= e /\ task[j].size # Absent => recv[j] # Absent

\* It is right to resume f.
ResumeAt(f) ==
  /\ Behind(f)
  /\ \A e \in Entries : e < f /\ recv[e] # Absent => task[e].size # Absent

\* What an answer to this manifest says, also when it arrives late.
Truthful(m) ==
  /\ m.action = "IN_SYNC" => Behind(NEntries + 1)
  /\ m.action = "CREATE_MISSING" => CreateFrom(m.file)
  /\ m.action = "RESUME_EXISTING" => ResumeAt(m.file) /\ m.offset # Absent

PlanInv ==
  /\ complete => done
  /\ done => applied /\ cur = NEntries + 1
  /\ applied => at \notin Scanning

AskedInv ==
  \A i \in 1..Len(asked) : asked[i].own => asked[i].list = manifest /\ at \notin Scanning

RepliesInv ==
  \A i \in 1..Len(answers) : answers[i].own => Truthful(answers[i].diff) /\ at \notin Scanning

FollowInv ==
  applied /\ own =>
    /\ Behind(cur)
    /\ cur \in Entries => IF start = Absent THEN CreateFrom(cur) ELSE ResumeAt(cur)

SyncInv == PlanInv /\ AskedInv /\ RepliesInv /\ FollowInv

\* After a scan every entry has a task that covers what the manifest says.
LEMMA Covers ==
  ASSUME IInv, Sized, at \notin Scanning, NEW e \in Entries
  PROVE  /\ task[e].size >= manifest[e].size
         /\ manifest[e].size # Absent => task[e].size # Absent
<1>1. at \notin {"scan", "sum", "files"} BY DEF Scanning
<1>2. manifest[e].size # Absent => task[e].size >= manifest[e].size
  BY <1>1 DEF IInv, PassInv
<1>3. task[e].size \in Length /\ manifest[e].size \in Length BY DEF Sized, Manifests
<1>4. /\ task[e].size \in Int /\ task[e].size >= Absent
      /\ manifest[e].size \in Int /\ manifest[e].size >= Absent
  BY <1>3, LengthFacts
<1> QED BY <1>2, <1>4 DEF Absent

\* diff_stream compares position by position.
LEMMA DiffTruthful == ASSUME IInv, Sized, at \notin Scanning PROVE Truthful(Diff(manifest))
<1> DEFINE l == manifest
           todo == {e \in Listed(l) : \E j \in 1..e : j \in Listed(l) /\ ~InSync(l, j)}
           f == Least(todo)
           rest == {e \in Present(recv) : ~(e < f /\ e \in Listed(l))}
           d == Diff(l)
<1>1. \/ todo = {} /\ d = [action |-> "IN_SYNC", file |-> 0, offset |-> 0]
      \/ todo # {} /\ rest = {} /\ d = [action |-> "CREATE_MISSING", file |-> f, offset |-> 0]
      \/ /\ todo # {} /\ rest # {} /\ Least(rest) = f
         /\ d = [action |-> "RESUME_EXISTING", file |-> f, offset |-> recv[f]]
      \/ d = [action |-> "NACK", file |-> 0, offset |-> 0]
  BY Zenon DEF Diff
<1>2. todo \in SUBSET Entries /\ rest \in SUBSET Entries BY DEF Listed, Present
<1>3. todo # {} => f \in Entries /\ \A e \in todo : f <= e
  <2> HIDE DEF todo
  <2> QED BY <1>2, LeastIs
<1>4. rest # {} => Least(rest) \in rest /\ \A e \in rest : Least(rest) <= e
  <2> HIDE DEF rest
  <2> QED BY <1>2, LeastIs
<1>5. \A e \in Entries : e \notin Listed(l) => l[e].size = Absent BY DEF Listed
<1>6. ASSUME NEW e \in Entries, e \notin todo PROVE recv[e] >= l[e].size
  <2>1. recv[e] \in Int /\ recv[e] >= Absent BY LengthFacts DEF Sized
  <2>2. CASE e \notin Listed(l) BY <1>5, <2>1, <2>2
  <2>3. CASE e \in Listed(l)
    <3>1. e \in 1..e BY DEF Entries
    <3>2. InSync(l, e) BY <1>6, <2>3, <3>1
    <3>3. recv[e] = l[e].size BY <3>2 DEF InSync
    <3> QED BY <2>1, <3>3
  <2> QED BY <2>2, <2>3
<1>7. ASSUME NEW e \in Entries, recv[e] # Absent, ~(e < f /\ e \in Listed(l)) PROVE e \in rest
  BY <1>7 DEF Present
<1>8. \A e \in Entries : e \in Listed(l) => task[e].size # Absent BY Covers DEF Listed
<1>p. \A e \in rest : recv[e] # Absent BY DEF Present
<1> HIDE DEF todo, f, rest, d
<1>9. CASE d.action = "IN_SYNC"
  <2>1. todo = {} BY <1>1, <1>9
  <2> QED BY <1>6, <1>9, <2>1 DEF Truthful, Behind, d
<1>10. CASE d.action \in {"CREATE_MISSING", "RESUME_EXISTING"}
  <2>1. /\ todo # {} /\ d.file = f
        /\ \/ d.action = "CREATE_MISSING" /\ rest = {}
           \/ d.action = "RESUME_EXISTING" /\ rest # {} /\ Least(rest) = f
    BY <1>1, <1>10
  <2>2. Behind(f)
    <3> SUFFICES ASSUME NEW e \in Entries, e < f PROVE recv[e] >= l[e].size BY DEF Behind
    <3>1. e \notin todo
      <4>1. e \in Int /\ f \in Int BY <1>3, <2>1 DEF Entries
      <4> QED BY <1>3, <2>1, <4>1
    <3> QED BY <1>6, <3>1
  <2>3. ASSUME NEW e \in Entries, e < f, recv[e] # Absent PROVE task[e].size # Absent
    <3>1. e \in Int /\ f \in Int BY <1>3, <2>1 DEF Entries
    <3>2. e \notin rest BY <1>4, <2>1, <2>3, <3>1
    <3> QED BY <1>7, <1>8, <2>3, <3>2
  <2>4. d.action = "CREATE_MISSING" => CreateFrom(f)
    <3> SUFFICES ASSUME d.action = "CREATE_MISSING", NEW e \in Entries, recv[e] # Absent
                 PROVE  /\ task[e].size # Absent /\ recv[e] >= l[e].size
                        /\ \A j \in Entries : f <= j /\ j <= e => FALSE
      BY <2>2 DEF CreateFrom
    <3>1. e < f BY <1>7, <2>1
    <3>2. e \in Int /\ f \in Int /\ \A j \in Entries : j \in Int BY <1>3, <2>1 DEF Entries
    <3> QED BY <2>2, <2>3, <3>1, <3>2 DEF Behind
  <2>5. d.action = "RESUME_EXISTING" => ResumeAt(f) /\ d.offset # Absent
    BY <1>1, <1>4, <1>p, <2>1, <2>2, <2>3 DEF ResumeAt
  <2> QED BY <1>10, <2>1, <2>4, <2>5 DEF Truthful, d
<1>11. CASE d.action = "NACK" BY <1>11 DEF Truthful, d
<1> QED BY <1>1, <1>9, <1>10, <1>11


\* A seq is a number.
LEMMA SeqNumbers == ASSUME NEW e PROVE SeqOf(e) \in Nat /\ Expected \in Nat
<1>1. IsFiniteSet(Entries) BY FS_Interval, WatchAssumption DEF Entries
<1>2. IsFiniteSet({j \in Listed(task) : j <= e}) /\ IsFiniteSet(Present(recv))
  <2>1. {j \in Listed(task) : j <= e} \subseteq Entries /\ Present(recv) \subseteq Entries
    BY DEF Listed, Present
  <2> QED BY <1>1, <2>1, FS_Subset
<1>3. SeqOf(e) \in Nat /\ Cardinality(Present(recv)) \in Nat
  BY <1>2, FS_CardinalityType DEF SeqOf
<1> QED BY <1>3 DEF Expected

\* When the target has tasks before c only, the seq of c is not over, and if it
\* is the seq that is expected, the target has all of them.
LEMMA SeqCounts ==
  ASSUME Sized, NEW c \in Listed(task),
         \A e \in Entries : recv[e] # Absent => e < c /\ task[e].size # Absent
  PROVE  /\ SeqOf(c) >= Expected
         /\ SeqOf(c) = Expected =>
              \A j \in Entries : j < c /\ task[j].size # Absent => recv[j] # Absent
<1> DEFINE upto == {j \in Listed(task) : j <= c}
<1>0. c \in Entries BY DEF Listed
<1>1. IsFiniteSet(Entries) BY FS_Interval, WatchAssumption DEF Entries
<1>2. upto \subseteq Entries BY DEF Listed
<1>3. c \in upto BY <1>0 DEF Entries
<1>4. Present(recv) \subseteq upto \ {c}
  <2> SUFFICES ASSUME NEW e \in Present(recv) PROVE e \in upto /\ e # c OBVIOUS
  <2>1. e \in Entries /\ recv[e] # Absent BY DEF Present
  <2>2. e < c /\ task[e].size # Absent BY <2>1
  <2> QED BY <1>0, <2>1, <2>2 DEF Listed, Entries
<1>p. \A j \in Entries : j < c /\ task[j].size # Absent => j \in upto \ {c}
  BY <1>0 DEF Listed, Entries
<1> HIDE DEF upto
<1>5. IsFiniteSet(upto) BY <1>1, <1>2, FS_Subset
<1>6. IsFiniteSet(upto \ {c}) /\ Cardinality(upto \ {c}) = Cardinality(upto) - 1
  BY <1>3, <1>5, FS_RemoveElement
<1>7. /\ Cardinality(Present(recv)) <= Cardinality(upto \ {c}) /\ IsFiniteSet(Present(recv))
      /\ Cardinality(upto \ {c}) = Cardinality(Present(recv)) => upto \ {c} = Present(recv)
  BY <1>4, <1>6, FS_Subset
<1>8. Cardinality(Present(recv)) \in Nat /\ Cardinality(upto) \in Nat
  BY <1>5, <1>7, FS_CardinalityType
<1>9. SeqOf(c) = Cardinality(upto) /\ Expected = Cardinality(Present(recv)) + 1
  BY DEF SeqOf, Expected, upto
<1>10. SeqOf(c) >= Expected BY <1>6, <1>7, <1>8, <1>9
<1>11. ASSUME SeqOf(c) = Expected, NEW j \in Entries, j < c, task[j].size # Absent
       PROVE  recv[j] # Absent
  <2>1. Cardinality(upto \ {c}) = Cardinality(Present(recv)) BY <1>6, <1>8, <1>9, <1>11
  <2>2. j \in Present(recv) BY <1>7, <1>p, <1>11, <2>1
  <2> QED BY <2>2 DEF Present
<1> QED BY <1>10, <1>11

\* Then an entry whose seq is over is there.
LEMMA SkippedIsThere ==
  ASSUME Sized, cur \in Listed(task), CreateFrom(cur), SeqOf(cur) < Expected
  PROVE  recv[cur] # Absent /\ recv[cur] >= manifest[cur].size
<1>0. cur \in Entries /\ task[cur].size # Absent BY DEF Listed
<1>1. ASSUME recv[cur] = Absent PROVE FALSE
  <2>1. ASSUME NEW e \in Entries, recv[e] # Absent PROVE e < cur /\ task[e].size # Absent
    <3>1. task[e].size # Absent BY <2>1 DEF CreateFrom
    <3>2. ~(cur <= e) BY <1>0, <1>1, <2>1 DEF CreateFrom, Entries
    <3> QED BY <1>0, <3>1, <3>2 DEF Entries
  <2>2. SeqOf(cur) >= Expected BY <2>1, SeqCounts
  <2>3. SeqOf(cur) \in Nat /\ Expected \in Nat BY SeqNumbers
  <2> QED BY <2>2, <2>3
<1> QED BY <1>0, <1>1 DEF CreateFrom

\* Whichever plan is followed, what a transfer adds to the target is a task, in
\* the order of the tasks: an answer to this manifest that is still on its way
\* stays true.
LEMMA TargetMoves ==
  ASSUME IInv, Sized, at \notin Scanning, cur \in Listed(task), UNCHANGED <<manifest, task>>,
         recv' = [recv EXCEPT ![cur] = task[cur].size],
         IF start = Absent THEN CreateTaken(cur) ELSE ResumeTaken(cur), NEW f \in Int
  PROVE  /\ Behind(f) => Behind(f)'
         /\ CreateFrom(f) => CreateFrom(f)'
         /\ ResumeAt(f) => ResumeAt(f)'
<1>0. /\ cur \in Entries /\ task[cur].size # Absent
      /\ recv'[cur] = task[cur].size /\ \A e \in Entries : e # cur => recv'[e] = recv[e]
  BY DEF Sized, Listed
<1>1. task[cur].size >= manifest[cur].size BY <1>0, Covers
<1>2. Behind(f) => Behind(f)' BY <1>0, <1>1 DEF Behind
<1>3. ResumeAt(f) => ResumeAt(f)' BY <1>0, <1>2 DEF ResumeAt
<1>4. ASSUME CreateFrom(f) PROVE CreateFrom(f)'
  <2>1. \A e \in Entries : recv'[e] # Absent => task[e].size # Absent /\ recv'[e] >= manifest[e].size
    BY <1>0, <1>1, <1>4 DEF CreateFrom
  <2>2. ASSUME NEW e \in Entries, recv'[e] # Absent, NEW j \in Entries, f <= j, j <= e,
               task[j].size # Absent
        PROVE  recv'[j] # Absent
    <3>1. CASE recv[e] # Absent BY <1>0, <1>4, <2>2, <3>1 DEF CreateFrom
    <3>2. CASE recv[e] = Absent
      <4>1. e = cur /\ recv[cur] = Absent BY <1>0, <2>2, <3>2
      <4>2. start = Absent /\ SeqOf(cur) = Expected
        BY <4>1 DEF CreateTaken, ResumeTaken
      <4>3. ASSUME NEW x \in Entries, recv[x] # Absent PROVE x < cur /\ task[x].size # Absent
        <5>1. f <= cur BY <2>2, <4>1 DEF Entries
        <5>2. ~(cur <= x) BY <1>0, <1>4, <4>1, <4>3, <5>1 DEF CreateFrom
        <5> QED BY <1>0, <1>4, <4>3, <5>2 DEF CreateFrom, Entries
      <4>4. j < cur => recv[j] # Absent BY <2>2, <4>2, <4>3, SeqCounts
      <4>5. j < cur \/ j = cur BY <1>0, <2>2, <4>1 DEF Entries
      <4> QED BY <1>0, <4>4, <4>5 DEF Entries
    <3> QED BY <3>1, <3>2
  <2> QED BY <1>2, <1>4, <2>1, <2>2 DEF CreateFrom
<1> QED BY <1>2, <1>3, <1>4

\* Writing and watching leave the plan and the exchange alone.
LEMMA WatchingSync ==
  ASSUME SyncInv, UNCHANGED <<scan, plan, exchange>>, at' \in Scanning => at \in Scanning
  PROVE  SyncInv'
<1> USE DEF scan, plan, exchange
<1>1. PlanInv' /\ AskedInv' BY DEF SyncInv, PlanInv, AskedInv
<1>2. RepliesInv'
  BY DEF SyncInv, RepliesInv, Truthful, Behind, CreateFrom, ResumeAt
<1>3. FollowInv' BY DEF SyncInv, FollowInv, Behind, CreateFrom, ResumeAt
<1> QED BY <1>1, <1>2, <1>3 DEF SyncInv

\* send_manifest1 asks about the manifest the sender has.
LEMMA NewQuestion ==
  ASSUME Sized, SyncInv, asked' = Asking \/ asked' = asked, manifest' = manifest,
         at' \notin Scanning
  PROVE  AskedInv'
<1> DEFINE q == [list |-> manifest, own |-> TRUE]
<1>1. asked \in Seq(Questions) /\ q \in Questions BY DEF Sized, Questions
<1>2. \A i \in 1..Len(asked) : asked[i].own => asked[i].list = manifest
  BY DEF SyncInv, AskedInv
<1>3. q.list = manifest OBVIOUS
<1>4. asked' = Append(asked, q) \/ asked' = asked BY DEF Asking
<1> HIDE DEF q
<1>5. \A i \in 1..Len(asked') : (i \in 1..Len(asked) /\ asked'[i] = asked[i]) \/ asked'[i] = q
  BY <1>1, <1>4
<1> QED BY <1>2, <1>3, <1>5 DEF AskedInv

\* The answers that are still on their way stay true while the target is left
\* alone.
LEMMA OldReplies ==
  ASSUME SyncInv, UNCHANGED <<manifest, task, recv>>, at' \notin Scanning,
         \A i \in 1..Len(answers') : \E j \in 1..Len(answers) : answers'[i] = answers[j]
  PROVE  RepliesInv'
<1> SUFFICES ASSUME NEW i \in 1..Len(answers'), answers'[i].own PROVE Truthful(answers[i].diff)'
  BY DEF RepliesInv
<1>1. PICK j \in 1..Len(answers) : answers'[i] = answers[j] OBVIOUS
<1>2. Truthful(answers[j].diff) BY <1>1 DEF SyncInv, RepliesInv
<1> QED BY <1>1, <1>2 DEF Truthful, Behind, CreateFrom, ResumeAt

\* A scan changes the manifest and the tasks while nothing depends on them; a
\* rescan makes old what is on its way, and ends with a question of its own.
LEMMA BuildSync ==
  ASSUME Sized, SyncInv, Build \/ Rescan
  PROVE  SyncInv'
<1> USE DEF source, notices, timers, loop, scan, plan, exchange
<1>1. ASSUME at \in Scanning, UNCHANGED <<plan, exchange>>, at' \in Scanning \cup {"start"}
      PROVE  SyncInv'
  <2>1. /\ ~applied /\ \A i \in 1..Len(asked) : ~asked[i].own
        /\ \A i \in 1..Len(answers) : ~answers[i].own
    BY <1>1 DEF SyncInv, PlanInv, AskedInv, RepliesInv
  <2>2. AskedInv' /\ RepliesInv' BY <1>1, <2>1 DEF AskedInv, RepliesInv
  <2>3. PlanInv' BY <1>1, <2>1 DEF SyncInv, PlanInv
  <2> QED BY <1>1, <2>1, <2>2, <2>3 DEF SyncInv, FollowInv
<1>2. ASSUME NEW e \in Entries, ReadSize(e) \/ ReadTask(e) \/ ReadFull(e) PROVE SyncInv'
  BY <1>1, <1>2 DEF ReadSize, ReadTask, ReadFull, Scanning
<1>3. CASE ReadChecksum \/ PassDone
  BY <1>1, <1>3 DEF ReadChecksum, PassDone, Scanning
<1>4. CASE BuildDone
  <2>1. CASE ~watching BY <1>1, <1>4, <2>1 DEF BuildDone, Scanning
  <2>2. CASE watching
    <3>1. /\ at \in Scanning /\ at' \notin Scanning /\ asked' = Asking
          /\ UNCHANGED <<scan, plan, answers, recv>>
      BY <1>4, <2>2 DEF BuildDone, Scanning
    <3>2. ~applied BY <3>1 DEF SyncInv, PlanInv
    <3>3. AskedInv' BY <3>1, NewQuestion
    <3>4. RepliesInv' BY <3>1, OldReplies
    <3>5. PlanInv' BY <3>1, <3>2 DEF SyncInv, PlanInv
    <3> QED BY <3>1, <3>2, <3>3, <3>4, <3>5 DEF SyncInv, FollowInv
  <2> QED BY <2>1, <2>2
<1>5. CASE StartWatchers
  <2>1. UNCHANGED <<scan, plan, exchange>> /\ at' \notin Scanning
    BY <1>5 DEF StartWatchers, Scanning
  <2> QED BY <2>1, WatchingSync
<1>6. CASE Rescan
  <2>1. CASE ~done
    <3>1. UNCHANGED <<scan, plan, exchange, at>> BY <1>6, <2>1 DEF Rescan
    <3> QED BY <3>1, WatchingSync
  <2>2. CASE done
    <3>1. /\ ~applied' /\ ~done' /\ ~complete'
          /\ asked' = Outdated(asked) /\ answers' = Outdated(answers)
      BY <1>6, <2>2 DEF Rescan
    <3>2. AskedInv' /\ RepliesInv' BY <3>1, OutdatedType DEF AskedInv, RepliesInv
    <3> QED BY <3>1, <3>2 DEF SyncInv, PlanInv, FollowInv
  <2> QED BY <2>1, <2>2
<1> QED BY <1>2, <1>3, <1>4, <1>5, <1>6 DEF Build

\* recover_with_manifest1
LEMMA RecoverSync ==
  ASSUME Sized, SyncInv, Recover, RepliesInv', at \notin Scanning,
         UNCHANGED <<manifest, task, recv, cur, start, own, at>>
  PROVE  SyncInv'
<1>1. asked' = Asking \/ asked' = asked BY DEF Recover
<1>2. AskedInv' BY <1>1, NewQuestion
<1>3. CASE recoveries >= MaxRecoveries
  <2>1. UNCHANGED <<applied, complete, done>> BY <1>3 DEF Recover
  <2>2. PlanInv' BY <2>1 DEF SyncInv, PlanInv
  <2>3. FollowInv' BY <2>1 DEF SyncInv, FollowInv, Behind, CreateFrom, ResumeAt
  <2> QED BY <1>2, <2>2, <2>3 DEF SyncInv
<1>4. CASE ~(recoveries >= MaxRecoveries)
  <2>1. ~applied' /\ ~complete' /\ ~done' BY <1>4 DEF Recover
  <2> QED BY <1>2, <2>1 DEF SyncInv, PlanInv, FollowInv
<1> QED BY <1>3, <1>4

\* A connection asks; the receiver answers from its directory, whatever plan
\* is being followed.
LEMMA AskSync ==
  ASSUME IInv, Sized, SyncInv, Connect \/ \E i \in 1..Len(asked) : Answer(i)
  PROVE  SyncInv'
<1> USE DEF source, notices, timers, loop, scan, plan, exchange
<1>1. CASE Connect
  <2>1. /\ UNCHANGED <<scan, plan, answers, recv, at>> /\ at' \notin Scanning
        /\ asked' = Asking \/ asked' = asked
    BY <1>1 DEF Connect, Idle, Scanning
  <2>2. AskedInv' BY <2>1, NewQuestion
  <2>3. RepliesInv' BY <2>1, OldReplies
  <2>4. PlanInv' BY <2>1 DEF SyncInv, PlanInv
  <2>5. FollowInv' BY <2>1 DEF SyncInv, FollowInv, Behind, CreateFrom, ResumeAt
  <2> QED BY <2>2, <2>3, <2>4, <2>5 DEF SyncInv
<1>2. ASSUME NEW i \in 1..Len(asked), Answer(i) PROVE SyncInv'
  <2> DEFINE r == [diff |-> Diff(asked[i].list), own |-> asked[i].own]
  <2>0. asked \in Seq(Questions) /\ answers \in Seq(Replies) BY DEF Sized
  <2>1. UNCHANGED <<scan, plan, recv, at>> /\ answers' = Append(answers, r)
    BY <1>2 DEF Answer
  <2>2. \A k \in 1..Len(asked') : \E j \in 1..Len(asked) : asked'[k] = asked[j]
    BY <1>2, <2>0, Removed DEF Answer
  <2>3. AskedInv' BY <2>1, <2>2 DEF SyncInv, AskedInv
  <2>4. r.own => Truthful(r.diff) /\ at \notin Scanning
    <3> SUFFICES ASSUME r.own PROVE Truthful(r.diff) /\ at \notin Scanning OBVIOUS
    <3>1. r.own = asked[i].own /\ r.diff = Diff(asked[i].list) OBVIOUS
    <3>2. asked[i].list = manifest /\ at \notin Scanning
      BY <3>1, Zenon DEF SyncInv, AskedInv
    <3>3. Truthful(Diff(manifest)) BY <3>2, DiffTruthful
    <3> HIDE DEF r
    <3> QED BY <3>1, <3>2, <3>3, Zenon
  <2>5. RepliesInv'
    <3> SUFFICES ASSUME NEW k \in 1..Len(answers'), answers'[k].own
                 PROVE  Truthful(answers[k].diff)' /\ at' \notin Scanning
      BY DEF RepliesInv
    <3>1. (k \in 1..Len(answers) /\ answers'[k] = answers[k]) \/ answers'[k] = r
      <4> HIDE DEF r
      <4> QED BY <2>0, <2>1
    <3> DEFINE m == answers'[k].diff
    <3> HIDE DEF r
    <3>2. Truthful(m) /\ at \notin Scanning
      BY <2>4, <3>1, Zenon DEF SyncInv, RepliesInv, m
    <3> HIDE DEF m
    <3>3. answers'[k].diff = m BY DEF m
    <3> QED BY <2>1, <3>2, <3>3 DEF Truthful, Behind, CreateFrom, ResumeAt
  <2>6. PlanInv' BY <2>1 DEF SyncInv, PlanInv
  <2>7. FollowInv' BY <2>1 DEF SyncInv, FollowInv, Behind, CreateFrom, ResumeAt
  <2> QED BY <2>3, <2>5, <2>6, <2>7 DEF SyncInv
<1> QED BY <1>1, <1>2

\* on_manifest2 acts on an answer; one to this manifest is still true.
LEMMA AnswerSync ==
  ASSUME Sized, SyncInv, NEW i \in 1..Len(answers), OnAnswer(i)
  PROVE  SyncInv'
<1> USE DEF source, notices, timers, loop, scan, exchange
<1> DEFINE m == answers[i].diff
           mine == answers[i].own
<1>1. mine => Truthful(m) BY DEF SyncInv, RepliesInv
<1>2. UNCHANGED <<manifest, task, recv, at>> /\ at \notin Scanning
  BY DEF OnAnswer, Idle, Scanning
<1>3. RepliesInv'
  <2>1. answers \in Seq(Replies) BY DEF Sized
  <2>2. \A k \in 1..Len(answers') : \E j \in 1..Len(answers) : answers'[k] = answers[j]
    BY <2>1, Removed DEF OnAnswer
  <2> QED BY <1>2, <2>2, OldReplies
<1>5. m \in Answers
  <2>1. answers[i] \in Replies BY DEF Sized
  <2> QED BY <2>1 DEF Replies
<1>6. CASE m.action = "NACK"
  <2>1. Recover /\ UNCHANGED <<cur, start, own>> BY <1>6 DEF OnAnswer
  <2> QED BY <1>2, <1>3, <2>1, RecoverSync
<1>7. CASE m.action # "NACK"
  <2>1. OnManifest2(m, mine) /\ asked' = asked BY <1>7 DEF OnAnswer
  <2> HIDE DEF m, mine
  <2>2. AskedInv' BY <1>2, <2>1, NewQuestion
  <2>3. CASE UNCHANGED <<cur, start, applied, complete, done, own>>
    <3>1. PlanInv' BY <1>2, <2>3 DEF SyncInv, PlanInv
    <3>2. FollowInv' BY <1>2, <2>3 DEF SyncInv, FollowInv, Behind, CreateFrom, ResumeAt
    <3> QED BY <1>3, <2>2, <3>1, <3>2 DEF SyncInv
  <2>4. CASE ~(applied \/ complete) /\ m.action = "IN_SYNC"
    <3>1. cur' = NEntries + 1 /\ applied' /\ complete' /\ done' /\ own' = mine
      BY <2>1, <2>4 DEF OnManifest2, CheckAllDone
    <3>2. PlanInv' BY <1>2, <3>1 DEF PlanInv
    <3>3. NEntries + 1 \notin Entries BY WatchAssumption DEF Entries
    <3>4. mine => Behind(NEntries + 1) BY <1>1, <2>4 DEF Truthful
    <3>5. FollowInv' BY <1>2, <3>1, <3>3, <3>4 DEF FollowInv, Behind
    <3> QED BY <1>3, <2>2, <3>2, <3>5 DEF SyncInv
  <2>5. CASE /\ ~(applied \/ complete) /\ m.action # "IN_SYNC"
             /\ ~(m.file \notin Listed(task) \/ m.offset > task[m.file].size)
    <3>1. /\ cur' = m.file /\ applied' = TRUE /\ complete' = complete /\ done' = done
          /\ start' = (IF m.action = "CREATE_MISSING" THEN Absent ELSE m.offset)
          /\ own' = mine
      BY <2>1, <2>5 DEF OnManifest2
    <3>2. m.action \in {"CREATE_MISSING", "RESUME_EXISTING"} BY <1>5, <1>7, <2>5 DEF Answers
    <3>3. ~done /\ ~complete BY <2>5 DEF SyncInv, PlanInv
    <3>4. PlanInv' BY <1>2, <3>1, <3>3 DEF PlanInv
    <3>5. mine => /\ m.action = "CREATE_MISSING" => CreateFrom(m.file)
                  /\ m.action = "RESUME_EXISTING" => ResumeAt(m.file) /\ m.offset # Absent
      BY <1>1 DEF Truthful
    <3>6. mine => /\ Behind(m.file)
                  /\ IF start' = Absent THEN CreateFrom(m.file) ELSE ResumeAt(m.file)
      BY <3>1, <3>2, <3>5 DEF CreateFrom, ResumeAt
    <3>7. FollowInv' BY <1>2, <3>1, <3>6 DEF FollowInv, Behind, CreateFrom, ResumeAt
    <3> QED BY <1>3, <2>2, <3>4, <3>7 DEF SyncInv
  <2>6. \/ UNCHANGED <<cur, start, applied, complete, done, own>>
        \/ ~(applied \/ complete) /\ m.action = "IN_SYNC"
        \/ /\ ~(applied \/ complete) /\ m.action # "IN_SYNC"
           /\ ~(m.file \notin Listed(task) \/ m.offset > task[m.file].size)
    BY <2>1 DEF OnManifest2
  <2> QED BY <2>3, <2>4, <2>5, <2>6
<1> QED BY <1>6, <1>7

\* advance_stream_task goes on to the next task there is.
LEMMA AdvanceNext ==
  ASSUME Sized, Advance, cur \in Entries
  PROVE  /\ cur' \in Int /\ cur < cur'
         /\ \A e \in Entries : cur < e /\ e < cur' => task[e].size = Absent
         /\ complete' => cur' = NEntries + 1
         /\ done' = (done \/ complete')
<1> DEFINE rest == {e \in Listed(task) : e > cur}
<1>0. rest \in SUBSET Entries /\ NEntries \in Nat /\ cur \in Int /\ cur <= NEntries
  BY WatchAssumption DEF Listed, Entries
<1>1. /\ cur' = IF rest = {} THEN NEntries + 1 ELSE Least(rest)
      /\ complete' = (rest = {}) /\ done' = (done \/ rest = {})
  BY DEF Advance, CheckAllDone
<1>2. ASSUME NEW e \in Entries, cur < e, e \notin rest PROVE task[e].size = Absent
  BY <1>2, <1>0 DEF Listed, Entries
<1>3. \A e \in rest : e > cur OBVIOUS
<1>4. rest # {} => Least(rest) \in rest /\ \A e \in rest : Least(rest) <= e
  <2> HIDE DEF rest
  <2> QED BY <1>0, LeastIs
<1> HIDE DEF rest
<1>7. done' = (done \/ complete') BY <1>1, Zenon
<1>5. CASE rest = {}
  <2>1. cur' = NEntries + 1 BY <1>1, <1>5
  <2>2. \A e \in Entries : cur < e => task[e].size = Absent BY <1>2, <1>5
  <2> QED BY <1>0, <1>7, <2>1, <2>2
<1>6. CASE rest # {}
  <2>0. Least(rest) \in rest /\ Least(rest) \in Entries BY <1>0, <1>4, <1>6
  <2>1. Least(rest) \in Int /\ Least(rest) > cur BY <1>3, <2>0 DEF Entries
  <2>2. ASSUME NEW e \in Entries, cur < e, e < Least(rest) PROVE task[e].size = Absent
    <3>1. e \in Int BY DEF Entries
    <3>2. e \notin rest BY <1>4, <1>6, <2>1, <2>2, <3>1
    <3> QED BY <1>2, <2>2, <3>2
  <2>3. cur' = Least(rest) /\ ~complete' BY <1>1, <1>6
  <2> QED BY <1>0, <1>7, <2>1, <2>2, <2>3
<1> QED BY <1>5, <1>6

\* A plan that has passed an entry the target has goes on to the next.
LEMMA FollowOn ==
  ASSUME IInv, Sized, at \notin Scanning, cur \in Entries, Advance,
         UNCHANGED <<manifest, task>>, recv' \in [Entries -> Length],
         own => \A e \in Entries :
                  /\ e <= cur => recv'[e] >= manifest[e].size
                  /\ recv'[e] # Absent =>
                       /\ task[e].size # Absent /\ recv'[e] >= manifest[e].size
                       /\ \A j \in Entries : cur < j /\ j <= e /\ task[j].size # Absent
                                               => recv'[j] # Absent
  PROVE  FollowInv'
<1>1. start' = Absent /\ own' = own BY DEF Advance
<1>2. /\ cur' \in Int /\ cur < cur'
      /\ \A e \in Entries : cur < e /\ e < cur' => task[e].size = Absent
  BY AdvanceNext
<1>3. cur \in Int /\ \A e \in Entries : e \in Int BY DEF Entries
<1>4. ASSUME own, NEW e \in Entries, e < cur' PROVE recv'[e] >= manifest[e].size
  <2>1. CASE e <= cur BY <1>4, <2>1
  <2>2. CASE cur < e
    <3>1. task[e].size = Absent BY <1>2, <1>4, <2>2
    <3>2. manifest[e].size = Absent BY <3>1, Covers
    <3>3. recv'[e] \in Int /\ recv'[e] >= Absent BY LengthFacts
    <3> QED BY <3>2, <3>3
  <2> QED BY <1>3, <2>1, <2>2
<1>5. own => Behind(cur)' BY <1>4 DEF Behind
<1>6. own => CreateFrom(cur)' BY <1>2, <1>3, <1>5 DEF CreateFrom
<1> QED BY <1>1, <1>5, <1>6 DEF FollowInv

\* A transfer moves the plan and the target on together, or asks again.
LEMMA TransferSync ==
  ASSUME IInv, Sized, SyncInv, Transfer
  PROVE  SyncInv'
<1> USE DEF source, notices, timers, loop, scan, exchange
<1>0. /\ applied /\ cur \in Listed(task) /\ cur \in Entries /\ at \notin Scanning
      /\ task[cur].size # Absent
      /\ UNCHANGED <<manifest, task, answers, connects, at>>
  BY DEF Transfer, Idle, Listed, Scanning
<1>1. ~done /\ ~complete
  <2>1. cur # NEntries + 1 BY <1>0, WatchAssumption DEF Entries
  <2> QED BY <2>1 DEF SyncInv, PlanInv
<1>2. recv' \in [Entries -> Length]
  <2>1. Sized' BY ExchangeSized DEF Exchange
  <2> QED BY <2>1 DEF Sized
<1>3. ASSUME Advance PROVE PlanInv' /\ AskedInv'
  <2>1. applied' = applied /\ asked' = asked /\ (complete' => cur' = NEntries + 1)
        /\ done' = (done \/ complete')
    BY <1>0, <1>3, AdvanceNext DEF Advance
  <2>2. PlanInv' BY <1>0, <1>1, <2>1 DEF PlanInv
  <2>3. AskedInv' BY <1>0, <2>1, NewQuestion
  <2> QED BY <2>2, <2>3
<1>4. own => /\ Behind(cur)
             /\ IF start = Absent THEN CreateFrom(cur) ELSE ResumeAt(cur)
  BY <1>0 DEF SyncInv, FollowInv
<1>5. CASE /\ IF start = Absent THEN CreateTaken(cur) ELSE ResumeTaken(cur)
           /\ recv' = [recv EXCEPT ![cur] = task[cur].size]
           /\ Advance
  <2>1. \A f \in Int : /\ Behind(f) => Behind(f)'
                       /\ CreateFrom(f) => CreateFrom(f)'
                       /\ ResumeAt(f) => ResumeAt(f)'
    BY <1>0, <1>5, TargetMoves
  <2>2. RepliesInv'
    <3> SUFFICES ASSUME NEW i \in 1..Len(answers), answers[i].own
                 PROVE  Truthful(answers[i].diff)'
      BY <1>0 DEF RepliesInv
    <3> DEFINE m == answers[i].diff
    <3>1. Truthful(m) BY DEF SyncInv, RepliesInv
    <3>2. answers[i] \in Replies BY DEF Sized
    <3>3. m \in Answers BY <3>2 DEF Replies
    <3>4. m.file \in Int /\ NEntries + 1 \in Int BY <3>3, WatchAssumption DEF Answers
    <3>5. answers'[i].diff = m BY <1>0
    <3> HIDE DEF m
    <3>6. /\ m.action = "IN_SYNC" => Behind(NEntries + 1)'
          /\ m.action = "RESUME_EXISTING" => m.offset # Absent
      BY <2>1, <3>1, <3>4 DEF Truthful
    <3> DEFINE f == m.file
    <3>7. f \in Int /\ (m.action = "CREATE_MISSING" => CreateFrom(f))
          /\ (m.action = "RESUME_EXISTING" => ResumeAt(f))
      BY <3>1, <3>4 DEF Truthful
    <3>8. answers'[i].diff.file = f BY <3>5
    <3> QED BY <2>1, <3>5, <3>6, <3>7, <3>8 DEF Truthful
  <2>3. /\ recv'[cur] = task[cur].size
        /\ \A e \in Entries : e # cur => recv'[e] = recv[e]
    BY <1>0, <1>5 DEF Sized
  <2>4. task[cur].size >= manifest[cur].size BY <1>0, Covers
  <2>5. ASSUME own, NEW e \in Entries
        PROVE  /\ e <= cur => recv'[e] >= manifest[e].size
               /\ recv'[e] # Absent => e <= cur /\ task[e].size # Absent
    <3>0. cur \in Int /\ e \in Int BY <1>0 DEF Entries
    <3>1. CASE e = cur BY <1>0, <2>3, <2>4, <3>0, <3>1
    <3>2. CASE e # cur
      <4>1. recv'[e] = recv[e] BY <2>3, <3>2
      <4>2. e <= cur => recv[e] >= manifest[e].size
        BY <1>4, <2>5, <3>0, <3>2 DEF Behind
      <4>3. CASE start = Absent
        <5>1. CreateFrom(cur) /\ recv[cur] = Absent
          BY <1>4, <1>5, <2>5, <4>3 DEF CreateTaken
        <5>2. recv[e] # Absent => ~(cur <= e) /\ task[e].size # Absent
          BY <1>0, <3>0, <5>1 DEF CreateFrom
        <5> QED BY <3>0, <4>1, <4>2, <5>2
      <4>4. CASE start # Absent
        <5>1. ResumeAt(cur) /\ \A x \in Present(recv) : x <= cur
          BY <1>4, <1>5, <2>5, <4>4 DEF ResumeTaken
        <5>2. recv[e] # Absent => e <= cur BY <5>1 DEF Present
        <5>3. recv[e] # Absent /\ e < cur => task[e].size # Absent BY <5>1 DEF ResumeAt
        <5> QED BY <3>0, <3>2, <4>1, <4>2, <5>2, <5>3
      <4> QED BY <4>3, <4>4
    <3> QED BY <3>1, <3>2
  <2>6. FollowInv'
    <3>1. ASSUME own, NEW e \in Entries, recv'[e] # Absent
          PROVE  \A j \in Entries : cur < j /\ j <= e => FALSE
      BY <1>0, <2>5, <3>1 DEF Entries
    <3> QED BY <1>0, <1>2, <1>5, <2>5, <3>1, FollowOn
  <2> QED BY <1>3, <1>5, <2>2, <2>6 DEF SyncInv
<1>6. CASE start = Absent /\ SkipTaken(cur) /\ UNCHANGED recv /\ Advance
  <2>1. RepliesInv' BY <1>0, <1>6, OldReplies
  <2>2. own => CreateFrom(cur) /\ recv[cur] >= manifest[cur].size
    BY <1>0, <1>4, <1>6, SkippedIsThere DEF SkipTaken
  <2>3. FollowInv'
    <3>1. ASSUME own, NEW e \in Entries
          PROVE  /\ e <= cur => recv'[e] >= manifest[e].size
                 /\ recv'[e] # Absent =>
                      /\ task[e].size # Absent /\ recv'[e] >= manifest[e].size
                      /\ \A j \in Entries : cur < j /\ j <= e /\ task[j].size # Absent
                                              => recv'[j] # Absent
      <4>1. recv' = recv BY <1>6
      <4>2. cur \in Int /\ \A x \in Entries : x \in Int BY <1>0 DEF Entries
      <4> QED BY <2>2, <3>1, <4>1, <4>2 DEF CreateFrom, Behind
    <3> QED BY <1>0, <1>2, <1>6, <3>1, FollowOn
  <2> QED BY <1>3, <1>6, <2>1, <2>3 DEF SyncInv
<1>7. CASE UNCHANGED <<recv, cur, start, own>> /\ Recover
  <2>1. RepliesInv' BY <1>0, <1>7, OldReplies
  <2> QED BY <1>0, <1>7, <2>1, RecoverSync
<1> QED BY <1>5, <1>6, <1>7 DEF Transfer

LEMMA InitSync == Init => SyncInv
BY DEF Init, SyncInv, PlanInv, AskedInv, RepliesInv, FollowInv

LEMMA NextSync ==
  ASSUME IInv, Sized, SyncInv, [Next]_vars
  PROVE  SyncInv'
<1> USE DEF source, notices, timers, loop, scan, plan, exchange
<1>1. CASE Build \/ Rescan BY <1>1, BuildSync
<1>2. CASE Poll
  <2>1. UNCHANGED <<scan, plan, exchange>> /\ at' \notin Scanning
    BY <1>2 DEF Poll, PollScan, PollBegin, HandleEvent, Descend, TakeOverflow, TakeDirty,
                PollEnd, Idle, Scanning
  <2> QED BY <2>1, WatchingSync
<1>3. CASE Callback
  <2>1. UNCHANGED <<scan, plan, exchange, at>> BY <1>3 DEF Callback
  <2> QED BY <2>1, WatchingSync
<1>4. CASE Exchange \/ Connect
  BY <1>4, AskSync, AnswerSync, TransferSync DEF Exchange
<1>5. CASE Writers
  <2>1. UNCHANGED <<scan, plan, exchange, at>> BY <1>5 DEF Writers, Appear, Grow, Change
  <2> QED BY <2>1, WatchingSync
<1>6. CASE UNCHANGED vars
  <2>1. UNCHANGED <<scan, plan, exchange, at>> BY <1>6 DEF vars
  <2> QED BY <2>1, WatchingSync
<1> QED BY <1>1, <1>2, <1>3, <1>4, <1>5, <1>6 DEF Next

\* A sender that follows an answer to the manifest it has says it is done only
\* when the target has all of that manifest: for every directory tree, growth
\* during scans, answers and transfers, and any number of connections that ask,
\* of old answers among the new, and of plans begun and given up in between
\* (on_manifest2, recover_with_manifest1, advance_stream_task, check_all_done).
\* The condition is what comparing manifest_id would give the code.
THEOREM SyncedWhenDone == Spec => []OwnAnswerSyncs
<1>1. Init => IInv /\ Sized /\ SyncInv BY InitIInv, InitSized, InitSync
<1>2. IInv /\ Sized /\ SyncInv /\ [Next]_vars => (IInv /\ Sized /\ SyncInv)'
  BY NextIInv, NextSized, NextSync
<1>3. Sized /\ SyncInv => OwnAnswerSyncs
  <2> SUFFICES ASSUME Sized, SyncInv, done, own, NEW e \in Listed(manifest)
               PROVE  recv[e] >= manifest[e].size
    BY DEF OwnAnswerSyncs, Synced
  <2>1. applied /\ cur = NEntries + 1 BY DEF SyncInv, PlanInv
  <2>2. e \in Entries /\ e < cur BY <2>1, WatchAssumption DEF Listed, Entries
  <2> QED BY <2>1, <2>2 DEF SyncInv, FollowInv, Behind
<1> QED BY <1>1, <1>2, <1>3, PTL DEF Spec

=============================================================================
