----------------------- MODULE SenderInflightProofs -----------------------
(***************************************************************************)
(* The bytes the scheduler counts as in flight are the bytes of the sends  *)
(* in flight, and every field of the sender's network keeps its type, for  *)
(* every set of lines, requests and heartbeats.                            *)
(*                                                                         *)
(* The first half is about the sum itself: what MapThenSumSet computes, by *)
(* induction over the subsets of Requests.                                 *)
(***************************************************************************)
EXTENDS SenderNetworkProofs, FiniteSetTheorems, WellFoundedInduction

-----------------------------------------------------------------------------
(* Sums over Requests.                                                      *)

\* The fold takes the elements of a set out one by one, this one first.
AnyOf(s) == CHOOSE x \in s : TRUE
Rest(s) == s \ {AnyOf(s)}

LEMMA AnyOfIs ==
  ASSUME NEW s \in SUBSET Requests, s # {}
  PROVE  AnyOf(s) \in s /\ AnyOf(s) \in Requests /\ Rest(s) \in SUBSET Requests
BY DEF AnyOf, Rest

\* Induction over the subsets of Requests: a smallest subset outside G would
\* have a Rest outside G, too.
LEMMA SubsetInduction ==
  ASSUME NEW G, {} \in G,
         \A s \in SUBSET Requests : s # {} /\ Rest(s) \in G => s \in G
  PROVE  \A s \in SUBSET Requests : s \in G
<1> DEFINE R == StrictSubsetOrdering(Requests)
           S == SUBSET Requests
           B == S \ G
<1> SUFFICES ASSUME B # {} PROVE FALSE OBVIOUS
<1>1. IsWellFoundedOn(R, S)
  BY RequestAssumption, FS_StrictSubsetOrderingWellFounded, FS_FiniteSubsetsOfFinite
<1>2. PICK s \in B : \A t \in B : <<t, s>> \notin R
  <2>1. B \subseteq S OBVIOUS
  <2> HIDE DEF R, S, B
  <2> QED BY <1>1, <2>1, WFMin
<1>3. s # {} /\ AnyOf(s) \in s BY <1>2 DEF AnyOf
<1>4. Rest(s) \in B BY <1>2, <1>3 DEF Rest
<1>5. <<Rest(s), s>> \in R BY <1>2, <1>3, <1>4 DEF StrictSubsetOrdering, Rest
<1> QED BY <1>2, <1>4, <1>5

\* What the sends of request r add up to in the bag f.
Size(f, r) == f[r] * r.bytes

LEMMA SizeIs ==
  ASSUME NEW f \in [Requests -> Int], NEW r \in Requests
  PROVE  Size(f, r) \in Int /\ (f[r] = 0 => Size(f, r) = 0) /\ (f[r] = 1 => Size(f, r) = r.bytes)
BY RequestAssumption DEF Size

\* Sizes add up as their bags do.
LEMMA SizeAdds ==
  ASSUME NEW f \in [Requests -> Int], NEW g \in [Requests -> Int], NEW h \in [Requests -> Int],
         NEW r \in Requests, h[r] = f[r] + g[r]
  PROVE  Size(h, r) = Size(f, r) + Size(g, r)
<1>1. f[r] \in Int /\ g[r] \in Int /\ r.bytes \in Int BY RequestAssumption
<1>2. ASSUME NEW a \in Int, NEW b \in Int, NEW c \in Int PROVE (a + b) * c = a * c + b * c
  OBVIOUS
<1> QED BY <1>1, <1>2 DEF Size

\* A bag has no negative size.
LEMMA SizeNat ==
  ASSUME NEW f \in [Requests -> Nat], NEW r \in Requests
  PROVE  Size(f, r) \in Nat
<1>1. f[r] \in Nat /\ r.bytes \in Nat BY RequestAssumption
<1>2. ASSUME NEW a \in Nat, NEW b \in Nat PROVE a * b \in Nat OBVIOUS
<1> QED BY <1>1, <1>2 DEF Size

\* The function the fold computes for the bag f, and what must be true of
\* it on a family of sets.
Iter(f) ==
  CHOOSE iter : iter = [s \in SUBSET Requests |->
                          IF s = {} THEN 0 ELSE Size(f, AnyOf(s)) + iter[Rest(s)]]

Sums(f, D, g) ==
  \A s \in D : g[s] \in Int /\ IF s = {} THEN g[s] = 0
                               ELSE Rest(s) \in D /\ g[s] = Size(f, AnyOf(s)) + g[Rest(s)]

\* Two such functions agree wherever both are defined.
LEMMA SumsAgree ==
  ASSUME NEW f, NEW D, NEW E, NEW g, NEW h, Sums(f, D, g), Sums(f, E, h)
  PROVE  \A s \in SUBSET Requests : s \in D /\ s \in E => g[s] = h[s]
<1> DEFINE G == {s \in SUBSET Requests : s \in D /\ s \in E => g[s] = h[s]}
<1>1. {} \in G BY DEF Sums
<1>2. ASSUME NEW s \in SUBSET Requests, s # {}, Rest(s) \in G PROVE s \in G
  BY <1>2 DEF Sums
<1>3. \A s \in SUBSET Requests : s \in G
  <2> HIDE DEF G
  <2> QED BY <1>1, <1>2, SubsetInduction
<1> QED BY <1>3

\* There is one for every set.
LEMMA SumsExist ==
  ASSUME NEW f \in [Requests -> Int]
  PROVE  \A s \in SUBSET Requests : \E D, g : s \in D /\ Sums(f, D, g)
<1> DEFINE G == {s \in SUBSET Requests : \E D, g : s \in D /\ Sums(f, D, g)}
<1>1. {} \in G
  <2> DEFINE D == {{}}  g == [s \in {{}} |-> 0]
  <2>1. {} \in D /\ Sums(f, D, g) BY DEF Sums
  <2> QED BY <2>1
<1>2. ASSUME NEW s \in SUBSET Requests, s # {}, Rest(s) \in G PROVE s \in G
  <2>1. PICK D, g : Rest(s) \in D /\ Sums(f, D, g) BY <1>2
  <2>2. CASE s \in D BY <2>1, <2>2
  <2>3. CASE s \notin D
    <3> DEFINE v == Size(f, AnyOf(s)) + g[Rest(s)]
               E == D \cup {s}
               h == [t \in E |-> IF t = s THEN v ELSE g[t]]
    <3>1. v \in Int BY <1>2, <2>1, AnyOfIs, SizeIs DEF Sums
    <3>2. Rest(s) # s /\ \A t \in D : t # s BY <1>2, <2>1, <2>3
    <3>3. h[s] = v /\ \A t \in D : h[t] = g[t] BY <2>3
    <3> HIDE DEF h, v
    <3>4. ASSUME NEW t \in E
          PROVE  h[t] \in Int /\ IF t = {} THEN h[t] = 0
                                 ELSE Rest(t) \in E /\ h[t] = Size(f, AnyOf(t)) + h[Rest(t)]
      <4>1. CASE t = s BY <1>2, <2>1, <3>1, <3>2, <3>3, <4>1 DEF v
      <4>2. CASE t \in D
        <5>1. t # {} => Rest(t) \in D BY <2>1, <4>2 DEF Sums
        <5> QED BY <2>1, <3>3, <4>2, <5>1 DEF Sums
      <4> QED BY <4>1, <4>2
    <3>5. s \in E /\ Sums(f, E, h) BY <3>4 DEF Sums
    <3> QED BY <3>5
  <2> QED BY <2>2, <2>3
<1>3. \A s \in SUBSET Requests : s \in G
  <2> HIDE DEF G
  <2> QED BY <1>1, <1>2, SubsetInduction
<1> QED BY <1>3

\* So the recursion defines what it says.
LEMMA IterSums ==
  ASSUME NEW f \in [Requests -> Int]
  PROVE  Sums(f, SUBSET Requests, Iter(f))
<1> DEFINE P(s, v) == \E D, g : s \in D /\ Sums(f, D, g) /\ v = g[s]
           V == [s \in SUBSET Requests |-> CHOOSE v : P(s, v)]
<1>1. ASSUME NEW s \in SUBSET Requests PROVE P(s, V[s])
  <2>1. \E v : P(s, v) BY SumsExist
  <2> QED BY <2>1, Zenon
<1>2. ASSUME NEW s \in SUBSET Requests
      PROVE  V[s] \in Int /\ IF s = {} THEN V[s] = 0 ELSE V[s] = Size(f, AnyOf(s)) + V[Rest(s)]
  <2>1. PICK D, g : s \in D /\ Sums(f, D, g) /\ V[s] = g[s] BY <1>1
  <2>2. CASE s = {} BY <2>1, <2>2 DEF Sums
  <2>3. CASE s # {}
    <3>1. Rest(s) \in D /\ Rest(s) \in SUBSET Requests BY <2>1, <2>3, AnyOfIs DEF Sums
    <3>2. PICK E, h : Rest(s) \in E /\ Sums(f, E, h) /\ V[Rest(s)] = h[Rest(s)] BY <1>1, <3>1
    <3>3. g[Rest(s)] = h[Rest(s)] BY <2>1, <3>1, <3>2, SumsAgree
    <3> HIDE DEF V
    <3> QED BY <2>1, <2>3, <3>2, <3>3 DEF Sums
  <2> QED BY <2>2, <2>3
<1>3. V = [s \in SUBSET Requests |-> IF s = {} THEN 0 ELSE Size(f, AnyOf(s)) + V[Rest(s)]]
  <2>1. V = [s \in SUBSET Requests |-> V[s]] OBVIOUS
  <2> DEFINE W == [s \in SUBSET Requests |-> IF s = {} THEN 0 ELSE Size(f, AnyOf(s)) + V[Rest(s)]]
  <2> HIDE DEF V
  <2>2. \A s \in SUBSET Requests : V[s] = IF s = {} THEN 0 ELSE Size(f, AnyOf(s)) + V[Rest(s)]
    BY <1>2
  <2>3. \A s \in SUBSET Requests : V[s] = W[s] BY <2>2
  <2>4. W = [s \in SUBSET Requests |-> W[s]] OBVIOUS
  <2> QED BY <2>1, <2>3, <2>4
<1> HIDE DEF V
<1>4. Iter(f) = [s \in SUBSET Requests |-> IF s = {} THEN 0 ELSE Size(f, AnyOf(s)) + Iter(f)[Rest(s)]]
  BY <1>3, Zenon DEF Iter
<1> DEFINE I == Iter(f)
<1>5. \A s \in SUBSET Requests : I[s] = IF s = {} THEN 0 ELSE Size(f, AnyOf(s)) + I[Rest(s)]
  <2> HIDE DEF I
  <2> QED BY <1>4 DEF I
<1> HIDE DEF I
<1> DEFINE G == {s \in SUBSET Requests : I[s] \in Int}
<1>6. {} \in G BY <1>5
<1>7. ASSUME NEW s \in SUBSET Requests, s # {}, Rest(s) \in G PROVE s \in G
  BY <1>5, <1>7, AnyOfIs, SizeIs
<1>8. \A s \in SUBSET Requests : s \in G
  <2> HIDE DEF G
  <2> QED BY <1>6, <1>7, SubsetInduction
<1>9. \A s \in SUBSET Requests : s # {} => Rest(s) \in SUBSET Requests BY AnyOfIs
<1>10. Sums(f, SUBSET Requests, I) BY <1>5, <1>8, <1>9 DEF Sums
<1> QED BY <1>10 DEF I

\* What Bytes is.
LEMMA BytesIs ==
  ASSUME NEW f \in [Requests -> Int]
  PROVE  Bytes(f) = Iter(f)[Requests] /\ Bytes(f) \in Int
<1>1. Bytes(f) = Iter(f)[Requests]
  BY DEF Bytes, MapThenSumSet, MapThenFoldSet, Iter, AnyOf, Rest, Size
<1> QED BY <1>1, IterSums DEF Sums

\* The bytes of two bags together.
LEMMA BytesAdd ==
  ASSUME NEW f \in [Requests -> Int], NEW g \in [Requests -> Int], NEW h \in [Requests -> Int],
         \A r \in Requests : h[r] = f[r] + g[r]
  PROVE  Bytes(h) = Bytes(f) + Bytes(g)
<1> DEFINE F == Iter(f)  G == Iter(g)  H == Iter(h)
           E == {s \in SUBSET Requests : H[s] = F[s] + G[s]}
<1>0. /\ Sums(f, SUBSET Requests, F)
      /\ Sums(g, SUBSET Requests, G)
      /\ Sums(h, SUBSET Requests, H)
  BY IterSums
<1> HIDE DEF F, G, H
<1>1. {} \in E BY <1>0 DEF Sums
<1>2. ASSUME NEW s \in SUBSET Requests, s # {}, Rest(s) \in E PROVE s \in E
  <2>1. /\ F[s] = Size(f, AnyOf(s)) + F[Rest(s)] /\ F[Rest(s)] \in Int
        /\ G[s] = Size(g, AnyOf(s)) + G[Rest(s)] /\ G[Rest(s)] \in Int
        /\ H[s] = Size(h, AnyOf(s)) + H[Rest(s)]
    BY <1>0, <1>2 DEF Sums
  <2>2. AnyOf(s) \in Requests BY <1>2, AnyOfIs
  <2>3. Size(f, AnyOf(s)) \in Int /\ Size(g, AnyOf(s)) \in Int BY <2>2, SizeIs
  <2>4. Size(h, AnyOf(s)) = Size(f, AnyOf(s)) + Size(g, AnyOf(s)) BY <2>2, SizeAdds
  <2>5. H[Rest(s)] = F[Rest(s)] + G[Rest(s)] BY <1>2
  <2> QED BY <2>1, <2>3, <2>4, <2>5
<1>3. \A s \in SUBSET Requests : s \in E
  <2> HIDE DEF E
  <2> QED BY <1>1, <1>2, SubsetInduction
<1>4. H[Requests] = F[Requests] + G[Requests] BY <1>3
<1> QED BY <1>4, BytesIs DEF F, G, H

\* No bag has negative bytes.
LEMMA BytesNat ==
  ASSUME NEW f \in [Requests -> Nat]
  PROVE  Bytes(f) \in Nat
<1> DEFINE F == Iter(f)
           E == {s \in SUBSET Requests : F[s] \in Nat}
<1>f. f \in [Requests -> Int] OBVIOUS
<1>0. Sums(f, SUBSET Requests, F) BY <1>f, IterSums
<1> HIDE DEF F
<1>1. {} \in E BY <1>0 DEF Sums
<1>2. ASSUME NEW s \in SUBSET Requests, s # {}, Rest(s) \in E PROVE s \in E
  <2>1. F[s] = Size(f, AnyOf(s)) + F[Rest(s)] BY <1>0, <1>2 DEF Sums
  <2>2. AnyOf(s) \in Requests BY <1>2, AnyOfIs
  <2>3. Size(f, AnyOf(s)) \in Nat BY <2>2, SizeNat
  <2> QED BY <1>2, <2>1, <2>3
<1>3. \A s \in SUBSET Requests : s \in E
  <2> HIDE DEF E
  <2> QED BY <1>1, <1>2, SubsetInduction
<1>4. F[Requests] \in Nat BY <1>3
<1> QED BY <1>4, <1>f, BytesIs DEF F

\* The empty bag has none ...
LEMMA BytesOfNone == Bytes(NoSends) = 0
<1>1. NoSends \in [Requests -> Int] /\ \A r \in Requests : NoSends[r] = NoSends[r] + NoSends[r]
  BY DEF NoSends
<1>2. Bytes(NoSends) = Bytes(NoSends) + Bytes(NoSends) BY <1>1, BytesAdd
<1>3. Bytes(NoSends) \in Int BY <1>1, BytesIs
<1>4. \A x \in Int : x = x + x => x = 0 OBVIOUS
<1> QED BY <1>2, <1>3, <1>4

\* ... and one send has the bytes of its request.
LEMMA BytesOfOne ==
  ASSUME NEW q \in Requests
  PROVE  Bytes([r \in Requests |-> IF r = q THEN 1 ELSE 0]) = q.bytes
<1> DEFINE f == [r \in Requests |-> IF r = q THEN 1 ELSE 0]
           F == Iter(f)
           E == {s \in SUBSET Requests : F[s] = IF q \in s THEN q.bytes ELSE 0}
<1>f. f \in [Requests -> Int] OBVIOUS
<1>b. q.bytes \in Int BY RequestAssumption
<1>s. \A r \in Requests : Size(f, r) = IF r = q THEN q.bytes ELSE 0
  BY <1>f, SizeIs
<1>0. Sums(f, SUBSET Requests, F) BY <1>f, IterSums
<1> HIDE DEF f, F
<1>1. {} \in E
  <2>1. F[{}] = 0 BY <1>0 DEF Sums
  <2> QED BY <2>1
<1>2. ASSUME NEW s \in SUBSET Requests, s # {}, Rest(s) \in E PROVE s \in E
  <2>1. F[s] = Size(f, AnyOf(s)) + F[Rest(s)] BY <1>0, <1>2 DEF Sums
  <2>2. AnyOf(s) \in Requests /\ AnyOf(s) \in s BY <1>2, AnyOfIs
  <2>3. F[Rest(s)] = IF q \in Rest(s) THEN q.bytes ELSE 0 BY <1>2
  <2>4. q \in Rest(s) <=> q \in s /\ q # AnyOf(s) BY DEF Rest
  <2>5. Size(f, AnyOf(s)) = IF AnyOf(s) = q THEN q.bytes ELSE 0 BY <1>s, <2>2
  <2>6. CASE AnyOf(s) = q BY <1>b, <2>1, <2>2, <2>3, <2>4, <2>5, <2>6
  <2>7. CASE AnyOf(s) # q BY <1>b, <2>1, <2>2, <2>3, <2>4, <2>5, <2>7
  <2> QED BY <2>6, <2>7
<1>3. \A s \in SUBSET Requests : s \in E
  <2> HIDE DEF E
  <2> QED BY <1>1, <1>2, SubsetInduction
<1>4. F[Requests] = q.bytes BY <1>3
<1>5. Bytes(f) = q.bytes BY <1>4, <1>f, BytesIs DEF F
<1> QED BY <1>5 DEF f

-----------------------------------------------------------------------------
(* The scheduler's LineState.                                               *)

\* A LineState of its type whose inflight_bytes is what is in flight.
Counted(s) == s \in Sched /\ s.inflight = Bytes(s.pending)

AllCounted(sc) == sc = [l \in Lines |-> sc[l]] /\ \A l \in Lines : Counted(sc[l])

\* clear_inflight and the three calls that change a line's standing.
LEMMA StandingCounted ==
  ASSUME NEW s, Counted(s)
  PROVE  /\ Counted(Cleared(s))
         /\ Counted(OnLineConnected(s))
         /\ Counted(OnLineDisconnected(s))
         /\ \A w \in PeerWindows : Counted(OnLineNegotiated(s, w))
<1> DEFINE c == Cleared(s)
<1>n. NoSends \in [Requests -> Nat] /\ InitialWindow \in Windows /\ 0 \in 0..(Timeout + 1)
  BY ConfigAssumption DEF NoSends, Windows
<1>1. Counted(c) BY <1>n, BytesOfNone DEF Counted, Cleared, Sched
<1> HIDE DEF c
<1>2. Counted([c EXCEPT !.connected = TRUE, !.negotiated = FALSE, !.healthy = FALSE,
                        !.stale = FALSE, !.missed = 0, !.window = InitialWindow])
  BY <1>1, <1>n DEF Counted, Sched
<1>3. Counted([c EXCEPT !.connected = FALSE, !.negotiated = FALSE,
                        !.healthy = FALSE, !.stale = TRUE])
  BY <1>1 DEF Counted, Sched
<1>4. ASSUME NEW w \in PeerWindows PROVE Counted(OnLineNegotiated(s, w))
  <2> DEFINE v == IF w = 0 THEN InitialWindow ELSE w
  <2>1. v \in Windows BY DEF Windows
  <2>2. OnLineNegotiated(s, w) = [s EXCEPT !.connected = TRUE, !.negotiated = TRUE,
          !.healthy = TRUE, !.stale = FALSE, !.missed = 0, !.window = v]
    BY DEF OnLineNegotiated
  <2> HIDE DEF v
  <2> QED BY <1>n, <2>1, <2>2 DEF Counted, Sched
<1> QED BY <1>1, <1>2, <1>3, <1>4 DEF OnLineConnected, OnLineDisconnected, c

\* refill_ticks: the bucket stays within its capacity, the counter within what
\* is ever asked of it.
LEMMA RefillCounted ==
  ASSUME NEW s, Counted(s)
  PROVE  Counted(RefillTicks(s))
<1> DEFINE m == IF s.connected /\ s.missed <= Timeout THEN s.missed + 1 ELSE s.missed
           b == IF s.tokens + TokensPerTick > Capacity THEN Capacity ELSE s.tokens + TokensPerTick
           q == s.stale \/ (s.connected /\ s.pending # NoSends /\ Timeout > 0 /\ m > Timeout)
<1>1. m \in 0..(Timeout + 1) BY ConfigAssumption DEF Counted, Sched
<1>2. b \in 0..Capacity BY ConfigAssumption DEF Counted, Sched
<1>3. q \in BOOLEAN BY DEF Counted, Sched
<1>4. RefillTicks(s) = [s EXCEPT !.tokens = b, !.missed = m, !.stale = q]
  BY DEF RefillTicks
<1> HIDE DEF m, b, q
<1> QED BY <1>1, <1>2, <1>3, <1>4 DEF Counted, Sched

\* on_heartbeat: what it releases was in flight, so the clamp never hides a
\* difference.
LEMMA HeartbeatCounted ==
  ASSUME NEW s, Counted(s), NEW h \in Heartbeats
  PROVE  Counted(OnHeartbeat(s, h))
<1> DEFINE p == s.pending
           c == CompletedSends(s, h)
           q == Minus(p, c)
           i == IF Bytes(c) >= s.inflight THEN 0 ELSE s.inflight - Bytes(c)
<1>1. p \in [Requests -> Nat] /\ s.inflight \in Nat /\ s.inflight = Bytes(p)
  BY DEF Counted, Sched
<1>2. c \in [Requests -> Nat] /\ \A r \in Requests : c[r] <= p[r]
  BY <1>1 DEF CompletedSends
<1> HIDE DEF c
<1>3. q \in [Requests -> Nat] /\ \A r \in Requests : p[r] = q[r] + c[r]
  BY <1>1, <1>2 DEF Minus
<1> HIDE DEF q, p
<1>4. Bytes(p) = Bytes(q) + Bytes(c) /\ Bytes(q) \in Nat /\ Bytes(c) \in Nat
  <2>1. p \in [Requests -> Int] /\ q \in [Requests -> Int] /\ c \in [Requests -> Int]
    BY <1>1, <1>2, <1>3
  <2> QED BY <1>2, <1>3, <2>1, BytesAdd, BytesNat
<1>5. i = Bytes(q)
  <2>1. \A x, y, z \in Nat : x = y + z => (IF z >= x THEN 0 ELSE x - z) = y OBVIOUS
  <2> QED BY <1>1, <1>4, <2>1
<1>6. OnHeartbeat(s, h) = [s EXCEPT !.pending = q, !.inflight = i, !.window = h.window,
        !.missed = 0, !.connected = TRUE, !.negotiated = TRUE, !.healthy = TRUE, !.stale = FALSE]
  BY DEF OnHeartbeat, q, p, c
<1>7. h.window \in Windows /\ 0 \in 0..(Timeout + 1) BY ConfigAssumption DEF Windows
<1> HIDE DEF i
<1> QED BY <1>3, <1>4, <1>5, <1>6, <1>7 DEF Counted, Sched

\* try_acquire on a line that has the tokens.
LEMMA AcquiredCounted ==
  ASSUME NEW s, Counted(s), NEW r \in Requests, s.tokens >= r.bytes
  PROVE  Counted(Acquired(s, r))
<1> DEFINE p == s.pending
           one == [x \in Requests |-> IF x = r THEN 1 ELSE 0]
           q == [p EXCEPT ![r] = @ + 1]
           b == s.tokens - r.bytes
           m == IF p = NoSends THEN 0 ELSE s.missed
           i == s.inflight + r.bytes
<1>1. /\ p \in [Requests -> Nat] /\ s.inflight \in Nat /\ s.inflight = Bytes(p)
      /\ r.bytes \in Nat
  BY RequestAssumption DEF Counted, Sched
<1>2. q \in [Requests -> Nat] /\ \A x \in Requests : q[x] = p[x] + one[x] BY <1>1
<1>3. b \in 0..Capacity BY <1>1, ConfigAssumption DEF Counted, Sched
<1>4. m \in 0..(Timeout + 1) BY ConfigAssumption DEF Counted, Sched
<1>5. one \in [Requests -> Int] /\ Bytes(one) = r.bytes BY BytesOfOne
<1>6. Acquired(s, r) = [s EXCEPT !.tokens = b, !.missed = m, !.inflight = i, !.pending = q]
  BY DEF Acquired, Counted, Sched
<1> HIDE DEF p, one, q, b, m
<1>7. Bytes(q) = Bytes(p) + Bytes(one)
  <2>1. p \in [Requests -> Int] /\ q \in [Requests -> Int] BY <1>1, <1>2
  <2> QED BY <1>2, <1>5, <2>1, BytesAdd
<1>8. i = Bytes(q) /\ i \in Nat BY <1>1, <1>5, <1>7
<1> HIDE DEF i
<1> QED BY <1>2, <1>3, <1>4, <1>6, <1>8 DEF Counted, Sched

\* Calls that go through the lines.
LEMMA MarkCounted ==
  ASSUME NEW net, AllCounted(net.sched), NEW which
  PROVE  AllCounted(MarkUnavailable(net, which).sched)
<1> DEFINE down == {l \in which : ~Waits(net.sock[l])}
<1>1. MarkUnavailable(net, which).sched =
        [l \in Lines |-> IF l \in down THEN OnLineDisconnected(net.sched[l]) ELSE net.sched[l]]
  BY DEF MarkUnavailable
<1> HIDE DEF down
<1>2. \A l \in Lines : Counted(OnLineDisconnected(net.sched[l])) BY StandingCounted DEF AllCounted
<1> QED BY <1>1, <1>2 DEF AllCounted

LEMMA FlushCounted ==
  ASSUME NEW net, AllCounted(net.sched), NEW n, NEW c
  PROVE  AllCounted(FlushNet(net, n, c).sched)
BY MarkCounted DEF FlushNet

\* A line takes a new LineState.
LEMMA LineCounted ==
  ASSUME NEW sc, AllCounted(sc), NEW l \in Lines, NEW s, Counted(s)
  PROVE  AllCounted([sc EXCEPT ![l] = s])
BY DEF AllCounted

-----------------------------------------------------------------------------
(* Steps.                                                                   *)

\* flush_controls never lengthens the queue.
LEMMA QueueShrinks ==
  ASSUME NEW net, NEW n \in 0..MaxControls, NEW c
  PROVE  FlushQueue(net, n, c) \in 0..MaxControls
BY ConfigAssumption DEF FlushQueue

Bounded == AllCounted(sched) /\ controls \in 0..MaxControls

\* A callback for one line.
LEMMA CallbackBounded ==
  ASSUME Bounded, NEW l \in Lines,
         \/ Connected(l) \/ ConnectFailed(l) \/ ReconnectTimer(l)
         \/ ConnectionLost(l) \/ Peer(l) \/ DropLine(l)
  PROVE  Bounded'
<1>0. AllCounted(sched) /\ Counted(sched[l]) /\ controls \in 0..MaxControls
  BY DEF Bounded, AllCounted
<1>1. CASE Connected(l)
  BY <1>0, <1>1, StandingCounted, LineCounted DEF Connected, Bounded
<1>2. CASE ConnectFailed(l)
  BY <1>0, <1>2, StandingCounted, LineCounted DEF ConnectFailed, Bounded
<1>3. CASE ReconnectTimer(l)
  BY <1>0, <1>3 DEF ReconnectTimer, Bounded
<1>4. CASE ConnectionLost(l)
  <2> DEFINE net == [Net EXCEPT !.sock[l].conn = "closed"]
  <2>1. net.sched = sched BY DEF Net
  <2>2. sched' = MarkUnavailable(net, {l}).sched /\ controls' = controls
    BY <1>4 DEF ConnectionLost, Install
  <2> HIDE DEF net
  <2> QED BY <1>0, <2>1, <2>2, MarkCounted DEF Bounded
<1>5. ASSUME NEW w \in PeerWindows, HelloAccepted(l, w) PROVE Bounded'
  <2> DEFINE net == [Net EXCEPT !.sock[l].hello = TRUE, !.sched[l] = OnLineNegotiated(@, w)]
  <2>1. net.sched = [sched EXCEPT ![l] = OnLineNegotiated(sched[l], w)] BY DEF Net
  <2>2. PICK c \in ControlLine(net) : /\ sched' = FlushNet(net, controls, c).sched
                                      /\ controls' = FlushQueue(net, controls, c)
    BY <1>5 DEF HelloAccepted, Install
  <2> HIDE DEF net
  <2>3. AllCounted(net.sched) BY <1>0, <2>1, StandingCounted, LineCounted
  <2> QED BY <1>0, <2>2, <2>3, FlushCounted, QueueShrinks DEF Bounded
<1>6. CASE ProtocolBroken(l)
  <2> DEFINE net == [Net EXCEPT !.sock[l].hello = FALSE]
             bad == [net EXCEPT !.sched[l] = OnLineDisconnected(@),
                                !.lost[l] = Plus(@, net.sched[l].pending)]
  <2>1. bad.sched = [sched EXCEPT ![l] = OnLineDisconnected(sched[l])] BY DEF Net
  <2>2. sched' = MarkUnavailable(bad, {l}).sched /\ controls' = controls
    BY <1>6 DEF ProtocolBroken, ProtocolError, Install
  <2> HIDE DEF bad
  <2>3. AllCounted(bad.sched) BY <1>0, <2>1, StandingCounted, LineCounted
  <2> QED BY <1>0, <2>2, <2>3, MarkCounted DEF Bounded
<1>7. ASSUME NEW h \in Heartbeats, HeartbeatReceived(l, h) PROVE Bounded'
  BY <1>0, <1>7, HeartbeatCounted, LineCounted DEF HeartbeatReceived, Bounded
<1>8. CASE DropLine(l)
  <2>1. sched' = MarkUnavailable(Net, {l}).sched /\ controls' = controls /\ Net.sched = sched
    BY <1>8 DEF DropLine, Install, Net
  <2> QED BY <1>0, <2>1, MarkCounted DEF Bounded
<1> QED BY <1>1, <1>2, <1>3, <1>4, <1>5, <1>6, <1>7, <1>8 DEF Peer

\* refill_ticks, with the lines it closes.
LEMMA TickBounded == ASSUME Bounded, Tick PROVE Bounded'
<1> DEFINE ticked == [Net EXCEPT !.sched = [l \in Lines |-> RefillTicks(sched[l])]]
           late == {l \in Lines : LET s == ticked.sched[l]
                                  IN  s.connected /\ s.stale /\ s.pending # NoSends}
           net == MarkUnavailable(ticked, late)
<1>1. ticked.sched = [l \in Lines |-> RefillTicks(sched[l])] BY DEF Net
<1>2. PICK c \in ControlLine(net) : /\ sched' = FlushNet(net, controls, c).sched
                                    /\ controls' = FlushQueue(net, controls, c)
  BY DEF Tick, Install
<1> HIDE DEF ticked, late
<1>3. AllCounted(ticked.sched)
  <2>1. \A l \in Lines : Counted(RefillTicks(sched[l])) BY RefillCounted DEF Bounded, AllCounted
  <2> QED BY <1>1, <2>1 DEF AllCounted
<1>4. AllCounted(net.sched) BY <1>3, MarkCounted
<1> HIDE DEF net
<1> QED BY <1>2, <1>4, FlushCounted, QueueShrinks DEF Bounded

\* send: the line that takes the request has the tokens for it.
LEMMA SendBounded == ASSUME Bounded, NEW r \in Requests, Send(r) PROVE Bounded'
<1>1. PICK c \in ControlLine(Net) :
        LET net == FlushNet(Net, controls, c)
        IN  /\ controls' = FlushQueue(Net, controls, c)
            /\ \/ Grantable(net, r) = {} /\ Install(net)
               \/ \E l \in Grantable(net, r) :
                    Install(IF CanSend(net.sock[l])
                            THEN [[net EXCEPT !.sched[l] = Acquired(@, r)]
                                    EXCEPT !.owed[l][r] = @ + 1]
                            ELSE MarkUnavailable([net EXCEPT !.sched[l] = Acquired(@, r)], {l}))
  BY Zenon DEF Send
<1> DEFINE net == FlushNet(Net, controls, c)
<1>2. AllCounted(net.sched) BY FlushCounted DEF Bounded, Net
<1>3. controls' \in 0..MaxControls BY <1>1, QueueShrinks DEF Bounded
<1>f. DOMAIN net = {"sock", "sched", "lost", "owed"}
  BY DEF FlushNet, MarkUnavailable, Net
<1> HIDE DEF net
<1>4. CASE Install(net) BY <1>2, <1>3, <1>4 DEF Install, Bounded
<1>5. ASSUME NEW l \in Grantable(net, r),
             Install(IF CanSend(net.sock[l])
                     THEN [[net EXCEPT !.sched[l] = Acquired(@, r)] EXCEPT !.owed[l][r] = @ + 1]
                     ELSE MarkUnavailable([net EXCEPT !.sched[l] = Acquired(@, r)], {l}))
      PROVE  Bounded'
  <2> DEFINE got == [net EXCEPT !.sched[l] = Acquired(@, r)]
  <2>1. l \in Lines /\ net.sched[l].tokens >= r.bytes BY DEF Grantable
  <2>2. got.sched = [net.sched EXCEPT ![l] = Acquired(net.sched[l], r)] BY <1>f
  <2>3. Counted(net.sched[l]) BY <1>2, <2>1 DEF AllCounted
  <2>4. AllCounted(got.sched) BY <1>2, <2>1, <2>2, <2>3, AcquiredCounted, LineCounted
  <2>5. CASE CanSend(net.sock[l])
    <3>1. Install([got EXCEPT !.owed[l][r] = @ + 1]) BY <1>5, <2>5
    <3>2. [got EXCEPT !.owed[l][r] = @ + 1].sched = got.sched BY <1>f
    <3> HIDE DEF got
    <3> QED BY <1>3, <2>4, <3>1, <3>2 DEF Install, Bounded
  <2>6. CASE ~CanSend(net.sock[l])
    <3>1. Install(MarkUnavailable(got, {l})) BY <1>5, <2>6
    <3> HIDE DEF got
    <3> QED BY <1>3, <2>4, <3>1, MarkCounted DEF Install, Bounded
  <2> QED BY <2>5, <2>6
<1> QED BY <1>1, <1>4, <1>5 DEF net

\* send_control, stop, and a sender that has stopped.
LEMMA OtherBounded ==
  ASSUME Bounded, SendControl \/ Stop \/ Stopped \/ UNCHANGED vars
  PROVE  Bounded'
<1>1. CASE SendControl
  <2>1. PICK c \in ControlLine(Net) :
          /\ sched' = FlushNet(Net, controls + 1, c).sched
          /\ controls' = controls \/ controls' = controls + 1
          /\ controls < MaxControls
    BY <1>1 DEF SendControl, Install
  <2>2. controls' \in 0..MaxControls BY <2>1, ConfigAssumption DEF Bounded
  <2>3. Net.sched = sched BY DEF Net
  <2> QED BY <2>1, <2>2, <2>3, FlushCounted DEF Bounded
<1>2. CASE Stop \/ Stopped \/ UNCHANGED vars
  BY <1>2 DEF Stop, Stopped, vars, Bounded
<1> QED BY <1>1, <1>2

\* A start and one step of the sender's network.
LEMMA InitBounded == Init => Bounded
<1> SUFFICES ASSUME Init PROVE Bounded OBVIOUS
<1>1. ASSUME NEW l \in Lines PROVE Counted(sched[l])
  <2>1. sched[l] = [connected |-> FALSE, negotiated |-> FALSE,
                    healthy |-> FALSE, stale |-> FALSE, missed |-> 0,
                    window |-> InitialWindow, inflight |-> 0,
                    tokens |-> Capacity, pending |-> NoSends]
    BY DEF Init
  <2>2. NoSends \in [Requests -> Nat] /\ InitialWindow \in Windows BY DEF NoSends, Windows
  <2> QED BY <2>1, <2>2, BytesOfNone, ConfigAssumption DEF Counted, Sched
<1>2. sched = [l \in Lines |-> sched[l]] /\ controls = 0 BY DEF Init
<1> QED BY <1>1, <1>2, ConfigAssumption DEF Bounded, AllCounted

LEMMA NextBounded == ASSUME Bounded, [Next]_vars PROVE Bounded'
BY CallbackBounded, TickBounded, SendBounded, OtherBounded DEF Next

\* inflight_bytes of every line is the sum of the sends in flight on it, for
\* every set of lines, requests and heartbeats: also when a request is in flight
\* twice, when a heartbeat releases several sends at once, and when a line is
\* lost and connected again.
THEOREM InflightIsSum == Spec => []InflightIsPending
<1>1. Bounded => InflightIsPending BY DEF Bounded, AllCounted, Counted, InflightIsPending
<1> QED BY <1>1, InitBounded, NextBounded, PTL DEF Spec

\* Every field keeps its type, for every run of the sender's network: no bucket
\* holds more than its capacity or gives more than it has, inflight_bytes never
\* goes below zero, and no closed connection stays attached to a line.
THEOREM NetworkTypeCorrect == Spec => []TypeOK
<1>1. NetworkInv /\ Bounded => TypeOK
  <2> SUFFICES ASSUME NetworkInv, Bounded PROVE TypeOK OBVIOUS
  <2>1. /\ Domains(Net)
        /\ \A l \in Lines : LineOK(sock[l], sched[l], lost[l], owed[l])
    BY DEF NetworkInv, NetOK, Net
  <2>2. \A l \in Lines : sock[l] \in Sock BY <2>1 DEF LineOK
  <2>3. \A l \in Lines : sched[l] \in Sched BY DEF Bounded, AllCounted, Counted
  <2>4. \A l \in Lines : lost[l] \in [Requests -> Nat] /\ owed[l] \in [Requests -> Int]
    BY <2>1 DEF LineOK, LineState, NoSends
  <2>5. /\ sock = [l \in Lines |-> sock[l]] /\ sched = [l \in Lines |-> sched[l]]
        /\ lost = [l \in Lines |-> lost[l]] /\ owed = [l \in Lines |-> owed[l]]
    BY <2>1 DEF Domains, Net
  <2>6. running \in BOOLEAN /\ controls \in 0..MaxControls BY DEF NetworkInv, Bounded
  <2> QED BY <2>2, <2>3, <2>4, <2>5, <2>6 DEF TypeOK
<1>2. Spec => []Bounded BY InitBounded, NextBounded, PTL DEF Spec
<1> QED BY <1>1, <1>2, InvariantHolds, PTL

=============================================================================
