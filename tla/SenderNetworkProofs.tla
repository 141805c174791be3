------------------------ MODULE SenderNetworkProofs ------------------------
(***************************************************************************)
(* For every set of lines, requests and heartbeats: the scheduler and the  *)
(* sockets agree, no line is stranded, every send is accounted for and no  *)
(* control message is stuck.  The four hold together, as one inductive     *)
(* invariant, stated line by line.                                         *)
(***************************************************************************)
EXTENDS SenderNetwork, TLAPS

Fields == {"connected", "negotiated", "healthy", "stale", "missed", "window",
           "inflight", "tokens", "pending"}

\* The part of a LineState's type the argument needs.
LineState(s) ==
  /\ DOMAIN s = Fields
  /\ s.connected \in BOOLEAN
  /\ s.negotiated \in BOOLEAN
  /\ s.healthy \in BOOLEAN
  /\ s.stale \in BOOLEAN
  /\ s.pending \in [Requests -> Nat]

\* One line, while nothing is being done to it: its socket k, its scheduler
\* state s, and what is lost and owed.
LineOK(k, s, gone, due) ==
  /\ k \in Sock
  /\ LineState(s)
  /\ s.connected <=> CanSend(k)
  /\ s.negotiated <=> k.hello
  /\ s.healthy <=> k.hello
  /\ k.hello => CanSend(k)
  /\ s.connected => ~s.stale
  /\ ~s.connected => s.pending = NoSends
  /\ gone = NoSends
  /\ due = s.pending

\* The line has a way to come back.
WaitOK(k) ==
  /\ k.timers = IF k.scheduled THEN 1 ELSE 0
  /\ CanSend(k) \/ k.connecting \/ k.scheduled
  /\ CanSend(k) => ~k.connecting /\ ~k.scheduled
  /\ k.connecting => ~k.scheduled

\* Each part is a function on the lines.
Domains(net) ==
  /\ net.sock = [l \in Lines |-> net.sock[l]]
  /\ net.sched = [l \in Lines |-> net.sched[l]]
  /\ net.lost = [l \in Lines |-> net.lost[l]]
  /\ net.owed = [l \in Lines |-> net.owed[l]]

NetOK(net) ==
  /\ Domains(net)
  /\ \A l \in Lines : LineOK(net.sock[l], net.sched[l], net.lost[l], net.owed[l])

NetWaits(net) == \A l \in Lines : WaitOK(net.sock[l])

NetworkInv ==
  /\ NetOK(Net)
  /\ running \in BOOLEAN
  /\ running => NetWaits(Net)
  /\ controls \in Nat
  /\ ControlNotStuck

-----------------------------------------------------------------------------
(* What the calls do to one line.                                           *)

LEMMA ClearedFacts ==
  ASSUME NEW s, LineState(s)
  PROVE  /\ LineState(Cleared(s))
         /\ Cleared(s).pending = NoSends
         /\ Cleared(s).connected = s.connected
         /\ Cleared(s).negotiated = s.negotiated
         /\ Cleared(s).healthy = s.healthy
         /\ Cleared(s).stale = s.stale
  BY DEF LineState, Cleared, Fields, NoSends

LEMMA DisconnectedFacts ==
  ASSUME NEW s, LineState(s)
  PROVE  /\ LineState(OnLineDisconnected(s))
         /\ OnLineDisconnected(s).connected = FALSE
         /\ OnLineDisconnected(s).negotiated = FALSE
         /\ OnLineDisconnected(s).healthy = FALSE
         /\ OnLineDisconnected(s).pending = NoSends
  <1> DEFINE c == Cleared(s)
  <1>1. LineState(c) /\ c.pending = NoSends
    BY ClearedFacts
  <1> HIDE DEF c
  <1>2. OnLineDisconnected(s) =
          [c EXCEPT !.connected = FALSE, !.negotiated = FALSE,
                    !.healthy = FALSE, !.stale = TRUE]
    BY DEF OnLineDisconnected, c
  <1> QED BY <1>1, <1>2 DEF LineState, Fields, NoSends

\* What mark_unavailable needs of a line it takes down, and what it leaves.
Losing(k, s, gone, due) ==
  /\ k \in [conn : {"open", "closed"}, connecting : BOOLEAN, scheduled : BOOLEAN,
            timers : Nat, hello : BOOLEAN]
  /\ ~k.connecting /\ ~k.scheduled /\ k.timers = 0
  /\ LineState(s)
  /\ gone \in [Requests -> Nat]
  /\ due \in [Requests -> Int]
  /\ \A r \in Requests : due[r] = gone[r] + s.pending[r]

LEMMA DownFacts ==
  ASSUME NEW k, NEW s, NEW gone, NEW due, Losing(k, s, gone, due)
  PROVE  /\ ~Waits(k)
         /\ HadConnection(k)
         /\ LineOK(ScheduleReconnect(Detached(k)), OnLineDisconnected(s), NoSends,
                   Minus(due, Plus(gone, s.pending)))
         /\ WaitOK(ScheduleReconnect(Detached(k)))
  <1> DEFINE d == OnLineDisconnected(s)
             w == ScheduleReconnect(Detached(k))
  <1>1. ~Waits(k) /\ HadConnection(k)
    BY DEF Losing, Waits, HadConnection
  <1>2. /\ w \in Sock /\ ~w.connecting /\ w.scheduled /\ w.timers = 1
        /\ w.conn = "none" /\ w.hello = FALSE
    <2> DEFINE e == Detached(k)
    <2>1. /\ e \in Sock /\ e.conn = "none" /\ ~e.connecting /\ ~e.hello
          /\ ~e.scheduled /\ e.timers = 0
      BY DEF Losing, Detached, Sock
    <2> HIDE DEF e
    <2>2. w = [e EXCEPT !.scheduled = TRUE, !.timers = @ + 1]
      BY <2>1 DEF e, ScheduleReconnect, CanSend
    <2> HIDE DEF w
    <2>3. w \in Sock
      <3>1. w = [e EXCEPT !.scheduled = TRUE, !.timers = 1]
        BY <2>1, <2>2
      <3> QED BY <2>1, <3>1 DEF Sock
    <2>4. ~w.connecting /\ w.scheduled /\ w.conn = "none" /\ w.hello = FALSE
      BY <2>1, <2>2 DEF Sock
    <2>5. w.timers = 1
      BY <2>1, <2>2 DEF Sock
    <2> QED BY <2>3, <2>4, <2>5
  <1>3. WaitOK(w)
    BY <1>2 DEF WaitOK, CanSend
  <1>4. Minus(due, Plus(gone, s.pending)) = NoSends
    BY DEF Losing, LineState, Minus, Plus, NoSends
  <1>5. /\ LineState(d) /\ ~d.connected /\ ~d.negotiated /\ ~d.healthy
        /\ d.pending = NoSends
    BY DisconnectedFacts DEF Losing
  <1> HIDE DEF d, w
  <1>6. LineOK(w, d, NoSends, Minus(due, Plus(gone, s.pending)))
    BY <1>2, <1>4, <1>5 DEF LineOK, CanSend
  <1> QED BY <1>1, <1>3, <1>6 DEF d, w

\* mark_unavailable on lines that all have a connection.
LEMMA MarkFacts ==
  ASSUME NEW net, Domains(net), NEW which \in SUBSET Lines,
         \A l \in which :
           Losing(net.sock[l], net.sched[l], net.lost[l], net.owed[l]),
         \A l \in Lines \ which :
           LineOK(net.sock[l], net.sched[l], net.lost[l], net.owed[l]),
         \A l \in Lines \ which : WaitOK(net.sock[l])
  PROVE  LET m == MarkUnavailable(net, which)
         IN  /\ NetOK(m) /\ NetWaits(m)
             /\ \A l \in which : ~Eligible(m.sched[l])
             /\ \A l \in Lines \ which : m.sched[l] = net.sched[l]
  <1> DEFINE m == MarkUnavailable(net, which)
             lostNow == [l \in Lines |->
                           IF l \in which THEN Plus(net.lost[l], net.sched[l].pending)
                           ELSE net.lost[l]]
  <1>1. {l \in which : ~Waits(net.sock[l])} = which
    BY DownFacts
  <1>2. (\E l \in which : HadConnection(net.sock[l])) <=> which # {}
    BY DownFacts
  <1>3. /\ m.sock = [l \in Lines |-> IF l \in which
                                     THEN ScheduleReconnect(Detached(net.sock[l]))
                                     ELSE net.sock[l]]
        /\ m.sched = [l \in Lines |-> IF l \in which THEN OnLineDisconnected(net.sched[l])
                                      ELSE net.sched[l]]
        /\ m.lost = IF which # {} THEN [l \in Lines |-> NoSends] ELSE lostNow
        /\ m.owed = IF which # {} THEN [l \in Lines |-> Minus(net.owed[l], lostNow[l])]
                    ELSE net.owed
    BY <1>1, <1>2, Zenon DEF MarkUnavailable
  <1> HIDE DEF m
  <1>4. Domains(m)
    BY <1>3 DEF Domains
  <1>5. ASSUME NEW l \in which
        PROVE  /\ LineOK(m.sock[l], m.sched[l], m.lost[l], m.owed[l])
               /\ WaitOK(m.sock[l])
               /\ ~Eligible(m.sched[l])
    <2>1. l \in Lines /\ which # {}
      OBVIOUS
    <2>2. /\ m.sock[l] = ScheduleReconnect(Detached(net.sock[l]))
          /\ m.sched[l] = OnLineDisconnected(net.sched[l])
          /\ m.lost[l] = NoSends
          /\ m.owed[l] = Minus(net.owed[l], Plus(net.lost[l], net.sched[l].pending))
      BY <1>3, <2>1
    <2>3. Losing(net.sock[l], net.sched[l], net.lost[l], net.owed[l])
      OBVIOUS
    <2>4. ~OnLineDisconnected(net.sched[l]).connected
      BY <2>3, DisconnectedFacts DEF Losing
    <2> QED BY <2>2, <2>3, <2>4, DownFacts DEF Eligible
  <1>6. ASSUME NEW l \in Lines \ which
        PROVE  /\ LineOK(m.sock[l], m.sched[l], m.lost[l], m.owed[l])
               /\ WaitOK(m.sock[l])
               /\ m.sched[l] = net.sched[l]
    <2>1. LineOK(net.sock[l], net.sched[l], net.lost[l], net.owed[l]) /\ WaitOK(net.sock[l])
      OBVIOUS
    <2>2. m.sock[l] = net.sock[l] /\ m.sched[l] = net.sched[l]
      BY <1>3
    <2>3. net.lost[l] = NoSends /\ net.owed[l] = net.sched[l].pending
      BY <2>1 DEF LineOK
    <2>4. net.sched[l].pending \in [Requests -> Nat]
      BY <2>1 DEF LineOK, LineState
    <2>5. lostNow[l] = NoSends
      BY <2>3
    <2>6. Minus(net.owed[l], lostNow[l]) = net.owed[l]
      BY <2>3, <2>4, <2>5 DEF Minus, NoSends
    <2> HIDE DEF lostNow
    <2>7. m.lost[l] = NoSends /\ m.owed[l] = net.owed[l]
      BY <1>3, <2>3, <2>5, <2>6
    <2> QED BY <2>1, <2>2, <2>3, <2>7
  <1>7. NetOK(m) /\ NetWaits(m)
    BY <1>4, <1>5, <1>6 DEF NetOK, NetWaits
  <1> QED BY <1>5, <1>6, <1>7 DEF m

\* A line that is open may be marked unavailable, its connection closed or not.
LEMMA OpenLoses ==
  ASSUME NEW k, NEW s, NEW gone, NEW due, LineOK(k, s, gone, due), WaitOK(k), CanSend(k)
  PROVE  /\ Losing(k, s, gone, due)
         /\ Losing([k EXCEPT !.conn = "closed"], s, gone, due)
  <1>1. /\ gone \in [Requests -> Nat] /\ due \in [Requests -> Int]
        /\ \A r \in Requests : due[r] = gone[r] + s.pending[r]
    BY DEF LineOK, LineState, NoSends
  <1>2. k \in Sock /\ LineState(s) /\ k.conn = "open" /\ ~k.connecting
        /\ ~k.scheduled /\ k.timers = 0
    BY DEF LineOK, WaitOK, CanSend
  <1> QED BY <1>1, <1>2 DEF Losing, Sock

\* flush_controls on lines that agree with their sockets: the queue empties
\* or no line can take it, and no line is taken down.
LEMMA FlushFacts ==
  ASSUME NEW net, NetOK(net), NEW queued \in Nat, NEW c \in ControlLine(net)
  PROVE  /\ FlushNet(net, queued, c) = net
         /\ FlushQueue(net, queued, c) \in Nat
         /\ FlushQueue(net, queued, c) > 0 => \A l \in Lines : ~Eligible(net.sched[l])
         /\ c # NoLine => c \in Lines /\ Eligible(net.sched[c]) /\ CanSend(net.sock[c])
         /\ c = NoLine => \A l \in Lines : ~Eligible(net.sched[l])
  <1>1. c # NoLine => c \in Lines /\ Eligible(net.sched[c])
    BY Zenon DEF ControlLine
  <1>2. c = NoLine => \A l \in Lines : ~Eligible(net.sched[l])
    BY ConfigAssumption, Zenon DEF ControlLine
  <1>3. c # NoLine => CanSend(net.sock[c])
    BY <1>1 DEF NetOK, LineOK, Eligible
  <1> QED BY <1>1, <1>2, <1>3 DEF FlushNet, FlushQueue

-----------------------------------------------------------------------------
(* Steps.                                                                   *)

LEMMA InstallFacts ==
  ASSUME NEW net, NetOK(net), NetWaits(net), Install(net)
  PROVE  NetOK(Net)' /\ NetWaits(Net)'
  BY DEF Install, NetOK, NetWaits, Domains, Net

\* A step that changes one line.
LEMMA OneLineStep ==
  ASSUME NetOK(Net), NetWaits(Net), NEW l \in Lines,
         NEW k, NEW s, NEW gone, NEW due, LineOK(k, s, gone, due), WaitOK(k),
         sock' = [sock EXCEPT ![l] = k], sched' = [sched EXCEPT ![l] = s],
         lost' = [lost EXCEPT ![l] = gone], owed' = [owed EXCEPT ![l] = due]
  PROVE  NetOK(Net)' /\ NetWaits(Net)'
  <1>1. Domains(Net)
    BY DEF NetOK
  <1>2. Domains(Net)'
    BY <1>1 DEF Domains, Net
  <1>3. ASSUME NEW m \in Lines
        PROVE  LineOK(sock'[m], sched'[m], lost'[m], owed'[m]) /\ WaitOK(sock'[m])
    <2>1. CASE m = l
      <3>1. sock'[m] = k /\ sched'[m] = s /\ lost'[m] = gone /\ owed'[m] = due
        BY <1>1, <2>1 DEF Domains, Net
      <3> QED BY <3>1
    <2>2. CASE m # l
      <3>1. /\ sock'[m] = sock[m] /\ sched'[m] = sched[m]
            /\ lost'[m] = lost[m] /\ owed'[m] = owed[m]
        BY <1>1, <2>2 DEF Domains, Net
      <3>2. LineOK(sock[m], sched[m], lost[m], owed[m]) /\ WaitOK(sock[m])
        BY DEF NetOK, NetWaits, Net
      <3> QED BY <3>1, <3>2
    <2> QED BY <2>1, <2>2
  <1> QED BY <1>2, <1>3 DEF NetOK, NetWaits, Net

\* What the invariant says of one line of a running sender.
LEMMA LineFacts ==
  ASSUME NetworkInv, running, NEW l \in Lines
  PROVE  /\ NetOK(Net) /\ NetWaits(Net) /\ Domains(Net)
         /\ LineOK(sock[l], sched[l], lost[l], owed[l]) /\ WaitOK(sock[l])
  BY DEF NetworkInv, NetOK, NetWaits, Net

LEMMA ConnectedStep ==
  ASSUME NetworkInv, NEW l \in Lines, Connected(l)
  PROVE  NetworkInv'
  <1> DEFINE s == sched[l]
             c == Cleared(s)
             t == OnLineConnected(s)
             k == [sock[l] EXCEPT !.connecting = FALSE, !.scheduled = FALSE,
                                  !.conn = "open", !.hello = FALSE]
             g == Plus(lost[l], s.pending)
  <1>1. /\ NetOK(Net) /\ NetWaits(Net)
        /\ LineOK(sock[l], s, lost[l], owed[l]) /\ WaitOK(sock[l])
        /\ Domains(Net)
    BY LineFacts DEF Connected
  <1>2. sock[l] \in Sock /\ sock[l].connecting /\ ~CanSend(sock[l])
        /\ sock[l].timers = 0
    BY <1>1 DEF Connected, LineOK, WaitOK
  <1>3. k \in Sock /\ k.conn = "open" /\ ~k.connecting /\ ~k.scheduled
        /\ k.timers = 0 /\ ~k.hello
    BY <1>2 DEF Sock
  <1>4. LineState(s) /\ s.pending = NoSends /\ owed[l] = NoSends /\ lost[l] = NoSends
    BY <1>1, <1>2 DEF LineOK
  <1>5. g = NoSends
    BY <1>4 DEF Plus, NoSends
  <1>6. LineState(c) /\ c.pending = NoSends
    BY <1>4, ClearedFacts
  <1>7. t = [c EXCEPT !.connected = TRUE, !.negotiated = FALSE,
                     !.healthy = FALSE, !.stale = FALSE,
                     !.missed = 0, !.window = InitialWindow]
    BY DEF OnLineConnected
  <1> HIDE DEF c
  <1>8. LineState(t) /\ t.connected /\ ~t.negotiated /\ ~t.healthy /\ ~t.stale
        /\ t.pending = NoSends
    BY <1>6, <1>7 DEF LineState, Fields
  <1>9. /\ sched' = [sched EXCEPT ![l] = t] /\ lost' = [lost EXCEPT ![l] = g]
        /\ controls' = controls /\ running' = running
    BY DEF Connected
  <1>10. sock' = [sock EXCEPT ![l] = k]
    BY <1>1 DEF Connected, Domains, Net
  <1>11. owed' = [owed EXCEPT ![l] = owed[l]]
    BY <1>1 DEF Connected, Domains, Net
  <1> HIDE DEF s, t, k, g
  <1>12. LineOK(k, t, g, owed[l]) /\ WaitOK(k)
    BY <1>3, <1>4, <1>5, <1>8 DEF LineOK, WaitOK, CanSend
  <1>13. NetOK(Net)' /\ NetWaits(Net)'
    BY <1>1, <1>9, <1>10, <1>11, <1>12, OneLineStep
  <1>14. ControlNotStuck'
    BY <1>1, <1>8, <1>9 DEF NetworkInv, ControlNotStuck, Eligible
  <1> QED BY <1>9, <1>13, <1>14 DEF NetworkInv

LEMMA ConnectFailedStep ==
  ASSUME NetworkInv, NEW l \in Lines, ConnectFailed(l)
  PROVE  NetworkInv'
  <1> DEFINE s == sched[l]
             t == OnLineDisconnected(s)
             e == [sock[l] EXCEPT !.connecting = FALSE, !.hello = FALSE]
             k == ScheduleReconnect(e)
             g == Plus(lost[l], s.pending)
  <1>1. /\ NetOK(Net) /\ NetWaits(Net) /\ Domains(Net)
        /\ LineOK(sock[l], s, lost[l], owed[l]) /\ WaitOK(sock[l])
    BY LineFacts DEF ConnectFailed
  <1>2. /\ sock[l] \in Sock /\ sock[l].connecting /\ ~CanSend(sock[l])
        /\ ~sock[l].scheduled /\ sock[l].timers = 0
    BY <1>1 DEF ConnectFailed, LineOK, WaitOK
  <1>3. /\ k \in Sock /\ k.conn = "none" /\ ~k.connecting /\ k.scheduled
        /\ k.timers = 1 /\ ~k.hello
    <2>1. /\ e \in Sock /\ e.conn = "none" /\ ~e.connecting /\ ~e.scheduled
          /\ e.timers = 0 /\ ~e.hello
      BY <1>2 DEF Sock, CanSend
    <2> HIDE DEF e
    <2>2. k = [e EXCEPT !.scheduled = TRUE, !.timers = 1]
      BY <2>1 DEF ScheduleReconnect, CanSend
    <2> HIDE DEF k
    <2>3. k \in Sock
      BY <2>1, <2>2 DEF Sock
    <2> QED BY <2>1, <2>2, <2>3 DEF Sock
  <1>4. LineState(s) /\ s.pending = NoSends /\ owed[l] = NoSends /\ lost[l] = NoSends
    BY <1>1, <1>2 DEF LineOK
  <1>5. g = NoSends
    BY <1>4 DEF Plus, NoSends
  <1>6. /\ LineState(t) /\ ~t.connected /\ ~t.negotiated /\ ~t.healthy
        /\ t.pending = NoSends
    BY <1>4, DisconnectedFacts
  <1>7. /\ sock' = [sock EXCEPT ![l] = k] /\ sched' = [sched EXCEPT ![l] = t]
        /\ lost' = [lost EXCEPT ![l] = g]
        /\ controls' = controls /\ running' = running
    BY DEF ConnectFailed
  <1>8. owed' = [owed EXCEPT ![l] = owed[l]]
    BY <1>1 DEF ConnectFailed, Domains, Net
  <1> HIDE DEF s, t, k, g
  <1>9. LineOK(k, t, g, owed[l]) /\ WaitOK(k)
    BY <1>3, <1>4, <1>5, <1>6 DEF LineOK, WaitOK, CanSend
  <1>10. NetOK(Net)' /\ NetWaits(Net)'
    BY <1>1, <1>7, <1>8, <1>9, OneLineStep
  <1>11. ControlNotStuck'
    BY <1>1, <1>6, <1>7 DEF NetworkInv, ControlNotStuck, Eligible
  <1> QED BY <1>7, <1>10, <1>11 DEF NetworkInv

LEMMA ReconnectTimerStep ==
  ASSUME NetworkInv, NEW l \in Lines, ReconnectTimer(l)
  PROVE  NetworkInv'
  <1> DEFINE e == [sock[l] EXCEPT !.timers = @ - 1, !.scheduled = FALSE]
             k == Connect(e)
  <1>1. /\ NetOK(Net) /\ NetWaits(Net) /\ Domains(Net)
        /\ LineOK(sock[l], sched[l], lost[l], owed[l]) /\ WaitOK(sock[l])
    BY LineFacts DEF ReconnectTimer
  <1>2. /\ sock[l] \in Sock /\ ~sock[l].connecting /\ ~CanSend(sock[l])
        /\ sock[l].timers = 1
    BY <1>1 DEF ReconnectTimer, LineOK, WaitOK, Sock
  <1>3. e = [sock[l] EXCEPT !.timers = 0, !.scheduled = FALSE]
    BY <1>2
  <1>6. /\ sock' = [sock EXCEPT ![l] = k]
        /\ controls' = controls /\ running' = running
        /\ sched' = sched
    BY DEF ReconnectTimer
  <1> HIDE DEF e
  <1>4. /\ e \in Sock /\ e.timers = 0 /\ ~e.scheduled /\ ~e.connecting
        /\ e.conn = sock[l].conn /\ e.hello = sock[l].hello
    BY <1>2, <1>3 DEF Sock
  <1>5. k = [e EXCEPT !.scheduled = FALSE, !.connecting = TRUE]
    BY <1>2, <1>4 DEF Connect, CanSend
  <1> HIDE DEF k
  <1>7. /\ k \in Sock /\ k.timers = 0 /\ ~k.scheduled /\ k.connecting
        /\ k.conn = sock[l].conn /\ k.hello = sock[l].hello
    BY <1>4, <1>5 DEF Sock
  <1>8. LineOK(k, sched[l], lost[l], owed[l]) /\ WaitOK(k)
    BY <1>1, <1>2, <1>7 DEF LineOK, WaitOK, CanSend
  <1>9. /\ sched' = [sched EXCEPT ![l] = sched[l]]
        /\ lost' = [lost EXCEPT ![l] = lost[l]]
        /\ owed' = [owed EXCEPT ![l] = owed[l]]
    BY <1>1 DEF ReconnectTimer, Domains, Net
  <1>10. NetOK(Net)' /\ NetWaits(Net)'
    BY <1>1, <1>6, <1>8, <1>9, OneLineStep
  <1> QED BY <1>6, <1>10 DEF NetworkInv, ControlNotStuck

\* A step that takes down the lines of which, all of them open before.
LEMMA TakenDown ==
  ASSUME NetworkInv, running, NEW net, Domains(net), NEW which \in SUBSET Lines,
         \A l \in which :
           Losing(net.sock[l], net.sched[l], net.lost[l], net.owed[l]),
         \A l \in Lines \ which :
           /\ net.sock[l] = sock[l] /\ net.sched[l] = sched[l]
           /\ net.lost[l] = lost[l] /\ net.owed[l] = owed[l],
         Install(MarkUnavailable(net, which)),
         controls' = controls, running' = running
  PROVE  NetworkInv'
  <1> DEFINE m == MarkUnavailable(net, which)
  <1>1. \A l \in Lines \ which :
          /\ LineOK(net.sock[l], net.sched[l], net.lost[l], net.owed[l])
          /\ WaitOK(net.sock[l])
    BY LineFacts
  <1>2. /\ NetOK(m) /\ NetWaits(m)
        /\ \A l \in which : ~Eligible(m.sched[l])
        /\ \A l \in Lines \ which : m.sched[l] = net.sched[l]
    BY <1>1, MarkFacts
  <1>3. Install(m)
    OBVIOUS
  <1> HIDE DEF m
  <1>4. NetOK(Net)' /\ NetWaits(Net)'
    BY <1>2, <1>3, InstallFacts
  <1>5. ControlNotStuck'
    BY <1>2, <1>3 DEF Install, NetworkInv, ControlNotStuck
  <1> QED BY <1>4, <1>5 DEF NetworkInv

LEMMA ConnectionLostStep ==
  ASSUME NetworkInv, NEW l \in Lines, ConnectionLost(l)
  PROVE  NetworkInv'
  <1> DEFINE net == [Net EXCEPT !.sock[l].conn = "closed"]
  <1>1. /\ running /\ CanSend(sock[l]) /\ Domains(Net)
        /\ LineOK(sock[l], sched[l], lost[l], owed[l]) /\ WaitOK(sock[l])
    BY LineFacts DEF ConnectionLost
  <1>2. /\ net.sock = [sock EXCEPT ![l].conn = "closed"] /\ net.sched = sched
        /\ net.lost = lost /\ net.owed = owed
    BY DEF Net
  <1>3. /\ Install(MarkUnavailable(net, {l}))
        /\ controls' = controls /\ running' = running
    BY DEF ConnectionLost
  <1> HIDE DEF net
  <1>4. /\ Domains(net)
        /\ net.sock[l] = [sock[l] EXCEPT !.conn = "closed"]
        /\ \A m \in Lines \ {l} : net.sock[m] = sock[m]
    BY <1>1, <1>2 DEF Domains, Net
  <1>5. Losing(net.sock[l], net.sched[l], net.lost[l], net.owed[l])
    BY <1>1, <1>2, <1>4, OpenLoses
  <1>6. {l} \in SUBSET Lines
    OBVIOUS
  <1>7. \A m \in {l} : Losing(net.sock[m], net.sched[m], net.lost[m], net.owed[m])
    BY <1>5
  <1>8. \A m \in Lines \ {l} :
          /\ net.sock[m] = sock[m] /\ net.sched[m] = sched[m]
          /\ net.lost[m] = lost[m] /\ net.owed[m] = owed[m]
    BY <1>2, <1>4
  <1> QED BY <1>1, <1>3, <1>4, <1>6, <1>7, <1>8, TakenDown

LEMMA DropLineStep ==
  ASSUME NetworkInv, NEW l \in Lines, DropLine(l)
  PROVE  NetworkInv'
  <1>1. /\ running /\ CanSend(sock[l]) /\ Domains(Net)
        /\ LineOK(sock[l], sched[l], lost[l], owed[l]) /\ WaitOK(sock[l])
    BY LineFacts DEF DropLine
  <1>2. /\ Net.sock = sock /\ Net.sched = sched
        /\ Net.lost = lost /\ Net.owed = owed
    BY DEF Net
  <1>3. Losing(Net.sock[l], Net.sched[l], Net.lost[l], Net.owed[l])
    BY <1>1, <1>2, OpenLoses
  <1>4. /\ Install(MarkUnavailable(Net, {l}))
        /\ controls' = controls /\ running' = running
    BY DEF DropLine
  <1> QED BY <1>1, <1>2, <1>3, <1>4, TakenDown

LEMMA ProtocolBrokenStep ==
  ASSUME NetworkInv, NEW l \in Lines, ProtocolBroken(l)
  PROVE  NetworkInv'
  <1> DEFINE d == OnLineDisconnected(sched[l])
             g == Plus(lost[l], sched[l].pending)
             net0 == [Net EXCEPT !.sock[l].hello = FALSE]
             net == [net0 EXCEPT !.sched[l] = OnLineDisconnected(@),
                                 !.lost[l] = Plus(@, net0.sched[l].pending)]
  <1>1. /\ running /\ CanSend(sock[l]) /\ Domains(Net)
        /\ LineOK(sock[l], sched[l], lost[l], owed[l]) /\ WaitOK(sock[l])
    BY LineFacts DEF ProtocolBroken
  <1>2. /\ net.sock = [sock EXCEPT ![l].hello = FALSE]
        /\ net.sched = [sched EXCEPT ![l] = d]
        /\ net.lost = [lost EXCEPT ![l] = g]
        /\ net.owed = owed
    BY DEF Net
  <1>3. /\ Install(MarkUnavailable(net, {l}))
        /\ controls' = controls /\ running' = running
    BY DEF ProtocolBroken, ProtocolError
  <1> HIDE DEF net
  <1>4. /\ Domains(net)
        /\ net.sock[l] = [sock[l] EXCEPT !.hello = FALSE]
        /\ net.sched[l] = d /\ net.lost[l] = g
        /\ \A m \in Lines \ {l} :
             net.sock[m] = sock[m] /\ net.sched[m] = sched[m] /\ net.lost[m] = lost[m]
    BY <1>1, <1>2 DEF Domains, Net
  <1>5. Losing(net.sock[l], net.sched[l], net.lost[l], net.owed[l])
    <2>1. LineState(d) /\ d.pending = NoSends
      BY <1>1, DisconnectedFacts DEF LineOK
    <2>2. /\ lost[l] = NoSends /\ owed[l] = sched[l].pending
          /\ sched[l].pending \in [Requests -> Nat]
      BY <1>1 DEF LineOK, LineState
    <2>3. g = sched[l].pending
      BY <2>2 DEF Plus, NoSends
    <2>4. Losing(sock[l], sched[l], lost[l], owed[l])
      BY <1>1, OpenLoses
    <2> HIDE DEF d, g
    <2>5. \A r \in Requests : owed[l][r] = g[r] + d.pending[r]
      BY <2>1, <2>2, <2>3 DEF NoSends
    <2> QED BY <1>2, <1>4, <2>1, <2>2, <2>3, <2>4, <2>5 DEF Losing
  <1>6. {l} \in SUBSET Lines
    OBVIOUS
  <1>7. \A m \in {l} : Losing(net.sock[m], net.sched[m], net.lost[m], net.owed[m])
    BY <1>5
  <1>8. \A m \in Lines \ {l} :
          /\ net.sock[m] = sock[m] /\ net.sched[m] = sched[m]
          /\ net.lost[m] = lost[m] /\ net.owed[m] = owed[m]
    BY <1>2, <1>4
  <1> QED BY <1>1, <1>3, <1>4, <1>6, <1>7, <1>8, TakenDown

LEMMA NegotiatedFacts ==
  ASSUME NEW s, LineState(s), NEW w
  PROVE  LET n == OnLineNegotiated(s, w)
         IN  /\ LineState(n) /\ n.connected /\ n.negotiated /\ n.healthy /\ ~n.stale
             /\ n.pending = s.pending
  BY DEF LineState, OnLineNegotiated, Fields

LEMMA HelloAcceptedStep ==
  ASSUME NetworkInv, NEW l \in Lines, NEW w, HelloAccepted(l, w)
  PROVE  NetworkInv'
  <1> DEFINE net == [Net EXCEPT !.sock[l].hello = TRUE,
                                !.sched[l] = OnLineNegotiated(@, w)]
             k == [sock[l] EXCEPT !.hello = TRUE]
             n == OnLineNegotiated(sched[l], w)
  <1>1. /\ running /\ CanSend(sock[l]) /\ NetOK(Net) /\ NetWaits(Net) /\ Domains(Net)
        /\ LineOK(sock[l], sched[l], lost[l], owed[l]) /\ WaitOK(sock[l])
    BY LineFacts DEF HelloAccepted
  <1>2. /\ net.sock = [sock EXCEPT ![l].hello = TRUE] /\ net.sched = [sched EXCEPT ![l] = n]
        /\ net.lost = lost /\ net.owed = owed
    BY DEF Net
  <1>3. PICK c \in ControlLine(net) :
          /\ Install(FlushNet(net, controls, c))
          /\ controls' = FlushQueue(net, controls, c)
    BY DEF HelloAccepted
  <1>4. running' = running
    BY DEF HelloAccepted
  <1> HIDE DEF net
  <1>5. /\ Domains(net) /\ net.sock[l] = k /\ net.sched[l] = n
        /\ \A m \in Lines \ {l} : net.sock[m] = sock[m] /\ net.sched[m] = sched[m]
    BY <1>1, <1>2 DEF Domains, Net
  <1>6. LineOK(k, n, lost[l], owed[l]) /\ WaitOK(k)
    <2>1. /\ LineState(n) /\ n.connected /\ n.negotiated /\ n.healthy /\ ~n.stale
          /\ n.pending = sched[l].pending
      BY <1>1, NegotiatedFacts DEF LineOK
    <2>2. /\ k \in Sock /\ k.hello /\ k.conn = "open"
          /\ k.connecting = sock[l].connecting /\ k.scheduled = sock[l].scheduled
          /\ k.timers = sock[l].timers
      BY <1>1 DEF LineOK, CanSend, Sock
    <2> HIDE DEF k, n
    <2> QED BY <1>1, <2>1, <2>2 DEF LineOK, WaitOK, CanSend
  <1>7. \A m \in Lines : LineOK(sock[m], sched[m], lost[m], owed[m]) /\ WaitOK(sock[m])
    BY <1>1, LineFacts
  <1>8. NetOK(net) /\ NetWaits(net)
    BY <1>2, <1>5, <1>6, <1>7 DEF NetOK, NetWaits
  <1>9. controls \in Nat
    BY DEF NetworkInv
  <1>10. /\ FlushNet(net, controls, c) = net /\ controls' \in Nat
         /\ controls' > 0 => \A m \in Lines : ~Eligible(net.sched[m])
    BY <1>3, <1>8, <1>9, FlushFacts
  <1>11. Install(net)
    BY <1>3, <1>10
  <1>12. NetOK(Net)' /\ NetWaits(Net)'
    BY <1>8, <1>11, InstallFacts
  <1>13. ControlNotStuck'
    BY <1>10, <1>11 DEF Install, ControlNotStuck
  <1> QED BY <1>1, <1>4, <1>10, <1>12, <1>13 DEF NetworkInv

LEMMA HeartbeatReceivedStep ==
  ASSUME NetworkInv, NEW l \in Lines, NEW h, HeartbeatReceived(l, h)
  PROVE  NetworkInv'
  <1> DEFINE s == sched[l]
             t == OnHeartbeat(s, h)
             d == CompletedSends(s, h)
  <1>1. /\ running /\ CanSend(sock[l]) /\ sock[l].hello
        /\ NetOK(Net) /\ NetWaits(Net) /\ Domains(Net)
        /\ LineOK(sock[l], s, lost[l], owed[l]) /\ WaitOK(sock[l])
    BY LineFacts DEF HeartbeatReceived
  <1>2. LineState(s) /\ owed[l] = s.pending /\ lost[l] = NoSends
    BY <1>1 DEF LineOK
  <1>3. Minus(s.pending, d) \in [Requests -> Nat]
    BY <1>2 DEF CompletedSends, Minus, LineState
  <1>4. /\ sched' = [sched EXCEPT ![l] = t]
        /\ owed' = [owed EXCEPT ![l] = Minus(owed[l], d)]
        /\ controls' = controls /\ running' = running
    BY DEF HeartbeatReceived
  <1>5. sock' = [sock EXCEPT ![l] = sock[l]] /\ lost' = [lost EXCEPT ![l] = lost[l]]
    BY <1>1 DEF HeartbeatReceived, Domains, Net
  <1>6. /\ LineState(t) /\ t.connected /\ t.negotiated /\ t.healthy /\ ~t.stale
        /\ t.pending = Minus(s.pending, d)
    <2> HIDE DEF d, s
    <2>1. PICK f : t = [s EXCEPT !.pending = Minus(s.pending, d), !.inflight = f,
                          !.window = h.window, !.missed = 0, !.connected = TRUE,
                          !.negotiated = TRUE, !.healthy = TRUE, !.stale = FALSE]
      BY DEF OnHeartbeat, d
    <2> HIDE DEF t
    <2> QED BY <1>2, <1>3, <2>1 DEF LineState, Fields
  <1> HIDE DEF t, d
  <1>7. LineOK(sock[l], t, lost[l], Minus(owed[l], d))
    BY <1>1, <1>2, <1>6 DEF LineOK
  <1>8. NetOK(Net)' /\ NetWaits(Net)'
    BY <1>1, <1>4, <1>5, <1>7, OneLineStep
  <1>9. Eligible(s)
    BY <1>1 DEF LineOK, Eligible
  <1>10. ~(controls > 0)
    BY <1>9 DEF NetworkInv, ControlNotStuck
  <1> QED BY <1>4, <1>8, <1>10 DEF NetworkInv, ControlNotStuck

LEMMA RefillFacts ==
  ASSUME NEW s, LineState(s), s.connected => ~s.stale
  PROVE  LET t == RefillTicks(s)
         IN  /\ LineState(t) /\ t.pending = s.pending /\ t.connected = s.connected
             /\ t.negotiated = s.negotiated /\ t.healthy = s.healthy
             /\ t.connected /\ t.stale => t.pending # NoSends
  <1> DEFINE t == RefillTicks(s)
  <1>1. PICK m, b, q : /\ t = [s EXCEPT !.tokens = b, !.missed = m, !.stale = q]
                       /\ q \in BOOLEAN
                       /\ q => s.stale \/ s.pending # NoSends
    <2> DEFINE m == IF s.connected /\ s.missed <= Timeout THEN s.missed + 1 ELSE s.missed
               b == IF s.tokens + TokensPerTick > Capacity THEN Capacity
                    ELSE s.tokens + TokensPerTick
               q == s.stale \/ (s.connected /\ s.pending # NoSends
                                /\ Timeout > 0 /\ m > Timeout)
    <2>1. t = [s EXCEPT !.tokens = b, !.missed = m, !.stale = q]
      BY DEF RefillTicks
    <2>2. q \in BOOLEAN
      OBVIOUS
    <2>3. q => s.stale \/ s.pending # NoSends
      OBVIOUS
    <2> HIDE DEF m, b, q, t
    <2> QED BY <2>1, <2>2, <2>3
  <1> HIDE DEF t
  <1>2. LineState(t) /\ t.pending = s.pending /\ t.connected = s.connected
        /\ t.negotiated = s.negotiated /\ t.healthy = s.healthy /\ t.stale = q
    BY <1>1 DEF LineState, Fields
  <1>3. t.connected /\ t.stale => t.pending # NoSends
    BY <1>1, <1>2
  <1> QED BY <1>2, <1>3 DEF t

LEMMA TickStep ==
  ASSUME NetworkInv, Tick
  PROVE  NetworkInv'
  <1> DEFINE net0 == [Net EXCEPT !.sched = [l \in Lines |-> RefillTicks(sched[l])]]
             late == {l \in Lines : LET s == net0.sched[l]
                                    IN  s.connected /\ s.stale /\ s.pending # NoSends}
             net == MarkUnavailable(net0, late)
  <1>1. running
    BY DEF Tick
  <1>2. /\ Domains(Net)
        /\ \A l \in Lines : LineOK(sock[l], sched[l], lost[l], owed[l]) /\ WaitOK(sock[l])
    BY <1>1 DEF NetworkInv, NetOK, NetWaits, Net
  <1>3. /\ net0.sock = sock /\ net0.sched = [l \in Lines |-> RefillTicks(sched[l])]
        /\ net0.lost = lost /\ net0.owed = owed
    BY DEF Net
  <1>4. PICK c \in ControlLine(net) :
          /\ Install(FlushNet(net, controls, c))
          /\ controls' = FlushQueue(net, controls, c)
    BY DEF Tick
  <1>5. running' = running
    BY DEF Tick
  <1>6. \A l \in late : /\ l \in Lines
                         /\ net0.sched[l].connected
    OBVIOUS
  <1>7. \A l \in Lines \ late :
          ~(net0.sched[l].connected /\ net0.sched[l].stale /\ net0.sched[l].pending # NoSends)
    OBVIOUS
  <1> HIDE DEF net, late, net0
  <1>8. Domains(net0)
    BY <1>2, <1>3 DEF Domains, Net
  <1>9. ASSUME NEW l \in Lines
        PROVE  LET t == net0.sched[l]
               IN  /\ LineState(t) /\ t.pending = sched[l].pending
                   /\ t.connected = sched[l].connected
                   /\ t.negotiated = sched[l].negotiated /\ t.healthy = sched[l].healthy
                   /\ t.connected /\ t.stale => t.pending # NoSends
    <2>1. LineState(sched[l]) /\ (sched[l].connected => ~sched[l].stale)
      BY <1>2 DEF LineOK
    <2>2. net0.sched[l] = RefillTicks(sched[l])
      BY <1>3
    <2> QED BY <2>1, <2>2, RefillFacts
  <1>10. ASSUME NEW l \in late
         PROVE  Losing(net0.sock[l], net0.sched[l], net0.lost[l], net0.owed[l])
    <2>1. l \in Lines /\ sched[l].connected
      BY <1>6, <1>9
    <2>2. LineOK(sock[l], sched[l], lost[l], owed[l]) /\ WaitOK(sock[l])
      BY <1>2, <2>1
    <2>3. Losing(sock[l], sched[l], lost[l], owed[l])
      BY <2>1, <2>2, OpenLoses DEF LineOK
    <2>4. LineState(net0.sched[l]) /\ net0.sched[l].pending = sched[l].pending
      BY <1>9, <2>1
    <2> QED BY <1>3, <2>3, <2>4 DEF Losing
  <1>11. ASSUME NEW l \in Lines \ late
         PROVE  /\ LineOK(net0.sock[l], net0.sched[l], net0.lost[l], net0.owed[l])
                /\ WaitOK(net0.sock[l])
    <2>1. LineOK(sock[l], sched[l], lost[l], owed[l]) /\ WaitOK(sock[l])
      BY <1>2
    <2>2. net0.sched[l].connected => ~net0.sched[l].stale
      BY <1>7, <1>9 DEF LineState
    <2>3. /\ LineState(net0.sched[l]) /\ net0.sched[l].pending = sched[l].pending
          /\ net0.sched[l].connected = sched[l].connected
          /\ net0.sched[l].negotiated = sched[l].negotiated
          /\ net0.sched[l].healthy = sched[l].healthy
      BY <1>9
    <2> QED BY <1>3, <2>1, <2>2, <2>3 DEF LineOK
  <1>12. late \in SUBSET Lines
    BY <1>6
  <1>13. NetOK(net) /\ NetWaits(net)
    BY <1>8, <1>10, <1>11, <1>12, MarkFacts DEF net
  <1>14. controls \in Nat
    BY DEF NetworkInv
  <1>15. /\ FlushNet(net, controls, c) = net /\ controls' \in Nat
         /\ controls' > 0 => \A m \in Lines : ~Eligible(net.sched[m])
    BY <1>4, <1>13, <1>14, FlushFacts
  <1>16. Install(net)
    BY <1>4, <1>15
  <1>17. NetOK(Net)' /\ NetWaits(Net)'
    BY <1>13, <1>16, InstallFacts
  <1>18. ControlNotStuck'
    BY <1>15, <1>16 DEF Install, ControlNotStuck
  <1> QED BY <1>1, <1>5, <1>15, <1>17, <1>18 DEF NetworkInv

LEMMA AcquiredFacts ==
  ASSUME NEW s, LineState(s), NEW r \in Requests
  PROVE  LET t == Acquired(s, r)
         IN  /\ LineState(t) /\ t.pending = [s.pending EXCEPT ![r] = @ + 1]
             /\ t.connected = s.connected /\ t.negotiated = s.negotiated
             /\ t.healthy = s.healthy /\ t.stale = s.stale
  <1> DEFINE t == Acquired(s, r)
             p == [s.pending EXCEPT ![r] = @ + 1]
  <1>1. p \in [Requests -> Nat]
    BY DEF LineState
  <1>2. PICK b, m, f : t = [s EXCEPT !.tokens = b, !.missed = m, !.inflight = f,
                                     !.pending = p]
    <2> DEFINE b == s.tokens - r.bytes
               m == IF s.pending = NoSends THEN 0 ELSE s.missed
               f == s.inflight + r.bytes
    <2>1. t = [s EXCEPT !.tokens = b, !.missed = m, !.inflight = f, !.pending = p]
      BY DEF Acquired, LineState, Fields
    <2> HIDE DEF t, p, b, m, f
    <2> QED BY <2>1
  <1> HIDE DEF t, p
  <1>3. LineState(t) /\ t.pending = p /\ t.connected = s.connected
        /\ t.negotiated = s.negotiated /\ t.healthy = s.healthy /\ t.stale = s.stale
    BY <1>1, <1>2 DEF LineState, Fields
  <1> QED BY <1>3 DEF t, p

LEMMA SendStep ==
  ASSUME NetworkInv, NEW r \in Requests, Send(r)
  PROVE  NetworkInv'
  <1> DEFINE granted(l) == [Net EXCEPT !.sched[l] = Acquired(@, r)]
  <1>1. running /\ running' = running
    BY DEF Send
  <1>2. NetOK(Net) /\ NetWaits(Net) /\ Domains(Net) /\ controls \in Nat
    BY <1>1 DEF NetworkInv, NetOK
  <1>3. PICK c \in ControlLine(Net) :
          LET net == FlushNet(Net, controls, c)
          IN  /\ controls' = FlushQueue(Net, controls, c)
              /\ \/ Grantable(net, r) = {} /\ Install(net)
                 \/ \E l \in Grantable(net, r) :
                      Install(IF CanSend(net.sock[l])
                              THEN [[net EXCEPT !.sched[l] = Acquired(@, r)]
                                      EXCEPT !.owed[l][r] = @ + 1]
                              ELSE MarkUnavailable([net EXCEPT !.sched[l] = Acquired(@, r)], {l}))
    BY Zenon DEF Send
  <1>4. /\ FlushNet(Net, controls, c) = Net /\ controls' \in Nat
        /\ controls' > 0 => \A m \in Lines : ~Eligible(sched[m])
    <2>1. Net.sched = sched
      BY DEF Net
    <2> QED BY <1>2, <1>3, <2>1, FlushFacts
  <1>5. CASE Install(Net)
    <2>1. NetOK(Net)' /\ NetWaits(Net)'
      BY <1>2, <1>5, InstallFacts
    <2>2. sched' = sched
      BY <1>5 DEF Install, Net
    <2> QED BY <1>1, <1>4, <2>1, <2>2 DEF NetworkInv, ControlNotStuck
  <1>6. ASSUME NEW l \in Grantable(Net, r),
               Install(IF CanSend(Net.sock[l])
                       THEN [[Net EXCEPT !.sched[l] = Acquired(@, r)]
                               EXCEPT !.owed[l][r] = @ + 1]
                       ELSE MarkUnavailable([Net EXCEPT !.sched[l] = Acquired(@, r)], {l}))
        PROVE  NetworkInv'
    <2> DEFINE s == sched[l]
               t == Acquired(s, r)
               d == [owed[l] EXCEPT ![r] = @ + 1]
    <2>1. l \in Lines /\ Eligible(s)
      BY DEF Grantable, Net
    <2>2. LineOK(sock[l], s, lost[l], owed[l]) /\ WaitOK(sock[l])
      BY <1>1, <2>1, LineFacts
    <2>3. CanSend(sock[l])
      BY <2>1, <2>2 DEF LineOK, Eligible
    <2>4. Install([[Net EXCEPT !.sched[l] = Acquired(@, r)] EXCEPT !.owed[l][r] = @ + 1])
      BY <1>6, <2>3 DEF Net
    <2>5. /\ sock' = sock /\ lost' = lost /\ sched' = [sched EXCEPT ![l] = t]
          /\ owed' = [owed EXCEPT ![l] = d]
      BY <2>4 DEF Install, Net
    <2>6. sock' = [sock EXCEPT ![l] = sock[l]] /\ lost' = [lost EXCEPT ![l] = lost[l]]
      BY <1>2, <2>5 DEF Domains, Net
    <2>7. /\ LineState(t) /\ t.pending = [s.pending EXCEPT ![r] = @ + 1]
          /\ t.connected = s.connected /\ t.negotiated = s.negotiated
          /\ t.healthy = s.healthy /\ t.stale = s.stale
      BY <2>2, AcquiredFacts DEF LineOK
    <2>8. d = t.pending
      BY <2>2, <2>7 DEF LineOK
    <2> HIDE DEF t, d
    <2>9. LineOK(sock[l], t, lost[l], d)
      BY <2>1, <2>2, <2>7, <2>8 DEF LineOK, Eligible
    <2>10. NetOK(Net)' /\ NetWaits(Net)'
      BY <1>2, <2>1, <2>2, <2>5, <2>6, <2>9, OneLineStep
    <2>11. ~(controls' > 0)
      BY <1>4, <2>1
    <2> QED BY <1>1, <1>4, <2>10, <2>11 DEF NetworkInv, ControlNotStuck
  <1> QED BY <1>3, <1>4, <1>5, <1>6

LEMMA SendControlStep ==
  ASSUME NetworkInv, SendControl
  PROVE  NetworkInv'
  <1>1. running /\ running' = running
    BY DEF SendControl
  <1>2. NetOK(Net) /\ NetWaits(Net) /\ controls \in Nat /\ controls + 1 \in Nat
    BY <1>1 DEF NetworkInv
  <1>3. PICK c \in ControlLine(Net) :
          /\ Install(FlushNet(Net, controls + 1, c))
          /\ controls' = IF c # NoLine /\ CanSend(sock[c]) THEN controls ELSE controls + 1
    BY DEF SendControl
  <1>4. /\ FlushNet(Net, controls + 1, c) = Net
        /\ c # NoLine => c \in Lines /\ Eligible(Net.sched[c]) /\ CanSend(Net.sock[c])
        /\ c = NoLine => \A l \in Lines : ~Eligible(Net.sched[l])
    BY <1>2, <1>3, FlushFacts
  <1>5. Install(Net)
    BY <1>3, <1>4
  <1>6. NetOK(Net)' /\ NetWaits(Net)'
    BY <1>2, <1>5, InstallFacts
  <1>7. sched' = sched /\ Net.sched = sched /\ Net.sock = sock
    BY <1>5 DEF Install, Net
  <1>8. controls' \in Nat
    BY <1>2, <1>3
  <1>9. ControlNotStuck'
    <2>1. CASE c = NoLine
      BY <1>4, <1>7, <2>1 DEF ControlNotStuck
    <2>2. CASE c # NoLine
      <3>1. controls' = controls
        BY <1>3, <1>4, <1>7, <2>2
      <3> QED BY <1>7, <3>1 DEF NetworkInv, ControlNotStuck
    <2> QED BY <2>1, <2>2
  <1> QED BY <1>1, <1>6, <1>8, <1>9 DEF NetworkInv

LEMMA StopStep ==
  ASSUME NetworkInv, Stop
  PROVE  NetworkInv'
  <1>1. running' = FALSE /\ controls' = controls /\ sched' = sched
    BY DEF Stop
  <1>2. Domains(Net)'
    BY DEF Stop, NetworkInv, NetOK, Domains, Net
  <1>3. ASSUME NEW l \in Lines
        PROVE  LineOK(sock'[l], sched'[l], lost'[l], owed'[l])
    <2> DEFINE k == [sock[l] EXCEPT !.scheduled = FALSE]
    <2>1. LineOK(sock[l], sched[l], lost[l], owed[l])
      BY DEF NetworkInv, NetOK, Net
    <2>2. sock'[l] = k /\ sched' = sched /\ lost' = lost /\ owed' = owed
      BY DEF Stop
    <2>3. k \in Sock /\ k.conn = sock[l].conn /\ k.hello = sock[l].hello
      BY <2>1 DEF LineOK, Sock
    <2> HIDE DEF k
    <2>4. LineOK(k, sched[l], lost[l], owed[l])
      BY <2>1, <2>3 DEF LineOK, CanSend
    <2> QED BY <2>2, <2>4
  <1>4. NetOK(Net)'
    BY <1>2, <1>3 DEF NetOK, Net
  <1> QED BY <1>1, <1>4 DEF NetworkInv, ControlNotStuck

-----------------------------------------------------------------------------
LEMMA InitHolds == Init => NetworkInv
  <1> SUFFICES ASSUME Init PROVE NetworkInv
    OBVIOUS
  <1>1. Domains(Net)
    BY DEF Init, Domains, Net
  <1>2. ASSUME NEW l \in Lines
        PROVE  LineOK(sock[l], sched[l], lost[l], owed[l]) /\ WaitOK(sock[l])
    <2>1. /\ sock[l] = [conn |-> "none", connecting |-> TRUE, scheduled |-> FALSE,
                        timers |-> 0, hello |-> FALSE]
          /\ sched[l] = [connected |-> FALSE, negotiated |-> FALSE,
                         healthy |-> FALSE, stale |-> FALSE, missed |-> 0,
                         window |-> InitialWindow, inflight |-> 0,
                         tokens |-> Capacity, pending |-> NoSends]
          /\ lost[l] = NoSends /\ owed[l] = NoSends
      BY DEF Init
    <2>2. LineState(sched[l])
      BY <2>1 DEF LineState, Fields, NoSends
    <2>3. sock[l] \in Sock
      BY <2>1 DEF Sock
    <2> QED BY <2>1, <2>2, <2>3 DEF LineOK, WaitOK, CanSend
  <1>3. NetOK(Net) /\ NetWaits(Net)
    BY <1>1, <1>2 DEF NetOK, NetWaits, Net
  <1>4. controls = 0 /\ running = TRUE
    BY DEF Init
  <1> QED BY <1>3, <1>4 DEF NetworkInv, ControlNotStuck

LEMMA NextHolds == NetworkInv /\ [Next]_vars => NetworkInv'
  <1> SUFFICES ASSUME NetworkInv, [Next]_vars PROVE NetworkInv'
    OBVIOUS
  <1>1. CASE \E l \in Lines : Connected(l)
    BY <1>1, ConnectedStep
  <1>2. CASE \E l \in Lines : ConnectFailed(l)
    BY <1>2, ConnectFailedStep
  <1>3. CASE \E l \in Lines : ReconnectTimer(l)
    BY <1>3, ReconnectTimerStep
  <1>4. CASE \E l \in Lines : ConnectionLost(l)
    BY <1>4, ConnectionLostStep
  <1>5. CASE \E l \in Lines : Peer(l)
    <2>1. CASE \E l \in Lines : \E w \in PeerWindows : HelloAccepted(l, w)
      BY <2>1, HelloAcceptedStep
    <2>2. CASE \E l \in Lines : ProtocolBroken(l)
      BY <2>2, ProtocolBrokenStep
    <2>3. CASE \E l \in Lines : \E h \in Heartbeats : HeartbeatReceived(l, h)
      BY <2>3, HeartbeatReceivedStep
    <2> QED BY <1>5, <2>1, <2>2, <2>3 DEF Peer
  <1>6. CASE \E l \in Lines : DropLine(l)
    BY <1>6, DropLineStep
  <1>7. CASE \E r \in Requests : Send(r)
    BY <1>7, SendStep
  <1>8. CASE Tick
    BY <1>8, TickStep
  <1>9. CASE SendControl
    BY <1>9, SendControlStep
  <1>10. CASE Stop
    BY <1>10, StopStep
  <1>11. CASE UNCHANGED vars
    BY <1>11 DEF vars, NetworkInv, NetOK, NetWaits, Domains, Net, ControlNotStuck
  <1> QED BY <1>1, <1>2, <1>3, <1>4, <1>5, <1>6, <1>7, <1>8, <1>9, <1>10, <1>11
          DEF Next, Stopped

\* The inductive invariant of the sender's network holds throughout.
THEOREM InvariantHolds == Spec => []NetworkInv
  <1>1. Init => NetworkInv
    BY InitHolds
  <1>2. NetworkInv /\ [Next]_vars => NetworkInv'
    BY NextHolds
  <1> QED BY <1>1, <1>2, PTL DEF Spec

\* Scheduler, negotiation table and sockets agree on every line, whatever
\* the lines, the requests and the peers do: send() never grants a line it
\* cannot send on.
THEOREM ViewsAlwaysAgree == Spec => []ViewsAgree
  <1>1. NetworkInv => ViewsAgree
    BY DEF NetworkInv, NetOK, LineOK, Net, ViewsAgree
  <1> QED BY <1>1, InvariantHolds, PTL

\* No line of a running sender is left without an attempt or a timer.
THEOREM NoLineStranded == Spec => []NeverStranded
  <1>1. NetworkInv => NeverStranded
    BY DEF NetworkInv, NetWaits, WaitOK, Net, NeverStranded
  <1> QED BY <1>1, InvariantHolds, PTL

\* Every send is in flight, released by a heartbeat or handed back.
THEOREM SendsAccounted == Spec => []Accounted
  <1>1. NetworkInv => Accounted
    BY DEF NetworkInv, NetOK, LineOK, Net, Accounted
  <1> QED BY <1>1, InvariantHolds, PTL

\* A control message waits only for want of a line.
THEOREM ControlsMove == Spec => []ControlNotStuck
  <1>1. NetworkInv => ControlNotStuck
    BY DEF NetworkInv
  <1> QED BY <1>1, InvariantHolds, PTL
=============================================================================
