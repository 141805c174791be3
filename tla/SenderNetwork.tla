--------------------------- MODULE SenderNetwork ---------------------------
(***************************************************************************)
(* The sender's network: T_SenderNetwork with the T_SenderLineSet that     *)
(* holds the TCP connections and the T_MultiLineScheduler that decides     *)
(* which line a message goes to.                                           *)
(*                                                                         *)
(* All of it runs on one event loop, so one action is one callback of that *)
(* loop, or one call the sender application makes, with every call it      *)
(* makes in turn.  The peer may send any message while a line is open.     *)
(*                                                                         *)
(* A stream and a file of it are one name, file.  The score that picks     *)
(* among the lines fit for a request is left open: any of them may be      *)
(* picked, and the two fields only the score reads (consecutive_failures,  *)
(* last_completed_bytes) are left out.                                     *)
(***************************************************************************)
EXTENDS Integers, FiniteSetsExt

CONSTANTS
  Lines,
  Requests,       \* the T_SendRequests the application makes
  Heartbeats,     \* the T_Heartbeats the peer sends
  PeerWindows,    \* the max_inflight_bytes of the peer's T_Hello
  InitialWindow,  \* initial_recv_window_bytes
  Capacity,       \* of a token bucket
  TokensPerTick,
  Timeout,        \* heartbeat_timeout_ticks
  MaxControls     \* bound: control messages waiting at a time

NoLine == "no line"

ASSUME RequestAssumption ==
  /\ IsFiniteSet(Requests)
  /\ \A r \in Requests : r.bytes \in Nat \ {0} /\ r.seq \in Nat /\ r.end \in Nat
ASSUME ConfigAssumption ==
  /\ NoLine \notin Lines
  /\ Capacity \in Nat \ {0}
  /\ TokensPerTick \in Nat \ {0}
  /\ Timeout \in Nat
  /\ InitialWindow \in Nat
  /\ MaxControls \in Nat

NoSends == [r \in Requests |-> 0]

VARIABLES
  sock,     \* sock[l]: the T_Line and negotiated_lines_ entry of l
  sched,    \* sched[l]: the scheduler's LineState of l
  lost,     \* lost[l]: l's part of the scheduler's lost_sends_
  owed,     \* owed[l]: sends on l the application still waits for
  controls, \* the length of control_queue_
  running   \* FALSE once the application has called stop()

vars == <<sock, sched, lost, owed, controls, running>>

\* What the calls below pass on to each other.
Net == [sock |-> sock, sched |-> sched, lost |-> lost, owed |-> owed]

Install(net) ==
  /\ sock' = net.sock
  /\ sched' = net.sched
  /\ lost' = net.lost
  /\ owed' = net.owed

-----------------------------------------------------------------------------
(* T_MultiLineScheduler: what each call does to the LineState it is for.    *)
(* A set of sends is a bag: how often each request is in it.                *)

Plus(a, b) == [r \in Requests |-> a[r] + b[r]]
Minus(a, b) == [r \in Requests |-> a[r] - b[r]]

\* clear_inflight; the caller appends s.pending to lost_sends_.
Cleared(s) == [s EXCEPT !.inflight = 0, !.pending = NoSends]

OnLineConnected(s) ==
  [Cleared(s) EXCEPT !.connected = TRUE, !.negotiated = FALSE,
                     !.healthy = FALSE, !.stale = FALSE,
                     !.missed = 0, !.window = InitialWindow]

OnLineNegotiated(s, window) ==
  [s EXCEPT !.connected = TRUE, !.negotiated = TRUE,
            !.healthy = TRUE, !.stale = FALSE, !.missed = 0,
            !.window = IF window = 0 THEN InitialWindow ELSE window]

\* on_line_disconnected and on_line_protocol_error.
OnLineDisconnected(s) ==
  [Cleared(s) EXCEPT !.connected = FALSE, !.negotiated = FALSE,
                     !.healthy = FALSE, !.stale = TRUE]

\* What a heartbeat says of a request that is in flight.
Completed(r, h) ==
  CASE r.kind = "CHUNK" ->
         [file |-> r.file, seq |-> r.seq, chunk |-> r.chunk] \in h.chunks
    [] r.kind \in {"CREATE", "FILE_BEGIN", "FILE_COMMIT"} ->
         r.file = h.file /\ r.seq < h.next
    [] r.kind = "DATA" ->
         r.file = h.file /\ (r.seq < h.next \/ h.offset >= r.end \/ h.durable >= r.end)

CompletedSends(s, h) ==
  [r \in Requests |-> IF Completed(r, h) THEN s.pending[r] ELSE 0]

Bytes(sends) == MapThenSumSet(LAMBDA r : sends[r] * r.bytes, Requests)

\* Mutant of OnHeartbeat: the bytes of a request sent twice are released once.
OnHeartbeatOnce(s, h) ==
  LET done == Bytes([r \in Requests |-> IF CompletedSends(s, h)[r] > 0 THEN 1 ELSE 0])
  IN  [s EXCEPT !.pending = Minus(@, CompletedSends(s, h)),
                !.inflight = IF done >= @ THEN 0 ELSE @ - done,
                !.window = h.window, !.missed = 0, !.connected = TRUE,
                !.negotiated = TRUE, !.healthy = TRUE, !.stale = FALSE]

OnHeartbeat(s, h) ==
  LET done == Bytes(CompletedSends(s, h))
  IN  [s EXCEPT !.pending = Minus(@, CompletedSends(s, h)),
                !.inflight = IF done >= @ THEN 0 ELSE @ - done,
                !.window = h.window, !.missed = 0, !.connected = TRUE,
                !.negotiated = TRUE, !.healthy = TRUE, !.stale = FALSE]

\* Mutant of RefillTicks: the bucket overflows.
RefillTicksNoCap(s) ==
  LET missed == IF s.connected /\ s.missed <= Timeout THEN s.missed + 1 ELSE s.missed
  IN  [s EXCEPT !.tokens = @ + TokensPerTick,
                !.missed = missed,
                !.stale = @ \/ (s.connected /\ s.pending # NoSends
                                /\ Timeout > 0 /\ missed > Timeout)]

\* Mutant of RefillTicks: the counter stops at the timeout.
RefillTicksShort(s) ==
  LET missed == IF s.connected /\ s.missed < Timeout THEN s.missed + 1 ELSE s.missed
  IN  [s EXCEPT !.tokens = IF @ + TokensPerTick > Capacity THEN Capacity
                           ELSE @ + TokensPerTick,
                !.missed = missed,
                !.stale = @ \/ (s.connected /\ s.pending # NoSends
                                /\ Timeout > 0 /\ missed > Timeout)]

\* refill_ticks(1).  Only missed > Timeout is ever asked of the counter, so
\* it stops one above.
RefillTicks(s) ==
  LET missed == IF s.connected /\ s.missed <= Timeout THEN s.missed + 1 ELSE s.missed
  IN  [s EXCEPT !.tokens = IF @ + TokensPerTick > Capacity THEN Capacity
                           ELSE @ + TokensPerTick,
                !.missed = missed,
                !.stale = @ \/ (s.connected /\ s.pending # NoSends
                                /\ Timeout > 0 /\ missed > Timeout)]

Eligible(s) == s.connected /\ s.negotiated /\ s.healthy /\ ~s.stale

\* Mutant of Grantable: the window must exceed the request.
GrantableStrict(net, r) ==
  {l \in Lines : LET s == net.sched[l] IN
     Eligible(s) /\ s.window - s.inflight > r.bytes /\ s.tokens >= r.bytes}

\* The lines try_acquire chooses from.
Grantable(net, r) ==
  {l \in Lines : LET s == net.sched[l] IN
     /\ Eligible(s)
     /\ s.window > s.inflight
     /\ s.window - s.inflight >= r.bytes
     /\ s.tokens >= r.bytes}

Acquired(s, r) ==
  [s EXCEPT !.tokens = @ - r.bytes,
            !.missed = IF s.pending = NoSends THEN 0 ELSE @,
            !.inflight = @ + r.bytes,
            !.pending[r] = @ + 1]

\* choose_control_line: the widest of the lines that are fit.
ControlScore(s) == IF s.window > s.inflight THEN s.window - s.inflight ELSE 1

ControlLine(net) ==
  LET fit == {l \in Lines : Eligible(net.sched[l])}
  IN  IF fit = {} THEN {NoLine}
      ELSE {l \in fit : \A m \in fit :
              ControlScore(net.sched[m]) <= ControlScore(net.sched[l])}

-----------------------------------------------------------------------------
(* T_SenderLineSet and the callbacks T_SenderNetwork gives it.              *)

CanSend(k) == k.conn = "open"

\* Mutant of Connect: the attempt is not recorded.
ConnectUnrecorded(k) ==
  IF CanSend(k) \/ k.connecting THEN k ELSE [k EXCEPT !.scheduled = FALSE]

Connect(k) ==
  IF CanSend(k) \/ k.connecting THEN k
  ELSE [k EXCEPT !.scheduled = FALSE, !.connecting = TRUE]

ScheduleReconnect(k) ==
  IF CanSend(k) \/ k.connecting \/ k.scheduled THEN k
  ELSE [k EXCEPT !.scheduled = TRUE, !.timers = @ + 1]

\* mark_unavailable returns at once for a line that already waits for its
\* timer: closing the old connection calls it a second time.
Waits(k) == ~CanSend(k) /\ ~k.connecting /\ k.scheduled

Detached(k) == [k EXCEPT !.conn = "none", !.connecting = FALSE, !.hello = FALSE]

\* Mutant of HadConnection: only a connection that is still open counts.
HadOpenConnection(k) == CanSend(k)

HadConnection(k) == k.conn # "none"

\* mark_unavailable for each line of which, with handle_unavailable as the
\* callback: the sends in flight are lost, and the application is told
\* unless there was no connection to lose.
MarkUnavailable(net, which) ==
  LET down == {l \in which : ~Waits(net.sock[l])}
      lostNow == [l \in Lines |->
                    IF l \in down THEN Plus(net.lost[l], net.sched[l].pending)
                    ELSE net.lost[l]]
      tell == \E l \in down : HadConnection(net.sock[l])
  IN  [sock |-> [l \in Lines |-> IF l \in down THEN ScheduleReconnect(Detached(net.sock[l]))
                                 ELSE net.sock[l]],
       sched |-> [l \in Lines |-> IF l \in down THEN OnLineDisconnected(net.sched[l])
                                  ELSE net.sched[l]],
       lost |-> IF tell THEN [l \in Lines |-> NoSends] ELSE lostNow,
       owed |-> IF tell THEN [l \in Lines |-> Minus(net.owed[l], lostNow[l])]
                ELSE net.owed]

\* on_line_protocol_error, then mark_unavailable.
ProtocolError(net, l) ==
  MarkUnavailable([net EXCEPT !.sched[l] = OnLineDisconnected(@),
                              !.lost[l] = Plus(@, net.sched[l].pending)], {l})

\* flush_controls: every control message leaves on the chosen line.
FlushNet(net, queued, line) ==
  IF queued = 0 \/ line = NoLine THEN net
  ELSE IF CanSend(net.sock[line]) THEN net ELSE MarkUnavailable(net, {line})

FlushQueue(net, queued, line) ==
  IF line = NoLine THEN queued
  ELSE IF CanSend(net.sock[line]) THEN 0 ELSE queued

-----------------------------------------------------------------------------
(* Callbacks of the event loop.                                             *)

\* The connect succeeded: handle_connected sends the T_Hello.
Connected(l) ==
  /\ running /\ sock[l].connecting
  /\ sock' = [sock EXCEPT ![l].connecting = FALSE, ![l].scheduled = FALSE,
                          ![l].conn = "open", ![l].hello = FALSE]
  /\ sched' = [sched EXCEPT ![l] = OnLineConnected(@)]
  /\ lost' = [lost EXCEPT ![l] = Plus(@, sched[l].pending)]
  /\ UNCHANGED <<owed, controls, running>>

\* Mutant of ConnectFailed: the line is not tried again.
ConnectFailedGivesUp(l) ==
  /\ running /\ sock[l].connecting
  /\ sock' = [sock EXCEPT ![l].connecting = FALSE, ![l].hello = FALSE]
  /\ sched' = [sched EXCEPT ![l] = OnLineDisconnected(@)]
  /\ lost' = [lost EXCEPT ![l] = Plus(@, sched[l].pending)]
  /\ UNCHANGED <<owed, controls, running>>

\* The connect failed: there was no connection, so nothing is reported.
ConnectFailed(l) ==
  /\ running /\ sock[l].connecting
  /\ sock' = [sock EXCEPT ![l] =
                ScheduleReconnect([@ EXCEPT !.connecting = FALSE, !.hello = FALSE])]
  /\ sched' = [sched EXCEPT ![l] = OnLineDisconnected(@)]
  /\ lost' = [lost EXCEPT ![l] = Plus(@, sched[l].pending)]
  /\ UNCHANGED <<owed, controls, running>>

\* The timer of schedule_reconnect.
ReconnectTimer(l) ==
  LET k == [sock[l] EXCEPT !.timers = @ - 1, !.scheduled = FALSE] IN
  /\ running /\ sock[l].timers > 0
  /\ sock' = [sock EXCEPT ![l] = Connect(k)]
  /\ UNCHANGED <<sched, lost, owed, controls, running>>

\* The connection ends, by end of file, a socket error or a bad frame.
ConnectionLost(l) ==
  /\ running /\ CanSend(sock[l])
  /\ Install(MarkUnavailable([Net EXCEPT !.sock[l].conn = "closed"], {l}))
  /\ UNCHANGED <<controls, running>>

\* Mutant of HelloAccepted: the queue is flushed before the line can be used.
HelloAcceptedLate(l, window) ==
  /\ running /\ CanSend(sock[l])
  /\ \E c \in ControlLine(Net) :
       /\ controls' = FlushQueue(Net, controls, c)
       /\ Install([FlushNet(Net, controls, c) EXCEPT
                     !.sock[l].hello = TRUE, !.sched[l] = OnLineNegotiated(@, window)])
  /\ UNCHANGED running

\* handle_hello with a T_Hello that negotiates ...
HelloAccepted(l, window) ==
  /\ running /\ CanSend(sock[l])
  /\ LET net == [Net EXCEPT !.sock[l].hello = TRUE,
                            !.sched[l] = OnLineNegotiated(@, window)]
     IN  \E c \in ControlLine(net) :
           /\ Install(FlushNet(net, controls, c))
           /\ controls' = FlushQueue(net, controls, c)
  /\ UNCHANGED running

\* ... and one that does not, or any other message before a T_Hello.
ProtocolBroken(l) ==
  /\ running /\ CanSend(sock[l])
  /\ Install(ProtocolError([Net EXCEPT !.sock[l].hello = FALSE], l))
  /\ UNCHANGED <<controls, running>>

\* A T_Heartbeat on a negotiated line; the application passes it on.
HeartbeatReceived(l, h) ==
  /\ running /\ CanSend(sock[l]) /\ sock[l].hello
  /\ sched' = [sched EXCEPT ![l] = OnHeartbeat(@, h)]
  /\ owed' = [owed EXCEPT ![l] = Minus(@, CompletedSends(sched[l], h))]
  /\ UNCHANGED <<sock, lost, controls, running>>

\* Mutant of Tick: a line that timed out is only marked.
TickMarksOnly ==
  /\ running
  /\ LET net == [Net EXCEPT !.sched = [l \in Lines |-> RefillTicks(sched[l])]]
     IN  \E c \in ControlLine(net) :
           /\ Install(FlushNet(net, controls, c))
           /\ controls' = FlushQueue(net, controls, c)
  /\ UNCHANGED running

\* The 10 ms timer: refill_ticks(1) closes the lines that timed out.
Tick ==
  /\ running
  /\ LET ticked == [Net EXCEPT !.sched = [l \in Lines |-> RefillTicks(sched[l])]]
         late == {l \in Lines : LET s == ticked.sched[l]
                                IN  s.connected /\ s.stale /\ s.pending # NoSends}
         net == MarkUnavailable(ticked, late)
     IN  \E c \in ControlLine(net) :
           /\ Install(FlushNet(net, controls, c))
           /\ controls' = FlushQueue(net, controls, c)
  /\ UNCHANGED running

-----------------------------------------------------------------------------
(* Calls of the application.                                                *)

\* send: control messages first, then the request if some line takes it.
Send(r) ==
  /\ running
  /\ \E c \in ControlLine(Net) :
       LET net == FlushNet(Net, controls, c)
           granted(l) == [net EXCEPT !.sched[l] = Acquired(@, r)]
       IN  /\ controls' = FlushQueue(Net, controls, c)
           /\ \/ Grantable(net, r) = {} /\ Install(net)
              \/ \E l \in Grantable(net, r) :
                   Install(IF CanSend(net.sock[l])
                           THEN [granted(l) EXCEPT !.owed[l][r] = @ + 1]
                           ELSE MarkUnavailable(granted(l), {l}))
  /\ UNCHANGED running

\* send_control: one message joins the queue, the oldest leaves it.
SendControl ==
  /\ running /\ controls < MaxControls
  /\ \E c \in ControlLine(Net) :
       /\ Install(FlushNet(Net, controls + 1, c))
       /\ controls' = IF c # NoLine /\ CanSend(sock[c]) THEN controls ELSE controls + 1
  /\ UNCHANGED running

\* maybe_drop_line_once: mark_unavailable for the line of a chunk just sent.
DropLine(l) ==
  /\ running /\ CanSend(sock[l])
  /\ Install(MarkUnavailable(Net, {l}))
  /\ UNCHANGED <<controls, running>>

\* stop(); both its callers stop the event loop next.
Stop ==
  /\ running
  /\ running' = FALSE
  /\ sock' = [l \in Lines |-> [sock[l] EXCEPT !.scheduled = FALSE]]
  /\ UNCHANGED <<sched, lost, owed, controls>>

Stopped == ~running /\ UNCHANGED vars

-----------------------------------------------------------------------------
\* start() has called connect for every line.
Init ==
  /\ sock = [l \in Lines |-> [conn |-> "none", connecting |-> TRUE,
                              scheduled |-> FALSE, timers |-> 0, hello |-> FALSE]]
  /\ sched = [l \in Lines |-> [connected |-> FALSE, negotiated |-> FALSE,
                               healthy |-> FALSE, stale |-> FALSE, missed |-> 0,
                               window |-> InitialWindow, inflight |-> 0,
                               tokens |-> Capacity, pending |-> NoSends]]
  /\ lost = [l \in Lines |-> NoSends]
  /\ owed = [l \in Lines |-> NoSends]
  /\ controls = 0
  /\ running = TRUE

\* What the peer of line l may do.
Peer(l) ==
  \/ \E w \in PeerWindows : HelloAccepted(l, w)
  \/ ProtocolBroken(l)
  \/ \E h \in Heartbeats : HeartbeatReceived(l, h)

Next ==
  \/ \E l \in Lines : \/ Connected(l)
                       \/ ConnectFailed(l)
                       \/ ReconnectTimer(l)
                       \/ ConnectionLost(l)
                       \/ Peer(l)
                       \/ DropLine(l)
  \/ \E r \in Requests : Send(r)
  \/ Tick
  \/ SendControl
  \/ Stop
  \/ Stopped

\* The event loop runs its timers and reports how a connect ended; the
\* application tries its sends on every tick.  That a line that is tried
\* over and over is reached at last is assumed of the network.
Fairness ==
  /\ WF_vars(Tick)
  /\ \A r \in Requests : WF_vars(Send(r))
  /\ \A l \in Lines : /\ WF_vars(ReconnectTimer(l))
                       /\ WF_vars(Connected(l) \/ ConnectFailed(l))
                       /\ SF_vars(Connected(l))

Spec == Init /\ [][Next]_vars /\ Fairness

-----------------------------------------------------------------------------
Sock == [conn : {"none", "open"}, connecting : BOOLEAN, scheduled : BOOLEAN,
         timers : Nat, hello : BOOLEAN]
Windows == PeerWindows \union {InitialWindow} \union {h.window : h \in Heartbeats}
Sched == [connected : BOOLEAN, negotiated : BOOLEAN, healthy : BOOLEAN,
          stale : BOOLEAN, missed : 0..(Timeout + 1), window : Windows,
          inflight : Nat, tokens : 0..Capacity, pending : [Requests -> Nat]]

\* Types: a bucket never holds more than its capacity (TokenBucket), and a
\* connection that has closed is never left attached to its line
\* (T_SenderLineSet::mark_unavailable).
TypeOK ==
  /\ sock \in [Lines -> Sock]
  /\ sched \in [Lines -> Sched]
  /\ lost \in [Lines -> [Requests -> Nat]]
  /\ owed \in [Lines -> [Requests -> Int]]
  /\ controls \in 0..MaxControls
  /\ running \in BOOLEAN

\* Between callbacks the scheduler's flags, the negotiation table and the
\* sockets tell the same story of every line: a line the scheduler would use
\* is one that can_send, so send() and flush_one_control() never meet the
\* closed line they test for, and never re-enter the application from there.
ViewsAgree ==
  \A l \in Lines :
    /\ sched[l].connected <=> CanSend(sock[l])
    /\ sched[l].negotiated <=> sock[l].hello
    /\ sched[l].healthy <=> sock[l].hello
    /\ sock[l].hello => CanSend(sock[l])
    /\ sched[l].connected => ~sched[l].stale

\* While the sender runs, a line is open, being connected, or waiting for
\* exactly one armed timer: no order of failures, closes and timeouts strands
\* a line or starts two attempts (connect, schedule_reconnect,
\* mark_unavailable).
NeverStranded ==
  running =>
    \A l \in Lines :
      /\ sock[l].timers = IF sock[l].scheduled THEN 1 ELSE 0
      /\ CanSend(sock[l]) \/ sock[l].connecting \/ sock[l].scheduled
      /\ CanSend(sock[l]) => ~sock[l].connecting /\ ~sock[l].scheduled
      /\ sock[l].connecting => ~sock[l].scheduled

\* A send that send() reported as sent is in flight on its line until a
\* heartbeat of that line releases it or on_lost_sends hands it back: none is
\* forgotten, and none is handed back twice (clear_inflight,
\* handle_unavailable, emit_lost_sends).
Accounted == \A l \in Lines : owed[l] = sched[l].pending

\* inflight_bytes is what the sends in flight add up to, also when a request
\* is in flight twice: the clamp in on_heartbeat never hides a difference.
InflightIsPending == \A l \in Lines : sched[l].inflight = Bytes(sched[l].pending)

\* A control message waits only while no line can take it: nothing that makes
\* a line usable again forgets the queue (handle_hello, refill_ticks).
ControlNotStuck == controls > 0 => \A l \in Lines : ~Eligible(sched[l])

\* Sends on a line whose peer has gone silent do not stay in flight: the
\* heartbeat timeout closes the line and reports them (refill_ticks).
SilentLineGivesUp ==
  \A l \in Lines :
    <>[][~Peer(l)]_vars =>
      (sched[l].pending # NoSends ~> sched[l].pending = NoSends \/ ~running)

\* A line that is down comes back as long as the sender runs.
Reconnects == \A l \in Lines : sock[l].conn = "none" ~> CanSend(sock[l]) \/ ~running

\* A request whose frame fits the smallest window and the bucket is sent once a
\* line stays usable and no other request takes its place (try_acquire).
Alone(r) == \A q \in Requests \ {r}, l \in Lines : owed[l][q] = 0
RequestSent ==
  \A r \in Requests :
    (\E l \in Lines : <>[](Eligible(sched[l]) /\ Alone(r))) =>
      <>(~running \/ \E l \in Lines : owed[l][r] > 0)
=============================================================================
