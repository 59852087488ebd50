---------------------------- MODULE PeerSession ----------------------------
(***************************************************************************)
(* One peer session of the chat transport: the actor that owns the         *)
(* connections to one contact, the bounded queue of outgoing deliveries in *)
(* front of it, and the tasks it spawns (network/chat/session.rs), with    *)
(* the admission and the per-message deadline task of ChatClient           *)
(* (network/chat/transport.rs).                                            *)
(*                                                                         *)
(* A message is named by its place in the order of admission; message      *)
(* bodies, ids and receipts are not modelled.  A connection is a name: the *)
(* one outbound dial a session makes can only yield OutConn, and every     *)
(* connection of InConns is one the peer dialled.  iroh is external: it    *)
(* may lose any connection and answer or fail any stream at any time.      *)
(***************************************************************************)
EXTENDS Integers, FiniteSets, SequencesExt

CONSTANTS
  MaxMessages,   \* bound on the messages admitted in a behaviour
  Capacity,      \* OUTGOING_QUEUE_CAPACITY
  InConns,       \* connections the peer may open to us
  OutConn,       \* the connection our single dial may open
  NoConn,        \* no connection
  MaxHandlers,   \* permits of inbound_stream_handlers
  MaxStreams     \* bound on the streams the peer opens in a behaviour

Conns    == InConns \cup {OutConn}
Messages == 1 .. MaxMessages
NoMsg    == 0

ASSUME SessionAssumption ==
  /\ MaxMessages \in Nat
  /\ Capacity \in Nat \ {0}
  /\ MaxHandlers \in Nat
  /\ MaxStreams \in Nat
  /\ OutConn \notin InConns
  /\ NoConn \notin Conns

VARIABLES
  \* the client's side of a session
  isContact,     \* the peer is in the allowlist
  shutdown,      \* the reason PeerSession::shutdown was called with, or "none"
  dialRequested, \* ensure_outbound_session has asked this session to dial
  sent,          \* messages admitted so far: 1 .. sent
  expired,       \* messages whose deadline has passed: 1 .. expired
  opened,        \* streams the peer has opened so far
  \* channels and the shared slot counter
  queued,        \* PeerSession.queued
  rx,            \* deliveries sent and not received
  control,       \* session control messages, in order
  \* the actor
  alive,         \* the actor's loop has not ended
  localLower,    \* local endpoint id < remote endpoint id (fixed)
  queue, active, state, published, primary, draining, dialing, dialAttempted,
  handlers,      \* active_handlers of each slot
  outbound,      \* active_outbound of each slot
  \* deliveries
  via,           \* the connection an outgoing stream was opened on
  task,          \* the outbound stream task of each message
  result,        \* what that task came back with
  cancelled,     \* messages whose DeliveryCancellation is set
  resolving,     \* messages whose deadline task won and has yet to resolve
  outcome,       \* what the DeliveryHandle of each message completed with
  \* iroh and the tasks watching a connection
  dialer, conn, monitor, accepting, running, permits

clientVars == <<isContact, shutdown, dialRequested, sent, expired, opened>>
slotVars   == <<primary, draining, handlers, outbound>>
stateVars  == <<state, published>>
dialVars   == <<dialing, dialAttempted, dialer>>
taskVars   == <<via, task, result>>
settleVars == <<cancelled, outcome>>
netVars    == <<conn, monitor, accepting, running, permits>>
chanVars   == <<queued, rx, control>>
vars == <<clientVars, chanVars, alive, localLower, queue, active, stateVars,
          slotVars, dialVars, taskVars, settleVars, resolving, netVars>>

-----------------------------------------------------------------------------
(* Values.                                                                 *)

\* What a stream task can come back with, and what the actor itself answers.
StreamResults == {"Accepted", "Rejected", "Transport", "TimedOut"}
Outcomes == StreamResults \cup {"NotAContact", "PeerNotConnected", "ShutDown"}

\* SessionControl, without its payloads.  A dial that failed has no connection.
ControlMessage ==
  [kind : {"Attach", "ConnectionClosed", "InboundStream", "InboundFinished"},
   conn : Conns, msg : {NoMsg}]
  \cup [kind : {"DialFinished"}, conn : Conns \cup {NoConn}, msg : {NoMsg}]
  \cup [kind : {"OutboundFinished"}, conn : Conns \cup {NoConn}, msg : Messages]
  \cup [kind : {"Shutdown", "StartOutboundDial"}, conn : {NoConn}, msg : {NoMsg}]

Note(kind, c) == [kind |-> kind, conn |-> c, msg |-> NoMsg]
OutboundFinished(m) ==
  [kind |-> "OutboundFinished", conn |-> via[m], msg |-> m]

\* SessionState::as_external; Closing publishes nothing.
External(s) == IF s = "Closing" THEN published
               ELSE IF s = "Disconnected" THEN "NotConnected" ELSE s

\* log_state: a new state is stored and, unless Closing, published.
SetState(s) == state' = s /\ published' = External(s)

\* is_preferred: the lower endpoint id keeps the connection it dialled.
Preferred(c) == (c = OutConn) = localLower

Slots   == draining \cup ({primary} \ {NoConn})
Busy(c) == handlers[c] > 0 \/ outbound[c] > 0

\* The connections of S are closed by this side.
Close(S) == [c \in Conns |-> IF c \in S THEN "closed" ELSE conn[c]]

\* A slot that leaves the session takes its counters with it.
Forget(count, S) == [c \in Conns |-> IF c \in S THEN 0 ELSE count[c]]

\* Mutants: a slot that is gone is counted down too; the slot is looked for among
\* the primary only.
DecrementGone(count, c) ==
  [d \in Conns |-> IF d = c THEN count[d] - 1 ELSE count[d]]
DecrementPrimary(count, c) ==
  [d \in Conns |-> IF d = c /\ c = primary /\ count[d] > 0
                   THEN count[d] - 1 ELSE count[d]]

\* saturating_sub(1) on the counter of the slot of c, if it still has one.
Decrement(count, c) ==
  [d \in Conns |-> IF d = c /\ c \in Slots /\ count[d] > 0
                   THEN count[d] - 1 ELSE count[d]]

-----------------------------------------------------------------------------
(* Settling a delivery.                                                    *)

\* Mutant: a later answer replaces an earlier one.
LastAnswer(ms, r) == [m \in Messages |-> IF m \in ms THEN r ELSE outcome[m]]

\* resolve_once: only the first of several answers reaches the handle.
Answer(ms, r) ==
  [m \in Messages |-> IF m \in ms /\ outcome[m] = "none" THEN r ELSE outcome[m]]

Resolve(ms, r) == outcome' = Answer(ms, r)

\* finish_command: answers only those of ms whose cancellation it sets first.
FinishCommand(ms, r) ==
  /\ Resolve(ms \ cancelled, r)
  /\ cancelled' = cancelled \cup ms

\* Mutant: the actor answers only if it is the first to cancel.
ForceFinishIfFirst(m, r) == FinishCommand({m}, r)

\* force_finish_command: answers whoever set the cancellation.
ForceFinishCommand(m, r) ==
  /\ Resolve({m}, r)
  /\ cancelled' = cancelled \cup {m}

\* Mutant: the task of a lost connection is left running.
NoAbort(m) == UNCHANGED task

\* JoinHandle::abort: the task stops at its next await, or gets past its last.
Abort(m) ==
  task' = [k \in Messages |-> IF k = m /\ task[k] # "ended"
                               THEN "aborted" ELSE task[k]]

-----------------------------------------------------------------------------
(* Channels.                                                               *)

\* A control message reaches the actor as long as the actor lives.
Post(notes) == control' = IF alive THEN control \o notes ELSE control

\* Mutant: no release for a delivery skipped as cancelled.
ReleaseUnlessCancelled ==
  queued' = IF Head(queue) \in cancelled THEN queued ELSE queued - 1

\* Reserve or release one of the Capacity slots of the outgoing queue.
Reserve == queued < Capacity /\ queued' = queued + 1
ReleaseQueuedSlot == queued' = queued - 1

\* Mutant: the loop tries to empty the queue before it waits.
AtSelectWhenDrained == alive /\ queue = <<>>

\* run: the actor waits in select! once nothing queued can start.
AtSelect == alive /\ (active # NoMsg \/ queue = <<>>)

\* Streams on their way to the actor, each with its permit.
InboundStreamsQueued ==
  Cardinality({i \in DOMAIN control : control[i].kind = "InboundStream"})

\* The control channel is polled first.
Receive(kind) ==
  /\ AtSelect
  /\ control # <<>>
  /\ Head(control).kind = kind

-----------------------------------------------------------------------------
(* The initial states.  A session is spawned either by                     *)
(* ensure_outbound_session, and then its actor begins the dial before      *)
(* anything else, or by session_for_inbound, and then it has no dial.      *)

Init ==
  /\ isContact = TRUE
  /\ shutdown = "none"
  /\ dialRequested \in BOOLEAN
  /\ sent = 0
  /\ expired = 0
  /\ opened = 0
  /\ queued = 0
  /\ rx = <<>>
  /\ control = <<>>
  /\ alive = TRUE
  /\ localLower \in BOOLEAN
  /\ queue = <<>>
  /\ active = NoMsg
  /\ state = IF dialRequested THEN "Connecting" ELSE "Disconnected"
  /\ published = IF dialRequested THEN "Connecting" ELSE "NotConnected"
  /\ primary = NoConn
  /\ draining = {}
  /\ dialing = dialRequested
  /\ dialAttempted = dialRequested
  /\ dialer = IF dialRequested THEN "running" ELSE "none"
  /\ handlers = [c \in Conns |-> 0]
  /\ outbound = [c \in Conns |-> 0]
  /\ via = [m \in Messages |-> NoConn]
  /\ task = [m \in Messages |-> "none"]
  /\ result = [m \in Messages |-> "none"]
  /\ cancelled = {}
  /\ resolving = {}
  /\ outcome = [m \in Messages |-> "none"]
  /\ conn = [c \in Conns |-> "none"]
  /\ monitor = [c \in Conns |-> "none"]
  /\ accepting = [c \in Conns |-> "none"]
  /\ running = [c \in Conns |-> 0]
  /\ permits = MaxHandlers

-----------------------------------------------------------------------------
(* The client.  SessionRuntime calls send_text and replace_contacts from   *)
(* one task, so an admission never overlaps the removal of the contact.    *)

\* ChatClient::send_text when it admits a message; its refusals change nothing.
SendText ==
  /\ sent < MaxMessages
  /\ isContact /\ shutdown = "none"
  /\ published = "Connected"
  /\ Reserve
  /\ sent' = sent + 1
  /\ rx' = Append(rx, sent + 1)
  /\ UNCHANGED <<isContact, shutdown, dialRequested, expired, opened, control,
                 alive, localLower, queue, active, stateVars, slotVars,
                 dialVars, taskVars, settleVars, resolving, netVars>>

\* replace_contacts drops the peer from the allowlist (not while Connecting).
RemoveContact ==
  /\ isContact /\ shutdown = "none"
  /\ published # "Connecting"
  /\ isContact' = FALSE
  /\ UNCHANGED <<shutdown, dialRequested, sent, expired, opened, chanVars,
                 alive, localLower, queue, active, stateVars, slotVars,
                 dialVars, taskVars, settleVars, resolving, netVars>>

\* PeerSession::shutdown, after a removal or for ChatTransport::shutdown.
RequestShutdown ==
  /\ shutdown = "none"
  /\ shutdown' = IF isContact THEN "ShutDown" ELSE "NotAContact"
  /\ Post(<<Note("Shutdown", NoConn)>>)
  /\ UNCHANGED <<isContact, dialRequested, sent, expired, opened, queued, rx,
                 alive, localLower, queue, active, stateVars, slotVars,
                 dialVars, taskVars, settleVars, resolving, netVars>>

\* request_outbound_dial, when an inbound connection created the session first.
RequestOutboundDial ==
  /\ ~dialRequested
  /\ isContact /\ shutdown = "none"
  /\ dialRequested' = TRUE
  /\ Post(<<Note("StartOutboundDial", NoConn)>>)
  /\ UNCHANGED <<isContact, shutdown, sent, expired, opened, queued, rx,
                 alive, localLower, queue, active, stateVars, slotVars,
                 dialVars, taskVars, settleVars, resolving, netVars>>

-----------------------------------------------------------------------------
(* Deadlines.                                                              *)

\* Every delivery has the same timeout, so deadlines pass in admission order.
DeadlinePasses ==
  /\ expired < sent
  /\ expired' = expired + 1
  /\ UNCHANGED <<isContact, shutdown, dialRequested, sent, opened, chanVars,
                 alive, localLower, queue, active, stateVars, slotVars,
                 dialVars, taskVars, settleVars, resolving, netVars>>

\* spawn_deadline wakes up and wins the cancellation ...
DeadlineFires(m) ==
  /\ m <= expired
  /\ m \notin cancelled
  /\ cancelled' = cancelled \cup {m}
  /\ resolving' = resolving \cup {m}
  /\ UNCHANGED <<clientVars, chanVars, alive, localLower, queue, active,
                 stateVars, slotVars, dialVars, taskVars, outcome, netVars>>

\* ... and then answers the handle.
DeadlineResolves(m) ==
  /\ m \in resolving
  /\ resolving' = resolving \ {m}
  /\ Resolve({m}, "TimedOut")
  /\ UNCHANGED <<clientVars, chanVars, alive, localLower, queue, active,
                 stateVars, slotVars, dialVars, taskVars, cancelled, netVars>>

-----------------------------------------------------------------------------
(* The task of one outgoing stream.                                        *)

\* run_outbound_stream returns r; finish_command then tries to win.
StreamReturns(m, r) ==
  /\ task[m] = "streaming"
  /\ result' = [result EXCEPT ![m] = r]
  /\ task' = [task EXCEPT ![m] = IF m \in cancelled THEN "reporting"
                                                    ELSE "settling"]
  /\ cancelled' = cancelled \cup {m}
  /\ UNCHANGED <<clientVars, chanVars, alive, localLower, queue, active,
                 stateVars, slotVars, dialVars, via, resolving, outcome,
                 netVars>>

\* The peer's receipt, its refusal, or a failure of the stream.
StreamAnswers(m) ==
  \E r \in {"Accepted", "Rejected", "Transport"} : StreamReturns(m, r)

\* run_stream_stage gives up at the deadline or when the delivery is cancelled.
StreamTimesOut(m) ==
  /\ m <= expired \/ m \in cancelled
  /\ StreamReturns(m, "TimedOut")

\* The task won the cancellation and answers the handle.
TaskResolves(m) ==
  /\ task[m] = "settling"
  /\ task' = [task EXCEPT ![m] = "reporting"]
  /\ Resolve({m}, result[m])
  /\ UNCHANGED <<clientVars, chanVars, alive, localLower, queue, active,
                 stateVars, slotVars, dialVars, via, result, cancelled,
                 resolving, netVars>>

\* The task tells the actor; one that is being aborted may still get there.
TaskReports(m) ==
  /\ task[m] \in {"reporting", "aborted"}
  /\ task' = [task EXCEPT ![m] = "ended"]
  /\ Post(<<OutboundFinished(m)>>)
  /\ UNCHANGED <<clientVars, queued, rx, alive, localLower, queue, active,
                 stateVars, slotVars, dialVars, via, result, settleVars,
                 resolving, netVars>>

-----------------------------------------------------------------------------
(* iroh, and the tasks that watch a connection.                            *)

\* The accept loop of the transport attaches a connection the peer dialled.
InboundArrives(c) ==
  /\ conn[c] = "none"
  /\ alive
  /\ conn' = [conn EXCEPT ![c] = "open"]
  /\ Post(<<Note("Attach", c)>>)
  /\ UNCHANGED <<clientVars, queued, rx, alive, localLower, queue, active,
                 stateVars, slotVars, dialVars, taskVars, settleVars, resolving,
                 monitor, accepting, running, permits>>

\* connect_for returns a connection; nobody is left to own it after shutdown.
DialSucceeds ==
  /\ dialer = "running"
  /\ dialer' = "done"
  /\ conn' = [conn EXCEPT ![OutConn] = IF alive THEN "open" ELSE "closed"]
  /\ Post(<<Note("DialFinished", OutConn)>>)
  /\ UNCHANGED <<clientVars, queued, rx, alive, localLower, queue, active,
                 stateVars, slotVars, dialing, dialAttempted, taskVars,
                 settleVars, resolving, monitor, accepting, running, permits>>

\* connect_for fails or runs into the dial timeout.
DialFails ==
  /\ dialer = "running"
  /\ dialer' = "done"
  /\ Post(<<Note("DialFinished", NoConn)>>)
  /\ UNCHANGED <<clientVars, queued, rx, alive, localLower, queue, active,
                 stateVars, slotVars, dialing, dialAttempted, taskVars,
                 settleVars, resolving, netVars>>

\* The peer closes the connection, or it times out.
ConnectionLost(c) ==
  /\ conn[c] = "open"
  /\ alive
  /\ conn' = [conn EXCEPT ![c] = "closed"]
  /\ UNCHANGED <<clientVars, chanVars, alive, localLower, queue, active,
                 stateVars, slotVars, dialVars, taskVars, settleVars, resolving,
                 monitor, accepting, running, permits>>

\* The monitor task: connection.closed() completes whoever closed it.
MonitorReports(c) ==
  /\ monitor[c] = "watching" /\ conn[c] = "closed"
  /\ monitor' = [monitor EXCEPT ![c] = "reported"]
  /\ Post(<<Note("ConnectionClosed", c)>>)
  /\ UNCHANGED <<clientVars, queued, rx, alive, localLower, queue, active,
                 stateVars, slotVars, dialVars, taskVars, settleVars, resolving,
                 conn, accepting, running, permits>>

\* accept_bi yields a stream.  The stop signal, polled first, is not up yet: the
\* slot is the primary, or the loop ran before the actor rejected its connection.
StreamArrives(c) ==
  /\ \/ accepting[c] = "polling" /\ c = primary /\ conn[c] = "open"
     \/ accepting[c] = "starting"
  /\ opened < MaxStreams
  /\ opened' = opened + 1
  /\ accepting' = [accepting EXCEPT ![c] = "taking"]
  /\ UNCHANGED <<isContact, shutdown, dialRequested, sent, expired, chanVars,
                 alive, localLower, queue, active, stateVars, slotVars,
                 dialVars, taskVars, settleVars, resolving, conn, monitor,
                 running, permits>>

\* The accept loop hands the stream and a permit over, or resets the stream;
\* after the session's end the permit is dropped with the message.
StreamTaken(c) ==
  /\ accepting[c] = "taking"
  /\ accepting' = [accepting EXCEPT ![c] = "polling"]
  /\ IF permits > 0 /\ alive
     THEN /\ permits' = permits - 1
          /\ Post(<<Note("InboundStream", c)>>)
     ELSE UNCHANGED <<permits, control>>
  /\ UNCHANGED <<clientVars, queued, rx, alive, localLower, queue, active,
                 stateVars, slotVars, dialVars, taskVars, settleVars, resolving,
                 conn, monitor, running>>

\* A stream handler is done: its permit is dropped, then the actor is told.
HandlerFinishes(c) ==
  /\ running[c] > 0
  /\ running' = [running EXCEPT ![c] = @ - 1]
  /\ permits' = permits + 1
  /\ Post(<<Note("InboundFinished", c)>>)
  /\ UNCHANGED <<clientVars, queued, rx, alive, localLower, queue, active,
                 stateVars, slotVars, dialVars, taskVars, settleVars, resolving,
                 conn, monitor, accepting>>

-----------------------------------------------------------------------------
(* The actor: deliveries.                                                  *)

\* Mutant: push_front.
ReceiveDeliveryInFront ==
  /\ AtSelect
  /\ control = <<>>
  /\ rx # <<>>
  /\ queue' = <<Head(rx)>> \o queue
  /\ rx' = Tail(rx)
  /\ UNCHANGED <<clientVars, queued, control, alive, localLower, active,
                 stateVars, slotVars, dialVars, taskVars, settleVars, resolving,
                 netVars>>

\* The branch rx.recv of select!, polled when no control message is waiting.
ReceiveDelivery ==
  /\ AtSelect
  /\ control = <<>>
  /\ rx # <<>>
  /\ queue' = Append(queue, Head(rx))
  /\ rx' = Tail(rx)
  /\ UNCHANGED <<clientVars, queued, control, alive, localLower, active,
                 stateVars, slotVars, dialVars, taskVars, settleVars, resolving,
                 netVars>>

\* Why the head of the queue cannot be sent now.
Refusal(m) == IF ~isContact THEN "NotAContact"
              ELSE IF m <= expired THEN "TimedOut"
              ELSE IF primary = NoConn THEN "PeerNotConnected" ELSE "none"

\* spawn_active_delivery, on the primary connection.
SpawnActiveDelivery(m) ==
  /\ active' = m
  /\ via' = [via EXCEPT ![m] = primary]
  /\ task' = [task EXCEPT ![m] = "streaming"]
  /\ outbound' = [outbound EXCEPT ![primary] = @ + 1]
  /\ UNCHANGED <<primary, draining, handlers, result, settleVars>>

\* One round of the loop of start_next_if_possible.
StartNext ==
  /\ alive
  /\ active = NoMsg
  /\ queue # <<>>
  /\ queue' = Tail(queue)
  /\ ReleaseQueuedSlot
  /\ LET m == Head(queue) IN
       \/ /\ m \in cancelled
          /\ UNCHANGED <<active, slotVars, taskVars, settleVars>>
       \/ /\ m \notin cancelled /\ Refusal(m) # "none"
          /\ FinishCommand({m}, Refusal(m))
          /\ UNCHANGED <<active, slotVars, taskVars>>
       \/ /\ m \notin cancelled /\ Refusal(m) = "none"
          /\ SpawnActiveDelivery(m)
  /\ UNCHANGED <<clientVars, rx, control, alive, localLower, stateVars,
                 dialVars, resolving, netVars>>

-----------------------------------------------------------------------------
(* The actor: control messages.                                            *)

\* begin_dial: at most one dial in the life of a session.
BeginDial ==
  IF dialing \/ dialAttempted
  THEN UNCHANGED <<dialVars, stateVars>>
  ELSE /\ dialAttempted' = TRUE
       /\ dialing' = TRUE
       /\ dialer' = "running"
       /\ SetState("Connecting")

\* attach_connection: the candidate becomes primary if there is none or if it
\* is preferred and the primary is not; the other of the two drains, and is
\* closed at once when nothing runs on it.
AttachConnection(c) ==
  LET replace == primary = NoConn \/ (Preferred(c) /\ ~Preferred(primary))
      retired == (IF replace THEN {primary} ELSE {c}) \ {NoConn}
      busy    == {d \in retired : Busy(d)}
  IN  /\ primary' = IF replace THEN c ELSE primary
      /\ draining' = draining \cup busy
      /\ conn' = Close(retired \ busy)
      /\ monitor' = [monitor EXCEPT ![c] = "watching"]
      /\ accepting' = [accepting EXCEPT ![c] = IF replace THEN "polling"
                                                          ELSE "starting"]
      /\ IF replace THEN SetState("Connected") ELSE UNCHANGED stateVars

\* Mutants: finished connections are never looked for, or outgoing streams are
\* not counted.
CloseNothing == UNCHANGED <<draining, conn>>
CloseIgnoringOutbound ==
  LET idle == {d \in draining : handlers'[d] = 0}
  IN  /\ draining' = draining \ idle
      /\ conn' = Close(idle)

\* close_draining_finished, after handlers and outbound have been updated.
CloseDrainingFinished ==
  LET idle == {d \in draining : handlers'[d] = 0 /\ outbound'[d] = 0}
  IN  /\ draining' = draining \ idle
      /\ conn' = Close(idle)

HandleAttach ==
  /\ Receive("Attach")
  /\ control' = Tail(control)
  /\ AttachConnection(Head(control).conn)
  /\ UNCHANGED <<clientVars, queued, rx, alive, localLower, queue, active,
                 handlers, outbound, dialVars, taskVars, settleVars, resolving,
                 running, permits>>

\* Mutants: a failed dial disconnects whatever is attached, or says nothing.
DialFailedAlways == SetState("Disconnected")
DialFailedSilently == UNCHANGED stateVars

\* A failed dial matters only when no connection came in meanwhile.  (No
\* active delivery lacks a connection, so none is answered here.)
DialFailed == IF primary = NoConn THEN SetState("Disconnected")
                                  ELSE UNCHANGED stateVars

HandleDialFinished ==
  /\ Receive("DialFinished")
  /\ control' = Tail(control)
  /\ dialing' = FALSE
  /\ \/ /\ Head(control).conn # NoConn
        /\ AttachConnection(Head(control).conn)
     \/ /\ Head(control).conn = NoConn
        /\ DialFailed
        /\ UNCHANGED <<primary, draining, conn, monitor, accepting>>
  /\ UNCHANGED <<clientVars, queued, rx, alive, localLower, queue, active,
                 handlers, outbound, dialAttempted, dialer, taskVars,
                 settleVars, resolving, running, permits>>

HandleStartOutboundDial ==
  /\ Receive("StartOutboundDial")
  /\ control' = Tail(control)
  /\ IF primary = NoConn THEN BeginDial ELSE UNCHANGED <<dialVars, stateVars>>
  /\ UNCHANGED <<clientVars, queued, rx, alive, localLower, queue, active,
                 slotVars, taskVars, settleVars, resolving, netVars>>

\* Mutant: the end of a draining connection counts as well.
SlotLost(c) == IF c \in Slots THEN SetState("Disconnected")
                              ELSE UNCHANGED stateVars

\* Only the end of the primary connection changes the state.
PrimaryLost(c) == IF c = primary THEN SetState("Disconnected")
                                 ELSE UNCHANGED stateVars

\* connection_closed: the slot goes, and with it the delivery streaming on it.
HandleConnectionClosed ==
  /\ Receive("ConnectionClosed")
  /\ control' = Tail(control)
  /\ LET c       == Head(control).conn
         removed == {c} \cap Slots
     IN  /\ primary' = IF c = primary THEN NoConn ELSE primary
         /\ draining' = draining \ removed
         /\ handlers' = Forget(handlers, removed)
         /\ outbound' = Forget(outbound, removed)
         /\ PrimaryLost(c)
         /\ IF removed # {} /\ active # NoMsg /\ via[active] = c
            THEN /\ active' = NoMsg
                 /\ Abort(active)
                 /\ ForceFinishCommand(active, "Transport")
            ELSE UNCHANGED <<active, task, settleVars>>
  /\ UNCHANGED <<clientVars, queued, rx, alive, localLower, queue, dialVars, via,
                 result, resolving, netVars>>

\* An accept loop ends when its stop signal is up (the slot drains or is gone)
\* or accept_bi fails.  AcceptLoopStopped carries nothing and only has the actor
\* look at its draining slots, so it is not queued here: it may come at any time
\* once the loop has ended, any number of times.
HandleAcceptLoopStopped ==
  /\ AtSelect
  /\ \E c \in Conns : /\ accepting[c] \in {"starting", "polling"}
                      /\ c # primary \/ conn[c] = "closed"
  /\ UNCHANGED <<handlers, outbound>>
  /\ CloseDrainingFinished
  /\ UNCHANGED <<clientVars, chanVars, alive, localLower, queue, active,
                 stateVars, primary, dialVars, taskVars, settleVars, resolving,
                 monitor, accepting, running, permits>>

\* Mutant: the stream of a connection that is gone keeps its permit.
HandleInboundStreamLeaking ==
  /\ Receive("InboundStream")
  /\ control' = Tail(control)
  /\ LET c == Head(control).conn IN
       /\ handlers' = [handlers EXCEPT ![c] = IF c \in Slots THEN @ + 1 ELSE @]
       /\ running' = [running EXCEPT ![c] = IF c \in Slots THEN @ + 1 ELSE @]
  /\ UNCHANGED <<clientVars, queued, rx, alive, localLower, queue, active,
                 stateVars, primary, draining, outbound, dialVars, taskVars,
                 settleVars, resolving, conn, monitor, accepting, permits>>

\* A stream of a slot gets a handler; one of a slot that is gone is reset.
HandleInboundStream ==
  /\ Receive("InboundStream")
  /\ control' = Tail(control)
  /\ LET c == Head(control).conn IN
       \/ /\ c \in Slots
          /\ handlers' = [handlers EXCEPT ![c] = @ + 1]
          /\ running' = [running EXCEPT ![c] = @ + 1]
          /\ UNCHANGED permits
       \/ /\ c \notin Slots
          /\ permits' = permits + 1
          /\ UNCHANGED <<handlers, running>>
  /\ UNCHANGED <<clientVars, queued, rx, alive, localLower, queue, active,
                 stateVars, primary, draining, outbound, dialVars, taskVars,
                 settleVars, resolving, conn, monitor, accepting>>

HandleInboundFinished ==
  /\ Receive("InboundFinished")
  /\ control' = Tail(control)
  /\ handlers' = Decrement(handlers, Head(control).conn)
  /\ UNCHANGED outbound
  /\ CloseDrainingFinished
  /\ UNCHANGED <<clientVars, queued, rx, alive, localLower, queue, active,
                 stateVars, primary, dialVars, taskVars, settleVars, resolving,
                 monitor, accepting, running, permits>>

\* The report of a delivery the actor already gave up frees no other delivery.
HandleOutboundFinished ==
  /\ Receive("OutboundFinished")
  /\ control' = Tail(control)
  /\ LET m == Head(control).msg
         c == Head(control).conn
     IN  /\ outbound' = Decrement(outbound, c)
         /\ IF active = m /\ via[m] = c
            THEN /\ active' = NoMsg
                 /\ FinishCommand({m}, result[m])
            ELSE UNCHANGED <<active, settleVars>>
  /\ UNCHANGED handlers
  /\ CloseDrainingFinished
  /\ UNCHANGED <<clientVars, queued, rx, alive, localLower, queue, stateVars,
                 primary, dialVars, taskVars, resolving, monitor, accepting,
                 running, permits>>

\* finish_shutdown, the end of the loop, and the drop of what the actor owned.
HandleShutdown ==
  /\ Receive("Shutdown")
  /\ alive' = FALSE
  /\ SetState("Closing")
  /\ LET current == {active} \ {NoMsg}
         waiting == ToSet(queue) \cup ToSet(rx)
     IN  /\ Resolve(current \cup (waiting \ cancelled), shutdown)
         /\ cancelled' = cancelled \cup current \cup waiting
  /\ Abort(active)
  /\ active' = NoMsg
  /\ queue' = <<>>
  /\ rx' = <<>>
  /\ queued' = queued - Len(queue) - Len(rx)
  /\ control' = <<>>
  /\ primary' = NoConn
  /\ draining' = {}
  /\ handlers' = Forget(handlers, Slots)
  /\ outbound' = Forget(outbound, Slots)
  /\ conn' = Close(Slots \cup {c \in Conns : \E kind \in {"Attach", "DialFinished"} :
                                 Note(kind, c) \in ToSet(control)})
  /\ permits' = permits + InboundStreamsQueued
  /\ dialing' = FALSE
  /\ UNCHANGED <<clientVars, localLower, dialAttempted, dialer, via, result,
                 resolving, monitor, accepting, running>>

-----------------------------------------------------------------------------
(* The specification.                                                      *)

HandleControl ==
  \/ HandleAttach
  \/ HandleDialFinished
  \/ HandleStartOutboundDial
  \/ HandleConnectionClosed
  \/ HandleAcceptLoopStopped
  \/ HandleInboundStream
  \/ HandleInboundFinished
  \/ HandleOutboundFinished
  \/ HandleShutdown

Actor == StartNext \/ ReceiveDelivery \/ HandleControl

Client == SendText \/ RemoveContact \/ RequestShutdown \/ RequestOutboundDial

Deadline == \E m \in Messages : DeadlineFires(m) \/ DeadlineResolves(m)

OutboundTask ==
  \E m \in Messages : StreamTimesOut(m) \/ TaskResolves(m) \/ TaskReports(m)

DialEnds == DialSucceeds \/ DialFails

Watchers == \E c \in Conns : MonitorReports(c) \/ StreamTaken(c)

Handlers == \E c \in Conns : HandlerFinishes(c)

Peer == \/ \E m \in Messages : StreamAnswers(m)
        \/ \E c \in InConns : InboundArrives(c)
        \/ \E c \in Conns : ConnectionLost(c) \/ StreamArrives(c)

Next == \/ Actor \/ Client \/ DeadlinePasses \/ Deadline \/ OutboundTask
        \/ DialEnds \/ Watchers \/ Handlers \/ Peer

\* Tokio runs every task that is ready, clocks advance, and every dial ends by
\* its timeout.  The peer, the network and the user owe us nothing, and a stream
\* handler waits as long as the queue of incoming messages is full.
Fairness ==
  /\ WF_vars(Actor)
  /\ WF_vars(DeadlinePasses)
  /\ WF_vars(Deadline)
  /\ WF_vars(OutboundTask)
  /\ WF_vars(DialEnds)
  /\ WF_vars(Watchers)

Spec == Init /\ [][Next]_vars
FairSpec == Spec /\ Fairness

-----------------------------------------------------------------------------
(* Invariants.                                                             *)

InFlight == {"streaming", "settling", "reporting"}

ClientTypeOK ==
  /\ isContact \in BOOLEAN
  /\ shutdown \in {"none", "NotAContact", "ShutDown"}
  /\ dialRequested \in BOOLEAN
  /\ sent \in 0 .. MaxMessages
  /\ expired \in 0 .. sent
  /\ opened \in 0 .. MaxStreams

ChannelTypeOK ==
  /\ queued \in 0 .. Capacity
  /\ rx \in Seq(Messages)
  /\ control \in Seq(ControlMessage)

ActorTypeOK ==
  /\ alive \in BOOLEAN
  /\ localLower \in BOOLEAN
  /\ queue \in Seq(Messages)
  /\ active \in Messages \cup {NoMsg}
  /\ state \in {"Disconnected", "Connecting", "Connected", "Closing"}
  /\ published \in {"NotConnected", "Connecting", "Connected"}

SlotTypeOK ==
  /\ primary \in Conns \cup {NoConn}
  /\ draining \subseteq Conns
  /\ handlers \in [Conns -> Nat]
  /\ outbound \in [Conns -> Nat]

DialTypeOK ==
  /\ dialing \in BOOLEAN
  /\ dialAttempted \in BOOLEAN
  /\ dialer \in {"none", "running", "done"}

TaskTypeOK ==
  /\ via \in [Messages -> Conns \cup {NoConn}]
  /\ task \in [Messages -> InFlight \cup {"none", "aborted", "ended"}]
  /\ result \in [Messages -> StreamResults \cup {"none"}]

SettleTypeOK ==
  /\ cancelled \subseteq Messages
  /\ outcome \in [Messages -> Outcomes \cup {"none"}]
  /\ resolving \subseteq Messages

NetTypeOK ==
  /\ conn \in [Conns -> {"none", "open", "closed"}]
  /\ monitor \in [Conns -> {"none", "watching", "reported"}]
  /\ accepting \in [Conns -> {"none", "starting", "polling", "taking"}]
  /\ running \in [Conns -> Nat]
  /\ permits \in Nat

\* The values each variable may take.
TypeOK ==
  /\ ClientTypeOK
  /\ ChannelTypeOK
  /\ ActorTypeOK
  /\ SlotTypeOK
  /\ DialTypeOK
  /\ TaskTypeOK
  /\ SettleTypeOK
  /\ NetTypeOK

\* The shared slot counter that bounds admission is exactly the number of
\* deliveries still queued, whichever way each of them leaves the queue
\* (try_enqueue, start_next_if_possible, finish_shutdown).
QueueAccounting ==
  /\ queued = Len(queue) + Len(rx)
  /\ queued <= Capacity

\* Outgoing messages are attempted one at a time in admission order: no stream
\* task exists for a message while an earlier one could still be sent.
AttemptedInOrder ==
  \A m \in Messages : task[m] # "none" =>
     \A k \in 1 .. m - 1 : k \in cancelled

\* An admitted message without an answer is queued, in flight, or about to be
\* answered by its deadline task; and once its cancellation is set, whoever set
\* it is still there to answer (finish_command against spawn_deadline, abort).
NoneStranded ==
  \A m \in 1 .. sent : outcome[m] = "none" =>
     /\ m \in ToSet(queue) \cup ToSet(rx) \cup {active} \cup resolving
     /\ m \in cancelled => m \in resolving \/ task[m] = "settling"

\* While the actor lives the published state says whether there is a primary
\* connection, and Connecting means that the dial is still out.
StateMatchesPrimary ==
  alive => /\ state = "Connected" <=> primary # NoConn
           /\ published = External(state)
           /\ state = "Connecting" => dialing

Queued(kind, c) ==
  Cardinality({i \in DOMAIN control :
                 control[i].kind = kind /\ control[i].conn = c})

\* The stream counters of a slot are what runs on its connection plus what has
\* finished and waits to be told: a slot drains neither early nor for ever.
SlotAccounting ==
  \A c \in Slots :
    /\ handlers[c] = running[c] + Queued("InboundFinished", c)
    /\ outbound[c] = Queued("OutboundFinished", c)
         + Cardinality({m \in Messages : via[m] = c /\ task[m] \in InFlight})

\* A connection kept only to drain has something to drain, and no connection
\* the session was given stays open behind its back.
NoIdleConnection ==
  /\ \A c \in draining : c # primary /\ Busy(c)
  /\ \A c \in Conns : alive /\ monitor[c] # "none" /\ conn[c] = "open"
                        => c \in Slots

\* The running handlers, numbered on each connection.
RunningHandlers == UNION {{c} \X (1 .. running[c]) : c \in Conns}

\* Every permit of the handler budget is free, with a stream on its way to the
\* actor, or with a running handler: streams of lost connections return theirs.
PermitsAccounted ==
  permits + InboundStreamsQueued + Cardinality(RunningHandlers)
    = MaxHandlers

-----------------------------------------------------------------------------
(* Why the delivery invariants hold: an inductive invariant.               *)

\* Deliveries leave the two queues at the head only, so those that have left are
\* 1 .. Taken and those that wait follow without a gap.
Taken == sent - queued

WaitingInOrder ==
  /\ \A i \in 1 .. Len(queue) : queue[i] = Taken + i
  /\ \A i \in 1 .. Len(rx) : rx[i] = Taken + Len(queue) + i

\* The delivery that left the queue last may be active, all others that left are
\* given up, and none that waits has a task.
TakenInOrder ==
  /\ Taken >= 0 /\ active \in {NoMsg, Taken}
  /\ \A m \in Messages : m <= Taken /\ m # active => m \in cancelled
  /\ \A m \in Messages : m > Taken => task[m] = "none"

\* A task that can still answer belongs to the active delivery.
TaskOfActive ==
  \A m \in Messages :
    /\ task[m] \in {"streaming", "settling"} => active = m
    /\ task[m] \notin {"none", "streaming"} => m \in cancelled
    /\ task[m] = "settling" =>
         result[m] # "none" /\ (result[m] = "TimedOut" => m <= expired)

\* Whoever set the cancellation of an unanswered message is about to answer it,
\* and a deadline task did so after the deadline.
WinnerAnswers ==
  \A m \in Messages :
    /\ m \in cancelled /\ outcome[m] = "none" =>
         m \in resolving \/ task[m] = "settling"
    /\ m \in resolving => m <= expired

\* What the control channel says of tasks and of the shutdown is true.
ReportsTrue ==
  /\ \A i \in 1 .. Len(control) :
       /\ control[i].kind = "OutboundFinished" => task[control[i].msg] = "ended"
       /\ control[i].kind = "Shutdown" => shutdown # "none"
  /\ ~alive => shutdown # "none"

\* One delivery is in hand at a time (start_next_if_possible), those before it are
\* given up, and each given up is answered or has somebody who will answer it
\* (finish_command, force_finish_command, spawn_deadline), also when the actor
\* acts on an old report.
DeliveriesInHand ==
  /\ WaitingInOrder
  /\ TakenInOrder
  /\ TaskOfActive
  /\ WinnerAnswers
  /\ ReportsTrue

-----------------------------------------------------------------------------
(* Action properties.                                                      *)

\* A contact is reported not connected only when its primary connection is gone:
\* the end of a superseded or draining connection does not show.
ConnectedUntilLost ==
  [][published = "Connected" /\ published' = "NotConnected"
       => conn[primary] = "closed"]_vars

\* A running session gives up an open connection only when no stream runs on
\* it, in either direction (start_draining, close_draining_finished).
RetiredOnlyIdle ==
  [][\A c \in Slots : alive' /\ conn[c] = "open" /\ c \notin Slots' =>
       /\ running[c] = 0
       /\ \A m \in Messages : via[m] = c => task[m] # "streaming"]_vars

\* A session keeps the promise of DeliveryContract: one answer per message, in
\* order, TimedOut never early, nothing but late messages left at the end.
Contract == INSTANCE DeliveryContract WITH open <- alive
ImplementsContract == Contract!Spec

-----------------------------------------------------------------------------
(* Liveness.                                                               *)

\* Every admitted message is answered, whatever the peer does.
AdmittedSettles ==
  \A m \in Messages : m <= sent ~> outcome[m] # "none"

\* A contact does not stay Connecting.
ConnectingEnds == published = "Connecting" ~> (published # "Connecting" \/ ~alive)

\* PeerSession::shutdown returns: replace_contacts and the transport's shutdown
\* wait for the actor to end.
ShutdownCompletes == shutdown # "none" ~> ~alive

\* A superseded connection on which no handler runs for ever is closed sooner or
\* later.
DrainingEnds ==
  \A c \in Conns :
    []<>(running[c] = 0) => (c \in draining ~> c \notin draining)

=============================================================================
