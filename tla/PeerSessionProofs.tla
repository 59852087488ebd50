------------------------- MODULE PeerSessionProofs -------------------------
(***************************************************************************)
(* PeerSession, for every number of messages, connections, permits and     *)
(* queue slots: its types, the accounting of its outgoing queue, the       *)
(* agreement of the published state with the primary connection; and what  *)
(* a session does with the messages it has admitted: none is stranded or   *)
(* overtaken, and the session implements DeliveryContract.  The latter     *)
(* follows from one inductive invariant, DeliveriesInHand.                 *)
(***************************************************************************)
EXTENDS PeerSession, SequenceTheorems, FiniteSetTheorems, TLAPS

\* Neither part is inductive alone: a slot is released only because the counter
\* is the length of the two queues, and these lengths are natural numbers only
\* because the queues are typed.
TypedAccounting == TypeOK /\ QueueAccounting

-----------------------------------------------------------------------------
(* What a step that leaves a group of variables alone preserves.           *)

\* The conjuncts of TypeOK about a group of variables of their own.
LEMMA Frames ==
  /\ ClientTypeOK /\ UNCHANGED clientVars => ClientTypeOK'
  /\ SlotTypeOK /\ UNCHANGED slotVars => SlotTypeOK'
  /\ DialTypeOK /\ UNCHANGED dialVars => DialTypeOK'
  /\ TaskTypeOK /\ UNCHANGED taskVars => TaskTypeOK'
  /\ SettleTypeOK /\ UNCHANGED <<settleVars, resolving>> => SettleTypeOK'
  /\ NetTypeOK /\ UNCHANGED netVars => NetTypeOK'
  BY DEF ClientTypeOK, SlotTypeOK, DialTypeOK, TaskTypeOK, SettleTypeOK,
     NetTypeOK, clientVars, slotVars, dialVars, taskVars, settleVars, netVars

\* The scalars and the queue of the actor.
LEMMA ActorFrame ==
  ActorTypeOK /\ UNCHANGED <<alive, localLower, queue, active, stateVars>>
    => ActorTypeOK'
  BY DEF ActorTypeOK, stateVars

\* The two queues, their counter and the control channel.
LEMMA ChannelFrame ==
  ChannelTypeOK /\ QueueAccounting /\ UNCHANGED <<chanVars, queue>>
    => ChannelTypeOK' /\ QueueAccounting'
  BY DEF ChannelTypeOK, QueueAccounting, chanVars

-----------------------------------------------------------------------------
(* The control channel.                                                    *)

\* The notes the tasks send are control messages (SessionControl).
LEMMA NoteType ==
  /\ \A c \in Conns : Note("Attach", c) \in ControlMessage
  /\ \A c \in Conns : Note("ConnectionClosed", c) \in ControlMessage
  /\ \A c \in Conns : Note("InboundStream", c) \in ControlMessage
  /\ \A c \in Conns : Note("InboundFinished", c) \in ControlMessage
  /\ \A c \in Conns \cup {NoConn} : Note("DialFinished", c) \in ControlMessage
  /\ Note("Shutdown", NoConn) \in ControlMessage
  /\ Note("StartOutboundDial", NoConn) \in ControlMessage
  BY DEF Note, ControlMessage

\* Sending a control message keeps the channel typed and the queues as they are.
LEMMA PostType ==
  ASSUME ChannelTypeOK, QueueAccounting, NEW note \in ControlMessage,
         Post(<<note>>), UNCHANGED <<queued, rx, queue>>
  PROVE  ChannelTypeOK' /\ QueueAccounting'
<1>1. control' \in Seq(ControlMessage)
  BY DEF Post, ChannelTypeOK
<1> QED
  BY <1>1 DEF ChannelTypeOK, QueueAccounting

\* And so does receiving one.
LEMMA ReceiveType ==
  ASSUME ChannelTypeOK, QueueAccounting, control # <<>>,
         control' = Tail(control), UNCHANGED <<queued, rx, queue>>
  PROVE  /\ ChannelTypeOK' /\ QueueAccounting'
         /\ Head(control) \in ControlMessage
  BY HeadTailProperties DEF ChannelTypeOK, QueueAccounting

\* What a control message of each kind carries.
LEMMA ControlConn ==
  ASSUME NEW note \in ControlMessage
  PROVE  /\ note.conn \in Conns \cup {NoConn}
         /\ note.kind \in {"Attach", "ConnectionClosed", "InboundStream",
                           "InboundFinished"} => note.conn \in Conns
         /\ note.kind = "OutboundFinished" => note.msg \in Messages
  BY DEF ControlMessage

-----------------------------------------------------------------------------
(* The helpers of the actor.                                               *)

\* A stored state is published as one the interface knows.
LEMMA SetStateType ==
  ASSUME ActorTypeOK, NEW s \in {"Disconnected", "Connecting", "Connected", "Closing"},
         SetState(s)
  PROVE  /\ state' \in {"Disconnected", "Connecting", "Connected", "Closing"}
         /\ published' \in {"NotConnected", "Connecting", "Connected"}
  BY DEF SetState, External, ActorTypeOK

\* attach_connection keeps the slots and the connections typed.
LEMMA AttachType ==
  ASSUME SlotTypeOK, NetTypeOK, ActorTypeOK,
         NEW c \in Conns, AttachConnection(c),
         UNCHANGED <<handlers, outbound, running, permits>>,
         UNCHANGED <<alive, localLower, queue, active>>
  PROVE  SlotTypeOK' /\ NetTypeOK' /\ ActorTypeOK'
<1>1. SlotTypeOK'
  BY DEF AttachConnection, SlotTypeOK
<1>2. NetTypeOK'
  BY DEF AttachConnection, Close, NetTypeOK
<1>3. ActorTypeOK'
  BY SetStateType DEF AttachConnection, ActorTypeOK, stateVars
<1> QED
  BY <1>1, <1>2, <1>3

\* So does closing the draining slots that are idle.
LEMMA CloseDrainingType ==
  ASSUME SlotTypeOK, NetTypeOK, CloseDrainingFinished,
         handlers' \in [Conns -> Nat], outbound' \in [Conns -> Nat],
         UNCHANGED <<primary, monitor, accepting, running, permits>>
  PROVE  SlotTypeOK' /\ NetTypeOK'
  BY DEF CloseDrainingFinished, Close, SlotTypeOK, NetTypeOK

\* Counting a stream of a slot up,
LEMMA IncrementType ==
  ASSUME NEW count \in [Conns -> Nat], NEW c
  PROVE  [count EXCEPT ![c] = @ + 1] \in [Conns -> Nat]
<1>1. ASSUME NEW d \in Conns
      PROVE  [count EXCEPT ![c] = @ + 1][d] \in Nat
  <2>1. count[d] \in Nat
    OBVIOUS
  <2> QED
    BY <2>1
<1> QED
  BY <1>1

\* counting it down,
LEMMA DecrementType ==
  ASSUME NEW count \in [Conns -> Nat], NEW c
  PROVE  Decrement(count, c) \in [Conns -> Nat]
  BY DEF Decrement

\* and dropping its counters keeps them natural numbers.
LEMMA ForgetType ==
  ASSUME NEW count \in [Conns -> Nat], NEW S
  PROVE  Forget(count, S) \in [Conns -> Nat]
  BY DEF Forget

\* Whether or not it is forced, an answer is an outcome of its message.
LEMMA FinishCommandType ==
  ASSUME SettleTypeOK, NEW m \in Messages, NEW r \in Outcomes \cup {"none"},
         FinishCommand({m}, r) \/ ForceFinishCommand(m, r),
         UNCHANGED resolving
  PROVE  SettleTypeOK'
  BY DEF FinishCommand, ForceFinishCommand, Resolve, Answer, SettleTypeOK

\* An aborted task has one of the states of a task.
LEMMA AbortType ==
  ASSUME TaskTypeOK, NEW m, Abort(m), UNCHANGED <<via, result>>
  PROVE  TaskTypeOK'
  BY DEF Abort, TaskTypeOK

\* The streams in the control channel can be counted.
LEMMA QueuedStreamsType ==
  ASSUME ChannelTypeOK
  PROVE  InboundStreamsQueued \in Nat
<1>1. IsFiniteSet(1 .. Len(control)) /\ DOMAIN control = 1 .. Len(control)
  BY FS_Interval DEF ChannelTypeOK
<1> QED
  BY <1>1, FS_Subset, FS_CardinalityType DEF InboundStreamsQueued

-----------------------------------------------------------------------------
(* Type correctness.                                                       *)

\* A session just spawned is typed and its queues are empty.
LEMMA InitTyped == Init => TypedAccounting
  BY SessionAssumption
  DEF Init, TypedAccounting, TypeOK, QueueAccounting, ClientTypeOK,
      ChannelTypeOK, ActorTypeOK, SlotTypeOK, DialTypeOK, TaskTypeOK,
      SettleTypeOK, NetTypeOK, Messages, Conns, NoMsg, InFlight

\* The client: an admission takes a slot and fills it.
LEMMA ClientTyped ==
  ASSUME TypedAccounting, Client \/ DeadlinePasses
  PROVE  TypedAccounting'
<1> USE SessionAssumption, Frames, ActorFrame DEF TypedAccounting, TypeOK
<1>1. CASE SendText
  BY <1>1 DEF SendText, Reserve, ClientTypeOK, ChannelTypeOK, QueueAccounting,
              Messages
<1>2. CASE RemoveContact
  BY <1>2, ChannelFrame DEF RemoveContact, ClientTypeOK
<1>3. CASE RequestShutdown
  <2>1. ClientTypeOK'
    BY <1>3 DEF RequestShutdown, ClientTypeOK
  <2> QED
    BY <1>3, <2>1, NoteType, PostType DEF RequestShutdown
<1>4. CASE RequestOutboundDial
  <2>1. ClientTypeOK'
    BY <1>4 DEF RequestOutboundDial, ClientTypeOK
  <2> QED
    BY <1>4, <2>1, NoteType, PostType DEF RequestOutboundDial
<1>5. CASE DeadlinePasses
  BY <1>5, ChannelFrame DEF DeadlinePasses, ClientTypeOK
<1> QED
  BY <1>1, <1>2, <1>3, <1>4, <1>5 DEF Client

\* The tasks that answer a message do not touch the queues.
LEMMA SettlingTyped ==
  ASSUME TypedAccounting, NEW m \in Messages,
         \/ DeadlineFires(m) \/ DeadlineResolves(m)
         \/ StreamAnswers(m) \/ StreamTimesOut(m)
         \/ TaskResolves(m) \/ TaskReports(m)
  PROVE  TypedAccounting'
<1> USE Frames, ActorFrame, ChannelFrame DEF TypedAccounting, TypeOK
<1>1. CASE DeadlineFires(m)
  BY <1>1 DEF DeadlineFires, SettleTypeOK
<1>2. CASE DeadlineResolves(m)
  BY <1>2 DEF DeadlineResolves, Resolve, Answer, SettleTypeOK, Outcomes,
              StreamResults
<1>3. ASSUME NEW r \in StreamResults, StreamReturns(m, r)
      PROVE  TypedAccounting'
  BY <1>3 DEF StreamReturns, SettleTypeOK, TaskTypeOK, InFlight
<1>4. CASE StreamAnswers(m)
  BY <1>3, <1>4 DEF StreamAnswers, StreamResults
<1>5. CASE StreamTimesOut(m)
  BY <1>3, <1>5 DEF StreamTimesOut, StreamResults
<1>6. CASE TaskResolves(m)
  BY <1>6 DEF TaskResolves, Resolve, Answer, SettleTypeOK, TaskTypeOK,
              Outcomes, InFlight
<1>7. CASE TaskReports(m)
  <2>1. OutboundFinished(m) \in ControlMessage
    BY DEF OutboundFinished, ControlMessage, TaskTypeOK
  <2>2. TaskTypeOK'
    BY <1>7 DEF TaskReports, TaskTypeOK
  <2> QED
    BY <1>7, <2>1, <2>2, PostType DEF TaskReports
<1> QED
  BY <1>1, <1>2, <1>4, <1>5, <1>6, <1>7

\* Connections, streams and the tasks that watch them.
LEMMA NetworkTyped ==
  ASSUME TypedAccounting, NEW c \in Conns,
         \/ InboundArrives(c) \/ DialSucceeds \/ DialFails
         \/ ConnectionLost(c) \/ MonitorReports(c) \/ StreamArrives(c)
         \/ StreamTaken(c) \/ HandlerFinishes(c)
  PROVE  TypedAccounting'
<1> USE Frames, ActorFrame, ChannelFrame, NoteType, PostType
    DEF TypedAccounting, TypeOK
<1>1. CASE InboundArrives(c)
  <2>1. NetTypeOK'
    BY <1>1 DEF InboundArrives, NetTypeOK
  <2> QED
    BY <1>1, <2>1 DEF InboundArrives
<1>2. CASE DialSucceeds
  <2>1. NetTypeOK' /\ DialTypeOK'
    BY <1>2 DEF DialSucceeds, NetTypeOK, DialTypeOK
  <2>2. OutConn \in Conns
    BY DEF Conns
  <2> QED
    BY <1>2, <2>1, <2>2 DEF DialSucceeds
<1>3. CASE DialFails
  <2>1. DialTypeOK'
    BY <1>3 DEF DialFails, DialTypeOK
  <2> QED
    BY <1>3, <2>1 DEF DialFails
<1>4. CASE ConnectionLost(c)
  BY <1>4 DEF ConnectionLost, NetTypeOK
<1>5. CASE MonitorReports(c)
  <2>1. NetTypeOK'
    BY <1>5 DEF MonitorReports, NetTypeOK
  <2> QED
    BY <1>5, <2>1 DEF MonitorReports
<1>6. CASE StreamArrives(c)
  BY <1>6, SessionAssumption DEF StreamArrives, NetTypeOK, ClientTypeOK
<1>7. CASE StreamTaken(c)
  <2>1. NetTypeOK'
    BY <1>7 DEF StreamTaken, NetTypeOK
  <2>2. ChannelTypeOK' /\ QueueAccounting'
    <3>1. CASE permits > 0 /\ alive
      BY <1>7, <3>1 DEF StreamTaken
    <3>2. CASE ~(permits > 0 /\ alive)
      BY <1>7, <3>2 DEF StreamTaken, chanVars
    <3> QED
      BY <3>1, <3>2
  <2> QED
    BY <1>7, <2>1, <2>2 DEF StreamTaken
<1>8. CASE HandlerFinishes(c)
  <2>1. NetTypeOK'
    BY <1>8 DEF HandlerFinishes, NetTypeOK
  <2> QED
    BY <1>8, <2>1 DEF HandlerFinishes
<1> QED
  BY <1>1, <1>2, <1>3, <1>4, <1>5, <1>6, <1>7, <1>8

\* The slot of a delivery that leaves the queue is released.
LEMMA ReleaseType ==
  ASSUME ChannelTypeOK, ActorTypeOK, QueueAccounting, queue # <<>>,
         queue' = Tail(queue), ReleaseQueuedSlot, UNCHANGED <<rx, control>>
  PROVE  ChannelTypeOK' /\ QueueAccounting'
<1>1. /\ Len(rx) \in Nat /\ Len(queue) \in Nat /\ Len(queue') \in Nat
      /\ Len(queue') = Len(queue) - 1
  BY HeadTailProperties, LenProperties DEF ChannelTypeOK, ActorTypeOK
<1>2. /\ Capacity \in Nat /\ queued \in Nat
      /\ queued = Len(queue) + Len(rx) /\ queued <= Capacity
  BY SessionAssumption DEF ChannelTypeOK, QueueAccounting
<1>3. queued' = queued - 1 /\ rx' = rx /\ control' = control
  BY DEF ReleaseQueuedSlot
<1>4. queued' = Len(queue') + Len(rx)
  BY <1>1, <1>2, <1>3
<1>5. queued' \in 0 .. Capacity
  BY <1>1, <1>2, <1>3, <1>4
<1> QED
  BY <1>3, <1>4, <1>5, <1>2 DEF ChannelTypeOK, QueueAccounting

\* Taking deliveries out of the channel and out of the queue.
LEMMA DeliveryTyped ==
  ASSUME TypedAccounting, StartNext \/ ReceiveDelivery
  PROVE  TypedAccounting'
<1> USE Frames, ActorFrame DEF TypedAccounting, TypeOK
<1>1. CASE ReceiveDelivery
  <2>1. /\ Head(rx) \in Messages /\ Tail(rx) \in Seq(Messages)
        /\ Len(Tail(rx)) = Len(rx) - 1
    BY <1>1, HeadTailProperties DEF ReceiveDelivery, ChannelTypeOK
  <2>2. ActorTypeOK'
    BY <1>1, <2>1 DEF ReceiveDelivery, ActorTypeOK, stateVars
  <2>3. ChannelTypeOK' /\ QueueAccounting'
    BY <1>1, <2>1 DEF ReceiveDelivery, ChannelTypeOK, QueueAccounting, ActorTypeOK
  <2> QED
    BY <1>1, <2>2, <2>3 DEF ReceiveDelivery
<1>2. CASE StartNext
  <2>1. /\ Head(queue) \in Messages /\ Tail(queue) \in Seq(Messages)
        /\ Len(Tail(queue)) = Len(queue) - 1
    BY <1>2, HeadTailProperties DEF StartNext, ActorTypeOK
  <2>2. ChannelTypeOK' /\ QueueAccounting'
    BY <1>2, ReleaseType DEF StartNext
  <2> DEFINE m == Head(queue)
  <2>3. /\ active' \in Messages \cup {NoMsg}
        /\ SlotTypeOK' /\ TaskTypeOK' /\ SettleTypeOK'
    <3>1. CASE UNCHANGED <<active, slotVars, taskVars, settleVars>>
      BY <1>2, <3>1 DEF StartNext, ActorTypeOK
    <3>2. CASE /\ FinishCommand({m}, Refusal(m))
               /\ UNCHANGED <<active, slotVars, taskVars>>
      <4>1. Refusal(m) \in Outcomes \cup {"none"}
        BY DEF Refusal, Outcomes, StreamResults
      <4> QED
        BY <1>2, <2>1, <3>2, <4>1, FinishCommandType DEF StartNext, ActorTypeOK
    <3>3. CASE SpawnActiveDelivery(m)
      <4>1. SlotTypeOK'
        <5>1. outbound' \in [Conns -> Nat]
          BY <3>3, IncrementType DEF SpawnActiveDelivery, SlotTypeOK
        <5> QED
          BY <3>3, <5>1 DEF SpawnActiveDelivery, SlotTypeOK
      <4>2. TaskTypeOK'
        BY <2>1, <3>3 DEF SpawnActiveDelivery, TaskTypeOK, SlotTypeOK, InFlight
      <4> QED
        BY <1>2, <2>1, <3>3, <4>1, <4>2 DEF StartNext, SpawnActiveDelivery
    <3> QED
      BY <1>2, <3>1, <3>2, <3>3 DEF StartNext
  <2>4. ActorTypeOK'
    BY <1>2, <2>1, <2>3 DEF StartNext, ActorTypeOK, stateVars
  <2> QED
    BY <1>2, <2>2, <2>3, <2>4 DEF StartNext
<1> QED
  BY <1>1, <1>2

\* The actor's handlers for its connections and their streams.
LEMMA ConnectionTyped ==
  ASSUME TypedAccounting,
         \/ HandleAttach \/ HandleDialFinished \/ HandleStartOutboundDial
         \/ HandleConnectionClosed
  PROVE  TypedAccounting'
<1> USE Frames, ActorFrame DEF TypedAccounting, TypeOK
<1> DEFINE note == Head(control)
<1>0. /\ ChannelTypeOK' /\ QueueAccounting' /\ note \in ControlMessage
      /\ note.conn \in Conns \cup {NoConn}
      /\ note.kind \in {"Attach", "ConnectionClosed"} => note.conn \in Conns
  <2>1. /\ control # <<>> /\ control' = Tail(control)
        /\ UNCHANGED <<queued, rx, queue>>
    BY DEF HandleAttach, HandleDialFinished, HandleStartOutboundDial,
           HandleConnectionClosed, Receive
  <2> QED
    BY <2>1, ReceiveType, ControlConn
<1>1. CASE HandleAttach
  <2>1. SlotTypeOK' /\ NetTypeOK' /\ ActorTypeOK'
    BY <1>0, <1>1, AttachType DEF HandleAttach, Receive
  <2> QED
    BY <1>0, <1>1, <2>1 DEF HandleAttach
<1>2. CASE HandleDialFinished
  <2>1. DialTypeOK'
    BY <1>2 DEF HandleDialFinished, DialTypeOK
  <2>2. SlotTypeOK' /\ NetTypeOK' /\ ActorTypeOK'
    <3>1. CASE note.conn # NoConn /\ AttachConnection(note.conn)
      BY <1>0, <1>2, <3>1, AttachType DEF HandleDialFinished
    <3>2. CASE DialFailed /\ UNCHANGED <<primary, draining, conn, monitor, accepting>>
      <4>1. ActorTypeOK'
        BY <1>2, <3>2, SetStateType
        DEF HandleDialFinished, DialFailed, ActorTypeOK, stateVars
      <4> QED
        BY <1>2, <3>2, <4>1 DEF HandleDialFinished, slotVars, netVars
    <3> QED
      BY <1>2, <3>1, <3>2 DEF HandleDialFinished
  <2> QED
    BY <1>0, <1>2, <2>1, <2>2 DEF HandleDialFinished
<1>3. CASE HandleStartOutboundDial
  <2>1. DialTypeOK' /\ ActorTypeOK'
    <3>1. CASE UNCHANGED <<dialVars, stateVars>>
      BY <1>3, <3>1 DEF HandleStartOutboundDial
    <3>2. CASE /\ dialAttempted' = TRUE /\ dialing' = TRUE
               /\ dialer' = "running" /\ SetState("Connecting")
      BY <1>3, <3>2, SetStateType DEF HandleStartOutboundDial, DialTypeOK,
         ActorTypeOK
    <3> QED
      BY <1>3, <3>1, <3>2 DEF HandleStartOutboundDial, BeginDial
  <2> QED
    BY <1>0, <1>3, <2>1 DEF HandleStartOutboundDial
<1>4. CASE HandleConnectionClosed
  <2>1. SlotTypeOK'
    BY <1>4, ForgetType DEF HandleConnectionClosed, SlotTypeOK
  <2>2. /\ state' \in {"Disconnected", "Connecting", "Connected", "Closing"}
        /\ published' \in {"NotConnected", "Connecting", "Connected"}
    <3>1. PrimaryLost(note.conn)
      BY <1>4 DEF HandleConnectionClosed
    <3> QED
      BY <3>1, SetStateType DEF PrimaryLost, ActorTypeOK, stateVars
  <2>3. active' \in Messages \cup {NoMsg} /\ TaskTypeOK' /\ SettleTypeOK'
    <3>1. CASE /\ active # NoMsg /\ active' = NoMsg /\ Abort(active)
               /\ ForceFinishCommand(active, "Transport")
      <4>1. active \in Messages /\ "Transport" \in Outcomes \cup {"none"}
        BY <3>1 DEF ActorTypeOK, Outcomes, StreamResults
      <4>2. SettleTypeOK'
        BY <1>4, <3>1, <4>1, FinishCommandType DEF HandleConnectionClosed
      <4>3. TaskTypeOK'
        BY <1>4, <3>1, AbortType DEF HandleConnectionClosed
      <4> QED
        BY <3>1, <4>2, <4>3
    <3>2. CASE UNCHANGED <<active, task, settleVars>>
      BY <1>4, <3>2 DEF HandleConnectionClosed, ActorTypeOK, taskVars
    <3> QED
      BY <1>4, <3>1, <3>2 DEF HandleConnectionClosed
  <2>4. ActorTypeOK'
    BY <1>4, <2>2, <2>3 DEF HandleConnectionClosed, ActorTypeOK
  <2> QED
    BY <1>0, <1>4, <2>1, <2>3, <2>4 DEF HandleConnectionClosed
<1> QED
  BY <1>1, <1>2, <1>3, <1>4

\* The actor's handlers for what streams report.
LEMMA StreamTyped ==
  ASSUME TypedAccounting,
         \/ HandleAcceptLoopStopped \/ HandleInboundStream
         \/ HandleInboundFinished \/ HandleOutboundFinished
  PROVE  TypedAccounting'
<1> USE Frames, ActorFrame DEF TypedAccounting, TypeOK
<1> DEFINE note == Head(control)
<1>1. CASE HandleAcceptLoopStopped
  <2>1. SlotTypeOK' /\ NetTypeOK'
    BY <1>1, CloseDrainingType DEF HandleAcceptLoopStopped, SlotTypeOK
  <2> QED
    BY <1>1, <2>1, ChannelFrame DEF HandleAcceptLoopStopped
<1>2. ASSUME HandleInboundStream \/ HandleInboundFinished \/ HandleOutboundFinished
      PROVE  /\ ChannelTypeOK' /\ QueueAccounting' /\ note \in ControlMessage
             /\ note.kind \in {"InboundStream", "InboundFinished"}
                  => note.conn \in Conns
             /\ note.kind = "OutboundFinished" => note.msg \in Messages
  <2>1. /\ control # <<>> /\ control' = Tail(control)
        /\ UNCHANGED <<queued, rx, queue>>
    BY <1>2 DEF HandleInboundStream, HandleInboundFinished,
                HandleOutboundFinished, Receive
  <2> QED
    BY <2>1, ReceiveType, ControlConn
<1>3. CASE HandleInboundStream
  <2>1. handlers' \in [Conns -> Nat] /\ running' \in [Conns -> Nat]
    <3>1. CASE /\ handlers' = [handlers EXCEPT ![note.conn] = @ + 1]
               /\ running' = [running EXCEPT ![note.conn] = @ + 1]
      BY <3>1, IncrementType DEF SlotTypeOK, NetTypeOK
    <3>2. CASE UNCHANGED <<handlers, running>>
      BY <3>2 DEF SlotTypeOK, NetTypeOK
    <3> QED
      BY <1>3, <3>1, <3>2 DEF HandleInboundStream
  <2>2. permits' \in Nat
    BY <1>3 DEF HandleInboundStream, NetTypeOK
  <2>3. SlotTypeOK' /\ NetTypeOK'
    BY <1>3, <2>1, <2>2 DEF HandleInboundStream, SlotTypeOK, NetTypeOK
  <2> QED
    BY <1>2, <1>3, <2>3 DEF HandleInboundStream
<1>4. CASE HandleInboundFinished
  <2>1. handlers' \in [Conns -> Nat] /\ outbound' \in [Conns -> Nat]
    BY <1>4, DecrementType DEF HandleInboundFinished, SlotTypeOK
  <2>2. SlotTypeOK' /\ NetTypeOK'
    BY <1>4, <2>1, CloseDrainingType DEF HandleInboundFinished
  <2> QED
    BY <1>2, <1>4, <2>2 DEF HandleInboundFinished
<1>5. CASE HandleOutboundFinished
  <2>1. handlers' \in [Conns -> Nat] /\ outbound' \in [Conns -> Nat]
    BY <1>5, DecrementType DEF HandleOutboundFinished, SlotTypeOK
  <2>2. SlotTypeOK' /\ NetTypeOK'
    BY <1>5, <2>1, CloseDrainingType DEF HandleOutboundFinished
  <2>3. note.msg \in Messages
    BY <1>2, <1>5 DEF HandleOutboundFinished, Receive
  <2>4. active' \in Messages \cup {NoMsg} /\ SettleTypeOK'
    <3>1. CASE /\ active' = NoMsg
               /\ FinishCommand({note.msg}, result[note.msg])
      <4>1. result[note.msg] \in Outcomes \cup {"none"}
        BY <2>3 DEF TaskTypeOK, Outcomes
      <4> QED
        BY <1>5, <2>3, <3>1, <4>1, FinishCommandType DEF HandleOutboundFinished
    <3>2. CASE UNCHANGED <<active, settleVars>>
      BY <1>5, <3>2 DEF HandleOutboundFinished, ActorTypeOK
    <3> QED
      BY <1>5, <3>1, <3>2 DEF HandleOutboundFinished
  <2>5. ActorTypeOK'
    BY <1>5, <2>4 DEF HandleOutboundFinished, ActorTypeOK, stateVars
  <2> QED
    BY <1>2, <1>5, <2>2, <2>4, <2>5 DEF HandleOutboundFinished
<1> QED
  BY <1>1, <1>3, <1>4, <1>5

\* The end of the session gives back the slot of every queued delivery.
LEMMA ShutdownTyped ==
  ASSUME TypedAccounting, HandleShutdown
  PROVE  TypedAccounting'
<1> USE Frames DEF TypedAccounting, TypeOK
<1>1. ChannelTypeOK' /\ QueueAccounting'
  <2>1. Len(queue) \in Nat /\ Len(rx) \in Nat /\ queued = Len(queue) + Len(rx)
    BY LenProperties DEF ChannelTypeOK, ActorTypeOK, QueueAccounting
  <2>2. /\ queue' = <<>> /\ rx' = <<>> /\ control' = <<>>
        /\ queued' = queued - Len(queue) - Len(rx)
    BY DEF HandleShutdown
  <2>3. queued' = 0
    BY <2>1, <2>2
  <2> QED
    BY <2>2, <2>3, SessionAssumption DEF ChannelTypeOK, QueueAccounting
<1>2. ActorTypeOK'
  <2>1. /\ SetState("Closing") /\ alive' = FALSE /\ localLower' = localLower
        /\ queue' = <<>> /\ active' = NoMsg
    BY DEF HandleShutdown
  <2>2. /\ state' \in {"Disconnected", "Connecting", "Connected", "Closing"}
        /\ published' \in {"NotConnected", "Connecting", "Connected"}
    BY <2>1, SetStateType
  <2>3. alive' \in BOOLEAN /\ localLower' \in BOOLEAN
    BY <2>1 DEF ActorTypeOK
  <2>4. queue' \in Seq(Messages)
    BY <2>1
  <2> QED
    BY <2>1, <2>2, <2>3, <2>4 DEF ActorTypeOK
<1>3. SlotTypeOK'
  BY ForgetType DEF HandleShutdown, SlotTypeOK
<1>4. DialTypeOK'
  BY DEF HandleShutdown, DialTypeOK
<1>5. TaskTypeOK'
  BY AbortType DEF HandleShutdown
<1>6. SettleTypeOK'
  <2>1. ToSet(queue) \subseteq Messages /\ ToSet(rx) \subseteq Messages
    BY DEF ToSet, ActorTypeOK, ChannelTypeOK
  <2>2. cancelled' \subseteq Messages
    BY <2>1 DEF HandleShutdown, SettleTypeOK, ActorTypeOK
  <2>3. shutdown \in Outcomes \cup {"none"}
    BY DEF ClientTypeOK, Outcomes
  <2>4. ASSUME NEW ms
        PROVE  Answer(ms, shutdown) \in [Messages -> Outcomes \cup {"none"}]
    BY <2>3 DEF Answer, SettleTypeOK
  <2>5. PICK ms : outcome' = Answer(ms, shutdown)
    BY DEF HandleShutdown, Resolve
  <2> QED
    BY <2>2, <2>4, <2>5 DEF HandleShutdown, SettleTypeOK
<1>7. NetTypeOK'
  <2>1. conn' \in [Conns -> {"none", "open", "closed"}]
    BY DEF HandleShutdown, Close, NetTypeOK
  <2>2. permits' \in Nat
    BY QueuedStreamsType DEF HandleShutdown, NetTypeOK
  <2> QED
    BY <2>1, <2>2 DEF HandleShutdown, NetTypeOK
<1> QED
  BY <1>1, <1>2, <1>3, <1>4, <1>5, <1>6, <1>7 DEF HandleShutdown

\* Every step keeps the values typed and the slot counter exact.
LEMMA StepTyped == TypedAccounting /\ [Next]_vars => TypedAccounting'
<1> SUFFICES ASSUME TypedAccounting, [Next]_vars
             PROVE  TypedAccounting'
  OBVIOUS
<1>1. CASE UNCHANGED vars
  BY <1>1, Frames, ActorFrame, ChannelFrame DEF TypedAccounting, TypeOK, vars,
     slotVars, dialVars, settleVars
<1>2. CASE Actor
  BY <1>2, DeliveryTyped, ConnectionTyped, StreamTyped, ShutdownTyped
  DEF Actor, HandleControl
<1>3. CASE Client \/ DeadlinePasses
  BY <1>3, ClientTyped
<1>4. CASE Deadline \/ OutboundTask
  BY <1>4, SettlingTyped DEF Deadline, OutboundTask
<1>5. CASE DialEnds
  BY <1>5, NetworkTyped DEF DialEnds, Conns
<1>6. CASE Watchers \/ Handlers
  BY <1>6, NetworkTyped DEF Watchers, Handlers
<1>7. CASE Peer
  BY <1>7, SettlingTyped, NetworkTyped DEF Peer, Conns
<1> QED
  BY <1>1, <1>2, <1>3, <1>4, <1>5, <1>6, <1>7 DEF Next

\* No step of the client, the actor, its tasks or the network gives a variable
\* a value the code could not hold.
THEOREM TypeCorrect == Spec => []TypeOK
<1>1. TypedAccounting => TypeOK
  BY DEF TypedAccounting
<1> QED
  BY InitTyped, StepTyped, <1>1, PTL DEF Spec

\* The counter try_enqueue checks is the number of deliveries in the two queues:
\* a session neither refuses a message while it has room nor exceeds its limit.
THEOREM QueueAccounted == Spec => []QueueAccounting
<1>1. TypedAccounting => QueueAccounting
  BY DEF TypedAccounting
<1> QED
  BY InitTyped, StepTyped, <1>1, PTL DEF Spec

-----------------------------------------------------------------------------
(* The published state.                                                    *)

\* SetState publishes the external form of what it stores.
LEMMA SetStatePublishes ==
  ASSUME NEW s \in {"Disconnected", "Connecting", "Connected"}, SetState(s)
  PROVE  state' = s /\ published' = External(state)'
  BY DEF SetState, External

\* A connection that is attached leaves the session with a primary connection.
LEMMA AttachState ==
  ASSUME StateMatchesPrimary, alive, NEW c \in Conns, AttachConnection(c)
  PROVE  /\ primary' # NoConn
         /\ state' = "Connected"
         /\ published' = External(state)'
<1>1. CASE primary = NoConn \/ (Preferred(c) /\ ~Preferred(primary))
  BY <1>1, SetStatePublishes, SessionAssumption DEF AttachConnection
<1>2. CASE ~(primary = NoConn \/ (Preferred(c) /\ ~Preferred(primary)))
  BY <1>2 DEF AttachConnection, StateMatchesPrimary, External, stateVars
<1> QED
  BY <1>1, <1>2

\* Every step keeps the published state true to the primary connection.
LEMMA StateStep ==
  ASSUME TypedAccounting, StateMatchesPrimary, [Next]_vars
  PROVE  StateMatchesPrimary'
<1> DEFINE note == Head(control)
<1>1. ASSUME UNCHANGED <<alive, stateVars, primary, dialing>>
      PROVE  StateMatchesPrimary'
  BY <1>1 DEF StateMatchesPrimary, External, stateVars
<1>2. CASE HandleAttach
  <2>1. note.conn \in Conns
    BY <1>2, ReceiveType, ControlConn DEF HandleAttach, Receive,
       TypedAccounting, TypeOK
  <2> QED
    BY <1>2, <2>1, AttachState DEF HandleAttach, Receive, AtSelect,
       StateMatchesPrimary
<1>3. CASE HandleDialFinished
  <2>1. note.conn \in Conns \cup {NoConn}
    BY <1>3, ReceiveType, ControlConn DEF HandleDialFinished, Receive,
       TypedAccounting, TypeOK
  <2>2. CASE note.conn # NoConn /\ AttachConnection(note.conn)
    BY <1>3, <2>1, <2>2, AttachState DEF HandleDialFinished, Receive, AtSelect,
       StateMatchesPrimary
  <2>3. CASE DialFailed /\ primary' = primary
    BY <1>3, <2>3, SetStatePublishes DEF HandleDialFinished, DialFailed,
       StateMatchesPrimary, stateVars, External, Receive, AtSelect
  <2> QED
    BY <1>3, <2>2, <2>3 DEF HandleDialFinished
<1>4. CASE HandleStartOutboundDial
  <2>1. CASE UNCHANGED <<dialVars, stateVars>>
    BY <1>1, <1>4, <2>1 DEF HandleStartOutboundDial, slotVars, dialVars
  <2>2. CASE primary = NoConn /\ dialing' = TRUE /\ SetState("Connecting")
    BY <1>4, <2>2, SetStatePublishes DEF HandleStartOutboundDial, slotVars,
       StateMatchesPrimary
  <2> QED
    BY <1>4, <2>1, <2>2 DEF HandleStartOutboundDial, BeginDial
<1>5. CASE HandleConnectionClosed
  <2>1. /\ alive' = alive /\ dialing' = dialing
        /\ primary' = IF note.conn = primary THEN NoConn ELSE primary
        /\ PrimaryLost(note.conn)
    BY <1>5 DEF HandleConnectionClosed, dialVars
  <2>2. CASE note.conn = primary
    BY <2>1, <2>2, SetStatePublishes DEF PrimaryLost, StateMatchesPrimary
  <2>3. CASE note.conn # primary
    BY <1>1, <2>1, <2>3 DEF PrimaryLost
  <2> QED
    BY <2>2, <2>3
<1>6. CASE HandleShutdown
  BY <1>6 DEF HandleShutdown, StateMatchesPrimary
<1>7. CASE \/ HandleAcceptLoopStopped \/ HandleInboundStream
           \/ HandleInboundFinished \/ HandleOutboundFinished
  BY <1>1, <1>7 DEF HandleAcceptLoopStopped, HandleInboundStream,
     HandleInboundFinished, HandleOutboundFinished, dialVars
<1>8. CASE StartNext \/ ReceiveDelivery
  <2>1. CASE ReceiveDelivery
    BY <1>1, <2>1 DEF ReceiveDelivery, slotVars, dialVars
  <2>2. CASE StartNext
    BY <1>1, <2>2 DEF StartNext, SpawnActiveDelivery, slotVars, dialVars
  <2> QED
    BY <1>8, <2>1, <2>2
<1>9. CASE Client \/ DeadlinePasses
  BY <1>1, <1>9 DEF Client, SendText, RemoveContact, RequestShutdown,
     RequestOutboundDial, DeadlinePasses, slotVars, dialVars
<1>10. CASE Deadline \/ OutboundTask \/ \E m \in Messages : StreamAnswers(m)
  BY <1>1, <1>10 DEF Deadline, OutboundTask, DeadlineFires, DeadlineResolves,
     StreamAnswers, StreamTimesOut, StreamReturns, TaskResolves, TaskReports,
     slotVars, dialVars
<1>11. CASE DialEnds \/ Watchers \/ Handlers
  BY <1>1, <1>11 DEF DialEnds, DialSucceeds, DialFails, Watchers, Handlers,
     MonitorReports, StreamTaken, HandlerFinishes, slotVars, dialVars
<1>12. CASE \/ \E c \in InConns : InboundArrives(c)
            \/ \E c \in Conns : ConnectionLost(c) \/ StreamArrives(c)
  BY <1>1, <1>12 DEF InboundArrives, ConnectionLost, StreamArrives, slotVars,
     dialVars
<1>13. CASE UNCHANGED vars
  BY <1>1, <1>13 DEF vars, slotVars, dialVars
<1> QED
  BY <1>2, <1>3, <1>4, <1>5, <1>6, <1>7, <1>8, <1>9, <1>10, <1>11, <1>12, <1>13
  DEF Next, Actor, HandleControl, Peer

\* While a session runs, what the rest of the program is shown of it is whether
\* it has a primary connection, and Connecting only while the dial is out.
THEOREM PublishedState == Spec => []StateMatchesPrimary
<1>1. Init => StateMatchesPrimary
  BY SessionAssumption DEF Init, StateMatchesPrimary, External
<1>2. TypedAccounting /\ StateMatchesPrimary /\ [Next]_vars => StateMatchesPrimary'
  BY StateStep
<1> QED
  BY InitTyped, StepTyped, <1>1, <1>2, PTL DEF Spec

-----------------------------------------------------------------------------
(* The messages that were admitted.                                        *)

\* The inductive invariant: the deliveries in hand, with the types and the slot
\* counter that the positions in the two queues are computed from.
HandInv == TypedAccounting /\ DeliveriesInHand

-----------------------------------------------------------------------------
(* What a step that leaves the variables of a conjunct alone preserves.    *)

\* A conjunct of DeliveriesInHand depends on these variables only.
LEMMA HandFrames ==
  /\ WaitingInOrder /\ UNCHANGED <<sent, queued, rx, queue>> => WaitingInOrder'
  /\ TakenInOrder /\ UNCHANGED <<sent, queued, active, task, cancelled>>
       => TakenInOrder'
  /\ TaskOfActive /\ UNCHANGED <<active, task, result, cancelled, expired>>
       => TaskOfActive'
  /\ WinnerAnswers /\ UNCHANGED <<cancelled, outcome, resolving, task, expired>>
       => WinnerAnswers'
  /\ ReportsTrue /\ UNCHANGED <<control, task, shutdown, alive>> => ReportsTrue'
  BY DEF WaitingInOrder, TakenInOrder, TaskOfActive, WinnerAnswers, ReportsTrue,
     Taken

\* Tasks that have ended stay so, and a shutdown is not taken back.
Lasting ==
  /\ \A m \in Messages : task[m] = "ended" => task'[m] = "ended"
  /\ shutdown # "none" => shutdown' # "none"
  /\ alive' = alive \/ shutdown' # "none"

\* A step that sends nothing keeps the channel truthful.
LEMMA QuietTrue ==
  ASSUME ReportsTrue, ChannelTypeOK, control' = control, Lasting
  PROVE  ReportsTrue'
  BY ControlConn, ElementOfSeq DEF ReportsTrue, Lasting, ChannelTypeOK

\* A control message that tells the truth keeps the channel truthful.
LEMMA PostTrue ==
  ASSUME ReportsTrue, ChannelTypeOK, NEW note \in ControlMessage,
         Post(<<note>>), Lasting,
         note.kind = "OutboundFinished" => task'[note.msg] = "ended",
         note.kind = "Shutdown" => shutdown' # "none"
  PROVE  ReportsTrue'
<1>1. ASSUME NEW i \in 1 .. Len(control')
      PROVE  \/ i \in 1 .. Len(control) /\ control'[i] = control[i]
             \/ control'[i] = note
  <2>1. CASE alive
    <3>1. control' = control \o <<note>> /\ <<note>> \in Seq(ControlMessage)
      BY <2>1 DEF Post
    <3>2. /\ Len(control') = Len(control) + 1 /\ Len(control) \in Nat
          /\ control'[i] = IF i <= Len(control) THEN control[i]
                           ELSE <<note>>[i - Len(control)]
      BY <1>1, <3>1, ConcatProperties, LenProperties DEF ChannelTypeOK
    <3>3. CASE i <= Len(control)
      BY <1>1, <3>2, <3>3
    <3>4. CASE i = Len(control) + 1
      BY <3>2, <3>4
    <3> QED
      BY <1>1, <3>2, <3>3, <3>4
  <2>2. CASE ~alive
    BY <1>1, <2>2 DEF Post
  <2> QED
    BY <2>1, <2>2
<1>2. \A i \in 1 .. Len(control) :
        control[i].kind = "OutboundFinished" => control[i].msg \in Messages
  BY ControlConn, ElementOfSeq DEF ChannelTypeOK
<1>3. ASSUME NEW i \in 1 .. Len(control')
      PROVE  /\ control'[i].kind = "OutboundFinished"
                  => task'[control'[i].msg] = "ended"
             /\ control'[i].kind = "Shutdown" => shutdown' # "none"
  BY <1>1, <1>2, <1>3 DEF ReportsTrue, Lasting
<1> QED
  BY <1>3 DEF ReportsTrue, Lasting

\* So does receiving one, and what is received is true.
LEMMA ReceiveTrue ==
  ASSUME ReportsTrue, ChannelTypeOK, control # <<>>, control' = Tail(control),
         Lasting
  PROVE  /\ ReportsTrue'
         /\ Head(control).kind = "OutboundFinished"
              => task[Head(control).msg] = "ended"
         /\ Head(control).kind = "Shutdown" => shutdown # "none"
<1>1. /\ Len(control) \in Nat \ {0} /\ Len(control') = Len(control) - 1
      /\ \A i \in 1 .. Len(control') : control'[i] = control[i + 1]
      /\ Head(control) = control[1]
  BY HeadTailProperties, EmptySeq DEF ChannelTypeOK
<1>2. \A i \in 1 .. Len(control) :
        control[i].kind = "OutboundFinished" => control[i].msg \in Messages
  BY ControlConn, ElementOfSeq DEF ChannelTypeOK
<1>3. ASSUME NEW i \in 1 .. Len(control')
      PROVE  /\ control'[i].kind = "OutboundFinished"
                  => task'[control'[i].msg] = "ended"
             /\ control'[i].kind = "Shutdown" => shutdown' # "none"
  <2>1. i + 1 \in 1 .. Len(control) /\ control'[i] = control[i + 1]
    BY <1>1, <1>3
  <2> QED
    BY <1>2, <2>1 DEF ReportsTrue, Lasting
<1>4. 1 \in 1 .. Len(control)
  BY <1>1
<1> QED
  BY <1>1, <1>3, <1>4 DEF ReportsTrue, Lasting

-----------------------------------------------------------------------------
(* The invariant and its steps.                                            *)

\* A session just spawned has nothing in hand.
LEMMA InitInHand == Init => DeliveriesInHand
<1> SUFFICES ASSUME Init
             PROVE  DeliveriesInHand
  OBVIOUS
<1>1. Len(queue) = 0 /\ Len(rx) = 0 /\ Len(control) = 0
  BY DEF Init
<1>2. Taken = 0 /\ \A m \in Messages : m > 0
  BY SessionAssumption DEF Init, Taken, Messages
<1>3. WaitingInOrder /\ ReportsTrue
  BY <1>1 DEF Init, WaitingInOrder, ReportsTrue
<1>4. TakenInOrder
  BY <1>2 DEF Init, TakenInOrder, NoMsg, Messages
<1>5. TaskOfActive /\ WinnerAnswers
  BY DEF Init, TaskOfActive, WinnerAnswers
<1> QED
  BY <1>3, <1>4, <1>5 DEF DeliveriesInHand

\* The client admits a message at the end of the line and asks for the rest.
LEMMA ClientInHand ==
  ASSUME HandInv, Client \/ DeadlinePasses
  PROVE  DeliveriesInHand'
<1> USE HandFrames DEF HandInv, DeliveriesInHand, TypedAccounting, TypeOK
<1>1. CASE SendText
  <2>1. /\ rx' = Append(rx, sent + 1) /\ queued' = queued + 1
        /\ sent' = sent + 1 /\ sent + 1 \in Messages /\ queue' = queue
    BY <1>1, SessionAssumption DEF SendText, Reserve, ClientTypeOK, Messages
  <2>2. /\ Len(rx) \in Nat /\ Len(queue) \in Nat /\ Len(rx') = Len(rx) + 1
        /\ \A i \in 1 .. Len(rx) : rx'[i] = rx[i]
        /\ rx'[Len(rx) + 1] = sent + 1
    BY <2>1, AppendProperties, LenProperties DEF ChannelTypeOK, ActorTypeOK
  <2>3. queued = Len(queue) + Len(rx) /\ sent \in Nat /\ Taken' = Taken
    BY <2>1, <2>2, SessionAssumption DEF QueueAccounting, ClientTypeOK, Taken
  <2>4. \A i \in 1 .. Len(rx') : rx'[i] = Taken + Len(queue) + i
    <3> SUFFICES ASSUME NEW i \in 1 .. Len(rx')
                 PROVE  rx'[i] = Taken + Len(queue) + i
      OBVIOUS
    <3>1. CASE i \in 1 .. Len(rx)
      BY <2>2, <3>1 DEF WaitingInOrder
    <3>2. CASE i = Len(rx) + 1
      BY <2>2, <2>3, <3>2 DEF Taken
    <3> QED
      BY <2>2, <3>1, <3>2
  <2>5. WaitingInOrder'
    BY <2>1, <2>3, <2>4 DEF WaitingInOrder
  <2>6. TakenInOrder'
    BY <1>1, <2>3 DEF SendText, TakenInOrder, taskVars, settleVars
  <2> QED
    BY <1>1, <2>5, <2>6 DEF SendText, taskVars, settleVars
<1>2. CASE RemoveContact
  BY <1>2 DEF RemoveContact, taskVars, settleVars, chanVars
<1>3. CASE RequestShutdown
  <2>1. ReportsTrue'
    BY <1>3, PostTrue, NoteType DEF RequestShutdown, Lasting, taskVars, Note
  <2> QED
    BY <1>3, <2>1 DEF RequestShutdown, taskVars, settleVars
<1>4. CASE RequestOutboundDial
  <2>1. ReportsTrue'
    BY <1>4, PostTrue, NoteType DEF RequestOutboundDial, Lasting, taskVars, Note
  <2> QED
    BY <1>4, <2>1 DEF RequestOutboundDial, taskVars, settleVars
<1>5. CASE DeadlinePasses
  <2>1. expired \in Int /\ expired' = expired + 1
        /\ UNCHANGED <<taskVars, settleVars, resolving, active>>
    BY <1>5, SessionAssumption DEF DeadlinePasses, ClientTypeOK
  <2>2. TaskOfActive' /\ WinnerAnswers'
    BY <2>1, SessionAssumption
    DEF TaskOfActive, WinnerAnswers, taskVars, settleVars, Messages
  <2> QED
    BY <1>5, <2>1, <2>2 DEF DeadlinePasses, taskVars, settleVars, chanVars
<1> QED
  BY <1>1, <1>2, <1>3, <1>4, <1>5 DEF Client

\* The tasks that race to answer a message.
LEMMA SettlingInHand ==
  ASSUME HandInv, NEW m \in Messages,
         \/ DeadlineFires(m) \/ DeadlineResolves(m)
         \/ StreamAnswers(m) \/ StreamTimesOut(m)
         \/ TaskResolves(m) \/ TaskReports(m)
  PROVE  DeliveriesInHand'
<1> USE HandFrames DEF HandInv, DeliveriesInHand, TypedAccounting, TypeOK
<1>1. CASE DeadlineFires(m)
  <2>1. TakenInOrder' /\ TaskOfActive' /\ WinnerAnswers'
    BY <1>1 DEF DeadlineFires, TakenInOrder, TaskOfActive, WinnerAnswers,
       clientVars, chanVars, taskVars, Taken
  <2> QED
    BY <1>1, <2>1 DEF DeadlineFires, clientVars, chanVars, taskVars
<1>2. CASE DeadlineResolves(m)
  <2>1. WinnerAnswers'
    BY <1>2 DEF DeadlineResolves, WinnerAnswers, Resolve, Answer, clientVars,
       taskVars
  <2> QED
    BY <1>2, <2>1 DEF DeadlineResolves, clientVars, chanVars, taskVars
<1>3. ASSUME NEW r \in StreamResults, StreamReturns(m, r),
             r = "TimedOut" => m <= expired \/ m \in cancelled
      PROVE  DeliveriesInHand'
  <2>1. TakenInOrder' /\ TaskOfActive' /\ WinnerAnswers'
    BY <1>3 DEF StreamReturns, TakenInOrder, TaskOfActive, WinnerAnswers,
       clientVars, chanVars, Taken, TaskTypeOK, StreamResults
  <2>2. ReportsTrue'
    BY <1>3, ControlConn, ElementOfSeq DEF StreamReturns, ReportsTrue,
       TaskTypeOK, ChannelTypeOK, clientVars, chanVars
  <2> QED
    BY <1>3, <2>1, <2>2 DEF StreamReturns, clientVars, chanVars
<1>4. CASE StreamAnswers(m)
  BY <1>3, <1>4 DEF StreamAnswers, StreamResults
<1>5. CASE StreamTimesOut(m)
  BY <1>3, <1>5 DEF StreamTimesOut, StreamResults
<1>6. CASE TaskResolves(m)
  <2>1. TakenInOrder' /\ TaskOfActive' /\ WinnerAnswers'
    BY <1>6 DEF TaskResolves, TakenInOrder, TaskOfActive, WinnerAnswers,
       Resolve, Answer, clientVars, chanVars, Taken, TaskTypeOK
  <2>2. ReportsTrue'
    BY <1>6, ControlConn, ElementOfSeq DEF TaskResolves, ReportsTrue,
       TaskTypeOK, ChannelTypeOK, clientVars, chanVars
  <2> QED
    BY <1>6, <2>1, <2>2 DEF TaskResolves, clientVars, chanVars
<1>7. CASE TaskReports(m)
  <2>1. TakenInOrder' /\ TaskOfActive' /\ WinnerAnswers'
    BY <1>7 DEF TaskReports, TakenInOrder, TaskOfActive, WinnerAnswers,
       clientVars, settleVars, Taken, TaskTypeOK
  <2>2. ReportsTrue'
    <3>1. /\ OutboundFinished(m) \in ControlMessage
          /\ OutboundFinished(m).kind = "OutboundFinished"
          /\ OutboundFinished(m).msg = m
      BY DEF OutboundFinished, ControlMessage, TaskTypeOK
    <3>2. Lasting /\ task'[m] = "ended"
      BY <1>7 DEF TaskReports, Lasting, clientVars, TaskTypeOK
    <3> QED
      BY <1>7, <3>1, <3>2, PostTrue DEF TaskReports
  <2> QED
    BY <1>7, <2>1, <2>2 DEF TaskReports, clientVars, settleVars
<1> QED
  BY <1>1, <1>2, <1>4, <1>5, <1>6, <1>7

\* Connections and streams come and go; no delivery is touched.
LEMMA NetworkInHand ==
  ASSUME HandInv, NEW c \in Conns,
         \/ InboundArrives(c) \/ DialSucceeds \/ DialFails
         \/ ConnectionLost(c) \/ MonitorReports(c) \/ StreamArrives(c)
         \/ StreamTaken(c) \/ HandlerFinishes(c)
  PROVE  DeliveriesInHand'
<1> USE HandFrames DEF HandInv, DeliveriesInHand, TypedAccounting, TypeOK
<1>1. UNCHANGED <<sent, expired, shutdown, queued, rx, queue, active, alive,
                  taskVars, settleVars, resolving>>
  BY DEF InboundArrives, DialSucceeds, DialFails, ConnectionLost,
     MonitorReports, StreamArrives, StreamTaken, HandlerFinishes, clientVars,
     chanVars
<1>2. Lasting
  BY <1>1 DEF Lasting, taskVars
<1>3. OutConn \in Conns
  BY DEF Conns
<1>4. ReportsTrue'
  <2>1. ASSUME NEW note \in ControlMessage, Post(<<note>>),
               note.kind \notin {"OutboundFinished", "Shutdown"}
        PROVE  ReportsTrue'
    BY <1>2, <2>1, PostTrue
  <2>2. CASE control' = control
    BY <1>1, <2>2 DEF taskVars
  <2>3. \A k \in {"Attach", "DialFinished", "ConnectionClosed",
                  "InboundStream", "InboundFinished"} :
          \A d : Note(k, d).kind \notin {"OutboundFinished", "Shutdown"}
    BY DEF Note
  <2>4. CASE InboundArrives(c)
    BY <2>1, <2>3, <2>4, NoteType DEF InboundArrives
  <2>5. CASE DialSucceeds
    BY <1>3, <2>1, <2>3, <2>5, NoteType DEF DialSucceeds
  <2>6. CASE DialFails
    BY <2>1, <2>3, <2>6, NoteType DEF DialFails
  <2>7. CASE MonitorReports(c)
    BY <2>1, <2>3, <2>7, NoteType DEF MonitorReports
  <2>8. CASE StreamTaken(c)
    BY <2>1, <2>2, <2>3, <2>8, NoteType DEF StreamTaken
  <2>9. CASE HandlerFinishes(c)
    BY <2>1, <2>3, <2>9, NoteType DEF HandlerFinishes
  <2>10. CASE ConnectionLost(c) \/ StreamArrives(c)
    BY <2>2, <2>10 DEF ConnectionLost, StreamArrives, chanVars
  <2> QED
    BY <2>4, <2>5, <2>6, <2>7, <2>8, <2>9, <2>10
<1> QED
  BY <1>1, <1>4 DEF taskVars, settleVars

\* The actor moves a delivery from the channel to the queue.
LEMMA ReceiveInHand ==
  ASSUME HandInv, ReceiveDelivery
  PROVE  DeliveriesInHand'
<1> USE HandFrames DEF HandInv, DeliveriesInHand, TypedAccounting, TypeOK
<1>1. /\ queue' = Append(queue, Head(rx)) /\ rx' = Tail(rx) /\ rx # <<>>
      /\ Taken' = Taken
      /\ UNCHANGED <<sent, expired, shutdown, queued, control, active, alive,
                     taskVars, settleVars, resolving>>
  BY DEF ReceiveDelivery, Taken, clientVars
<1>2. /\ Len(rx) \in Nat \ {0} /\ Head(rx) = rx[1] /\ Head(rx) \in Messages
      /\ Len(rx') = Len(rx) - 1
      /\ \A i \in 1 .. Len(rx') : rx'[i] = rx[i + 1]
  BY <1>1, HeadTailProperties, EmptySeq DEF ChannelTypeOK
<1>3. /\ Len(queue) \in Nat /\ Len(queue') = Len(queue) + 1
      /\ \A i \in 1 .. Len(queue) : queue'[i] = queue[i]
      /\ queue'[Len(queue) + 1] = Head(rx)
  <2>1. queue \in Seq(Messages)
    BY DEF ActorTypeOK
  <2>2. Len(queue) \in Nat
    BY <2>1, LenProperties
  <2>3. /\ Len(Append(queue, Head(rx))) = Len(queue) + 1
        /\ \A i \in 1 .. Len(queue) : Append(queue, Head(rx))[i] = queue[i]
        /\ Append(queue, Head(rx))[Len(queue) + 1] = Head(rx)
    BY <1>2, <2>1, AppendProperties
  <2> QED
    BY <1>1, <2>2, <2>3
<1>4. Taken \in Int
  BY <1>1, SessionAssumption DEF Taken, ClientTypeOK, ChannelTypeOK
<1>5. \A i \in 1 .. Len(queue') : queue'[i] = Taken + i
  <2> SUFFICES ASSUME NEW i \in 1 .. Len(queue')
               PROVE  queue'[i] = Taken + i
    OBVIOUS
  <2>1. CASE i \in 1 .. Len(queue)
    BY <1>3, <2>1 DEF WaitingInOrder
  <2>2. CASE i = Len(queue) + 1
    <3>1. rx[1] = Taken + Len(queue) + 1
      BY <1>2 DEF WaitingInOrder
    <3> QED
      BY <1>2, <1>3, <1>4, <2>2, <3>1
  <2> QED
    BY <1>3, <2>1, <2>2
<1>6. \A i \in 1 .. Len(rx') : rx'[i] = Taken + Len(queue') + i
  <2> SUFFICES ASSUME NEW i \in 1 .. Len(rx')
               PROVE  rx'[i] = Taken + Len(queue') + i
    OBVIOUS
  <2>1. i + 1 \in 1 .. Len(rx) /\ rx'[i] = rx[i + 1]
    BY <1>2
  <2>2. rx[i + 1] = Taken + Len(queue) + (i + 1)
    BY <2>1 DEF WaitingInOrder
  <2> QED
    BY <1>2, <1>3, <1>4, <2>1, <2>2
<1>7. WaitingInOrder'
  BY <1>1, <1>5, <1>6 DEF WaitingInOrder
<1> QED
  BY <1>1, <1>7 DEF taskVars, settleVars

\* The head of the queue, and what leaving the queue does to the line.
LEMMA HeadIsNext ==
  ASSUME HandInv, StartNext
  PROVE  /\ Head(queue) = Taken + 1 /\ Head(queue) \in Messages
         /\ Taken' = Taken + 1 /\ Taken \in Nat
         /\ WaitingInOrder'
         /\ \A k \in Messages : k <= Taken => k \in cancelled
         /\ \A k \in Messages : task[k] \notin {"streaming", "settling"}
<1> USE DEF HandInv, DeliveriesInHand, TypedAccounting, TypeOK
<1>1. /\ queue' = Tail(queue) /\ queue # <<>> /\ active = NoMsg
      /\ queued' = queued - 1 /\ UNCHANGED <<sent, rx>>
  BY DEF StartNext, ReleaseQueuedSlot, clientVars
<1>2. /\ Len(queue) \in Nat \ {0} /\ Head(queue) = queue[1]
      /\ Head(queue) \in Messages /\ Len(queue') = Len(queue) - 1
      /\ \A i \in 1 .. Len(queue') : queue'[i] = queue[i + 1]
  BY <1>1, HeadTailProperties, EmptySeq DEF ActorTypeOK
<1>3. Taken \in Int /\ Taken' = Taken + 1
  BY <1>1, SessionAssumption DEF Taken, ClientTypeOK, ChannelTypeOK
<1>4. Head(queue) = Taken + 1
  BY <1>2 DEF WaitingInOrder
<1>5. Taken \in Nat
  BY <1>1, <1>3 DEF TakenInOrder, NoMsg
<1>6. WaitingInOrder'
  <2>1. ASSUME NEW i \in 1 .. Len(queue')
        PROVE  queue'[i] = Taken' + i
    <3>1. i + 1 \in 1 .. Len(queue) /\ queue'[i] = queue[i + 1]
      BY <1>2, <2>1
    <3>2. queue[i + 1] = Taken + (i + 1)
      BY <3>1 DEF WaitingInOrder
    <3> QED
      BY <1>3, <2>1, <3>1, <3>2
  <2>2. ASSUME NEW i \in 1 .. Len(rx)
        PROVE  rx[i] = Taken' + Len(queue') + i
    <3>1. rx[i] = Taken + Len(queue) + i
      BY <2>2 DEF WaitingInOrder
    <3> QED
      BY <1>2, <1>3, <2>2, <3>1
  <2> QED
    BY <1>1, <2>1, <2>2 DEF WaitingInOrder
<1>7. \A k \in Messages : k # NoMsg
  BY SessionAssumption DEF Messages, NoMsg
<1> QED
  BY <1>1, <1>2, <1>3, <1>4, <1>5, <1>6, <1>7 DEF TakenInOrder, TaskOfActive

\* One round of start_next_if_possible: the head is skipped, refused or sent.
LEMMA StartInHand ==
  ASSUME HandInv, StartNext
  PROVE  DeliveriesInHand'
<1> DEFINE m == Head(queue)
<1>1. /\ m = Taken + 1 /\ m \in Messages /\ Taken' = Taken + 1 /\ Taken \in Nat
      /\ WaitingInOrder'
      /\ \A k \in Messages : k <= Taken => k \in cancelled
      /\ \A k \in Messages : task[k] \notin {"streaming", "settling"}
  BY HeadIsNext
<1> USE DEF HandInv, DeliveriesInHand, TypedAccounting, TypeOK
<1>2. /\ active = NoMsg /\ Messages \subseteq Nat /\ NoMsg \notin Messages
      /\ task[m] = "none" /\ NoMsg = 0
      /\ UNCHANGED <<sent, expired, shutdown, control, alive, resolving>>
  BY <1>1, SessionAssumption DEF StartNext, TakenInOrder, Messages, NoMsg,
     clientVars
<1>3. CASE m \in cancelled /\ UNCHANGED <<active, slotVars, taskVars, settleVars>>
  <2>1. TakenInOrder'
    BY <1>1, <1>2, <1>3 DEF TakenInOrder, taskVars, settleVars
  <2> QED
    BY <1>1, <1>2, <1>3, <2>1, HandFrames DEF taskVars, settleVars
<1>4. CASE /\ m \notin cancelled /\ Refusal(m) # "none"
           /\ FinishCommand({m}, Refusal(m))
           /\ UNCHANGED <<active, slotVars, taskVars>>
  <2>1. cancelled' = cancelled \cup {m} /\ outcome' = Answer({m} \ cancelled, Refusal(m))
    BY <1>4 DEF FinishCommand, Resolve
  <2>2. TakenInOrder'
    BY <1>1, <1>2, <1>4, <2>1 DEF TakenInOrder, taskVars
  <2>3. TaskOfActive'
    BY <1>2, <1>4, <2>1 DEF TaskOfActive, taskVars
  <2>4. WinnerAnswers'
    BY <1>2, <1>4, <2>1 DEF WinnerAnswers, taskVars, Answer, SettleTypeOK
  <2> QED
    BY <1>1, <1>2, <1>4, <2>2, <2>3, <2>4, HandFrames DEF taskVars
<1>5. CASE m \notin cancelled /\ SpawnActiveDelivery(m)
  <2>1. /\ active' = m /\ UNCHANGED <<result, settleVars>>
        /\ task' = [task EXCEPT ![m] = "streaming"]
    BY <1>5 DEF SpawnActiveDelivery
  <2>2. TakenInOrder'
    BY <1>1, <1>2, <2>1 DEF TakenInOrder, settleVars, TaskTypeOK
  <2>3. TaskOfActive'
    BY <1>1, <1>2, <2>1 DEF TaskOfActive, settleVars, TaskTypeOK
  <2>4. WinnerAnswers'
    BY <1>1, <1>2, <2>1 DEF WinnerAnswers, settleVars, TaskTypeOK
  <2>5. ReportsTrue'
    BY <1>1, <1>2, <2>1, QuietTrue DEF Lasting, TaskTypeOK
  <2> QED
    BY <1>1, <2>2, <2>3, <2>4, <2>5
<1> QED
  BY <1>3, <1>4, <1>5 DEF StartNext

\* Control messages that concern no delivery.
LEMMA OtherControlInHand ==
  ASSUME HandInv,
         \/ HandleAttach \/ HandleDialFinished \/ HandleStartOutboundDial
         \/ HandleAcceptLoopStopped \/ HandleInboundStream
         \/ HandleInboundFinished
  PROVE  DeliveriesInHand'
<1> USE HandFrames DEF HandInv, DeliveriesInHand, TypedAccounting, TypeOK
<1>1. /\ UNCHANGED <<sent, expired, shutdown, queued, rx, queue, active, alive,
                     taskVars, settleVars, resolving>>
      /\ control' = control \/ (control # <<>> /\ control' = Tail(control))
  BY DEF HandleAttach, HandleDialFinished, HandleStartOutboundDial,
     HandleAcceptLoopStopped, HandleInboundStream, HandleInboundFinished,
     Receive, clientVars, chanVars
<1>2. Lasting
  BY <1>1 DEF Lasting, taskVars
<1>3. ReportsTrue'
  BY <1>1, <1>2, QuietTrue, ReceiveTrue
<1> QED
  BY <1>1, <1>3 DEF taskVars, settleVars

\* The delivery streaming on a lost connection is aborted and answered.
LEMMA ClosedInHand ==
  ASSUME HandInv, HandleConnectionClosed
  PROVE  DeliveriesInHand'
<1> USE DEF HandInv, DeliveriesInHand, TypedAccounting, TypeOK
<1>1. /\ UNCHANGED <<sent, expired, shutdown, queued, rx, queue, alive, result,
                     resolving>>
      /\ control # <<>> /\ control' = Tail(control)
      /\ Taken' = Taken
  BY DEF HandleConnectionClosed, Receive, clientVars, Taken
<1>2. WaitingInOrder'
  BY <1>1, HandFrames
<1>3. CASE UNCHANGED <<active, task, settleVars>>
  <2>1. ReportsTrue'
    BY <1>1, <1>3, ReceiveTrue DEF Lasting
  <2> QED
    BY <1>1, <1>2, <1>3, <2>1, HandFrames DEF settleVars
<1>4. CASE /\ active # NoMsg /\ active' = NoMsg /\ Abort(active)
           /\ ForceFinishCommand(active, "Transport")
  <2>1. /\ active \in Messages /\ active = Taken /\ Messages \subseteq Nat
        /\ Taken \in Int
    BY <1>4, SessionAssumption DEF ActorTypeOK, TakenInOrder, Messages, Taken,
       ClientTypeOK, ChannelTypeOK
  <2>2. /\ cancelled' = cancelled \cup {active}
        /\ outcome' = Answer({active}, "Transport")
    BY <1>4 DEF ForceFinishCommand, Resolve
  <2>3. /\ \A k \in Messages : k # active => task'[k] = task[k]
        /\ task'[active] \in {"aborted", "ended"}
    BY <1>4, <2>1 DEF Abort, TaskTypeOK
  <2>4. /\ \A k \in Messages : k # active => outcome'[k] = outcome[k]
        /\ outcome'[active] # "none"
    BY <2>1, <2>2 DEF Answer, SettleTypeOK
  <2>5. TakenInOrder'
    <3>1. Taken' >= 0 /\ active' \in {NoMsg, Taken'}
      BY <1>1, <1>4, <2>1 DEF NoMsg
    <3>2. \A k \in Messages : k <= Taken' /\ k # active' => k \in cancelled'
      BY <1>1, <2>2 DEF TakenInOrder
    <3>3. \A k \in Messages : k > Taken' => task'[k] = "none"
      BY <1>1, <2>1, <2>3 DEF TakenInOrder
    <3> QED
      BY <3>1, <3>2, <3>3 DEF TakenInOrder
  <2>6. TaskOfActive'
    BY <1>1, <1>4, <2>2, <2>3 DEF TaskOfActive
  <2>7. WinnerAnswers'
    BY <1>1, <2>2, <2>3, <2>4 DEF WinnerAnswers, TaskOfActive
  <2>8. ReportsTrue'
    <3>1. Lasting
      BY <1>1, <1>4, <2>1 DEF Lasting, Abort, TaskTypeOK
    <3> QED
      BY <1>1, <3>1, ReceiveTrue
  <2> QED
    BY <1>2, <2>5, <2>6, <2>7, <2>8
<1> QED
  BY <1>3, <1>4 DEF HandleConnectionClosed

\* A report about the active delivery frees the actor for the next one: its task
\* has ended, so it is cancelled and its answer is settled.
LEMMA ReportSettled ==
  ASSUME HandInv, HandleOutboundFinished
  PROVE  /\ ReportsTrue'
         /\ active' # active => /\ active \in cancelled
                                /\ active' = NoMsg
                                /\ task[active] = "ended"
         /\ active' = active \/ active \in Messages
         /\ UNCHANGED settleVars
<1> USE DEF HandInv, DeliveriesInHand, TypedAccounting, TypeOK
<1> DEFINE m == Head(control).msg
<1>1. /\ UNCHANGED <<shutdown, alive, task>>
      /\ control # <<>> /\ control' = Tail(control)
      /\ Head(control).kind = "OutboundFinished"
  BY DEF HandleOutboundFinished, Receive, clientVars, taskVars
<1>2. m \in Messages
  BY <1>1, HeadTailProperties, ControlConn DEF ChannelTypeOK
<1>3. ReportsTrue' /\ task[m] = "ended"
  BY <1>1, ReceiveTrue DEF Lasting
<1>4. m \in cancelled
  BY <1>2, <1>3 DEF TaskOfActive
<1>5. CASE active = m /\ active' = NoMsg /\ FinishCommand({m}, result[m])
  <2>1. cancelled' = cancelled \cup {m} /\ outcome' = Answer({m} \ cancelled, result[m])
    BY <1>5 DEF FinishCommand, Resolve
  <2>2. cancelled' = cancelled
    BY <1>4, <2>1
  <2>3. outcome' = outcome
    BY <1>4, <2>1 DEF Answer, SettleTypeOK
  <2> QED
    BY <1>2, <1>3, <1>4, <1>5, <2>2, <2>3 DEF settleVars
<1>6. CASE UNCHANGED <<active, settleVars>>
  BY <1>3, <1>6
<1> QED
  BY <1>5, <1>6 DEF HandleOutboundFinished

\* The report of a task frees the active delivery if it is still its own.
LEMMA ReportInHand ==
  ASSUME HandInv, HandleOutboundFinished
  PROVE  DeliveriesInHand'
<1> USE DEF HandInv, DeliveriesInHand, TypedAccounting, TypeOK
<1>1. /\ UNCHANGED <<sent, expired, queued, rx, queue, taskVars, settleVars,
                     resolving>>
      /\ Taken' = Taken /\ ReportsTrue'
      /\ active' # active => /\ active \in cancelled /\ active' = NoMsg
                             /\ task[active] = "ended"
      /\ active' = active \/ active \in Messages
  BY ReportSettled DEF HandleOutboundFinished, clientVars, Taken
<1>2. TakenInOrder'
  <2>1. CASE active' = active
    BY <1>1, <2>1 DEF TakenInOrder, taskVars, settleVars
  <2>2. CASE active' # active
    <3>1. Taken' >= 0 /\ active' \in {NoMsg, Taken'}
      BY <1>1, <2>2, SessionAssumption DEF TakenInOrder, NoMsg, Messages, Taken,
         ClientTypeOK, ChannelTypeOK
    <3> QED
      BY <1>1, <2>2, <3>1 DEF TakenInOrder, taskVars, settleVars
  <2> QED
    BY <2>1, <2>2
<1>3. TaskOfActive'
  BY <1>1 DEF TaskOfActive, taskVars, settleVars
<1> QED
  BY <1>1, <1>2, <1>3, HandFrames DEF taskVars, settleVars

\* The end of the session leaves nothing in hand.
LEMMA AllWaiting ==
  ASSUME HandInv, NEW m \in Messages, m <= sent, m > Taken
  PROVE  m \in ToSet(queue) \cup ToSet(rx)
<1> USE DEF HandInv, DeliveriesInHand, TypedAccounting, TypeOK
<1>1. /\ Len(queue) \in Nat /\ Len(rx) \in Nat /\ Taken \in Int /\ m \in Int
      /\ sent = Taken + Len(queue) + Len(rx)
  BY LenProperties, SessionAssumption
  DEF ChannelTypeOK, ActorTypeOK, ClientTypeOK, QueueAccounting, Taken, Messages
<1>2. DOMAIN queue = 1 .. Len(queue) /\ DOMAIN rx = 1 .. Len(rx)
  BY LenProperties DEF ChannelTypeOK, ActorTypeOK
<1>3. CASE m <= Taken + Len(queue)
  <2>1. m - Taken \in 1 .. Len(queue)
    BY <1>1, <1>3
  <2>2. queue[m - Taken] = m
    BY <1>1, <2>1 DEF WaitingInOrder
  <2> QED
    BY <1>2, <2>1, <2>2 DEF ToSet
<1>4. CASE m > Taken + Len(queue)
  <2> DEFINE i == m - Taken - Len(queue)
  <2>1. i \in 1 .. Len(rx) /\ m = Taken + Len(queue) + i
    BY <1>1, <1>4
  <2> HIDE DEF i
  <2>2. rx[i] = m
    BY <2>1 DEF WaitingInOrder
  <2> QED
    BY <1>2, <2>1, <2>2 DEF ToSet
<1> QED
  BY <1>1, <1>3, <1>4

\* finish_shutdown answers the active delivery and all that wait.
LEMMA ShutdownInHand ==
  ASSUME HandInv, HandleShutdown
  PROVE  DeliveriesInHand'
<1> USE DEF HandInv, DeliveriesInHand, TypedAccounting, TypeOK
<1> DEFINE current == {active} \ {NoMsg}
           waiting == ToSet(queue) \cup ToSet(rx)
<1>1. /\ UNCHANGED <<sent, expired, shutdown, result, resolving>>
      /\ control # <<>> /\ Head(control).kind = "Shutdown"
      /\ active' = NoMsg /\ queue' = <<>> /\ rx' = <<>> /\ control' = <<>>
      /\ cancelled' = cancelled \cup current \cup waiting
      /\ outcome' = Answer(current \cup (waiting \ cancelled), shutdown)
      /\ Abort(active)
  BY DEF HandleShutdown, Receive, clientVars, Resolve
<1>2. shutdown # "none"
  <2>1. /\ 1 \in 1 .. Len(control) /\ Head(control) = control[1]
    BY <1>1, EmptySeq DEF ChannelTypeOK
  <2> QED
    BY <1>1, <2>1 DEF ReportsTrue
<1>3. /\ queued' = 0 /\ Taken' = sent /\ sent \in Nat /\ Messages \subseteq Nat
      /\ Taken \in Int /\ Taken <= sent
  BY LenProperties, SessionAssumption
  DEF HandleShutdown, ChannelTypeOK, ActorTypeOK, ClientTypeOK, QueueAccounting,
      Taken, Messages, clientVars
<1>4. WaitingInOrder' /\ ReportsTrue'
  BY <1>1, <1>2 DEF WaitingInOrder, ReportsTrue
<1>5. /\ \A k \in Messages : k # active => task'[k] = task[k]
      /\ \A k \in Messages : task'[k] \notin {"streaming", "settling"}
      /\ \A k \in Messages : task[k] = "none" /\ k # active => task'[k] = "none"
      /\ \A k \in Messages : task'[k] # task[k] => k \in current
  BY <1>1 DEF Abort, TaskTypeOK, TaskOfActive, Messages, NoMsg
<1>6. TakenInOrder'
  <2>1. Taken' >= 0 /\ active' \in {NoMsg, Taken'}
    BY <1>1, <1>3 DEF NoMsg
  <2>2. ASSUME NEW k \in Messages, k <= sent
        PROVE  k \in cancelled'
    <3>1. CASE k <= Taken
      BY <1>1, <3>1, SessionAssumption DEF TakenInOrder, Messages, NoMsg
    <3>2. CASE k > Taken
      BY <1>1, <2>2, <3>2, AllWaiting
    <3> QED
      BY <1>3, <3>1, <3>2
  <2>3. \A k \in Messages : k > sent => task'[k] = "none"
    BY <1>3, <1>5 DEF TakenInOrder, ActorTypeOK, NoMsg
  <2> QED
    BY <1>1, <1>3, <2>1, <2>2, <2>3 DEF TakenInOrder
<1>7. TaskOfActive'
  BY <1>1, <1>5 DEF TaskOfActive
<1>8. WinnerAnswers'
  <2>1. ASSUME NEW k \in Messages, k \in cancelled', outcome'[k] = "none"
        PROVE  k \in resolving
    <3>1. k \notin current \cup (waiting \ cancelled) /\ outcome[k] = "none"
      BY <1>1, <1>2, <2>1 DEF Answer, SettleTypeOK
    <3>2. k \in cancelled /\ k # active
      BY <1>1, <2>1, <3>1, SessionAssumption DEF Messages, NoMsg
    <3> QED
      BY <3>1, <3>2 DEF WinnerAnswers, TaskOfActive
  <2> QED
    BY <1>1, <2>1 DEF WinnerAnswers
<1> QED
  BY <1>4, <1>6, <1>7, <1>8

\* Every step keeps the deliveries in hand.
LEMMA StepInHand == HandInv /\ [Next]_vars => DeliveriesInHand'
<1> SUFFICES ASSUME HandInv, [Next]_vars
             PROVE  DeliveriesInHand'
  OBVIOUS
<1>1. CASE UNCHANGED vars
  BY <1>1, HandFrames DEF HandInv, DeliveriesInHand, vars, clientVars, chanVars,
     taskVars, settleVars
<1>2. CASE Actor
  BY <1>2, StartInHand, ReceiveInHand, OtherControlInHand, ClosedInHand,
     ReportInHand, ShutdownInHand DEF Actor, HandleControl
<1>3. CASE Client \/ DeadlinePasses
  BY <1>3, ClientInHand
<1>4. CASE Deadline \/ OutboundTask
  BY <1>4, SettlingInHand DEF Deadline, OutboundTask
<1>5. CASE DialEnds
  BY <1>5, NetworkInHand DEF DialEnds, Conns
<1>6. CASE Watchers \/ Handlers
  BY <1>6, NetworkInHand DEF Watchers, Handlers
<1>7. CASE Peer
  BY <1>7, SettlingInHand, NetworkInHand DEF Peer, Conns
<1> QED
  BY <1>1, <1>2, <1>3, <1>4, <1>5, <1>6, <1>7 DEF Next

\* HandInv is inductive, so it holds in every reachable state.
LEMMA HandInvariant == Spec => []HandInv
<1>1. Init => HandInv
  BY InitTyped, InitInHand DEF HandInv
<1>2. HandInv /\ [Next]_vars => HandInv'
  BY StepTyped, StepInHand DEF HandInv
<1> QED
  BY <1>1, <1>2, PTL DEF Spec

\* In every reachable state of every session the deliveries are in hand: one at a
\* time, in order, and each that was given up has somebody to answer it.
THEOREM InHand == Spec => []DeliveriesInHand
<1>1. HandInv => DeliveriesInHand
  BY DEF HandInv
<1> QED
  BY <1>1, HandInvariant, PTL

\* No admitted message is lost: while it is unanswered it waits, is active or has
\* its deadline task, and whoever cancelled it is there to answer it.
THEOREM NothingStranded == Spec => []NoneStranded
<1>1. HandInv => NoneStranded
  <2> SUFFICES ASSUME HandInv, NEW m \in 1 .. sent, outcome[m] = "none"
               PROVE  /\ m \in ToSet(queue) \cup ToSet(rx) \cup {active} \cup resolving
                      /\ m \in cancelled => m \in resolving \/ task[m] = "settling"
    BY DEF NoneStranded
  <2> USE DEF HandInv, DeliveriesInHand, TypedAccounting, TypeOK
  <2>1. m \in Messages /\ m <= sent /\ Taken \in Int
    BY SessionAssumption DEF ClientTypeOK, ChannelTypeOK, Messages, Taken
  <2>2. m \in cancelled => m \in resolving \/ task[m] = "settling"
    BY <2>1 DEF WinnerAnswers
  <2>3. CASE m > Taken
    BY <2>1, <2>2, <2>3, AllWaiting
  <2>4. CASE m <= Taken
    BY <2>1, <2>2, <2>4 DEF TakenInOrder, TaskOfActive
  <2> QED
    BY <2>1, <2>3, <2>4 DEF Messages
<1> QED
  BY <1>1, HandInvariant, PTL

\* No message overtakes another: a stream task is started only when every earlier
\* message has been given up.
THEOREM NothingOvertakes == Spec => []AttemptedInOrder
<1>1. HandInv => AttemptedInOrder
  BY SessionAssumption
  DEF HandInv, DeliveriesInHand, TypedAccounting, TypeOK, TakenInOrder,
      AttemptedInOrder, Messages, NoMsg, Taken, ClientTypeOK, ChannelTypeOK
<1> QED
  BY <1>1, HandInvariant, PTL

-----------------------------------------------------------------------------
(* The session implements DeliveryContract.                                *)

\* A message that was given up and is unanswered is late, unless it is active.
LEMMA GivenUpLate ==
  ASSUME HandInv, NEW k \in Messages, k <= Taken, k # active,
         outcome[k] = "none"
  PROVE  k <= expired
  BY DEF HandInv, DeliveriesInHand, TakenInOrder, TaskOfActive, WinnerAnswers

\* It is the turn of the active message, and of the next one if none is active.
LEMMA TurnOf ==
  ASSUME HandInv, NEW m \in Messages,
         m = active \/ (active = NoMsg /\ m = Taken + 1)
  PROVE  Contract!Turn(m)
<1> SUFFICES ASSUME NEW k \in 1 .. m - 1, k \in Contract!Pending
             PROVE  k \in Contract!Late
  BY DEF Contract!Turn
<1>1. m \in Nat /\ Taken \in Int /\ expired \in Nat /\ sent \in 0 .. MaxMessages
  BY SessionAssumption DEF HandInv, TypedAccounting, TypeOK, ClientTypeOK,
     ChannelTypeOK, Taken, Messages
<1>2. k \in Messages /\ k <= Taken /\ k # active /\ outcome[k] = "none"
  BY <1>1, SessionAssumption
  DEF Contract!Pending, HandInv, DeliveriesInHand, TakenInOrder, Messages, NoMsg
<1> QED
  BY <1>1, <1>2, GivenUpLate DEF Contract!Late

\* A first answer to one message is an attempt's, or a time-out after the deadline.
LEMMA OneAnswer ==
  ASSUME HandInv, NEW m \in Messages, m <= sent,
         NEW r \in {"Accepted", "Rejected", "Transport", "NotAContact",
                    "PeerNotConnected", "TimedOut"},
         r = "TimedOut" => m <= expired,
         r # "TimedOut" => Contract!Turn(m),
         outcome' = Answer({m}, r), UNCHANGED <<sent, expired, alive>>
  PROVE  [Contract!Next]_(Contract!vars)
<1>1. outcome \in [Messages -> Outcomes \cup {"none"}]
  BY DEF HandInv, TypedAccounting, TypeOK, SettleTypeOK
<1>2. CASE outcome[m] # "none"
  <2>1. outcome' = outcome
    BY <1>1, <1>2 DEF Answer
  <2> QED
    BY <2>1 DEF Contract!vars
<1>3. CASE outcome[m] = "none"
  <2>1. outcome' = [outcome EXCEPT ![m] = r]
    BY <1>1, <1>3 DEF Answer
  <2>2. /\ m \in Contract!Pending /\ m \in Contract!Messages
        /\ r = "TimedOut" => m \in Contract!Late
    BY <1>3, SessionAssumption
    DEF Contract!Pending, Contract!Messages, Contract!Late, Messages, HandInv,
        TypedAccounting, TypeOK, ClientTypeOK
  <2>3. CASE r = "TimedOut"
    BY <2>1, <2>2, <2>3 DEF Contract!TimeOut, Contract!Next
  <2>4. CASE r # "TimedOut"
    BY <2>1, <2>2, <2>4 DEF Contract!Attempt, Contract!Next
  <2> QED
    BY <2>3, <2>4
<1> QED
  BY <1>2, <1>3

\* A session just spawned is a contract without messages.
LEMMA InitRefines == Init => Contract!Init
  BY DEF Init, Contract!Init, Contract!Messages, Messages

\* The answers of the tasks.
LEMMA SettlingRefines ==
  ASSUME HandInv, NEW m \in Messages,
         \/ DeadlineFires(m) \/ DeadlineResolves(m)
         \/ StreamAnswers(m) \/ StreamTimesOut(m)
         \/ TaskResolves(m) \/ TaskReports(m)
  PROVE  [Contract!Next]_(Contract!vars)
<1> USE DEF HandInv, DeliveriesInHand, TypedAccounting, TypeOK
<1>1. CASE DeadlineResolves(m)
  <2>1. m <= expired /\ m <= sent
    BY <1>1, SessionAssumption DEF DeadlineResolves, WinnerAnswers,
       ClientTypeOK, Messages
  <2>2. outcome' = Answer({m}, "TimedOut") /\ UNCHANGED <<sent, expired, alive>>
    BY <1>1 DEF DeadlineResolves, Resolve, clientVars
  <2> QED
    BY <2>1, <2>2, OneAnswer
<1>2. CASE TaskResolves(m)
  <2>1. /\ active = m /\ result[m] \in StreamResults
        /\ result[m] = "TimedOut" => m <= expired
    BY <1>2 DEF TaskResolves, TaskOfActive, TaskTypeOK
  <2>2. m <= sent
    BY <2>1, SessionAssumption DEF TakenInOrder, Taken, ClientTypeOK,
       ChannelTypeOK, Messages, NoMsg
  <2>3. outcome' = Answer({m}, result[m]) /\ UNCHANGED <<sent, expired, alive>>
    BY <1>2 DEF TaskResolves, Resolve, clientVars
  <2> QED
    BY <2>1, <2>2, <2>3, TurnOf, OneAnswer DEF StreamResults
<1>3. CASE DeadlineFires(m) \/ StreamAnswers(m) \/ StreamTimesOut(m) \/ TaskReports(m)
  BY <1>3 DEF DeadlineFires, StreamAnswers, StreamTimesOut, StreamReturns,
     TaskReports, clientVars, settleVars, Contract!vars
<1> QED
  BY <1>1, <1>2, <1>3

\* The refusals of the actor, and the delivery that goes with its connection.
LEMMA ActorRefines ==
  ASSUME HandInv, StartNext \/ HandleConnectionClosed
  PROVE  [Contract!Next]_(Contract!vars)
<1> USE DEF HandInv, DeliveriesInHand, TypedAccounting, TypeOK
<1>1. CASE StartNext
  <2> DEFINE m == Head(queue)
  <2>1. /\ m \in Messages /\ m = Taken + 1 /\ Taken' = Taken + 1
        /\ active = NoMsg /\ UNCHANGED <<sent, expired, alive>>
    BY <1>1, HeadIsNext DEF StartNext, clientVars
  <2>2. m <= sent
    <3>1. queued > 0
      BY <1>1, LenProperties, EmptySeq DEF StartNext, QueueAccounting,
         ChannelTypeOK, ActorTypeOK
    <3> QED
      BY <2>1, <3>1, SessionAssumption DEF Taken, ClientTypeOK, ChannelTypeOK
  <2>3. CASE settleVars' = settleVars
    BY <2>1, <2>3 DEF settleVars, Contract!vars
  <2>4. CASE /\ m \notin cancelled /\ Refusal(m) # "none"
             /\ FinishCommand({m}, Refusal(m))
    <3>1. outcome' = Answer({m}, Refusal(m))
      <4>1. {m} \ cancelled = {m}
        BY <2>4
      <4> QED
        BY <2>4, <4>1 DEF FinishCommand, Resolve
    <3>2. /\ Refusal(m) \in {"NotAContact", "TimedOut", "PeerNotConnected"}
          /\ Refusal(m) = "TimedOut" => m <= expired
      BY <2>4 DEF Refusal
    <3> QED
      BY <2>1, <2>2, <3>1, <3>2, TurnOf, OneAnswer
  <2> QED
    BY <1>1, <2>3, <2>4 DEF StartNext, SpawnActiveDelivery
<1>2. CASE HandleConnectionClosed
  <2>1. UNCHANGED <<sent, expired, alive>>
    BY <1>2 DEF HandleConnectionClosed, clientVars
  <2>2. CASE settleVars' = settleVars
    BY <2>1, <2>2 DEF settleVars, Contract!vars
  <2>3. CASE active # NoMsg /\ ForceFinishCommand(active, "Transport")
    <3>1. active \in Messages /\ active <= sent
      BY <2>3, SessionAssumption DEF ActorTypeOK, TakenInOrder, Taken,
         ClientTypeOK, ChannelTypeOK, Messages
    <3>2. outcome' = Answer({active}, "Transport")
      BY <2>3 DEF ForceFinishCommand, Resolve
    <3> QED
      BY <2>1, <3>1, <3>2, TurnOf, OneAnswer
  <2> QED
    BY <1>2, <2>2, <2>3 DEF HandleConnectionClosed
<1> QED
  BY <1>1, <1>2

\* The end of the session answers all that is not about to time out.
LEMMA ShutdownRefines ==
  ASSUME HandInv, HandleShutdown
  PROVE  [Contract!Next]_(Contract!vars)
<1> USE DEF HandInv, DeliveriesInHand, TypedAccounting, TypeOK
<1> DEFINE current == {active} \ {NoMsg}
           waiting == ToSet(queue) \cup ToSet(rx)
           answered == current \cup (waiting \ cancelled)
           S == {m \in answered : outcome[m] = "none"}
<1>1. /\ UNCHANGED <<sent, expired>> /\ alive = TRUE /\ alive' = FALSE
      /\ outcome' = Answer(answered, shutdown)
      /\ control # <<>> /\ Head(control).kind = "Shutdown"
  BY DEF HandleShutdown, Receive, AtSelect, clientVars, Resolve, ActorTypeOK
<1>2. shutdown \in {"NotAContact", "ShutDown"}
  <2>1. 1 \in 1 .. Len(control) /\ Head(control) = control[1]
    BY <1>1, EmptySeq DEF ChannelTypeOK
  <2> QED
    BY <1>1, <2>1 DEF ReportsTrue, ClientTypeOK
<1>3. answered \subseteq Messages /\ \A m \in answered : m <= sent
  <2>1. /\ Len(queue) \in Nat /\ Len(rx) \in Nat /\ Taken \in Int
        /\ sent = Taken + Len(queue) + Len(rx)
    BY LenProperties, SessionAssumption DEF ChannelTypeOK, ActorTypeOK,
       ClientTypeOK, QueueAccounting, Taken
  <2>2. /\ DOMAIN queue = 1 .. Len(queue) /\ DOMAIN rx = 1 .. Len(rx)
    BY LenProperties DEF ChannelTypeOK, ActorTypeOK
  <2>3. \A m \in ToSet(queue) : m \in Messages /\ m <= sent
    BY <2>1, <2>2, ElementOfSeq DEF ToSet, WaitingInOrder, ActorTypeOK
  <2>4. \A m \in ToSet(rx) : m \in Messages /\ m <= sent
    BY <2>1, <2>2, ElementOfSeq DEF ToSet, WaitingInOrder, ChannelTypeOK
  <2>5. \A m \in current : m \in Messages /\ m <= sent
    BY <2>1 DEF TakenInOrder, ActorTypeOK
  <2> QED
    BY <2>3, <2>4, <2>5
<1>4. S \in SUBSET Contract!Pending
  BY <1>3, SessionAssumption DEF Contract!Pending, Messages, ClientTypeOK
<1>5. Contract!Pending \ S \subseteq Contract!Late
  <2> SUFFICES ASSUME NEW k \in Contract!Pending, k \notin S
               PROVE  k \in Contract!Late
    OBVIOUS
  <2>1. /\ k \in Messages /\ k <= sent /\ outcome[k] = "none" /\ k \notin answered
        /\ k # NoMsg /\ Taken \in Int /\ expired \in Nat /\ k \in Nat /\ k > 0
    BY SessionAssumption DEF Contract!Pending, Messages, NoMsg, ClientTypeOK,
       ChannelTypeOK, Taken
  <2>2. k \in cancelled /\ k # active
    BY <2>1, AllWaiting DEF TakenInOrder
  <2> QED
    BY <2>1, <2>2 DEF WinnerAnswers, TaskOfActive, Contract!Late
<1>6. outcome' = [m \in Contract!Messages |-> IF m \in S THEN shutdown ELSE outcome[m]]
  BY <1>1 DEF Answer, Contract!Messages, Messages, SettleTypeOK
<1> HIDE DEF S
<1>7. Contract!End
  BY <1>1, <1>2, <1>4, <1>5, <1>6 DEF Contract!End
<1> QED
  BY <1>7 DEF Contract!Next

\* Every step of a session is a step of the contract or none of its business.
LEMMA StepRefines == HandInv /\ [Next]_vars => [Contract!Next]_(Contract!vars)
<1> SUFFICES ASSUME HandInv, [Next]_vars
             PROVE  [Contract!Next]_(Contract!vars)
  OBVIOUS
<1>1. CASE UNCHANGED vars
  BY <1>1 DEF vars, clientVars, settleVars, Contract!vars
<1>2. CASE StartNext \/ HandleConnectionClosed
  BY <1>2, ActorRefines
<1>3. CASE HandleShutdown
  BY <1>3, ShutdownRefines
<1>4. CASE HandleOutboundFinished
  BY <1>4, ReportSettled
  DEF HandleOutboundFinished, clientVars, settleVars, Contract!vars
<1>5. CASE ReceiveDelivery
  BY <1>5 DEF ReceiveDelivery, clientVars, settleVars, Contract!vars
<1>6. CASE \/ HandleAttach \/ HandleDialFinished \/ HandleStartOutboundDial
           \/ HandleAcceptLoopStopped \/ HandleInboundStream
           \/ HandleInboundFinished
  BY <1>6 DEF HandleAttach, HandleDialFinished, HandleStartOutboundDial,
     HandleAcceptLoopStopped, HandleInboundStream, HandleInboundFinished,
     clientVars, settleVars, Contract!vars
<1>7. CASE SendText
  <2>1. alive = TRUE
    BY <1>7 DEF SendText, HandInv, DeliveriesInHand, ReportsTrue,
       TypedAccounting, TypeOK, ActorTypeOK
  <2> QED
    BY <1>7, <2>1 DEF SendText, settleVars, Contract!Admit, Contract!Next
<1>8. CASE RemoveContact \/ RequestShutdown \/ RequestOutboundDial
  BY <1>8 DEF RemoveContact, RequestShutdown, RequestOutboundDial, settleVars,
     Contract!vars
<1>9. CASE DeadlinePasses
  BY <1>9 DEF DeadlinePasses, settleVars, Contract!DeadlinePasses, Contract!Next
<1>10. CASE Deadline \/ OutboundTask \/ \E m \in Messages : StreamAnswers(m)
  BY <1>10, SettlingRefines DEF Deadline, OutboundTask
<1>11. CASE \/ DialEnds \/ Watchers \/ Handlers
            \/ \E c \in InConns : InboundArrives(c)
            \/ \E c \in Conns : ConnectionLost(c) \/ StreamArrives(c)
  BY <1>11 DEF DialEnds, DialSucceeds, DialFails, Watchers, Handlers,
     MonitorReports, StreamTaken, HandlerFinishes, InboundArrives,
     ConnectionLost, StreamArrives, clientVars, settleVars, Contract!vars
<1> QED
  BY <1>2, <1>3, <1>4, <1>5, <1>6, <1>7, <1>8, <1>9, <1>10, <1>11, <1>1
  DEF Next, Actor, HandleControl, Client, Peer

\* Whoever holds a delivery handle may rely on DeliveryContract: one answer, in
\* order, never TimedOut early, nothing but late messages open at the end.
THEOREM Implements == Spec => ImplementsContract
  BY InitRefines, StepRefines, HandInvariant, PTL
  DEF Spec, ImplementsContract, Contract!Spec

=============================================================================
