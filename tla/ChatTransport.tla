---------------------------- MODULE ChatTransport ---------------------------
(***************************************************************************)
(* The chat transport around its peer sessions (network/chat/transport.rs, *)
(* network/chat/mod.rs): the allowlist, the table of sessions, the accept  *)
(* loop, the budgets, the streams peers open, and the replacement of the   *)
(* contacts.  PeerSession has the inside of one session; here a session is *)
(* what the rest of the program sees of it: its published state, its dial, *)
(* its permit, the deliveries it owes an outcome.                          *)
(*                                                                         *)
(* The environment is the network.  The bounds of the code (64 sessions,   *)
(* 64 handlers, 8 dials, 64 messages) are constants; the ids of sessions,  *)
(* messages and connections are finite sets, reused or used up.            *)
(***************************************************************************)
EXTENDS Domain, SequencesExt, Functions

CONSTANTS
  Greater,             \* peers whose id is greater than this program's
  SessionIds,          \* ids of session actors, reused when one is gone
  Accepts,             \* tasks of the accept loop
  Handlers,            \* permits for inbound streams
  Inbound, Outbound,   \* ids of messages received and sent
  DialPermits,         \* concurrent outbound dials
  SessionPermits,      \* sessions created for inbound connections
  Admissions,          \* inbound connections not yet authorised
  QueueCapacity,       \* a session's queue of messages to send
  IncomingCapacity,    \* the queue of messages received
  MaxConnects,         \* bound: connections that become a session's first
  MaxEvents            \* bound: events unread when a path or the contacts change

NoSession == 0

ASSUME TransportAssumption ==
  /\ Greater \subseteq Peers
  /\ SessionIds \subseteq Nat \ {NoSession}
  /\ IsFiniteSet(SessionIds) /\ IsFiniteSet(Accepts) /\ IsFiniteSet(Handlers)
  /\ DialPermits \in Nat \ {0} /\ SessionPermits \in Nat \ {0}
  /\ Admissions \in Nat \ {0} /\ QueueCapacity \in Nat \ {0}
  /\ IncomingCapacity \in Nat \ {0} /\ MaxConnects \in Nat /\ MaxEvents \in Nat

\* Of session ids there are enough for every peer at once.
ASSUME SessionsAssumption == \E f \in [Peers -> SessionIds] : IsInjective(f)

VARIABLES
  allowlist,   \* ContactAllowlist
  table,       \* TransportInner.sessions
  session,     \* the session actors, in the table or not
  accept,      \* the tasks of accept_loop
  handler,     \* the tasks of handle_inbound_stream
  incoming,    \* the channel of received messages
  taken,       \* received messages the runtime has taken from it
  events,      \* the channel of connection events, unbounded
  sent,        \* the messages handed to a session, and their outcome
  connects,    \* connections made so far, the clock of connected_since
  op           \* the transport call under way

transportVars == <<allowlist, table, session, accept, handler, incoming, taken,
                   events, sent, connects, op>>

-----------------------------------------------------------------------------
(* Sessions.                                                               *)

\* dial: "never" until one is begun, "asked" once a dial has been asked for.
Absent == [peer |-> NoPeer, alive |-> FALSE, state |-> "NotConnected", dial |-> "never",
           permit |-> FALSE, origin |-> "None", path |-> "Unknown", since |-> NoTime]

\* PeerSession::spawn: the state read from outside is Connecting at once.
Spawned(p, dialing, permit) ==
  [Absent EXCEPT !.peer = p, !.alive = TRUE, !.permit = permit,
                 !.state = IF dialing THEN "Connecting" ELSE "NotConnected",
                 !.dial  = IF dialing THEN "asked" ELSE "never"]

Unused == {s \in SessionIds : session[s] = Absent}
Fresh  == CHOOSE s \in Unused : TRUE

Alive == {s \in SessionIds : session[s].alive}

\* Emits the state of a session as an event.
Emit(s) == events' = Append(events,
             ConnEvent(session'[s].peer, session'[s].state, session'[s].path, session'[s].since))

Silent == UNCHANGED events

\* connection_state, as the client and the runtime read it.
StateOf(p) == IF table[p] = NoSession THEN "None" ELSE session[table[p]].state

Dialing == {s \in SessionIds : session[s].dial = "dialing"}

\* begin_dial, the first step of an actor spawned to dial and its answer to
\* StartOutboundDial: once per session, and not over a connection.
BeginDial(s) ==
  /\ session[s].dial = "asked"
  /\ IF session[s].state = "Connected"
     THEN /\ session' = [session EXCEPT ![s].dial = "never"]
          /\ Silent
     ELSE /\ session' = [session EXCEPT ![s].dial = "waiting", ![s].state = "Connecting"]
          /\ Emit(s)
  /\ UNCHANGED <<allowlist, table, accept, handler, incoming, taken, sent, connects, op>>

\* connect_for: the dial goes out when a permit is free.
StartDial(s) ==
  /\ session[s].dial = "waiting"
  /\ Cardinality(Dialing) < DialPermits
  /\ session' = [session EXCEPT ![s].dial = "dialing"]
  /\ UNCHANGED <<allowlist, table, accept, handler, incoming, taken, events, sent, connects, op>>

\* is_preferred: of two connections both ends keep the same one.
Preferred(p, origin) == (origin = "Outbound") <=> (p \in Greater)

\* Mutant: the connection that takes over restarts the clock.
AttachRestarting(s, record, origin) ==
  IF session[s].state # "Connected" \/ Preferred(record.peer, origin)
  THEN /\ connects < MaxConnects
       /\ connects' = connects + 1
       /\ \E w \in Paths : session' = [session EXCEPT ![s] =
            [record EXCEPT !.state = "Connected", !.origin = origin, !.path = w,
                           !.since = connects + 1]]
       /\ Emit(s)
  ELSE session' = [session EXCEPT ![s] = record] /\ UNCHANGED connects /\ Silent

\* attach_connection: the first connection makes the session Connected and
\* starts its clock; a preferred one takes the place of one that is not,
\* and republishes the state with its own path; any other one drains.
Attach(s, record, origin) ==
  IF session[s].state # "Connected"
  THEN /\ connects < MaxConnects
       /\ connects' = connects + 1
       /\ \E w \in Paths : session' = [session EXCEPT ![s] =
            [record EXCEPT !.state = "Connected", !.origin = origin, !.path = w,
                           !.since = connects + 1]]
       /\ Emit(s)
  ELSE /\ UNCHANGED connects
       /\ IF Preferred(record.peer, origin) /\ ~Preferred(record.peer, record.origin)
          THEN /\ \E w \in Paths : session' = [session EXCEPT ![s] =
                    [record EXCEPT !.origin = origin, !.path = w]]
               /\ Emit(s)
          ELSE session' = [session EXCEPT ![s] = record] /\ Silent

\* DialFinished with a connection.  A session that is gone takes nothing.
DialSucceeds(s) ==
  /\ session[s].dial = "dialing"
  /\ IF session[s].alive
     THEN Attach(s, [session[s] EXCEPT !.dial = "done"], "Outbound")
     ELSE session' = [session EXCEPT ![s] = Absent] /\ UNCHANGED <<events, connects>>
  /\ UNCHANGED <<allowlist, table, accept, handler, incoming, taken, sent, op>>

\* Mutant: a dial that failed is not published.
DialFailsSilently(s) ==
  /\ session[s].dial \in {"waiting", "dialing"}
  /\ LET failed == [session[s] EXCEPT !.dial = "done"]
     IN IF ~session[s].alive
        THEN session' = [session EXCEPT ![s] = Absent]
        ELSE session' = [session EXCEPT ![s] =
               IF @.state = "Connecting" THEN [failed EXCEPT !.state = "NotConnected"] ELSE failed]
  /\ UNCHANGED <<allowlist, table, accept, handler, incoming, taken, events, sent, connects, op>>

\* DialFinished with an error, or the deadline passed while waiting for the
\* permit: what is connected stays connected.
DialFails(s) ==
  /\ session[s].dial \in {"waiting", "dialing"}
  /\ LET failed == [session[s] EXCEPT !.dial = "done"]
     IN IF ~session[s].alive
        THEN session' = [session EXCEPT ![s] = Absent] /\ Silent
        ELSE IF session[s].state = "Connecting"
        THEN session' = [session EXCEPT ![s] = [failed EXCEPT !.state = "NotConnected"]] /\ Emit(s)
        ELSE session' = [session EXCEPT ![s] = failed] /\ Silent
  /\ UNCHANGED <<allowlist, table, accept, handler, incoming, taken, sent, connects, op>>

\* connection_closed, for the connection in use.
ConnectionLost(s) ==
  /\ session[s].alive
  /\ session[s].state = "Connected"
  /\ session' = [session EXCEPT ![s].state = "NotConnected", ![s].origin = "None",
                                ![s].path = "Unknown", ![s].since = NoTime]
  /\ Emit(s)
  /\ UNCHANGED <<allowlist, table, accept, handler, incoming, taken, sent, connects, op>>

\* Mutant: a path event is taken in any state.
PathChangedAlways(s) ==
  /\ session[s].alive
  /\ Len(events) < MaxEvents
  /\ \E w \in Paths \ {session[s].path} : session' = [session EXCEPT ![s].path = w]
  /\ events' = Append(events, ConnEvent(session[s].peer, "Connected", session'[s].path, 1))
  /\ UNCHANGED <<allowlist, table, accept, handler, incoming, taken, sent, connects, op>>

\* refresh_selected_path: only of a connection in use, and its clock goes on.
PathChanged(s) ==
  /\ session[s].alive
  /\ session[s].state = "Connected"
  /\ Len(events) < MaxEvents
  /\ \E w \in Paths \ {session[s].path} : session' = [session EXCEPT ![s].path = w]
  /\ Emit(s)
  /\ UNCHANGED <<allowlist, table, accept, handler, incoming, taken, sent, connects, op>>

-----------------------------------------------------------------------------
(* The accept loop.  Each inbound connection has a task, which holds an    *)
(* admission until the peer is known to be a contact.                      *)

Idle == [peer |-> NoPeer, step |-> "idle"]

Admitted == {i \in Accepts : accept[i].step \in {"handshake", "refusing"}}

\* accept_loop: beyond the budget a connection is refused at once.
Incoming(i) ==
  /\ op.step \notin {"closing", "closed"}
  /\ accept[i] = Idle
  /\ Cardinality(Admitted) < Admissions
  /\ \E p \in Peers : accept' = [accept EXCEPT ![i] = [peer |-> p, step |-> "handshake"]]
  /\ UNCHANGED <<allowlist, table, session, handler, incoming, taken, events, sent, connects, op>>

\* The handshake fails, or the connection of an unknown peer is closed once
\* its message was rejected or its time was up (handle_unauthorised_connection).
DropConnection(i) ==
  /\ accept[i].step \in {"handshake", "refusing"}
  /\ accept' = [accept EXCEPT ![i] = Idle]
  /\ UNCHANGED <<allowlist, table, session, handler, incoming, taken, events, sent, connects, op>>

\* The peer is checked against the allowlist.
Authorise(i) ==
  /\ accept[i].step = "handshake"
  /\ accept' = [accept EXCEPT ![i].step =
       IF accept[i].peer \in allowlist THEN "authorised" ELSE "refusing"]
  /\ UNCHANGED <<allowlist, table, session, handler, incoming, taken, events, sent, connects, op>>

PermitsHeld == {s \in SessionIds : session[s].permit}

\* Mutant: the table is not looked at before a session is put there.
AttachInboundAnew(i) ==
  LET p == accept[i].peer
  IN /\ accept[i].step = "authorised"
     /\ accept' = [accept EXCEPT ![i] = Idle]
     /\ Cardinality(PermitsHeld) < SessionPermits /\ Unused # {}
     /\ table' = [table EXCEPT ![p] = Fresh]
     /\ Attach(Fresh, Spawned(p, FALSE, TRUE), "Inbound")
     /\ UNCHANGED <<allowlist, handler, incoming, taken, sent, op>>

\* session_for_inbound and attach_inbound, in a later critical section than
\* the check: the session of the peer, or a new one if a permit is left.  A
\* session asked to dial does that first, its control messages being queued.
AttachInbound(i) ==
  LET p == accept[i].peer
      s == table[p]
  IN /\ accept[i].step = "authorised"
     /\ accept' = [accept EXCEPT ![i] = Idle]
     /\ IF s # NoSession
        THEN /\ session[s].dial # "asked"
             /\ Attach(s, session[s], "Inbound")
             /\ UNCHANGED table
        ELSE IF Cardinality(PermitsHeld) < SessionPermits /\ op.step # "closed"
        THEN /\ Unused # {}
             /\ table' = [table EXCEPT ![p] = Fresh]
             /\ Attach(Fresh, Spawned(p, FALSE, TRUE), "Inbound")
        ELSE UNCHANGED <<table, session, events, connects>>
     /\ UNCHANGED <<allowlist, handler, incoming, taken, sent, op>>

-----------------------------------------------------------------------------
(* Streams a connected peer opens (handle_inbound_stream).                 *)

NoStream == [peer |-> NoPeer, id |-> 0, step |-> "idle"]

Waiting   == {incoming[i].id : i \in DOMAIN incoming}
Presented == {handler[h].id : h \in Handlers} \cup Waiting \cup taken

\* A stream with a message arrives; it is refused when no permit is left.
OpenStream(h) ==
  /\ handler[h] = NoStream
  /\ \E s \in Alive, id \in Inbound \ Presented :
       /\ session[s].state = "Connected"
       /\ handler' = [handler EXCEPT ![h] = [peer |-> session[s].peer, id |-> id, step |-> "reading"]]
  /\ UNCHANGED <<allowlist, table, session, accept, incoming, taken, events, sent, connects, op>>

\* Mutant: a stream that was answered with a rejection is never let go.
ReadMessageKeeping(h) ==
  /\ handler[h].step = "reading"
  /\ handler' = [handler EXCEPT ![h].step =
       IF handler[h].peer \in allowlist THEN "waiting" ELSE "rejected"]
  /\ UNCHANGED <<allowlist, table, session, accept, incoming, taken, events, sent, connects, op>>

\* The message is read and its sender looked up once more.
ReadMessage(h) ==
  /\ handler[h].step = "reading"
  /\ handler' = [handler EXCEPT ![h] =
       IF handler[h].peer \in allowlist THEN [@ EXCEPT !.step = "waiting"] ELSE NoStream]
  /\ UNCHANGED <<allowlist, table, session, accept, incoming, taken, events, sent, connects, op>>

\* Mutant: the receipt does not wait for room in the queue.
EnqueueIfRoom(h) ==
  /\ handler[h].step = "waiting"
  /\ incoming' = IF Len(incoming) < IncomingCapacity
                 THEN Append(incoming, [peer |-> handler[h].peer, id |-> handler[h].id])
                 ELSE incoming
  /\ handler' = [handler EXCEPT ![h].step = "queued"]
  /\ UNCHANGED <<allowlist, table, session, accept, taken, events, sent, connects, op>>

\* incoming_tx.send: without a timeout, until there is room.
Enqueue(h) ==
  /\ handler[h].step = "waiting"
  /\ Len(incoming) < IncomingCapacity
  /\ incoming' = Append(incoming, [peer |-> handler[h].peer, id |-> handler[h].id])
  /\ handler' = [handler EXCEPT ![h].step = "queued"]
  /\ UNCHANGED <<allowlist, table, session, accept, taken, events, sent, connects, op>>

\* The receipt is written, or is lost with the connection.
WriteReceipt(h) ==
  /\ handler[h].step = "queued"
  /\ handler' = [handler EXCEPT ![h] = NoStream]
  /\ UNCHANGED <<allowlist, table, session, accept, incoming, taken, events, sent, connects, op>>

\* The read fails or times out; or the queue is closed, the runtime gone.
ResetStream(h) ==
  /\ \/ handler[h].step = "reading"
     \/ handler[h].step = "waiting" /\ op.step = "closed"
  /\ handler' = [handler EXCEPT ![h] = NoStream]
  /\ UNCHANGED <<allowlist, table, session, accept, incoming, taken, events, sent, connects, op>>

-----------------------------------------------------------------------------
(* Messages of this side.                                                  *)

Unsent == [peer |-> NoPeer, session |-> NoSession, outcome |-> "None", told |-> FALSE]

InFlight(s) == {m \in Outbound : sent[m].session = s /\ sent[m].outcome = "Pending"}

\* send_text: a contact with a connected session takes the message, unless
\* its queue is full.  How full it is, is PeerSession's subject: no more
\* messages are owed an outcome than the queue holds and the one under way.
CanSend(p) ==
  /\ p \in allowlist
  /\ StateOf(p) = "Connected"
  /\ Cardinality(InFlight(table[p])) <= QueueCapacity

Send(p, m) ==
  /\ CanSend(p)
  /\ sent[m] = Unsent
  /\ sent' = [sent EXCEPT ![m] = [peer |-> p, session |-> table[p], outcome |-> "Pending", told |-> FALSE]]
  /\ UNCHANGED <<allowlist, table, session, accept, handler, incoming, taken, events, connects, op>>

\* The session resolves the message, or its deadline does.
Settle(m) ==
  /\ sent[m].outcome = "Pending"
  /\ \E o \in Outcomes : sent' = [sent EXCEPT ![m].outcome = o]
  /\ UNCHANGED <<allowlist, table, session, accept, handler, incoming, taken, events, connects, op>>

-----------------------------------------------------------------------------
(* Calls that take several steps: replace_contacts and shutdown.           *)

NoOp == [step |-> "idle", removed |-> {}, stop |-> {}, add |-> {}]

\* Mutant: what is new is looked for after the list was replaced.
ReplaceContactsLate(peers) ==
  /\ op = NoOp
  /\ allowlist' = peers
  /\ op' = [step |-> "taking", removed |-> allowlist \ peers, stop |-> {}, add |-> {}]
  /\ UNCHANGED <<table, session, accept, handler, incoming, taken, events, sent, connects>>

\* replace_peer_ids: from here on removed peers are no contacts.
ReplaceContacts(peers) ==
  /\ op = NoOp
  /\ allowlist' = peers
  /\ op' = [step |-> "taking", removed |-> allowlist \ peers, stop |-> {}, add |-> peers \ allowlist]
  /\ UNCHANGED <<table, session, accept, handler, incoming, taken, events, sent, connects>>

SessionsOf(peers) == {table[p] : p \in peers} \ {NoSession}

\* take_removed_sessions.
TakeRemoved ==
  /\ op.step = "taking"
  /\ op' = [op EXCEPT !.step = "stopping", !.stop = SessionsOf(op.removed), !.removed = {}]
  /\ table' = [p \in Peers |-> IF p \in op.removed THEN NoSession ELSE table[p]]
  /\ UNCHANGED <<allowlist, session, accept, handler, incoming, taken, events, sent, connects>>

\* One session of those to stop: what is left of its actor, and the
\* messages as they are then.
EndSession(s, left, messages) ==
  /\ op.step \in {"stopping", "closing"}
  /\ s \in op.stop
  /\ session[s].dial # "asked"
  /\ op' = [op EXCEPT !.stop = @ \ {s}]
  /\ session' = [session EXCEPT ![s] = left]
  /\ sent' = messages
  /\ UNCHANGED <<allowlist, table, accept, handler, incoming, taken, events, connects>>

\* A dial under way goes on without its session.
Remains(s) == IF session[s].dial \in {"waiting", "dialing"}
              THEN [Absent EXCEPT !.dial = session[s].dial] ELSE Absent

Resolved(s) == [m \in Outbound |->
  IF m \in InFlight(s) THEN [sent[m] EXCEPT !.outcome = "Failed"] ELSE sent[m]]

\* Mutant: a session waits for its streams before it stops.
StopSessionAfterStreams(s) ==
  /\ \A h \in Handlers : handler[h].peer # session[s].peer
  /\ EndSession(s, Remains(s), Resolved(s))

\* Mutant: messages under way are forgotten with their session.
StopSessionForgetting(s) == EndSession(s, Remains(s), sent)

\* Mutant: the permit of an inbound session is not returned.
StopSessionKeepingPermit(s) ==
  EndSession(s, [Remains(s) EXCEPT !.permit = session[s].permit], Resolved(s))

\* finish_shutdown of one session, awaited: what it owes is resolved, its
\* permit returned, nothing published.
StopSession(s) == EndSession(s, Remains(s), Resolved(s))

\* ensure_outbound_session: a new session dials; one that is there is asked
\* to, which it does if it never dialed.
EnsureOutbound(p) ==
  /\ op.step = "stopping"
  /\ op.stop = {}
  /\ p \in op.add
  /\ op' = [op EXCEPT !.add = @ \ {p}]
  /\ IF table[p] = NoSession
     THEN /\ Unused # {}
          /\ table' = [table EXCEPT ![p] = Fresh]
          /\ session' = [session EXCEPT ![Fresh] = Spawned(p, TRUE, FALSE)]
     ELSE /\ session' = [session EXCEPT ![table[p]].dial = IF @ = "never" THEN "asked" ELSE @]
          /\ UNCHANGED table
  /\ UNCHANGED <<allowlist, accept, handler, incoming, taken, events, sent, connects>>

\* replace_contacts returns.
Replaced ==
  /\ op.step = "stopping"
  /\ op.stop = {}
  /\ op.add = {}
  /\ op' = NoOp
  /\ UNCHANGED <<allowlist, table, session, accept, handler, incoming, taken, events, sent, connects>>

\* shutdown: no more connections are accepted and every session is stopped.
CloseTransport ==
  /\ op = NoOp
  /\ op' = [NoOp EXCEPT !.step = "closing", !.stop = SessionsOf(Peers)]
  /\ table' = [p \in Peers |-> NoSession]
  /\ UNCHANGED <<allowlist, session, accept, handler, incoming, taken, events, sent, connects>>

\* Mutant: the transport waits until what it received has been read.
ClosedWhenRead ==
  /\ op.step = "closing"
  /\ op.stop = {}
  /\ incoming = <<>>
  /\ op' = [op EXCEPT !.step = "closed"]
  /\ UNCHANGED <<allowlist, table, session, accept, handler, incoming, taken, events, sent, connects>>

Closed ==
  /\ op.step = "closing"
  /\ op.stop = {}
  /\ op' = [op EXCEPT !.step = "closed"]
  /\ UNCHANGED <<allowlist, table, session, accept, handler, incoming, taken, events, sent, connects>>

-----------------------------------------------------------------------------
(* The network and the tasks of the transport itself.                      *)

Actors ==
  \E s \in SessionIds :
    \/ BeginDial(s) \/ StartDial(s) \/ DialSucceeds(s) \/ DialFails(s)
    \/ ConnectionLost(s) \/ PathChanged(s) \/ StopSession(s)

Acceptors == \E i \in Accepts : Incoming(i) \/ DropConnection(i) \/ Authorise(i) \/ AttachInbound(i)

Streams == \E h \in Handlers :
  OpenStream(h) \/ ReadMessage(h) \/ Enqueue(h) \/ WriteReceipt(h) \/ ResetStream(h)

Calls == TakeRemoved \/ (\E p \in Peers : EnsureOutbound(p)) \/ Replaced \/ Closed

TransportStep == Actors \/ Acceptors \/ Streams \/ (\E m \in Outbound : Settle(m)) \/ Calls

\* The state bind leaves: a session that dials for every contact.
FirstSessions(peers) == CHOOSE f \in [peers -> SessionIds] : IsInjective(f)

StartedTable(peers) ==
  [p \in Peers |-> IF p \in peers THEN FirstSessions(peers)[p] ELSE NoSession]

StartedSessions(peers) ==
  [s \in SessionIds |->
     IF \E p \in peers : FirstSessions(peers)[p] = s
     THEN Spawned(CHOOSE p \in peers : FirstSessions(peers)[p] = s, TRUE, FALSE)
     ELSE Absent]

Started(peers) ==
  /\ allowlist = peers
  /\ table = StartedTable(peers)
  /\ session = StartedSessions(peers)
  /\ accept = [i \in Accepts |-> Idle]
  /\ handler = [h \in Handlers |-> NoStream]
  /\ incoming = <<>> /\ taken = {} /\ events = <<>>
  /\ sent = [m \in Outbound |-> Unsent]
  /\ connects = 0
  /\ op = NoOp

\* start_with_config.
StartTransport(peers) ==
  /\ allowlist' = peers
  /\ table' = StartedTable(peers)
  /\ session' = StartedSessions(peers)
  /\ accept' = [i \in Accepts |-> Idle]
  /\ handler' = [h \in Handlers |-> NoStream]
  /\ incoming' = <<>> /\ taken' = {} /\ events' = <<>>
  /\ sent' = [m \in Outbound |-> Unsent]
  /\ connects' = 0
  /\ op' = NoOp

-----------------------------------------------------------------------------
(* The transport with a client that makes every call the chat runtime can. *)

\* The runtime takes a message from the queue.
Receive ==
  /\ incoming # <<>>
  /\ incoming' = Tail(incoming)
  /\ taken' = taken \cup {Head(incoming).id}
  /\ UNCHANGED <<allowlist, table, session, accept, handler, events, sent, connects, op>>

\* It is one task: it reads nothing while replace_contacts has not returned.
Client ==
  /\ op = NoOp
  /\ \/ Receive
     \/ /\ events # <<>>
        /\ events' = <<>>
        /\ UNCHANGED <<allowlist, table, session, accept, handler, incoming, taken, sent, connects, op>>
     \/ /\ Len(events) < MaxEvents
        /\ \E p \in Peers : \/ p \notin allowlist /\ ReplaceContacts(allowlist \cup {p})
                            \/ p \in allowlist /\ StateOf(p) # "Connecting" /\ ReplaceContacts(allowlist \ {p})
     \/ \E p \in Peers, m \in Outbound : Send(p, m)
     \/ CloseTransport

Init == \E peers \in SUBSET Peers : Started(peers)

Next == TransportStep \/ Client

Spec == Init /\ [][Next]_transportVars

-----------------------------------------------------------------------------
(* Properties.                                                             *)

\* Shapes; and a session shows a path and a start only while connected.
TransportTypeOK ==
  /\ allowlist \subseteq Peers
  /\ table \in [Peers -> SessionIds \cup {NoSession}]
  /\ \A s \in SessionIds :
       /\ session[s].state \in ConnStates
       /\ session[s].dial \in {"never", "asked", "waiting", "dialing", "done"}
       /\ session[s].since \in 0..MaxConnects
       /\ (session[s].state = "Connected") <=> (session[s].since # NoTime)
       /\ session[s].state # "Connected" => session[s].path = "Unknown"
       /\ session[s].alive => session[s].peer \in Peers
  /\ \A i \in Accepts : accept[i].step \in {"idle", "handshake", "refusing", "authorised"}
  /\ \A h \in Handlers : handler[h].step \in {"idle", "reading", "waiting", "queued"}
  /\ op.step \in {"idle", "taking", "stopping", "closing", "closed"}

\* No actor is lost sight of: a live session is the one the table has for
\* its peer, or is about to be stopped by the call that took it out.  Two
\* inbound connections, a dial and a removal may all meet in the table
\* (session_for_inbound, ensure_outbound_session, take_removed_sessions).
SessionsOwned ==
  \A s \in Alive : table[session[s].peer] = s \/ s \in op.stop

\* Every contact has a session once a change of the contacts is through:
\* without one, no message could ever be sent to it.
ContactsHaveSessions ==
  op = NoOp => \A p \in allowlist : table[p] # NoSession

\* The budgets are not exceeded, and a session that is gone gives its permit
\* back (finish_shutdown).  A dial is counted for as long as it lasts, also
\* when it outlives its session: connect_for keeps the permit in a local
\* variable, so that nothing else could keep it.
BudgetsKept ==
  /\ Cardinality(Dialing) <= DialPermits
  /\ Cardinality(PermitsHeld) <= SessionPermits
  /\ PermitsHeld \subseteq Alive
  /\ Cardinality(Admitted) <= Admissions

\* A message that waits for its outcome waits for a session that still can
\* settle it: stopping a session settles what it owes.
PendingHasSession ==
  \A m \in Outbound : sent[m].outcome = "Pending" => sent[m].session \in Alive

\* The same session stays connected over a change of path or of connection
\* with its start unchanged: the duration shown never jumps back.
StartKept ==
  [][\A s \in SessionIds :
       session[s].state = "Connected" /\ session'[s].state = "Connected"
         => session'[s].since = session[s].since]_session

\* Said by network/chat/README.md: one session per contact, closed when the
\* contact is removed.  A connection authorised just before the removal gets
\* a session just after it.
SessionsOfContactsOnly ==
  op = NoOp => \A p \in Peers : table[p] # NoSession => p \in allowlist
=============================================================================
