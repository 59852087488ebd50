# A formal model of rathole's chat core

rathole is a peer-to-peer terminal chat. Every contact is an iroh endpoint; text
messages travel one per bidirectional QUIC stream and are acknowledged with a
receipt. This directory holds TLA+ specifications of the parts of the program
whose correctness depends on the order of events, the TLC configurations that
check them on small instances, and TLAPS proofs of what holds on every instance.
Source paths below are relative to `src/` of the repository.

## 1. Inventory

| Component | State it keeps | Operations | Talks to |
|---|---|---|---|
| Peer session (`network/chat/session.rs`) | outgoing queue and slot counter, session state and its published copy, primary and draining connections with stream counters, active delivery, dial flags | enqueue, attach, dial, accept streams, deliver, drain, close, shut down | transport, iroh, stream tasks |
| Delivery handles (`network/chat/mod.rs`, `transport.rs:642`) | completion slot, cancellation flag, deadline task | cancel, resolve once, time out | session, chat runtime |
| Chat transport (`network/chat/transport.rs`) | allowlist, session table, budgets for inbound sessions, handlers, admissions and dials | bind, accept, dial, replace contacts, send, shut down | sessions, iroh, chat runtime |
| Inbound stream handler (`session.rs:1135`) | one stream, a permit | read, check, queue, acknowledge | incoming queue, allowlist |
| Wire protocol and framing (`protocol/`, `network/chat/framing.rs`) | none | encode, decode, validate | |
| Chat runtime (`application/chat_session.rs`) | contact list, repository, pending deliveries | effects of the interface, connection events, incoming texts, persistence | interface, transport, storage |
| Storage and bootstrap (`storage/`, `application.rs`) | contact file, identity in keyring or file | load, replace, create | file system |
| Terminal interface (`tui/app.rs`, `tui/mod.rs`) | contacts, conversations, drafts, pending sends, unread counts, selection, overlay | keys, commands from the runtime, effects | chat runtime |
| Rendering, logging, command line | none | | |

What is hard, by component:

* **Peer session.** Five kinds of task run beside the actor (deadline, outgoing
  stream, dial, accept loop and monitor of each connection, stream handlers) and
  all report over one unbounded channel, so the actor always acts on news that
  may be old. Correct means: every admitted message gets one answer, in order;
  the slot counter never drifts; the published state is true; a connection is
  closed exactly when nothing runs on it; permits come back.
* **Transport.** Check-then-act between allowlist, session table and accept
  tasks; budgets that must not leak; dials that share a deadline with the wait
  for a permit.
* **Inbound handler.** Back-pressure from the incoming queue; a contact removed
  between the check and the acknowledgement.
* **Chat runtime and interface.** Two bounded queues in opposite directions with
  `try_send` on one side; state spread over several maps (draft, pending send,
  unread, selection) that must agree after any interleaving of keys and
  commands; events of a session that no longer exists.
* **Storage.** Several writes per operation, any of which may fail or be the
  last before a crash.

`PROJECT.json` lists each of these as a hazard with its line and the properties
that cover it, or why none does.

## 2. Modules

| Module | Models | Builds on |
|---|---|---|
| `DeliveryContract` | what a delivery handle promises, abstractly | |
| `PeerSession` | one session from the inside: the actor, its tasks and channels | implements `DeliveryContract` |
| `PeerSessionProofs`, `PeerSlotProofs` | proofs about it: types, counters and deliveries; the connections and permits | `PeerSession` |
| `Domain` | the values the parts of the program exchange | |
| `ChatTransport` | allowlist, session table, accept loop, budgets, received streams, `replace_contacts`, `shutdown` | `Domain` |
| `TransportProofs` | proofs about it | `ChatTransport` |
| `TextExchange` | one text end to end: the peer's delivery, both directions of a stream, the answer | `ChatTransport` |
| `TextExchangeProofs` | proofs about it | `TextExchange`, `TransportProofs` |
| `TuiApp` | the interface: keys, overlays, commands, effects | `Domain` |
| `Storage` | contact file and device key, failing writes | `Domain` |
| `ChatProgram` | the process: the runtime task between the three, bootstrap, quitting, dying | `TuiApp`, `Storage`, `ChatTransport` |
| `UiProofs`, `ProgramProofs`, `ViewProofs` | proofs about it: the interface under every key and command; the process as a whole; what is shown against what the sessions are | `ChatProgram`, `TransportProofs` |
| `TextBuffer` | what a text field promises, abstractly | |
| `ChatPanel` | editor, composer row, dialog row, transcript | implements `TextBuffer` |
| `PanelProofs` | proofs about it | `ChatPanel` |

`MCPeerSession` only names the symmetry of one run; the other configurations
instantiate a module directly.

Two levels of the same component are kept apart on purpose. `PeerSession` has
every channel and task of one session, and is what the proofs are about.
`ChatTransport` has several sessions and reduces each to what the rest of the
program can see: its published state, its dial, its permit, the deliveries it
owes an outcome. The reduction is not itself a checked refinement. What it
takes over from `PeerSession` is what is proved or checked there: the published
state follows the primary connection (`PublishedState`), a dial is begun once
and ends, every delivery is answered and shutdown completes.

Of the plan of the first version, `TransportSessions` and `InboundStreams`
became `ChatTransport` (a stream is refused by the same allowlist a removal
changes), `SessionDiagnostics` its `PathChanged`, `ChatRuntime` became
`ChatProgram`, `ContactStore` became `Storage`. `TextExchange` has the part of
`PeerPair` and `Protocol` that matters to a message; for the rest see section 10.
What is proved is in section 9, with what is left.

## 3. `PeerSession`

### State

| Variables | Code |
|---|---|
| `isContact`, `shutdown`, `dialRequested` | allowlist entry; `PeerSession::shutdown` called with a reason; `ensure_outbound_session` has asked for a dial |
| `sent`, `expired`, `opened` | messages are numbered in admission order; all share `DELIVERY_TIMEOUT`, so deadlines pass in that order; `opened` bounds the streams the peer opens |
| `queued`, `rx`, `control` | `PeerSession.queued` and the two channels |
| `alive`, `queue`, `active`, `state`, `published`, `primary`, `draining`, `dialing`, `dialAttempted` | fields of `SessionActor`; `published` is the watch channel; `active` keeps the message, `via` its connection |
| `handlers`, `outbound` | `active_handlers`, `active_outbound` of each `ConnectionSlot` |
| `task`, `result` | the stream task of each message: `streaming` (in `run_outbound_stream`), `settling` (won the cancellation, has not resolved), `reporting`, `aborted`, `ended`; and what it came back with |
| `cancelled`, `resolving`, `outcome` | `DeliveryCancellation`; deadline tasks that won and have not resolved; what reached the oneshot |
| `dialer`, `conn`, `monitor`, `accepting`, `running`, `permits` | the dial task; iroh connections; the monitor and accept tasks; stream handlers; `inbound_stream_handlers` |

`localLower` (which endpoint id is lower) and the way the session was spawned
(`ensure_outbound_session` or `session_for_inbound`) are chosen in `Init`.

### Actions

One action per branch of `handle_control` (`HandleAttach`, `HandleDialFinished`,
`HandleConnectionClosed`, ...), one per round of `start_next_if_possible`
(`StartNext`), one for `rx.recv` (`ReceiveDelivery`); the `biased` select and the
call of `start_next_if_possible` before it are the guards `AtSelect` and
`control = <<>>`. A handler of the actor is one step: it awaits only locks nobody
holds for long, and nothing it reads can change meanwhile except the
cancellations and the deadlines, whose steps commute with the part of the
handler that does not look at them. The tasks beside it are split wherever
another task can come in between: a winner of the cancellation answers in a
later step than the one in which it wins (`DeadlineFires`/`DeadlineResolves`,
`StreamReturns`/`TaskResolves`/`TaskReports`), an accepted stream waits for its
permit (`StreamArrives`/`StreamTaken`), an aborted task may still report.

`AcceptLoopStopped` carries no data and only makes the actor look for idle
draining slots, so instead of queueing it `HandleAcceptLoopStopped` may happen at
any time after an accept loop could have ended. The loop of a connection that
loses against the primary may take one stream before it sees its stop signal
(`accepting = "starting"`).

Left out: `start_pending_delivery` and the branches for an active delivery
without a connection (no code creates one), path events (they are in
`ChatTransport`), logging, message contents. The handler permits are shared by
all sessions in the code; here they are the share of one session.

The client's calls (`SendText`, `RemoveContact`, `RequestShutdown`,
`RequestOutboundDial`) come from the one task of the chat runtime, so an
admission never overlaps a removal. `RemoveContact` has the runtime's guard that
a contact being connected cannot be removed (`chat_session.rs:345`).

### Properties

| Property | Kind | What it says |
|---|---|---|
| `TypeOK` | invariant | values of the variables |
| `QueueAccounting` | invariant | the slot counter equals the deliveries queued, whatever way each leaves |
| `AttemptedInOrder` | invariant | no stream for a message while an earlier one could still be sent |
| `DeliveriesInHand` | invariant | inductive form of the two properties around it: the waiting deliveries follow without a gap those that have left, all that left but the active one are given up, a task that can still answer belongs to the active one, whoever gave one up answers it, reports are true |
| `NoneStranded` | invariant | an unanswered message is queued, active or held by its deadline task, and whoever cancelled it is still there to answer |
| `StateMatchesPrimary` | invariant | what is published agrees with the primary connection; Connecting only while the dial is out |
| `SlotAccounting` | invariant | stream counters equal streams running plus reports on their way |
| `NoIdleConnection` | invariant | draining connections have something to drain, no open connection is ownerless |
| `PermitsAccounted` | invariant | each permit is free, travelling or with a handler |
| `ConnectedUntilLost` | action | a contact becomes not connected only by losing its primary connection |
| `RetiredOnlyIdle` | action | a running session gives up an open connection only when no stream task or handler uses it |
| `ImplementsContract` | refinement | the session implements `DeliveryContract` |
| `AdmittedSettles`, `ConnectingEnds`, `ShutdownCompletes`, `DrainingEnds` | liveness | each message is answered; Connecting ends; shutdown returns; superseded connections are closed |

`DeliveryContract` has four variables (`sent`, `expired`, `outcome`, `open`) and
says: one answer per admitted message, kept for ever; an answer from the peer or
the actor only when nothing earlier can still be delivered; `TimedOut` only after
the deadline; the end of a session answers everything not already late. The
refinement maps `open` to `alive`.

## 4. `ChatTransport`

| Variables | Code |
|---|---|
| `allowlist`, `table` | `ContactAllowlist`; `TransportInner.sessions` |
| `session` | the actors, in the table or not: peer, alive, published state, origin and path of the connection in use, `connected_since`, whether it holds an `inbound_sessions` permit, and its dial: `never`, `asked` (`StartOutboundDial` waits, or the actor has not run yet), `waiting` (for an `outbound_dials` permit), `dialing`, `done` |
| `accept` | tasks of `accept_loop`: `handshake`, then `authorised` or `refusing` |
| `handler` | tasks of `handle_inbound_stream`: `reading`, `waiting` (for room), `queued` (receipt not yet written) |
| `incoming`, `taken` | the channel of received messages; those the runtime has taken |
| `events` | the unbounded channel of connection events |
| `sent` | what `send_text` admitted: session, outcome, and whether the outcome was told |
| `connects` | connections made; numbers them for `connected_since` |
| `op` | where `replace_contacts` or `shutdown` is, and the sessions it still has to stop or to ask |

Steps follow the critical sections. `Authorise` and `AttachInbound` are two steps
because `accept_loop` reads the allowlist and takes the session under different
locks; `replace_contacts` is `ReplaceContacts`, `TakeRemoved`, one `StopSession`
per removed session, one `EnsureOutbound` per new contact and `Replaced`, because
it awaits between them and accept tasks, dials and handlers run meanwhile.
`Enqueue` is separate from `ReadMessage` because the handler waits for room with
no timeout after it looked the contact up. A dial outlives the session that
began it and keeps its permit until it ends. A session slot is used again when
its actor and its dial are gone.

A session attaches a second connection as `attach_connection` does: the one both
ends prefer stays in use. What draining does to streams is `PeerSession`'s
subject. The refusal of a connection or a stream beyond its budget leaves the
state as it was and has no action of its own; the rejection of an unknown
peer's message, with its timeout, is one step, `DropConnection`. A stream that
could not get a permit, or whose read failed, is reset.

| Property | Kind | What it says |
|---|---|---|
| `TransportTypeOK` | invariant | shapes; a path and a start are shown only while connected |
| `SessionsOwned` | invariant | every live actor is the one in the table for its peer, or one the call under way will stop |
| `ContactsHaveSessions` | invariant | between calls every contact has a session |
| `BudgetsKept` | invariant | dials, session permits and admissions stay in their budgets; only live sessions hold session permits |
| `PendingHasSession` | invariant | a message owed an outcome belongs to a live session |
| `StartKept` | action | a change of path or of connection keeps the start of the session |

**`TextExchange`** adds the other end of a stream. `exchange` has a record for
each text: where the peer's delivery (`run_outbound_stream`) is, what each
direction of the stream holds (`none`, a document whose end is still missing, a
finished document, `reset`), whether this side has accepted the stream, and what
the sender was told. `FarOpen`, `FarWrite`, `FarFinish`, `FarRead`, `FarFails`
and `FarTimesOut` are the stages of the delivery; `Arrive`, `Refuse`, `Read`,
`ReadFails`, `ReadTimesOut`, `Enqueue`, `Accept`, `QueueClosed` are the handler
on this side, each a step of `ChatTransport` together with what it does to the
stream. The peer is the same program, or another version whose document `decode`
refuses. A reset may overtake a document, a connection that is lost takes its
streams along, and the sender may give up at any point. A record is `disturbed`
once a deadline, a lost connection, a missing permit or the end of the runtime
had a part in it.

| Property | Kind | What it says |
|---|---|---|
| `AnswersAreTrue` | invariant | a text the sender is told was delivered is the runtime's or in its queue, one it is told was rejected is not, and the delivered texts of a peer keep their order; a delivery that failed or timed out may have gone through |
| `AnsweredUnlessDisturbed` | liveness | without interference every text is answered and no deadline is needed for it: neither end waits for an end of stream the other does not send |
| `StreamsEnd`, `ChangeEnds` | liveness | a stream's permit comes back; `replace_contacts` returns, though it waits for sessions whose handlers may wait for its caller |

## 5. `TuiApp`, `Storage`, `ChatProgram`

**`TuiApp`.** `running` is `~should_quit`; `focus`, `mode`, `tab`, `index`,
`overlay` are the fields of that name in `SidebarState`, `ChatState` and
`OverlayState`; `contacts` is the order of the list and `view` the other fields
of `ContactView`; `chats`, `drafts`, `scroll`, `pending` the maps by contact, an
absent entry being its empty value. `Press` reads a key as `action_for_key` does
and applies `update`; `PasteText` is `Event::Paste`; `ApplyCommand` is one round
of `drain_commands`. An effect is asked for by the action that returns it and
`Request` drops it when the channel is full, as `dispatch_effect` does. A text is
a number: what an edit does to one is `ChatPanel`'s subject, here an edit may
turn a text into any other. An edit of the add-contact dialog may make any
contact's id, the own id or something that is no id of what stood there.

**`Storage`.** `file` and `temp` hold a list, nothing, or something torn; the
replacement is `CreateTemp`, `WriteTemp`, `Persist`, and a death or an error in
between drops the temporary file. `CreateKey` is `bootstrap_identity` without a
stored key. Only the process dies: what a loss of power does to a write that was
never synced is not modelled, and the code does not sync.

**`ChatProgram`.** `phase` is the process, `rt` where the runtime task is, `known`
its list of contacts. The task takes from one of its channels only when it is
`Selecting`; `persist_contact` and `remove_contact` then go through `saving`
(the steps of `Storage`), `saved`, and `replacing` (the steps of the transport's
call), while keys, the network, the tasks that await an outcome (`RtReport`) and
the transport go on. `Quit` drops the command channel; the runtime sees it the
next time it selects (`RtStop`), stops the transport and ends (`Exit`). `Crash`
ends the process at any point and keeps what is stored; `Boot` and `Launch` start
it again. Where the runtime refuses a message, `RtSendText` allows the refusal
in every state, because a text may be too long for the protocol.

| Property | Kind | What it says |
|---|---|---|
| `ProgramTypeOK` | invariant | the interface is well formed: no contact twice, selection and scroll inside what they index, insert mode only in the chat panel, nothing kept about a peer that is not listed |
| `ViewAgreesAtRest` | invariant | with no event and command on its way, screen, runtime, allowlist and file have the same contacts, and each is shown as its session is |
| `ShownContactsAreStored` | invariant | a contact on the screen is on disk, or its removal is on its way; a start never fails on the contact file |
| `PendingMessageWillSettle` | invariant | a message shown as pending is owed an outcome, or its outcome waits for the screen, behind the message |
| `SendingHasRequest` | invariant | a contact is marked as sending only while a request or its answer is on its way |
| `SendingEnds`, `ConnectingEnds` | liveness | the mark is taken away; Connecting is left |
| `QuitEnds` | liveness | quitting ends the process |

`ViewAgreesAtRest` and `ConnectingEnds` have one exception in common, `Adopted`:
a session made for an accepted connection. It may be the stray session of the
first finding below, whose events were dropped before its peer was a contact.
`ViewAgreesAtRest` also lets a contact be shown in the state of its previous
session until its new dial begins, which overwrites it.

## 6. `ChatPanel`

`text` is the bytes of `TextEditor`, a byte being its character and its position
in it, `cursor` counts characters, `chat` is the messages of a contact as lengths
of lines. `Insert` (and paste), `Backspace`, `Delete`, `MoveCursor` work at byte
offsets as the code does; `Content` is read back from the bytes. `ComposerRow`,
`CroppedRow`, `DialogRow` are the functions that draw a draft, `Chosen` and
`Drawn` the two passes of `render_transcript`.

| Property | Kind | What it says |
|---|---|---|
| `TextIsUtf8` | invariant | no edit cuts a character, the cursor is in the text |
| `EditsBuffer` | refinement | the editor implements `TextBuffer`: an edit does to the characters around the cursor what its name says |
| `RowsShowCursor` | invariant | each row fits its width, shows characters at their place, and the cursor |
| `TranscriptFills` | invariant | the message scrolled to is at the bottom; those above follow without overlap, whole, as many as fit |

`TextBuffer` has the characters before and after a cursor and six edits; the
refinement reads them from `Content` and `cursor`. The rows are functions of the
state, so they are invariants checked in every state rather than actions.

## 7. Runs

| Run | Instance | Shows |
|---|---|---|
| `SessionDeliveries` | 3 messages, queue of 2, the dialled connection only | delivery invariants and the refinement; three messages let one be active, one queued and one in the channel, and the queue be full |
| `SessionConnections` | 1 message, 1 inbound and the dialled connection, 1 stream, 1 permit | state, slot accounting, and the two action properties: every order of dial, attach, stream, loss and drain for a pair of connections |
| `SessionInbound` | 2 interchangeable inbound connections and the dial, 2 streams, 1 permit | three connections so that a second one can be superseded while a first drains; two streams for one permit so that the budget runs out |
| `SessionSettles` | 2 messages, the dialled connection, fairness | every admitted message settles, shutdown completes |
| `SessionConverges` | 1 message, 1 inbound and the dialled connection, fairness | Connecting and draining end |
| `TransportSessions` | 1 peer, 2 sessions, 2 accept tasks, 1 of each permit, 1 message | table and budgets: a removed session and its successor, a dial of the first that outlives it, and two connections race; all budgets can run out, also for a peer that is no contact |
| `TextExchange` | 1 peer, 2 texts sent to this side, 1 handler, queue of 1, 1 connection, fairness | answers, streams, `replace_contacts`: the second text finds the queue full, or no permit because the first was given up, and the contact goes at any point |
| `StraySession` | as `TransportSessions`, 1 accept task; a violation | the first finding |
| `ProgramMessages` | 1 peer, 2 messages sent, 1 received, 2 places for effects, fairness | the interface and the runtime from the first start to the end |
| `ProgramContacts` | 1 peer, 2 sessions, 1 accept task, keys of the menu and the dialog, one event unread when a contact changes, fairness | contacts from the screen to the disk and back, with crashes; an event of the session that was stopped is shown for the contact that is added again, until it dials |
| `BusySend` | as `ProgramMessages`, 1 place for effects; a violation | the second finding |
| `ChatPanel` | characters of 1 and 4 bytes, texts up to 3, messages of 1 and 2 lines, 4 widths, 4 heights | editor, rows, transcript |

**Bounds.** Messages, streams, connections and session slots are finite sets.
`MaxConnects` bounds the connections that start a session's clock; `MaxEvents`
holds back path events and changes of contacts, `MaxCommands` connection events
and changes of contacts, while the channel they would fill is that long; other
senders are never held back. In the program the user asks for no more messages
than there are ids left (`UnusedIds`). One peer is enough for the questions
asked: the table, the maps of the interface and the list of contacts are keyed
by peer, and what different peers share are the budgets, which one peer's
successive sessions, dials and connections already contend for. What two peers
would add, the order of the list and its selection, `ProgramTypeOK` states;
random simulation of `ChatProgram` with two peers (about ten million states, its
invariants and `SessionsOwned`, `BudgetsKept`, `PendingHasSession`) found
nothing, the exhaustive runs have one. With a second connection `TextExchange`
holds too (129,444 states, close to four minutes). All permits are 1 so that
they run out at once. Path events occur in `TransportSessions` only, which checks
`StartKept` and that a path is shown only while connected; with the second path they
need, `ProgramContacts` would have twice the states and take too long with its
liveness property. That what is shown follows them through the events to the screen
was checked without the liveness property (about 300,000 states), and is part of the
theorem `ViewTrue`. Symmetry is used only in `SessionInbound`, which checks
invariants. Where a configuration switches the deadlock check off, the system
may stop: a session ends, the transport closes, bounds are used up.

**Fairness.** `PeerSession`: weak fairness of the actor, the deadline tasks, the
clock, the outgoing stream tasks past their deadline, the dial (it has a
timeout), the monitor and accept tasks: tokio runs what is ready. Nothing is
assumed of the peer, the network, the user or stream handlers, so `DrainingEnds`
has the premise that no handler stays for ever; the run for it has no inbound
streams. `TextExchange`: weak fairness of the stages of a delivery, of the
handler, of accepting, of the transport's calls, and of a dial, which has a
timeout; the runtime receives, strongly fair, since it can do so again and again
between its calls. No deadline of a read or of a delivery is fair: nothing needs
one to end. `ChatProgram`: weak fairness of the screen, of the call the runtime
is in and of the transport's tasks; strong fairness of each branch of the
runtime's `select`, which picks among ready branches at random. Nothing is
assumed of the user, of crashes or of connections.

Every property of a passing run has a mutant in `PROJECT.json`: a change of one
operator that a plausible bug would make and that the same run finds (for example
`ForceFinishIfFirst`, an actor that leaves the answer to a task it has aborted).

## 8. Findings

* **A session without a contact** (`StraySession`). A connection that passed the
  check at `network/chat/transport.rs:344` gets its session at line 357, which
  may be after `replace_contacts` removed the peer and took its sessions. The
  session stays until the program ends, or the peer is added and removed again;
  its messages are refused, stream by stream, but it holds a permit and a
  connection, against lines 9 and 28 of `network/chat/README.md`. Adding the
  peer again finds it connected and publishes nothing, so the contact is shown
  as Connecting until something happens to the connection.
* **A conversation blocked by a full channel** (`BusySend`). When the effect
  channel is full, `dispatch_effect` drops the request and says "Application is
  busy; try again" (`tui/mod.rs:168`), but the contact is already marked as
  sending (`tui/app.rs:883`) and every retry returns early (`tui/app.rs:851`). The
  channel holds 64 (`application.rs:100`), so it takes a runtime that is kept
  busy, for instance by a slow disk. `SendingHasRequest` and `SendingEnds` hold
  in `ProgramMessages`, where the channel never fills.

## 9. Proofs

All theorems are about safety and hold for every value of the constants that
satisfies the assumptions named with them. The fair specifications imply the
plain ones, so they hold of those too.

**One session.** The assumption is `SessionAssumption`: bounds are natural numbers,
`Capacity` is not zero, `OutConn` and `NoConn` are names of their own.
`PeerSessionProofs` proves:

* `TypeCorrect` and `QueueAccounted` from one inductive invariant,
  `TypedAccounting`. Neither half is inductive alone: a slot can be released only
  because the counter is the length of the two queues.
* `PublishedState`: `StateMatchesPrimary`, inductive together with the types (an
  `Attach` names a real connection).

The same module builds on them, in the part about the messages that were admitted:

* `InHand`: `DeliveriesInHand` is an invariant, inductive together with
  `TypedAccounting`. The properties that matter are not inductive: `NoneStranded`
  says that somebody will answer a message that was given up, and to keep that
  over a report (`HandleOutboundFinished`) one must know that the report is true,
  that a task which can still answer belongs to the active delivery, and that a
  deadline task won only after the deadline; `AttemptedInOrder` needs that
  deliveries leave the channel and the queue at the head only, so that the ones
  waiting are exactly `Taken + 1 .. sent` in order (`Taken = sent - queued`, which
  is why the slot counter is part of the invariant).
* `NothingStranded`, `NothingOvertakes`: `NoneStranded` and `AttemptedInOrder`
  follow from it in every state.
* `Implements`: every step of a session is a step of `DeliveryContract` or leaves
  its variables alone; the invariant supplies whose turn it is and which
  unanswered messages are late when the session ends.

`PeerSlotProofs` adds the connections. Its invariant is `FullInv`: all of the
above and `SlotInv`.

* `SlotsCounted`, `NothingIdle`: `SlotAccounting` and `NoIdleConnection` are not
  inductive. A slot that is filled has counters of zero, and that is right only
  because nothing of its connection is under way yet (`FreshUnused`), which needs
  that a connection is handed to the actor once, by a message that is still true
  when it is read (`NotesSound`), and that the one dial opens at most one
  connection (`DialedOnce`). A report that finds no slot any more must find
  counters of zero (`OffSlots`), and a task is aborted only with its slot
  (`TaskOfSlot`): an aborted one may never report, and would be counted for ever.
* `PermitsKept`: `PermitsAccounted`, over every step a permit can take: from the
  budget into the control channel, from there to a handler or, when the slot is
  gone or the session ends, straight back. The handlers are a set
  (`RunningHandlers`) in order to be counted.
* `ShownUntilLost`, `RetiredIdle`: the action properties `ConnectedUntilLost` and
  `RetiredOnlyIdle`. The first needs that a `ConnectionClosed` is true, the second
  that the counters a retirement looks at are.

Every part of this invariant was checked by TLC on the instances of
`SessionConnections` and `SessionInbound` before it was proved;
`SessionDeliveries` checks `DeliveriesInHand`.

**The transport.** The assumptions are `TransportAssumption` (budgets and queues
are positive numbers; tasks and sessions are finite sets) and
`SessionsAssumption`: there are enough session ids for every peer at once, since
the code allocates a new actor and never fails to. `TransportProofs` proves one
invariant, `Inv == Typed /\ Owned /\ CallSound /\ Budgets /\ Owing`, and from it
`TransportTyped`, `Ownership`, `ContactsServed`, `BudgetsHold`,
`NothingForgotten` and, for steps, `StartUnbroken`.

* `Owned` makes `SessionsOwned` inductive. The sessions a call has yet to stop
  are alive and not in the table, and no entry of the table is dead; otherwise a
  session could end up with two owners, or an ended one be handed to a new
  connection.
* `ContactsHaveSessions` speaks of the time between calls. Over a call it becomes
  `CallSound`: a contact has a session, or the call under way has it on its list
  to give it one, and what the call removes is no contact any more. This holds
  although accept tasks that passed the check beforehand fill the table between
  the steps of the call.
* `BudgetsKept` counts permits held by tasks and by sessions. A dial outlives its
  session, so its permit is counted by the state of the dial; a session id is used
  again only when its dial is over (`Fresh`). That a dial gives its permit back is not
  a result: the code keeps the permit in a local variable of `connect_for`, and the
  model has no other place for it.

**A text from end to end.** `ExchangeIsTransport`: every behaviour of
`TextExchange` is one of `ChatTransport`, so all of the above holds in it.
`AnswersTrue`: `AnswersAreTrue`, for every number of peers, texts, handlers and
places in the queue, from `ExchangeInv`. A text has at most one handler and one
place, in that order (`Once`); `Accepted` is on a stream only when the text has
arrived, `Rejected` only when no handler has it or ever will (`Answered`); a peer
begins a text when the one before has ended (`OneByOne`), and this orders the
queue (`InOrder`). The proof corrected the property: its clause about order once
compared texts of different peers, which are delivered in any order. An instance
with one peer could not show that.

**The program.** `TuiAssumption` (queues have room, texts are numbers of which 0 is
the empty one) and `SecretsAssumption` come in addition. `UiProofs` shows that each
key, paste and command keeps the interface well formed (`UiTyped`) and what each of
them leaves alone (`Undisturbed`). `ProgramProofs` proves one invariant,
`ProgramInvariant`: `ProgramInv == Inv /\ UiTyped /\ ProcessSound /\ EventsTyped /\
StoreSound /\ ListFollows /\ MessagesFollow`, over `ProgramNext` as a whole, with
refused writes, quitting and dying. The steps of the transport are its own
(`TransportFrame`): they keep `Inv`, and of what the program reads they change only
how far a call is and what was received or published.

* `ProgramTyped`: `ProgramTypeOK`. Its clause that nothing is kept about a peer that
  is not listed is inductive only with the types of everything in the two queues.
* `ContactsStored`: `ShownContactsAreStored`. `ProcessSound` ties the runtime's list,
  the allowlist and the call of the transport to the step the runtime is in, so that
  a change is written once and then replaced; `StoreSound` says that a file can
  always be read, that what is written beside it is the list it will hold, and
  which of the two lists is on disk at every step of a change, also after a write
  was refused. `ListFollows` brings the screen in: about a contact, additions and
  removals alternate in the command queue, the first fits what the screen lists and
  the last what the runtime has. Without it a removal that overtakes an addition
  would satisfy the property until the queue is read.
* `PendingSettles`: `PendingMessageWillSettle`. `MessagesFollow` adds the messages
  not yet on the screen: the outcome of one that is still in the queue
  (`OutgoingQueued`) waits behind it. That holds because an outcome is told only
  when the message has been announced, and both go through the same queue.
* `ViewTrue` (`ViewProofs`): `ViewAgreesAtRest`. The property speaks of states with
  empty queues, so the invariant (`ViewInv`) says what will be shown once the queues
  are read. `ViewFollows`: for a contact whose session was made for it and has begun
  its dial, the last event about it says what the session shows; with no event
  waiting, the last command about it does; with no command either, the screen
  does. `SessionsFollow` is what makes this last through changes of the contacts: a
  session made for a contact dials before it shows anything else
  (`DialsFollow`), such sessions belong to contacts only, or to contacts a call is
  about to take away (`TableFollows`), and a session a call is to stop is none of
  a contact's (`CallFollows`). So a peer that is added again starts with a session
  the property excludes, until its dial announces itself, and no event of an earlier
  session comes after that announcement. For each step of the transport
  `TransportFollows` shows that a followed session keeps what it shows while nothing
  new is said of it, or an event says what it shows now (`Hears`).

* `SendingAnswered`: `SendingHasRequest`, of the behaviours in which no message is
  submitted while the effect channel is full (`[][RequestsFit]_vars`). Without the
  condition it is false, as `BusySend` shows; the theorem says that nothing else can
  break it: not an answer read in between, not a contact that is removed with a
  request under way, not the end of the runtime. TLC found the
  same on `BusySend`'s instance restricted to such behaviours, where one effect
  already fills the channel.
* `TransportServesProgram`: `SessionsOwned`, `ContactsHaveSessions`, `BudgetsKept` and
  `PendingHasSession` hold in the program as well, where the contacts come from the
  file and the screen, and the process is started, quits and dies.

For these proofs three steps of the model say what they did before in another form:
sorting, `retain` and the ascending order of a written list are the sets of lists
with that property (`Sorted`, `Retained`, `Ascending`), and the next message id is
taken from the set of such ids (`NextMessage`). The definitions of the library they
replace are recursive or a `CHOOSE`, of which the provers know nothing. Every
conjunct was checked by TLC on the instances of `ProgramContacts` and
`ProgramMessages` before it was proved, `ViewInv` included.

**The text fields and the panel.** The assumption is `PanelAssumption`: a character has
1 to 4 bytes, heights are positive, every other bound is a natural number or a set of
them. `PanelProofs` proves, for texts and chats of any length:

* `TextStaysUtf8`: `TextIsUtf8`. The invariant (`TextInv`) names the characters and
  where each begins (`Encodes`): the text is their bytes one after another, and the
  cursor is among them. Such a text can be cut only at the beginning of a character
  (`Before`, `After`) and two of them put together are one (`Join`). An edit is these
  two steps at the offsets `byte_at` gives, which are beginnings of characters because
  the cursor counts characters (`Decoded`).
* `EditorIsBuffer`: `EditsBuffer`. The same lemmas say what characters the two parts
  are, so that every edit is the one of `TextBuffer`.
* `DraftsShowCursor`: `RowsShowCursor`, by the arithmetic of the window that is cut
  from the text (`Window`).
* `TranscriptIsFilled`: `TranscriptFills`. The choice of the messages takes one after
  the other from the lowest (`ChosenStepwise`), the drawing from the highest that was
  chosen (`DrawnStepwise`). What has been chosen of the lowest `i` takes the sum of
  their heights with the space between them (`Stack`, `ChosenNext`), and each
  rectangle is drawn where those above it end (`DrawnNext`).

`TextIsUtf8` and the rows speak of what recursion and folds over sequences compute.
The library's induction theorems cannot be used here, so each such step takes the
least number at which the statement could fail (`LeastOf`, `UpTo`), and shows that the
one before would fail too. A fold is characterised the same way, by the least size
of a set it could have two values on (`FoldUnique`). For these proofs `Starts`, the
places at which the characters of a text begin, is the one ascending order of those
places; before, the places were sorted by an operator of the library.

**Only model-checked.**

* All liveness properties (`AdmittedSettles`, `ShutdownCompletes`, `ConnectingEnds`,
  `DrainingEnds`, `AnsweredUnlessDisturbed`, `StreamsEnd`, `ChangeEnds`, `SendingEnds`,
  `QuitEnds`): liveness under fairness is out of the proof system's reach.
* `SendingHasRequest` without the condition of `SendingAnswered`: `ProgramMessages`
  checks it where the channel never fills, and `BusySend` shows that it fails where
  it does.

## 10. Not modelled

* **Bytes of the wire protocol.** `TextExchange` has the kinds of documents and
  their ends, not the CBOR encoding, the length prefix and the size limits. A text
  `decode` refuses for its size is one of its `Other` documents.
* **The sessions of the other end.** Of the peer only its deliveries are modelled;
  otherwise it and the network may do anything: connect, lose, answer, reject.
  What needs the sessions of both ends (that both keep the same connection when
  they dial at once, a peer that restarts and finds its old connection) is not
  stated. Two composed sessions with their message tables are far out of reach of
  exhaustive checking at the detail of `PeerSession`, and at the detail of
  `ChatTransport` the answer would be put in by hand.
* **Rendering other than section 6, logging, command line, clipboard.** They keep
  no state that steers anything. Word wrapping is the terminal library's; the
  transcript takes the heights the code computes.
* **Status line, animations, details scroll, relays.** Written and shown only;
  the relay list is empty and nothing adds to it.
* **iroh, tokio, the keyring, the file system** are external: a connection may be
  lost, a stream answered or failed, a write refused at any time.
