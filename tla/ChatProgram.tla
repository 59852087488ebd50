----------------------------- MODULE ChatProgram ----------------------------
(***************************************************************************)
(* The whole program: interface, chat runtime, transport and storage       *)
(* (application.rs, application/chat_session.rs).  The runtime is one task *)
(* that selects between four channels and finishes what it took before it  *)
(* selects again; a task per message awaits its outcome.  The program can  *)
(* die at any moment and be started again; nothing but storage survives.   *)
(***************************************************************************)
EXTENDS TuiApp, Storage, ChatTransport

CONSTANT MaxCommands   \* bound: commands unread when another may be sent

VARIABLES
  phase,   \* of the process: "down", "booting" or "up"
  rt,      \* where the runtime task is
  known    \* SessionRuntime.contacts

rtVars  == <<rt, known>>
vars    == <<phase, rtVars, uiVars, effects, commands, storeVars, transportVars>>

Resting == [step |-> "resting", do |-> "None", peer |-> NoPeer]

\* add_contact_candidate and remove_contact_candidate.
Candidate == IF rt.do = "PersistContact" THEN known \cup {rt.peer} ELSE known \ {rt.peer}

\* emit: a command to an interface that has ended is dropped.
Tell(c)  == commands' = IF running THEN Append(commands, c) ELSE commands
TellNone == UNCHANGED commands

\* Bound: a backlog grows no further by events and changes of the contacts.
SmallBacklog == Len(commands) < MaxCommands /\ Len(events) <= MaxEvents

-----------------------------------------------------------------------------
(* The runtime's select loop.                                              *)

Selecting == phase = "up" /\ rt = Resting /\ op = NoOp

RtIncoming ==
  /\ Selecting
  /\ Receive
  /\ Tell(IncomingMessage(Head(incoming).peer, Head(incoming).id))
  /\ UNCHANGED <<phase, rtVars, uiVars, effects, storeVars>>

\* handle_connection_event: nothing is said of a peer that is no contact.
RtEvent ==
  /\ Selecting
  /\ events # <<>>
  /\ Len(commands) < MaxCommands
  /\ events' = Tail(events)
  /\ IF Head(events).peer \in known THEN Tell(ConnectionChanged(Head(events))) ELSE TellNone
  /\ UNCHANGED <<phase, rtVars, uiVars, effects, storeVars, allowlist, table, session, accept,
                 handler, incoming, taken, sent, connects, op>>

\* Takes the next effect.
Take(do) ==
  /\ Selecting
  /\ effects # <<>>
  /\ Head(effects).do = do
  /\ effects' = Tail(effects)
  /\ UNCHANGED <<phase, known, uiVars, storeVars>>

\* The clipboard's answer is a status.
RtCopyText == Take("CopyText") /\ UNCHANGED <<rt, commands, transportVars>>

\* The id of the next message, while there is one.
NextMessage == {m \in Outbound : sent[m] = Unsent /\ \A n \in Outbound : sent[n] = Unsent => m <= n}

\* Mutant: a refusal is only shown.
RtSendTextSilently ==
  /\ Take("SendText")
  /\ LET e == Head(effects)
     IN \/ \E m \in NextMessage :
             Send(e.peer, m) /\ Tell(OutgoingQueued(e.peer, m, e.body))
        \/ TellNone /\ UNCHANGED transportVars
  /\ UNCHANGED rt

\* send_text: the interface hears of the message before the task that will
\* tell its outcome is spawned.  It is refused if the session cannot take it,
\* and also if the text is too long, which a text here does not tell.
RtSendText ==
  /\ Take("SendText")
  /\ LET e == Head(effects)
     IN \/ \E m \in NextMessage :
             Send(e.peer, m) /\ Tell(OutgoingQueued(e.peer, m, e.body))
        \/ /\ Tell(Command("SendRejected", e.peer))
           /\ UNCHANGED transportVars
  /\ UNCHANGED rt

\* persist_contact, up to the repository.
RtPersistContact ==
  /\ Take("PersistContact") /\ SmallBacklog
  /\ LET p == Head(effects).peer
     IN IF p \in known
        THEN rt' = rt /\ Tell(Command("ContactAlreadyExists", p))
        ELSE rt' = [step |-> "saving", do |-> "PersistContact", peer |-> p] /\ TellNone
  /\ UNCHANGED transportVars

\* remove_contact: not while the contact is being connected.
RtRemoveContact ==
  /\ Take("RemoveContact") /\ SmallBacklog
  /\ LET p == Head(effects).peer
     IN rt' = IF p \in known /\ StateOf(p) # "Connecting"
              THEN [step |-> "saving", do |-> "RemoveContact", peer |-> p] ELSE rt
  /\ UNCHANGED <<commands, transportVars>>

RtEffect == RtCopyText \/ RtSendText \/ RtPersistContact \/ RtRemoveContact

-----------------------------------------------------------------------------
(* replace_contacts of the runtime: file, transport, own list, in order.   *)

RtWrite ==
  /\ phase = "up"
  /\ rt.step = "saving"
  /\ \/ CreateTemp /\ UNCHANGED rt
     \/ WriteTemp(Candidate) /\ UNCHANGED rt
     \/ Persist /\ rt' = [rt EXCEPT !.step = "saved"]
  /\ UNCHANGED <<phase, known, uiVars, effects, commands, transportVars>>

\* Mutant: an error on the way is told as a success.
RtWriteFailsTelling ==
  /\ phase = "up"
  /\ rt.step = "saving"
  /\ DropTemp
  /\ rt' = Resting
  /\ Tell(Command(IF rt.do = "PersistContact" THEN "ContactAdded" ELSE "ContactRemoved", rt.peer))
  /\ UNCHANGED <<phase, known, uiVars, effects, transportVars>>

\* An error of the repository: the contacts stay as they were.
RtWriteFails ==
  /\ phase = "up"
  /\ rt.step = "saving"
  /\ DropTemp
  /\ rt' = Resting
  /\ UNCHANGED <<phase, known, uiVars, effects, commands, transportVars>>

RtReplace ==
  /\ rt.step = "saved"
  /\ ReplaceContacts(Candidate)
  /\ rt' = [rt EXCEPT !.step = "replacing"]
  /\ UNCHANGED <<phase, known, uiVars, effects, commands, storeVars>>

\* What was asked for is done, and told.
RtReplaced ==
  /\ rt.step = "replacing"
  /\ op = NoOp
  /\ known' = Candidate
  /\ Tell(Command(IF rt.do = "PersistContact" THEN "ContactAdded" ELSE "ContactRemoved", rt.peer))
  /\ rt' = Resting
  /\ UNCHANGED <<phase, uiVars, effects, storeVars, transportVars>>

-----------------------------------------------------------------------------
(* The tasks that await an outcome (map_delivery).                         *)

RtReport(m) ==
  /\ phase = "up"
  /\ sent[m].outcome \in Outcomes
  /\ ~sent[m].told
  /\ sent' = [sent EXCEPT ![m].told = TRUE]
  /\ Tell(OutgoingSettled(sent[m].peer, m, sent[m].outcome))
  /\ UNCHANGED <<phase, rtVars, uiVars, effects, storeVars, allowlist, table, session, accept,
                 handler, incoming, taken, events, connects, op>>

-----------------------------------------------------------------------------
(* The process.                                                            *)

AllGone ==
  /\ phase' = "down"
  /\ rt' = Resting
  /\ known' = {}
  /\ UiStart(FALSE, <<>>, FALSE)
  /\ effects' = <<>>
  /\ StartTransport({})

\* application::run up to the identity; what was created is known from the
\* phase.
Boot ==
  /\ phase = "down"
  /\ \/ CreateKey /\ phase' = "created"
     \/ key # NoSecret /\ UNCHANGED storeVars /\ phase' = "booting"
  /\ UNCHANGED <<rtVars, uiVars, effects, commands, transportVars>>

\* The contacts are loaded, the transport is bound, the interface opens.
Launch ==
  /\ phase \in {"created", "booting"}
  /\ Loads(file)
  /\ phase' = "up"
  /\ rt' = Resting
  /\ known' = Range(Loaded(file))
  /\ UiStart(TRUE, Loaded(file), phase = "created")
  /\ effects' = <<>>
  /\ StartTransport(Range(Loaded(file)))
  /\ UNCHANGED storeVars

\* The interface has ended: the runtime, next time it selects, stops the
\* transport, whatever its other channels hold.
RtStop ==
  /\ Selecting
  /\ ~running
  /\ CloseTransport
  /\ rt' = [Resting EXCEPT !.step = "stopping"]
  /\ UNCHANGED <<phase, known, uiVars, effects, commands, storeVars>>

Exit ==
  /\ rt.step = "stopping"
  /\ op.step = "closed"
  /\ AllGone
  /\ UNCHANGED storeVars

\* The process dies, or cannot start.
Crash == phase # "down" /\ AllGone /\ DropTemp

-----------------------------------------------------------------------------

\* Bound: the user sends no more messages than there are ids.
UnusedIds == Cardinality({m \in Outbound : sent[m] = Unsent})

User ==
  /\ phase = "up"
  /\ \/ \E k \in Keys : Press(k)
     \/ PasteText
  /\ Cardinality(pending') <= UnusedIds
  /\ UNCHANGED <<phase, rtVars, storeVars, transportVars>>

Screen ==
  /\ ApplyCommand
  /\ UNCHANGED <<phase, rtVars, storeVars, transportVars>>

Runtime ==
  \/ RtIncoming \/ RtEvent \/ RtEffect
  \/ RtWrite \/ RtWriteFails \/ RtReplace \/ RtReplaced
  \/ RtStop
  \/ \E m \in Outbound : RtReport(m)

Transport ==
  /\ phase = "up"
  /\ TransportStep
  /\ UNCHANGED <<phase, rtVars, uiVars, effects, commands, storeVars>>

ProgramInit ==
  /\ phase = "down" /\ rt = Resting /\ known = {}
  /\ UiOff /\ StoreInit /\ Started({})

ProgramNext == User \/ Screen \/ Runtime \/ Transport \/ Boot \/ Launch \/ Exit \/ Crash

\* A step of the transport, in the program.
Lift(action) == phase = "up" /\ action /\ UNCHANGED <<phase, rtVars, uiVars, effects, commands, storeVars>>

\* A call the runtime is in the middle of goes on.
CallGoesOn ==
  \/ RtWrite \/ RtWriteFails \/ RtReplace \/ RtReplaced
  \/ Lift(Calls)
  \/ Exit

\* The scheduler runs every task that can run.  The select loop picks among
\* its ready channels at random, so a channel that is ready again and again
\* is served; a dial ends, by its deadline.
Fairness ==
  /\ WF_vars(Screen)
  /\ SF_vars(RtEvent) /\ SF_vars(RtEffect) /\ SF_vars(RtStop)
  /\ WF_vars(CallGoesOn)
  /\ \A s \in SessionIds :
       /\ WF_vars(Lift(BeginDial(s) \/ StopSession(s)))
       /\ WF_vars(Lift(DialSucceeds(s) \/ DialFails(s)))

ProgramSpec == ProgramInit /\ [][ProgramNext]_vars /\ Fairness

-----------------------------------------------------------------------------
(* Properties.                                                             *)

ProgramTypeOK ==
  /\ phase \in {"down", "booting", "created", "up"}
  /\ rt.step \in {"resting", "saving", "saved", "replacing", "stopping"}
  /\ known \subseteq Peers
  /\ phase # "up" => ~running /\ known = {} /\ Alive = {}
  /\ UiTypeOK
  /\ TransportTypeOK

Told(kind, p) == \E i \in DOMAIN commands : commands[i].kind = kind /\ commands[i].peer = p

AtRest == Selecting /\ running /\ events = <<>> /\ commands = <<>>

\* A session made for a connection that was accepted.  One made for a peer
\* that was no contact any more is the session of the contact when it is
\* added again, and what it published before was dropped (run StraySession).
Adopted(p) == table[p] # NoSession /\ session[table[p]].permit

\* When nothing is on its way between them, interface, runtime, transport
\* and file agree on who the contacts are, and what is shown of each is the
\* state of its session: no order of events, commands, dials, accepted
\* connections and changes of the contacts leaves a contact shown in a state
\* it is not in.  An event of an earlier session may be shown for a contact
\* that was added again, until the dial it was added with begins
\* (handle_connection_event).
ViewAgreesAtRest ==
  AtRest =>
    /\ Range(contacts) = known
    /\ allowlist = known
    /\ Loads(file) /\ Range(Loaded(file)) = known
    /\ \A p \in known :
         LET v == view[p]
             s == session[table[p]]
         IN \/ v.state = s.state /\ v.path = s.path /\ v.since = s.since
            \/ s.dial = "asked"
            \/ Adopted(p)

\* What is shown as a contact is on disk, unless its removal is on its way
\* to the screen: dying at any moment loses no contact the user saw added
\* (replace_contacts writes the file first, and tells last), and the file can
\* always be read, whatever write was cut short (replace writes beside it).
ShownContactsAreStored ==
  /\ Loads(file)
  /\ \A p \in Range(contacts) :
       \/ p \in Range(Loaded(file))
       \/ rt.do = "RemoveContact" /\ rt.peer = p
       \/ Told("ContactRemoved", p)

\* A message shown as pending will be settled: its session still owes it an
\* outcome, or the outcome is on its way to the screen (send_text tells the
\* message before it spawns the task that tells the outcome).
PendingMessageWillSettle ==
  running => \A p \in Peers : \A i \in DOMAIN chats[p] :
    LET m == chats[p][i].id
    IN chats[p][i].from = "Local" /\ chats[p][i].delivery = "Pending" =>
         \/ ~sent[m].told
         \/ \E j \in DOMAIN commands : commands[j].kind = "OutgoingSettled" /\ commands[j].id = m

\* A contact is marked as sending only while a request is under way: the
\* request waits for the runtime, or its answer for the screen.  A mark that
\* outlives its request would block every later message to the contact, and
\* dispatch_effect tells the user to try again.
SendingHasRequest ==
  running => \A p \in pending :
    \/ \E i \in DOMAIN effects : effects[i].do = "SendText" /\ effects[i].peer = p
    \/ Told("OutgoingQueued", p) \/ Told("SendRejected", p) \/ Told("ContactRemoved", p)

\* A message asked for is answered: the draft becomes a message or may be
\* sent again.
SendingEnds == \A p \in Peers : (p \in pending) ~> (p \notin pending \/ ~running)

\* A contact does not stay shown as being connected, which would keep the
\* user from sending to it, removing it and clearing its chat.
ConnectingEnds ==
  \A p \in Peers : (running /\ view[p].state = "Connecting")
                    ~> (~running \/ view[p].state # "Connecting" \/ Adopted(p))

\* Quitting ends the process, whatever the runtime was doing and whatever
\* waits for room in its queues.
QuitEnds == (phase = "up" /\ ~running) ~> (phase = "down")
=============================================================================
