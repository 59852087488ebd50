---------------------------- MODULE ProgramProofs ----------------------------
(***************************************************************************)
(* The program of ChatProgram, for every number of peers, sessions,        *)
(* messages and places in its queues, and with the process dying at any    *)
(* moment: its shapes, what is on disk, who is listed, and which messages  *)
(* are still owed an outcome.                                              *)
(***************************************************************************)
EXTENDS UiProofs

-----------------------------------------------------------------------------
(* The invariant.                                                          *)

\* A process that does not run holds nothing.  The transport has the contacts
\* the runtime has, but while it is given others, and a call of the transport
\* belongs to what the runtime is doing.
Changing == {"saving", "saved", "replacing"}

RtRecord == [step : {"resting", "saving", "saved", "replacing", "stopping"},
             do : {"None", "PersistContact", "RemoveContact"}, peer : Peers \cup {NoPeer}]

ProcessSound ==
  /\ phase \in {"down", "booting", "created", "up"}
  /\ phase # "up" => UiOff /\ Started({}) /\ rt = Resting /\ known = {}
  /\ rt \in RtRecord
  /\ known \in SUBSET Peers
  /\ rt.step \notin Changing => rt.do = "None"
  /\ rt.step \in Changing => /\ rt.do # "None" /\ rt.peer \in Peers
                             /\ rt.do = "PersistContact" <=> rt.peer \notin known
  /\ allowlist = IF rt.step = "replacing" THEN Candidate ELSE known
  /\ rt.step = "stopping" => ~running
  /\ op.step \in {"closing", "closed"} => rt.step = "stopping"
  /\ op.step \in {"taking", "stopping"} => rt.step = "replacing"

SoundEvent == {e \in EventRecord : FitsState(e)}
Received   == [peer : Peers \cup {NoPeer}, id : AnyId]

EventsTyped == events \in Seq(SoundEvent) /\ incoming \in Seq(Received)

\* A list of contacts that can be read back.
IsList(s) == s \in Seq(Peers) /\ IsInjective(s)

\* The file can be read, what is written beside it is what will be in it, and
\* it has the contacts of the runtime, or those it is changing to.
StoreSound ==
  /\ file = NoFile \/ (file = List(file.peers) /\ IsList(file.peers))
  /\ \/ temp \in {NoFile, Torn}
     \/ /\ temp = List(temp.peers) /\ IsList(temp.peers)
        /\ rt.step = "saving" /\ Range(temp.peers) = Candidate
  /\ phase = "up" =>
       Range(Loaded(file)) = IF rt.step \in {"saved", "replacing"} THEN Candidate ELSE known

\* Where the commands of a kind about p wait.
SaidAt(kind, p) == {i \in DOMAIN commands : commands[i].kind = kind /\ commands[i].peer = p}

\* The screen lists what the runtime has, as soon as it has read what it was
\* told: a contact is added to a list that does not have it.  p is told added
\* at A and removed at R, L are listed and K are what the runtime has.
Follows(A, R, p, L, K) ==
  /\ \A i, j \in A : i < j => \E l \in R : i < l /\ l < j
  /\ p \in L => \A j \in A : \E l \in R : l < j
  /\ p \notin K => \A i \in A : \E l \in R : i < l
  /\ p \in L \ K => R # {}
  /\ p \in K => \/ p \in L /\ R = {}
                \/ \E i \in A : \A l \in R : l < i

ListFollows ==
  running => \A p \in Peers :
    Follows(SaidAt("ContactAdded", p), SaidAt("ContactRemoved", p), p, Range(contacts), known)

\* The outcome of m has not been told, or is on its way behind command i.
WillSettle(m, p, i) ==
  /\ m \in Outbound /\ sent[m].peer = p
  /\ \/ ~sent[m].told
     \/ \E j \in SaidAt("OutgoingSettled", p) : j > i /\ commands[j].id = m

\* No message is shown, or will be, whose outcome was told before.
MessagesFollow ==
  \A p \in Peers :
    /\ \A i \in SaidAt("OutgoingQueued", p) : WillSettle(commands[i].id, p, i)
    /\ \A k \in DOMAIN chats[p] :
         chats[p][k].from = "Local" /\ chats[p][k].delivery = "Pending"
           => WillSettle(chats[p][k].id, p, 0)

ProgramInv ==
  /\ Inv /\ UiTyped
  /\ ProcessSound /\ EventsTyped /\ StoreSound /\ ListFollows /\ MessagesFollow

-----------------------------------------------------------------------------
(* Steps of the transport, in the program.                                 *)

\* What a session says of itself.
EventOf(r) == ConnEvent(r.peer, r.state, r.path, r.since)

LEMMA EventSound ==
  ASSUME NEW r, Sound(r)
  PROVE  EventOf(r) \in SoundEvent
<1>1. /\ r.peer \in Peers \cup {NoPeer} /\ r.state \in ConnStates
      /\ r.path \in AnyPath /\ r.since \in 0..MaxConnects
      /\ r.state = "Connected" <=> r.since # NoTime
      /\ r.state # "Connected" => r.path = "Unknown"
  BY DEF Sound, SessionRecord
<1>2. EventOf(r) \in EventRecord
  BY <1>1 DEF EventOf, ConnEvent, EventRecord
<1>3. FitsState(EventOf(r))
  BY <1>1 DEF EventOf, ConnEvent, FitsState
<1> QED
  BY <1>2, <1>3 DEF SoundEvent

\* The call under way goes on, ends, or stays what it is.
CallMoves ==
  \/ op'.step = op.step
  \/ op.step = "taking" /\ op'.step = "stopping"
  \/ op.step = "stopping" /\ op' = NoOp
  \/ op.step = "closing" /\ op'.step = "closed"

\* A message keeps its peer, and whether its outcome was told.
SentFollows ==
  \A m \in Outbound : sent'[m].peer = sent[m].peer /\ sent'[m].told = sent[m].told

Said == Silent \/ \E s \in SessionIds : Emit(s)

\* What the actors of sessions do to the rest of the program.
LEMMA ActorFrame ==
  ASSUME Inv, NEW s \in SessionIds,
         \/ BeginDial(s) \/ StartDial(s) \/ DialSucceeds(s) \/ DialFails(s)
         \/ ConnectionLost(s) \/ PathChanged(s)
  PROVE  UNCHANGED <<allowlist, op, sent, incoming>> /\ Said
<1>1. CASE BeginDial(s)
  BY <1>1, Zenon DEF BeginDial, Said
<1>2. CASE StartDial(s)
  BY <1>2, Zenon DEF StartDial, Said, Silent
<1>3. CASE DialSucceeds(s)
  <2>1. UNCHANGED <<allowlist, op, sent, incoming>>
    BY <1>3, Zenon DEF DialSucceeds
  <2>2. events' = events \/ Attach(s, [session[s] EXCEPT !.dial = "done"], "Outbound")
    BY <1>3, Zenon DEF DialSucceeds
  <2>3. Said
    BY <2>2, Zenon DEF Attach, Said, Silent
  <2> QED
    BY <2>1, <2>3
<1>4. CASE DialFails(s)
  BY <1>4, Zenon DEF DialFails, Said
<1>5. CASE ConnectionLost(s)
  BY <1>5, Zenon DEF ConnectionLost, Said
<1>6. CASE PathChanged(s)
  BY <1>6, Zenon DEF PathChanged, Said
<1> QED
  BY <1>1, <1>2, <1>3, <1>4, <1>5, <1>6

LEMMA AttachInboundFrame ==
  ASSUME Inv, NEW i \in Accepts, AttachInbound(i)
  PROVE  UNCHANGED <<allowlist, op, sent, incoming>> /\ Said
<1>1. UNCHANGED <<allowlist, op, sent, incoming>>
  BY Zenon DEF AttachInbound
<1>2. CASE events' = events
  BY <1>1, <1>2, Zenon DEF Said, Silent
<1>3. CASE \E t, r : t \in SessionIds /\ Attach(t, r, "Inbound")
  BY <1>1, <1>3, Zenon DEF Attach, Said, Silent
<1>4. events' = events \/ \E t, r : t \in SessionIds /\ Attach(t, r, "Inbound")
  <2>1. accept[i].peer \in Peers
    BY DEF Inv, Typed, AcceptsTyped, AttachInbound
  <2>2. table[accept[i].peer] \in SessionIds \cup {NoSession}
    BY <2>1 DEF Inv, Typed, TableTyped
  <2>3. Unused # {} => Fresh \in SessionIds
    BY FreshUnused
  <2> QED
    BY <2>2, <2>3 DEF AttachInbound
<1> QED
  BY <1>2, <1>3, <1>4

\* A message a stream hands over is one that can be received.
LEMMA StreamFrame ==
  ASSUME Inv, EventsTyped, Streams
  PROVE  UNCHANGED <<allowlist, op, sent, events>> /\ incoming' \in Seq(Received)
<1>1. PICK h \in Handlers :
        OpenStream(h) \/ ReadMessage(h) \/ Enqueue(h) \/ WriteReceipt(h) \/ ResetStream(h)
  BY DEF Streams
<1>2. UNCHANGED <<allowlist, op, sent, events>>
  BY <1>1 DEF OpenStream, ReadMessage, Enqueue, WriteReceipt, ResetStream
<1>3. CASE incoming' = incoming
  BY <1>2, <1>3 DEF EventsTyped
<1>4. CASE incoming' = Append(incoming, [peer |-> handler[h].peer, id |-> handler[h].id])
  <2>1. [peer |-> handler[h].peer, id |-> handler[h].id] \in Received
    BY DEF Inv, Typed, HandlersTyped, Received, AnyId
  <2> QED
    BY <1>2, <1>4, <2>1 DEF EventsTyped
<1> QED
  BY <1>1, <1>3, <1>4 DEF OpenStream, ReadMessage, Enqueue, WriteReceipt, ResetStream

\* What the calls do to it: a session that stops resolves its messages.
LEMMA CallFrame ==
  ASSUME Inv, Calls \/ \E s \in SessionIds : StopSession(s)
  PROVE  UNCHANGED <<allowlist, events, incoming>> /\ CallMoves /\ SentFollows
<1>1. op.step \in OpSteps
  BY OpFields DEF Inv, Typed, TableTyped
<1>2. CASE TakeRemoved
  <2>1. op' = [op EXCEPT !.step = "stopping", !.stop = SessionsOf(op.removed), !.removed = {}]
    BY <1>2 DEF TakeRemoved
  <2>2. op'.step = "stopping"
    BY <2>1 DEF Inv, Typed, TableTyped, OpRecord
  <2> QED
    BY <1>2, <2>2 DEF TakeRemoved, CallMoves, SentFollows
<1>3. CASE \E p \in Peers : EnsureOutbound(p)
  <2>1. op'.step = op.step
    BY <1>3 DEF EnsureOutbound, Inv, Typed, TableTyped, OpRecord
  <2> QED
    BY <1>3, <2>1 DEF EnsureOutbound, CallMoves, SentFollows
<1>4. CASE Replaced
  BY <1>4 DEF Replaced, CallMoves, SentFollows
<1>5. CASE Closed
  <2>1. op'.step = "closed"
    BY <1>5 DEF Closed, Inv, Typed, TableTyped, OpRecord
  <2> QED
    BY <1>5, <2>1 DEF Closed, CallMoves, SentFollows
<1>6. CASE \E s \in SessionIds : StopSession(s)
  <2>1. PICK s \in SessionIds : EndSession(s, Remains(s), Resolved(s))
    BY <1>6 DEF StopSession
  <2>2. op'.step = op.step
    BY <2>1 DEF EndSession, Inv, Typed, TableTyped, OpRecord
  <2>3. sent' = Resolved(s)
    BY <2>1 DEF EndSession
  <2>4. SentFollows
    <3>1. SUFFICES ASSUME NEW m \in Outbound
                   PROVE  sent'[m].peer = sent[m].peer /\ sent'[m].told = sent[m].told
      BY DEF SentFollows
    <3>2. sent[m] \in SentRecord
      BY DEF Inv, Typed, SentTyped, SentRecord
    <3>3. sent'[m] = IF m \in InFlight(s) THEN [sent[m] EXCEPT !.outcome = "Failed"] ELSE sent[m]
      BY <2>3, Zenon DEF Resolved
    <3> QED
      BY <3>2, <3>3 DEF SentRecord
  <2> QED
    BY <2>1, <2>2, <2>4 DEF EndSession, CallMoves
<1> QED
  BY <1>2, <1>3, <1>4, <1>5, <1>6 DEF Calls

LEMMA SettleFrame ==
  ASSUME Inv, NEW m \in Outbound, Settle(m)
  PROVE  UNCHANGED <<allowlist, op, events, incoming>> /\ SentFollows
<1>1. PICK o \in Outcomes : sent' = [sent EXCEPT ![m].outcome = o]
  BY DEF Settle
<1>2. sent \in [Outbound -> SentRecord]
  BY DEF Inv, Typed, SentTyped, SentRecord
<1>3. SentFollows
  BY <1>1, <1>2 DEF SentFollows, SentRecord
<1> QED
  BY <1>3, Zenon DEF Settle

\* A step of the transport as the rest of the program sees it.
LEMMA TransportFrame ==
  ASSUME Inv, EventsTyped, TransportStep
  PROVE  /\ Inv' /\ EventsTyped'
         /\ allowlist' = allowlist /\ CallMoves /\ SentFollows
<1>1. Inv'
  BY TransportStepKeeps
<1>2. ASSUME Said, UNCHANGED incoming
      PROVE  EventsTyped'
  <2>1. CASE Silent
    BY <1>2, <2>1 DEF Silent, EventsTyped
  <2>2. CASE \E s \in SessionIds : Emit(s)
    <3>1. PICK s \in SessionIds : events' = Append(events, EventOf(session'[s]))
      BY <2>2, Zenon DEF Emit, EventOf
    <3>2. Sound(session'[s])
      BY <1>1 DEF Inv, Typed, SessionsTyped
    <3>3. EventOf(session'[s]) \in SoundEvent
      BY <3>2, EventSound
    <3> QED
      BY <1>2, <3>1, <3>3 DEF EventsTyped
  <2> QED
    BY <1>2, <2>1, <2>2 DEF Said
<1>3. UNCHANGED op => CallMoves
  BY DEF CallMoves
<1>4. UNCHANGED sent => SentFollows
  BY DEF SentFollows
<1>5. CASE \E s \in SessionIds : \/ BeginDial(s) \/ StartDial(s) \/ DialSucceeds(s) \/ DialFails(s)
                                 \/ ConnectionLost(s) \/ PathChanged(s)
  <2>1. UNCHANGED <<allowlist, op, sent, incoming>> /\ Said
    BY <1>5, ActorFrame
  <2> QED
    BY <1>1, <1>2, <1>3, <1>4, <2>1
<1>6. CASE Calls \/ \E s \in SessionIds : StopSession(s)
  <2>1. UNCHANGED <<allowlist, events, incoming>> /\ CallMoves /\ SentFollows
    BY <1>6, CallFrame
  <2> QED
    BY <1>1, <2>1 DEF EventsTyped
<1>7. CASE Acceptors
  <2>1. UNCHANGED <<allowlist, op, sent, incoming>> /\ Said
    <3>1. PICK i \in Accepts : Incoming(i) \/ DropConnection(i) \/ Authorise(i) \/ AttachInbound(i)
      BY <1>7 DEF Acceptors
    <3>2. CASE AttachInbound(i)
      BY <3>2, AttachInboundFrame
    <3>3. CASE Incoming(i) \/ DropConnection(i) \/ Authorise(i)
      BY <3>3 DEF Incoming, DropConnection, Authorise, Said, Silent
    <3> QED
      BY <3>1, <3>2, <3>3
  <2> QED
    BY <1>1, <1>2, <1>3, <1>4, <2>1
<1>8. CASE Streams
  <2>1. UNCHANGED <<allowlist, op, sent, events>> /\ incoming' \in Seq(Received)
    BY <1>8, StreamFrame
  <2> QED
    BY <1>1, <1>3, <1>4, <2>1 DEF EventsTyped
<1>9. CASE \E m \in Outbound : Settle(m)
  <2>1. UNCHANGED <<allowlist, op, events, incoming>> /\ SentFollows
    BY <1>9, SettleFrame
  <2> QED
    BY <1>1, <1>3, <2>1 DEF EventsTyped
<1> QED
  BY <1>5, <1>6, <1>7, <1>8, <1>9 DEF TransportStep, Actors

-----------------------------------------------------------------------------
(* What the runtime tells the interface.                                   *)

\* A command is added behind the others, while there is an interface.
LEMMA TellAppends ==
  ASSUME UiTyped, NEW c \in CommandRecord, Tell(c)
  PROVE  /\ commands' \in Seq(CommandRecord)
         /\ ~running => commands = <<>> /\ commands' = <<>>
         /\ running => /\ DOMAIN commands' = 1..Len(commands) + 1 /\ Len(commands') = Len(commands) + 1
                       /\ \A i \in 1..Len(commands) : commands'[i] = commands[i]
                       /\ commands'[Len(commands) + 1] = c
<1>1. commands \in Seq(CommandRecord) /\ (~running => commands = <<>>) /\ running \in BOOLEAN
  BY DEF UiTyped, QueuesTyped, EndedEmpty, NavTyped
<1>2. CASE running
  <2>1. commands' = Append(commands, c)
    BY <1>2 DEF Tell
  <2> QED
    BY <1>1, <1>2, <2>1
<1>3. CASE ~running
  BY <1>1, <1>3 DEF Tell
<1> QED
  BY <1>2, <1>3

LEMMA CommandsListed ==
  ASSUME UiTyped
  PROVE  commands \in Seq(CommandRecord) /\ Len(commands) \in Nat /\ DOMAIN commands = 1..Len(commands)
<1>1. commands \in Seq(CommandRecord)
  BY DEF UiTyped, QueuesTyped
<1> QED
  BY <1>1

\* What the runtime says is one command, or nothing.
Tells(c) == commands' = commands \/ (c \in CommandRecord /\ Tell(c))

LEMMA TellsTyped ==
  ASSUME UiTyped, NEW c, Tells(c), UNCHANGED uiVars,
         effects' \in Seq(EffectRecord), Len(effects') <= EffectCapacity
  PROVE  UiTyped'
<1>1. UNCHANGED <<running, focus, mode, tab, index, overlay, contacts, view, chats, scroll, drafts,
                  pending, dataVars, textVars>>
  BY DEF uiVars, navVars, dataVars, textVars
<1>2. NavTyped' /\ ListTyped' /\ OverlayTyped' /\ DataTyped'
  BY <1>1, RestTyped
<1>3. commands' \in Seq(CommandRecord) /\ (~running => contacts = <<>> /\ commands' = <<>>)
  BY TellAppends DEF Tells, UiTyped, QueuesTyped, EndedEmpty
<1> QED
  BY <1>1, <1>2, <1>3 DEF UiTyped, QueuesTyped, EndedEmpty

\* The commands told before are where they were.
LEMMA TellsSays ==
  ASSUME UiTyped, NEW c, Tells(c), NEW n, n = Len(commands)
  PROVE  /\ n \in Nat /\ DOMAIN commands = 1..n
         /\ \/ DOMAIN commands' = 1..n
            \/ /\ DOMAIN commands' = 1..n + 1
               /\ running /\ c \in CommandRecord /\ commands'[n + 1] = c
         /\ \A i \in 1..n : commands'[i] = commands[i]
<1>1. commands \in Seq(CommandRecord) /\ n \in Nat /\ DOMAIN commands = 1..n
  BY CommandsListed
<1>2. CASE commands' = commands
  BY <1>1, <1>2
<1>3. CASE c \in CommandRecord /\ Tell(c) /\ running
  <2>1. commands' = Append(commands, c)
    BY <1>3 DEF Tell
  <2> QED
    BY <1>1, <1>3, <2>1
<1>4. CASE Tell(c) /\ ~running
  <2>1. commands' = commands
    BY <1>4, Zenon DEF Tell
  <2> QED
    BY <1>1, <2>1
<1> QED
  BY <1>2, <1>3, <1>4 DEF Tells

\* Where they wait is where they waited, and where a new one is added.
LEMMA SaidTold ==
  ASSUME UiTyped, NEW c, Tells(c), NEW kind, NEW p
  PROVE  /\ SaidAt(kind, p) \in SUBSET (1..Len(commands)) /\ Len(commands) \in Nat
         /\ c.kind # kind \/ c.peer # p => SaidAt(kind, p)' = SaidAt(kind, p)
         /\ SaidAt(kind, p)' \in {SaidAt(kind, p), SaidAt(kind, p) \cup {Len(commands) + 1}}
         /\ \A i \in 1..Len(commands) : commands'[i] = commands[i]
<1> DEFINE n == Len(commands)
<1>1. /\ n \in Nat /\ DOMAIN commands = 1..n
      /\ \/ DOMAIN commands' = 1..n
         \/ DOMAIN commands' = 1..n + 1 /\ commands'[n + 1] = c
      /\ \A i \in 1..n : commands'[i] = commands[i]
  BY TellsSays
<1> HIDE DEF n
<1>2. SaidAt(kind, p) \in SUBSET (1..n)
  BY <1>1 DEF SaidAt
<1>3. CASE DOMAIN commands' = 1..n
  BY <1>1, <1>2, <1>3 DEF SaidAt, n
<1>4. CASE DOMAIN commands' = 1..n + 1 /\ commands'[n + 1] = c
  <2>1. \A i \in 1..n : i \in SaidAt(kind, p)' <=> i \in SaidAt(kind, p)
    BY <1>1, <1>4 DEF SaidAt
  <2>2. n + 1 \in SaidAt(kind, p)' <=> c.kind = kind /\ c.peer = p
    BY <1>1, <1>4 DEF SaidAt
  <2>3. SaidAt(kind, p)' \subseteq 1..n + 1
    BY <1>4 DEF SaidAt
  <2>4. SaidAt(kind, p)' \subseteq (1..n) \cup {n + 1} /\ n + 1 \notin 1..n
    BY <1>1, <2>3
  <2>5. n + 1 \notin SaidAt(kind, p)' => SaidAt(kind, p)' = SaidAt(kind, p)
    BY <1>2, <2>1, <2>4, Zenon
  <2>6. n + 1 \in SaidAt(kind, p)' => SaidAt(kind, p)' = SaidAt(kind, p) \cup {n + 1}
    BY <1>2, <2>1, <2>4, Zenon
  <2>7. c.kind # kind \/ c.peer # p => SaidAt(kind, p)' = SaidAt(kind, p)
    BY <2>2, <2>5, Zenon
  <2>8. SaidAt(kind, p)' \in {SaidAt(kind, p), SaidAt(kind, p) \cup {n + 1}}
    BY <2>5, <2>6, Zenon
  <2> QED
    BY <1>1, <1>2, <2>7, <2>8, Zenon DEF n
<1> QED
  BY <1>1, <1>3, <1>4

LEMMA SaidNew ==
  ASSUME UiTyped, running, NEW c \in CommandRecord, Tell(c)
  PROVE  /\ SaidAt(c.kind, c.peer)' = SaidAt(c.kind, c.peer) \cup {Len(commands) + 1}
         /\ commands'[Len(commands) + 1] = c
<1> DEFINE n == Len(commands)
<1>1. commands \in Seq(CommandRecord) /\ n \in Nat /\ DOMAIN commands = 1..n
  BY CommandsListed
<1>2. commands' = Append(commands, c)
  BY DEF Tell
<1>3. /\ DOMAIN commands' = 1..n + 1 /\ commands'[n + 1] = c
      /\ \A i \in 1..n : commands'[i] = commands[i]
  BY <1>1, <1>2
<1> HIDE DEF n
<1>4. \A i \in 1..n + 1 :
        i \in SaidAt(c.kind, c.peer)' <=> i \in SaidAt(c.kind, c.peer) \/ i = n + 1
  BY <1>1, <1>3 DEF SaidAt
<1>5. SaidAt(c.kind, c.peer)' \subseteq 1..n + 1 /\ SaidAt(c.kind, c.peer) \subseteq 1..n
  BY <1>1, <1>3 DEF SaidAt
<1> QED
  BY <1>1, <1>3, <1>4, <1>5 DEF n

\* When the oldest is read the others move up.
MovedUp(S, T) == T \subseteq Nat \ {0} /\ \A i \in Nat \ {0} : i \in T <=> i + 1 \in S

LEMMA SaidRead ==
  ASSUME UiTyped, commands # <<>>, commands' = Tail(commands), NEW kind, NEW p
  PROVE  /\ MovedUp(SaidAt(kind, p), SaidAt(kind, p)')
         /\ SaidAt(kind, p) \subseteq Nat \ {0}
         /\ 1 \in SaidAt(kind, p) <=> Head(commands).kind = kind /\ Head(commands).peer = p
         /\ \A i \in Nat \ {0} : i + 1 \in SaidAt(kind, p) => commands'[i] = commands[i + 1]
<1> DEFINE n == Len(commands)
<1>1. commands \in Seq(CommandRecord) /\ n \in Nat /\ DOMAIN commands = 1..n
  BY CommandsListed
<1>2. n # 0 /\ Head(commands) = commands[1]
  BY <1>1
<1>3. /\ DOMAIN commands' = 1..n - 1
      /\ \A i \in 1..n - 1 : commands'[i] = commands[i + 1]
  BY <1>1, <1>2
<1> HIDE DEF n
<1>4. \A i \in Nat \ {0} : i \in 1..n - 1 <=> i + 1 \in 1..n
  BY <1>1
<1>5. MovedUp(SaidAt(kind, p), SaidAt(kind, p)')
  BY <1>1, <1>3, <1>4 DEF SaidAt, MovedUp
<1>6. 1 \in SaidAt(kind, p) <=> Head(commands).kind = kind /\ Head(commands).peer = p
  BY <1>1, <1>2 DEF SaidAt
<1>7. \A i \in Nat \ {0} : i + 1 \in SaidAt(kind, p) => commands'[i] = commands[i + 1]
  BY <1>1, <1>3, <1>4 DEF SaidAt
<1>8. SaidAt(kind, p) \subseteq Nat \ {0}
  BY <1>1 DEF SaidAt
<1> QED
  BY <1>5, <1>6, <1>7, <1>8, Zenon

-----------------------------------------------------------------------------
(* The list on the screen follows.                                         *)

\* A command is read that adds or removes p, or is about something else.
LEMMA FollowsMoved ==
  ASSUME NEW A \in SUBSET (Nat \ {0}), NEW R \in SUBSET (Nat \ {0}), NEW B, NEW S,
         MovedUp(A, B), MovedUp(R, S), NEW p, NEW L, NEW K, Follows(A, R, p, L, K)
  PROVE  /\ 1 \in A /\ 1 \notin R => p \notin L /\ Follows(B, S, p, L \cup {p}, K)
         /\ 1 \in R /\ 1 \notin A => Follows(B, S, p, L \ {p}, K)
         /\ 1 \notin A /\ 1 \notin R => Follows(B, S, p, L, K)
<1>1. /\ B \in SUBSET (Nat \ {0}) /\ S \in SUBSET (Nat \ {0})
      /\ \A i \in Nat \ {0} : i \in B <=> i + 1 \in A
      /\ \A i \in Nat \ {0} : i \in S <=> i + 1 \in R
  BY DEF MovedUp
<1>2. /\ \A i \in A : i = 1 \/ (i - 1 \in Nat \ {0} /\ i - 1 \in B)
      /\ \A i \in R : i = 1 \/ (i - 1 \in Nat \ {0} /\ i - 1 \in S)
  BY <1>1
<1>3. CASE 1 \in A /\ 1 \notin R
  <2>1. p \notin L
    BY <1>3 DEF Follows
  <2>2. \A i, j \in B : i < j => \E l \in S : i < l /\ l < j
    BY <1>1, <1>2, <1>3 DEF Follows
  <2>3. \A j \in B : \E l \in S : l < j
    <3>1. SUFFICES ASSUME NEW j \in B PROVE \E l \in S : l < j
      OBVIOUS
    <3>2. \E l \in R : 1 < l /\ l < j + 1
      BY <1>1, <1>3 DEF Follows
    <3> QED
      BY <1>1, <1>2, <3>2
  <2>4. p \notin K => \A i \in B : \E l \in S : i < l
    BY <1>1, <1>2, <1>3 DEF Follows
  <2>5. p \notin K => S # {}
    BY <1>1, <1>2, <1>3 DEF Follows
  <2>6. p \in K => S = {} \/ \E i \in B : \A l \in S : l < i
    <3>1. SUFFICES ASSUME p \in K PROVE S = {} \/ \E i \in B : \A l \in S : l < i
      OBVIOUS
    <3>2. PICK i \in A : \A l \in R : l < i
      BY <2>1, <3>1 DEF Follows
    <3>3. CASE i = 1
      BY <1>1, <1>2, <3>2, <3>3
    <3>4. CASE i # 1
      BY <1>1, <1>2, <3>2, <3>4
    <3> QED
      BY <3>3, <3>4
  <2> QED
    BY <1>3, <2>1, <2>2, <2>3, <2>4, <2>5, <2>6 DEF Follows
<1>4. CASE 1 \in R /\ 1 \notin A
  <2>2. \A i, j \in B : i < j => \E l \in S : i < l /\ l < j
    BY <1>1, <1>2, <1>4 DEF Follows
  <2>4. p \notin K => \A i \in B : \E l \in S : i < l
    BY <1>1, <1>2, <1>4 DEF Follows
  <2>6. p \in K => \E i \in B : \A l \in S : l < i
    <3>1. SUFFICES ASSUME p \in K PROVE \E i \in B : \A l \in S : l < i
      OBVIOUS
    <3>2. PICK i \in A : \A l \in R : l < i
      BY <1>4, <3>1 DEF Follows
    <3> QED
      BY <1>1, <1>2, <1>4, <3>2
  <2> QED
    BY <1>4, <2>2, <2>4, <2>6 DEF Follows
<1>5. CASE 1 \notin A /\ 1 \notin R
  <2>2. \A i, j \in B : i < j => \E l \in S : i < l /\ l < j
    BY <1>1, <1>2, <1>5 DEF Follows
  <2>3. p \in L => \A j \in B : \E l \in S : l < j
    BY <1>1, <1>2, <1>5 DEF Follows
  <2>4. p \notin K => \A i \in B : \E l \in S : i < l
    BY <1>1, <1>2, <1>5 DEF Follows
  <2>5. p \in L \ K => S # {}
    <3>1. SUFFICES ASSUME p \in L \ K PROVE S # {}
      OBVIOUS
    <3>2. PICK l \in R : TRUE
      BY <3>1 DEF Follows
    <3>3. l - 1 \in S
      BY <1>2, <1>5, <3>2
    <3> QED
      BY <3>3
  <2>6. p \in K => \/ p \in L /\ S = {}
                   \/ \E i \in B : \A l \in S : l < i
    <3>1. CASE p \in L /\ R = {}
      BY <1>1, <3>1
    <3>2. CASE \E i \in A : \A l \in R : l < i
      <4>1. PICK i \in A : \A l \in R : l < i
        BY <3>2
      <4> QED
        BY <1>1, <1>2, <1>5, <4>1
    <3> QED
      BY <3>1, <3>2 DEF Follows
  <2> QED
    BY <1>5, <2>2, <2>3, <2>4, <2>5, <2>6 DEF Follows
<1> QED
  BY <1>3, <1>4, <1>5

\* The runtime changes its contacts and tells it.
LEMMA FollowsChanged ==
  ASSUME NEW n \in Nat, NEW A \in SUBSET (1..n), NEW R \in SUBSET (1..n),
         NEW p, NEW L, NEW K, Follows(A, R, p, L, K)
  PROVE  /\ p \notin K => Follows(A \cup {n + 1}, R, p, L, K \cup {p})
         /\ p \in K => Follows(A, R \cup {n + 1}, p, L, K \ {p})
<1>1. \A i \in A \cup R : i \in Nat /\ i < n + 1
  OBVIOUS
<1>2. ASSUME p \notin K
      PROVE  Follows(A \cup {n + 1}, R, p, L, K \cup {p})
  <2>1. \A i, j \in A \cup {n + 1} : i < j => \E l \in R : i < l /\ l < j
    <3>1. \A i \in A : \E l \in R : i < l
      BY <1>2, Zenon DEF Follows
    <3>2. \A i, j \in A : i < j => \E l \in R : i < l /\ l < j
      BY Zenon DEF Follows
    <3> QED
      BY <1>1, <3>1, <3>2
  <2>2. p \in L => \A j \in A \cup {n + 1} : \E l \in R : l < j
    <3>1. SUFFICES ASSUME p \in L PROVE \A j \in A \cup {n + 1} : \E l \in R : l < j
      OBVIOUS
    <3>2. \A j \in A : \E l \in R : l < j
      BY <3>1, Zenon DEF Follows
    <3>3. PICK l \in R : TRUE
      BY <1>2, <3>1 DEF Follows
    <3> QED
      BY <1>1, <3>2, <3>3
  <2>3. \A l \in R : l < n + 1
    BY <1>1
  <2> QED
    BY <2>1, <2>2, <2>3, Zenon DEF Follows
<1>3. ASSUME p \in K
      PROVE  Follows(A, R \cup {n + 1}, p, L, K \ {p})
  <2>1. \A i, j \in A : i < j => \E l \in R \cup {n + 1} : i < l /\ l < j
    BY Zenon DEF Follows
  <2>2. p \in L => \A j \in A : \E l \in R \cup {n + 1} : l < j
    BY Zenon DEF Follows
  <2>3. \A i \in A : \E l \in R \cup {n + 1} : i < l
    BY <1>1
  <2> QED
    BY <2>1, <2>2, <2>3, Zenon DEF Follows
<1> QED
  BY <1>2, <1>3

\* Only whether p is in the lists matters.
LEMMA FollowsSame ==
  ASSUME NEW A, NEW R, NEW p, NEW L, NEW K, NEW M, NEW N, Follows(A, R, p, L, K),
         p \in L <=> p \in M, p \in K <=> p \in N
  PROVE  Follows(A, R, p, M, N)
  BY Zenon DEF Follows

\* Something else is said, or nothing.
LEMMA ListStays ==
  ASSUME UiTyped, ListFollows, NEW c, Tells(c), c.kind \notin {"ContactAdded", "ContactRemoved"},
         UNCHANGED <<running, contacts, known>>
  PROVE  ListFollows'
<1>1. SUFFICES ASSUME running, NEW p \in Peers
               PROVE  Follows(SaidAt("ContactAdded", p), SaidAt("ContactRemoved", p), p,
                              Range(contacts), known)'
  BY DEF ListFollows
<1>2. /\ SaidAt("ContactAdded", p)' = SaidAt("ContactAdded", p)
      /\ SaidAt("ContactRemoved", p)' = SaidAt("ContactRemoved", p)
  BY SaidTold
<1>3. Follows(SaidAt("ContactAdded", p), SaidAt("ContactRemoved", p), p, Range(contacts), known)
  BY <1>1 DEF ListFollows
<1> QED
  BY <1>2, <1>3, Zenon DEF Follows

\* A contact that is to be added is not listed.
LEMMA HeadAdds ==
  ASSUME UiTyped, ListFollows, running, commands # <<>>, Head(commands).kind = "ContactAdded"
  PROVE  Head(commands).peer \notin Range(contacts)
<1> DEFINE p == Head(commands).peer
           A == SaidAt("ContactAdded", p)
           R == SaidAt("ContactRemoved", p)
<1>1. p \in Peers
  BY HeadTyped, CommandFields
<1>2. 1 \in A /\ 1 \notin R /\ R \subseteq Nat \ {0}
  <2>1. /\ commands \in Seq(CommandRecord) /\ Len(commands) \in Nat
        /\ DOMAIN commands = 1..Len(commands) /\ Head(commands) = commands[1] /\ Len(commands) # 0
    BY CommandsListed, HeadTyped
  <2> QED
    BY <2>1 DEF SaidAt
<1>3. Follows(A, R, p, Range(contacts), known)
  BY <1>1 DEF ListFollows
<1> HIDE DEF A, R, p
<1>4. p \notin Range(contacts)
  BY <1>2, <1>3 DEF Follows
<1> QED
  BY <1>4 DEF p

\* The screen reads what it was told.
LEMMA ListRead ==
  ASSUME UiTyped, ListFollows, ApplyCommand, UNCHANGED known
  PROVE  ListFollows'
<1> DEFINE c == Head(commands)
<1>1. running /\ commands # <<>> /\ commands' = Tail(commands)
  BY DEF ApplyCommand
<1>2. c \in CommandRecord
  BY <1>1, HeadTyped
<1>3. c.kind = "ContactAdded" => c.peer \in Peers \ Range(contacts)
  BY <1>1, <1>2, CommandFields, HeadAdds
<1>4. c.kind = "ContactRemoved" => c.peer \in Peers
  BY <1>2, CommandFields
<1>5. \/ ContactAdded(c) \/ ContactAlreadyExists(c) \/ ContactRemoved(c)
      \/ QueuedCommand(c) \/ SettledCommand(c) \/ RejectedCommand(c)
      \/ IncomingCommand(c) \/ ConnectionCommand(c) \/ StaleCommand(c)
  BY Zenon DEF ApplyCommand
<1>6. SUFFICES ASSUME NEW p \in Peers
               PROVE  Follows(SaidAt("ContactAdded", p)', SaidAt("ContactRemoved", p)', p,
                              Range(contacts'), known)
  BY Zenon DEF ListFollows, Range
<1> DEFINE A == SaidAt("ContactAdded", p)
           R == SaidAt("ContactRemoved", p)
<1>7. /\ MovedUp(A, A') /\ A \in SUBSET (Nat \ {0})
      /\ 1 \in A <=> c.kind = "ContactAdded" /\ c.peer = p
  BY <1>1, SaidRead
<1>8. /\ MovedUp(R, R') /\ R \in SUBSET (Nat \ {0})
      /\ 1 \in R <=> c.kind = "ContactRemoved" /\ c.peer = p
  BY <1>1, SaidRead
<1>9. Follows(A, R, p, Range(contacts), known)
  BY <1>1 DEF ListFollows
<1> HIDE DEF A, R, c
<1>10. /\ 1 \in A /\ 1 \notin R => Follows(A', R', p, Range(contacts) \cup {p}, known)
       /\ 1 \in R /\ 1 \notin A => Follows(A', R', p, Range(contacts) \ {p}, known)
       /\ 1 \notin A /\ 1 \notin R => Follows(A', R', p, Range(contacts), known)
  BY <1>7, <1>8, <1>9, FollowsMoved
<1>11. Follows(A', R', p, Range(contacts'), known)
  <2>1. CASE ContactAdded(c)
    <3>1. c.kind = "ContactAdded" /\ Range(contacts') = Range(contacts) \cup {c.peer}
      BY <1>3, <2>1, AddedKeeps DEF ContactAdded
    <3>2. CASE c.peer = p
      BY <1>7, <1>8, <1>10, <3>1, <3>2
    <3>3. CASE c.peer # p
      <4>1. p \in Range(contacts) <=> p \in Range(contacts')
        BY <3>1, <3>3
      <4>2. Follows(A', R', p, Range(contacts), known)
        BY <1>7, <1>8, <1>10, <3>1, <3>3
      <4> QED
        BY <4>1, <4>2, FollowsSame
    <3> QED
      BY <3>2, <3>3
  <2>2. CASE ContactRemoved(c)
    <3>1. c.kind = "ContactRemoved" /\ Range(contacts') = Range(contacts) \ {c.peer}
      BY <1>4, <2>2, RemovedKeeps DEF ContactRemoved
    <3>2. CASE c.peer = p
      BY <1>7, <1>8, <1>10, <3>1, <3>2
    <3>3. CASE c.peer # p
      <4>1. p \in Range(contacts) <=> p \in Range(contacts')
        BY <3>1, <3>3
      <4>2. Follows(A', R', p, Range(contacts), known)
        BY <1>7, <1>8, <1>10, <3>1, <3>3
      <4> QED
        BY <4>1, <4>2, FollowsSame
    <3> QED
      BY <3>2, <3>3
  <2>3. CASE c.kind \notin {"ContactAdded", "ContactRemoved"} /\ contacts' = contacts
    BY <1>7, <1>8, <1>10, <2>3
  <2>4. CASE \/ ContactAlreadyExists(c) \/ QueuedCommand(c) \/ SettledCommand(c) \/ RejectedCommand(c)
             \/ IncomingCommand(c) \/ ConnectionCommand(c) \/ StaleCommand(c)
    <3>1. contacts' = contacts
      BY <2>4 DEF ContactAlreadyExists, QueuedCommand, SettledCommand, RejectedCommand,
         IncomingCommand, ConnectionCommand, StaleCommand, dataVars
    <3>2. c.kind \notin {"ContactAdded", "ContactRemoved"}
      BY <2>4 DEF ContactAlreadyExists, QueuedCommand, SettledCommand, RejectedCommand,
         IncomingCommand, ConnectionCommand, StaleCommand
    <3> QED
      BY <2>3, <3>1, <3>2
  <2> QED
    BY <1>5, <2>1, <2>2, <2>4
<1> QED
  BY <1>11 DEF A, R

\* The runtime has changed its contacts, and says so.
LEMMA ListReplaced ==
  ASSUME UiTyped, ProcessSound, ListFollows, RtReplaced
  PROVE  ListFollows'
<1> DEFINE k == IF rt.do = "PersistContact" THEN "ContactAdded" ELSE "ContactRemoved"
           c == Command(k, rt.peer)
<1>1. /\ rt.peer \in Peers /\ known \in SUBSET Peers
      /\ rt.do = "PersistContact" <=> rt.peer \notin known
  BY DEF ProcessSound, RtReplaced, Changing
<1>2. Tell(c) /\ known' = Candidate /\ UNCHANGED <<running, contacts>>
  BY DEF RtReplaced, uiVars, dataVars
<1>3. /\ c \in CommandRecord /\ c.kind = k /\ c.peer = rt.peer
      /\ k = "ContactAdded" <=> rt.peer \notin known
      /\ k \in {"ContactAdded", "ContactRemoved"}
  BY <1>1 DEF Command, CommandRecord
<1>4. known' = IF k = "ContactAdded" THEN known \cup {rt.peer} ELSE known \ {rt.peer}
  BY <1>2 DEF Candidate
<1> HIDE DEF k, c
<1>5. SUFFICES ASSUME running, NEW p \in Peers
               PROVE  Follows(SaidAt("ContactAdded", p)', SaidAt("ContactRemoved", p)', p,
                              Range(contacts), known')
  BY <1>2, Zenon DEF ListFollows
<1> DEFINE A == SaidAt("ContactAdded", p)
           R == SaidAt("ContactRemoved", p)
           n == Len(commands)
<1>6. Tells(c)
  BY <1>2, <1>3 DEF Tells
<1>7. /\ A \in SUBSET (1..n) /\ R \in SUBSET (1..n) /\ n \in Nat
      /\ c.kind # "ContactAdded" \/ c.peer # p => A' = A
      /\ c.kind # "ContactRemoved" \/ c.peer # p => R' = R
  BY <1>6, SaidTold
<1>8. /\ k = "ContactAdded" /\ rt.peer = p => A' = A \cup {n + 1}
      /\ k = "ContactRemoved" /\ rt.peer = p => R' = R \cup {n + 1}
  BY <1>2, <1>3, <1>5, SaidNew
<1>9. Follows(A, R, p, Range(contacts), known)
  BY <1>5 DEF ListFollows
<1> HIDE DEF A, R, n
<1>10. Follows(A', R', p, Range(contacts), known')
  <2>1. CASE rt.peer = p /\ k = "ContactAdded"
    <3>1. Follows(A \cup {n + 1}, R, p, Range(contacts), known \cup {p})
      BY <1>3, <1>7, <1>9, <2>1, FollowsChanged
    <3> QED
      BY <1>3, <1>4, <1>7, <1>8, <2>1, <3>1
  <2>2. CASE rt.peer = p /\ k # "ContactAdded"
    <3>1. Follows(A, R \cup {n + 1}, p, Range(contacts), known \ {p})
      BY <1>3, <1>7, <1>9, <2>2, FollowsChanged
    <3> QED
      BY <1>3, <1>4, <1>7, <1>8, <2>2, <3>1
  <2>3. CASE rt.peer # p
    <3>1. A' = A /\ R' = R /\ (p \in known <=> p \in known')
      BY <1>3, <1>4, <1>7, <2>3
    <3> QED
      BY <1>9, <3>1, FollowsSame
  <2> QED
    BY <2>1, <2>2, <2>3
<1> QED
  BY <1>10 DEF A, R

\* When the interface opens, it lists what the runtime has.
LEMMA ListStarts ==
  ASSUME commands' = <<>>, running' => Range(contacts') = known'
  PROVE  ListFollows'
<1>1. \A kind, p : SaidAt(kind, p)' = {}
  BY DEF SaidAt
<1>2. SUFFICES ASSUME running', NEW p \in Peers
               PROVE  Follows({}, {}, p, known', known')
  BY <1>1, Zenon DEF ListFollows, Range
<1> QED
  BY DEF Follows

-----------------------------------------------------------------------------
(* The outcomes follow the messages.                                       *)

\* What has to be shown of the next state.
LEMMA MessagesNext ==
  ASSUME \A p \in Peers : \A i \in SaidAt("OutgoingQueued", p)' :
           \A m : m = commands'[i].id => WillSettle(m, p, i)',
         \A p \in Peers : \A k \in DOMAIN chats'[p] :
           \A m : /\ chats'[p][k].from = "Local" /\ chats'[p][k].delivery = "Pending"
                  /\ m = chats'[p][k].id
                  => WillSettle(m, p, 0)'
  PROVE  MessagesFollow'
<1> DEFINE W(m, p, i) ==
             /\ m \in Outbound /\ sent'[m].peer = p
             /\ \/ ~sent'[m].told
                \/ \E j \in SaidAt("OutgoingSettled", p)' : j > i /\ commands'[j].id = m
<1>1. \A m, p, i : WillSettle(m, p, i)' <=> W(m, p, i)
  BY Zenon DEF WillSettle
<1>2. (\A p \in Peers :
         /\ \A i \in SaidAt("OutgoingQueued", p)' : W(commands'[i].id, p, i)
         /\ \A k \in DOMAIN chats'[p] :
              chats'[p][k].from = "Local" /\ chats'[p][k].delivery = "Pending"
                => W(chats'[p][k].id, p, 0))
        => MessagesFollow'
  BY Zenon DEF MessagesFollow, WillSettle
<1> HIDE DEF W
<1> QED
  BY <1>1, <1>2, Zenon

\* A process without messages owes none.
LEMMA MessagesGone ==
  ASSUME commands' = <<>>, \A p \in Peers : chats'[p] = <<>>
  PROVE  MessagesFollow'
<1>1. \A p : SaidAt("OutgoingQueued", p)' = {}
  BY DEF SaidAt
<1>2. \A p \in Peers : DOMAIN chats'[p] = {}
  OBVIOUS
<1> QED
  BY <1>1, <1>2, MessagesNext

\* What is said is said behind the rest, and is no message; or the outcome of
\* the message is owed.
LEMMA MessagesTold ==
  ASSUME UiTyped, MessagesFollow, NEW c, Tells(c),
         \A p \in Peers : chats'[p] = chats[p] \/ chats'[p] = <<>>,
         \A m : \A p \in Peers : \A i \in 0..Len(commands) : WillSettle(m, p, i) => WillSettle(m, p, i)',
         NEW n, n = Len(commands) + 1,
         \A m : \A p \in Peers : c.kind = "OutgoingQueued" /\ c.peer = p /\ c.id = m => WillSettle(m, p, n)'
  PROVE  MessagesFollow'
<1>1. /\ Len(commands) \in Nat
      /\ \A i \in 1..Len(commands) : commands'[i] = commands[i]
  BY SaidTold
<1>2. ASSUME NEW p \in Peers, NEW i \in SaidAt("OutgoingQueued", p)', NEW m, m = commands'[i].id
      PROVE  WillSettle(m, p, i)'
  <2>1. CASE i \in SaidAt("OutgoingQueued", p)
    <3>1. i \in 1..Len(commands)
      BY <2>1, SaidTold
    <3>2. WillSettle(m, p, i)
      BY <1>1, <1>2, <2>1, <3>1, Zenon DEF MessagesFollow
    <3> QED
      BY <1>1, <3>1, <3>2
  <2>2. CASE i \notin SaidAt("OutgoingQueued", p)
    <3>1. /\ c.kind = "OutgoingQueued" /\ c.peer = p
          /\ i = n
      BY <2>2, SaidTold
    <3>2. commands'[n] = c
      <4>1. i \in DOMAIN commands'
        BY Zenon DEF SaidAt
      <4>2. /\ Len(commands) \in Nat
            /\ \/ DOMAIN commands' = 1..Len(commands)
               \/ commands'[Len(commands) + 1] = c
        BY TellsSays
      <4> QED
        BY <3>1, <4>1, <4>2
    <3> QED
      BY <1>2, <3>1, <3>2
  <2> QED
    BY <2>1, <2>2
<1>3. ASSUME NEW p \in Peers, NEW k \in DOMAIN chats'[p], NEW m,
             chats'[p][k].from = "Local", chats'[p][k].delivery = "Pending", m = chats'[p][k].id
      PROVE  WillSettle(m, p, 0)'
  <2>1. chats'[p] = chats[p]
    <3>1. DOMAIN <<>> = {}
      OBVIOUS
    <3> QED
      BY <1>3, <3>1
  <2>2. WillSettle(m, p, 0)
    BY <1>3, <2>1, Zenon DEF MessagesFollow
  <2> QED
    BY <1>1, <2>2
<1> QED
  BY <1>2, <1>3, MessagesNext

\* What a message that waits for its outcome needs of the messages.
SentKept ==
  \A m \in Outbound : sent[m].peer \in Peers =>
    sent'[m].peer = sent[m].peer /\ sent'[m].told = sent[m].told

LEMMA SettleStays ==
  ASSUME UiTyped, NEW c, Tells(c), SentKept, NEW m, NEW p \in Peers, NEW i, WillSettle(m, p, i)
  PROVE  WillSettle(m, p, i)'
<1>1. /\ SaidAt("OutgoingSettled", p) \subseteq SaidAt("OutgoingSettled", p)'
      /\ \A j \in SaidAt("OutgoingSettled", p) : commands'[j] = commands[j]
  BY SaidTold
<1>2. m \in Outbound /\ sent'[m].peer = p /\ sent'[m].told = sent[m].told
  BY DEF WillSettle, SentKept
<1>3. ~sent[m].told \/ \E j \in SaidAt("OutgoingSettled", p) : j > i /\ commands[j].id = m
  BY Zenon DEF WillSettle
<1>4. ~sent'[m].told \/ \E j \in SaidAt("OutgoingSettled", p)' : j > i /\ commands'[j].id = m
  BY <1>1, <1>2, <1>3
<1> QED
  BY <1>2, <1>4, Zenon DEF WillSettle

\* Something else is said, or nothing.
LEMMA MessagesStay ==
  ASSUME UiTyped, MessagesFollow, NEW c, Tells(c), c.kind # "OutgoingQueued", SentKept,
         \A p \in Peers : chats'[p] = chats[p] \/ chats'[p] = <<>>
  PROVE  MessagesFollow'
  BY SettleStays, MessagesTold

\* send_text: the message is said before its outcome can be.
LEMMA MessagesSent ==
  ASSUME UiTyped, Inv, MessagesFollow, NEW p \in Peers, NEW m \in Outbound, NEW t \in Texts,
         Send(p, m), Tell(OutgoingQueued(p, m, t)), UNCHANGED chats
  PROVE  MessagesFollow'
<1> DEFINE c == OutgoingQueued(p, m, t)
<1>1. c \in CommandRecord /\ c.peer = p /\ c.id = m
  BY DEF OutgoingQueued, CommandRecord
<1>2. Tells(c)
  BY <1>1 DEF Tells
<1> HIDE DEF c
<1>3. /\ sent[m].peer = NoPeer
      /\ sent' = [sent EXCEPT ![m] = [peer |-> p, session |-> table[p], outcome |-> "Pending", told |-> FALSE]]
  BY DEF Send, Unsent
<1>4. DOMAIN sent = Outbound
  BY DEF Inv, Typed, SentTyped
<1>5. sent'[m].peer = p /\ ~sent'[m].told
  BY <1>3, <1>4
<1>6. SentKept
  BY <1>3, <1>4, PeersAssumption DEF SentKept
<1>7. \A i : WillSettle(m, p, i)'
  BY <1>5, Zenon DEF WillSettle
<1>8. \A n : \A q \in Peers : \A i \in 0..Len(commands) : WillSettle(n, q, i) => WillSettle(n, q, i)'
  BY <1>2, <1>6, SettleStays
<1>9. \A q \in Peers : chats'[q] = chats[q]
  OBVIOUS
<1> QED
  BY <1>1, <1>2, <1>7, <1>8, <1>9, MessagesTold

\* The outcome is told.
LEMMA MessagesReported ==
  ASSUME UiTyped, Inv, MessagesFollow, NEW m \in Outbound, RtReport(m)
  PROVE  MessagesFollow'
<1>1. UNCHANGED chats
  BY DEF RtReport, uiVars, dataVars
<1> DEFINE c == OutgoingSettled(sent[m].peer, m, sent[m].outcome)
<1>2. sent \in [Outbound -> SentRecord] /\ sent[m] \in SentRecord
  BY DEF Inv, Typed, SentTyped, SentRecord
<1>3. c \in CommandRecord /\ c.kind = "OutgoingSettled" /\ c.peer = sent[m].peer /\ c.id = m
  BY <1>2 DEF RtReport, OutgoingSettled, CommandRecord, SentRecord
<1>4. Tell(c) /\ sent' = [sent EXCEPT ![m].told = TRUE]
  BY DEF RtReport
<1> HIDE DEF c
<1>5. CASE ~running
  <2>1. commands' = <<>> /\ contacts = <<>>
    BY <1>4, <1>5 DEF Tell, UiTyped, EndedEmpty
  <2>2. \A p \in Peers : chats[p] = <<>>
    BY <2>1 DEF UiTyped, DataTyped, Range
  <2> QED
    BY <1>1, <2>1, <2>2, MessagesGone
<1>6. CASE running
  <2>1. Tells(c)
    BY <1>3, <1>4 DEF Tells
  <2> DEFINE n == Len(commands) + 1
  <2>2. /\ SaidAt("OutgoingSettled", sent[m].peer)' = SaidAt("OutgoingSettled", sent[m].peer) \cup {n}
        /\ commands'[n] = c
    BY <1>3, <1>4, <1>6, SaidNew
  <2>3. /\ \A i \in 0..Len(commands) : n > i
        /\ \A p : /\ SaidAt("OutgoingSettled", p) \subseteq SaidAt("OutgoingSettled", p)'
                  /\ \A j \in SaidAt("OutgoingSettled", p) : commands'[j] = commands[j]
    BY <2>1, SaidTold
  <2>4. \A k \in Outbound : /\ sent'[k].peer = sent[k].peer
                            /\ k # m => sent'[k].told = sent[k].told
    BY <1>2, <1>4 DEF SentRecord
  <2> HIDE DEF n
  <2>5. ASSUME NEW k, NEW p \in Peers, NEW i \in 0..Len(commands), WillSettle(k, p, i)
        PROVE  WillSettle(k, p, i)'
    <3>1. k \in Outbound /\ sent'[k].peer = p /\ sent[k].peer = p
      BY <2>4, <2>5 DEF WillSettle
    <3>2. CASE k = m
      <4>1. n \in SaidAt("OutgoingSettled", p)' /\ n > i /\ commands'[n].id = k
        BY <1>3, <2>2, <2>3, <3>1, <3>2
      <4> QED
        BY <3>1, <4>1, Zenon DEF WillSettle
    <3>3. CASE k # m
      <4>1. ~sent'[k].told \/ \E j \in SaidAt("OutgoingSettled", p) : j > i /\ commands[j].id = k
        BY <2>4, <2>5, <3>1, <3>3, Zenon DEF WillSettle
      <4>2. ~sent'[k].told \/ \E j \in SaidAt("OutgoingSettled", p)' : j > i /\ commands'[j].id = k
        BY <2>3, <4>1
      <4> QED
        BY <3>1, <4>2, Zenon DEF WillSettle
    <3> QED
      BY <3>2, <3>3
  <2> QED
    BY <1>1, <1>3, <2>1, <2>5, MessagesTold
<1> QED
  BY <1>5, <1>6 DEF UiTyped, NavTyped

LEMMA SettleRead ==
  ASSUME UiTyped, commands # <<>>, commands' = Tail(commands), UNCHANGED sent,
         NEW m, NEW p \in Peers, NEW i \in Nat
  PROVE  /\ WillSettle(m, p, i + 1) => WillSettle(m, p, i)'
         /\ ~(1 \in SaidAt("OutgoingSettled", p) /\ Head(commands).id = m)
              /\ WillSettle(m, p, 0) => WillSettle(m, p, 0)'
<1> DEFINE R == SaidAt("OutgoingSettled", p)
<1>0. Head(commands) = commands[1]
  BY HeadTyped
<1>1. /\ MovedUp(R, R') /\ R \subseteq Nat \ {0}
      /\ \A j \in Nat \ {0} : j + 1 \in R => commands'[j] = commands[j + 1]
  BY SaidRead, Zenon
<1>2. \A j \in R : j # 1 => j - 1 \in R' /\ j - 1 \in Nat \ {0} /\ commands'[j - 1] = commands[j]
  <2>1. SUFFICES ASSUME NEW j \in R, j # 1
                 PROVE  j - 1 \in R' /\ j - 1 \in Nat \ {0} /\ commands'[j - 1] = commands[j]
    OBVIOUS
  <2>2. j - 1 \in Nat \ {0} /\ (j - 1) + 1 = j
    BY <1>1, <2>1
  <2> QED
    BY <1>1, <2>1, <2>2 DEF MovedUp
<1> HIDE DEF R
<1>3. ASSUME NEW k \in Nat, NEW l \in Nat, l <= k + 1, k <= l, WillSettle(m, p, l),
             \A j \in R : j > l /\ commands[j].id = m => j # 1 /\ j - 1 > k
      PROVE  WillSettle(m, p, k)'
  <2>1. m \in Outbound /\ sent'[m].peer = p /\ sent'[m].told = sent[m].told
    BY <1>3, Zenon DEF WillSettle
  <2>2. ~sent[m].told \/ \E j \in R : j > l /\ commands[j].id = m
    BY <1>3, Zenon DEF WillSettle, R
  <2>3. ~sent'[m].told \/ \E j \in R' : j > k /\ commands'[j].id = m
    BY <1>2, <1>3, <2>1, <2>2
  <2> QED
    BY <2>1, <2>3, Zenon DEF WillSettle, R
<1>4. WillSettle(m, p, i + 1) => WillSettle(m, p, i)'
  <2>1. \A j \in R : j > i + 1 => j # 1 /\ j - 1 > i
    BY <1>1
  <2> QED
    BY <1>3, <2>1
<1>5. ~(1 \in R /\ Head(commands).id = m) /\ WillSettle(m, p, 0) => WillSettle(m, p, 0)'
  <2>1. SUFFICES ASSUME ~(1 \in R /\ Head(commands).id = m),
                        WillSettle(m, p, 0)
                 PROVE  WillSettle(m, p, 0)'
    OBVIOUS
  <2>2. \A j \in R : j > 0 /\ commands[j].id = m => j # 1 /\ j - 1 > 0
    BY <1>0, <1>1, <2>1
  <2> QED
    BY <1>3, <2>1, <2>2
<1> QED
  BY <1>4, <1>5 DEF R

\* The screen shows a message, or its outcome.
LEMMA MessagesRead ==
  ASSUME UiTyped, ListFollows, MessagesFollow, ApplyCommand, UNCHANGED sent
  PROVE  MessagesFollow'
<1> DEFINE c == Head(commands)
<1>1. running /\ commands # <<>> /\ commands' = Tail(commands)
  BY DEF ApplyCommand
<1>2. c \in CommandRecord /\ c = commands[1] /\ 1 \in DOMAIN commands
  BY <1>1, HeadTyped
<1>3. c.kind = "ContactAdded" => c.peer \in Peers \ Range(contacts)
  BY <1>1, <1>2, CommandFields, HeadAdds
<1>4. \/ ContactAdded(c) \/ ContactAlreadyExists(c) \/ ContactRemoved(c)
      \/ QueuedCommand(c) \/ SettledCommand(c) \/ RejectedCommand(c)
      \/ IncomingCommand(c) \/ ConnectionCommand(c) \/ StaleCommand(c)
  BY Zenon DEF ApplyCommand
<1>5. ASSUME NEW p \in Peers, NEW i \in SaidAt("OutgoingQueued", p)', NEW m, m = commands'[i].id
      PROVE  WillSettle(m, p, i)'
  <2>1. /\ i \in Nat \ {0} /\ i + 1 \in SaidAt("OutgoingQueued", p)
        /\ commands'[i] = commands[i + 1]
    BY <1>1, SaidRead DEF MovedUp
  <2>2. WillSettle(m, p, i + 1)
    BY <1>5, <2>1, Zenon DEF MessagesFollow
  <2>3. i \in Nat
    BY <2>1
  <2> QED
    BY <1>1, <2>2, <2>3, SettleRead
<1> HIDE DEF c
<1>6. ASSUME NEW p \in Peers, NEW k \in DOMAIN chats'[p], NEW m,
             chats'[p][k].from = "Local", chats'[p][k].delivery = "Pending", m = chats'[p][k].id
      PROVE  WillSettle(m, p, 0)'
  <2>1. ASSUME NEW l \in DOMAIN chats[p], chats[p][l].from = "Local", chats[p][l].delivery = "Pending",
               chats[p][l].id = m, ~(c.kind = "OutgoingSettled" /\ c.peer = p /\ c.id = m)
        PROVE  WillSettle(m, p, 0)'
    <3>1. WillSettle(m, p, 0)
      BY <2>1, Zenon DEF MessagesFollow
    <3>2. ~(1 \in SaidAt("OutgoingSettled", p) /\ Head(commands).id = m)
      BY <1>1, <2>1, SaidRead DEF c
    <3>3. 0 \in Nat
      OBVIOUS
    <3> QED
      BY <1>1, <3>1, <3>2, <3>3, SettleRead
  <2>2. CASE chats'[p] = chats[p] /\ c.kind # "OutgoingSettled"
    BY <1>6, <2>1, <2>2
  <2>3. chats[p] \in Seq(MessageRecord) /\ chats'[p] # <<>>
    <3>1. chats[p] \in Seq(MessageRecord)
      BY DEF UiTyped, DataTyped
    <3>2. DOMAIN <<>> = {}
      OBVIOUS
    <3> QED
      BY <1>6, <3>1, <3>2
  <2>4. CASE ContactAdded(c)
    <3>1. chats' = chats /\ c.kind = "ContactAdded"
      BY <1>3, <2>4, AddedKeeps DEF ContactAdded
    <3> QED
      BY <2>2, <3>1
  <2>5. CASE ContactAlreadyExists(c) \/ RejectedCommand(c) \/ StaleCommand(c)
    <3>1. c.kind # "OutgoingSettled"
      BY <2>5 DEF ContactAlreadyExists, RejectedCommand, StaleCommand
    <3> QED
      BY <2>2, <2>5, <3>1, OtherCommandKeeps
  <2>6. CASE ContactRemoved(c)
    <3>1. c.kind = "ContactRemoved" /\ c.peer \in Peers
      BY <1>2, <2>6, CommandFields DEF ContactRemoved
    <3>2. chats'[p] = chats[p]
      BY <2>3, <2>6, <3>1, RemovedKeeps
    <3> QED
      BY <2>2, <3>1, <3>2
  <2>7. CASE ConnectionCommand(c)
    <3>1. /\ c.kind = "PeerConnectionStateChanged"
          /\ c.peer \in Peers /\ c.event \in EventRecord /\ FitsState(c.event)
      BY <1>2, <2>7, CommandFields DEF ConnectionCommand
    <3>2. chats' = chats
      BY <2>7, <3>1, ConnectionKeeps
    <3> QED
      BY <2>2, <3>1, <3>2
  <2>8. CASE IncomingCommand(c)
    <3>1. c.kind = "IncomingMessage" /\ c.id \in AnyId
      BY <1>2, <2>8, CommandFields DEF IncomingCommand
    <3>2. /\ chats'[c.peer] = Append(chats[c.peer], Message(c.id, "Contact", "None"))
          /\ \A q \in Peers : q # c.peer => chats'[q] = chats[q]
      BY <2>8, <3>1, IncomingMessageKeeps
    <3>3. CASE p = c.peer
      <4>1. \/ k \in DOMAIN chats[p] /\ chats'[p][k] = chats[p][k]
            \/ chats'[p][k] = Message(c.id, "Contact", "None")
        BY <2>3, <3>2, <3>3, <1>6
      <4>2. Message(c.id, "Contact", "None").from = "Contact"
        BY DEF Message
      <4>3. k \in DOMAIN chats[p] /\ chats'[p][k] = chats[p][k]
        BY <1>6, <4>1, <4>2
      <4> QED
        BY <1>6, <2>1, <3>1, <4>3
    <3>4. CASE p # c.peer
      BY <2>2, <3>1, <3>2, <3>4
    <3> QED
      BY <3>3, <3>4
  <2>9. CASE QueuedCommand(c)
    <3>1. c.kind = "OutgoingQueued" /\ c.peer \in Peers /\ c.id \in Outbound
      BY <1>2, <2>9, CommandFields DEF QueuedCommand
    <3>2. /\ chats'[c.peer] = Append(chats[c.peer], Message(c.id, "Local", "Pending"))
          /\ \A q \in Peers : q # c.peer => chats'[q] = chats[q]
      BY <2>9, <3>1, QueuedKeeps
    <3>3. CASE p = c.peer
      <4>1. \/ k \in DOMAIN chats[p] /\ chats'[p][k] = chats[p][k]
            \/ chats'[p][k] = Message(c.id, "Local", "Pending")
        BY <2>3, <3>2, <3>3, <1>6
      <4>2. CASE chats'[p][k] = Message(c.id, "Local", "Pending")
        <5>1. m = c.id
          BY <1>6, <4>2 DEF Message
        <5>2. 1 \in SaidAt("OutgoingQueued", p) /\ m = commands[1].id
          BY <1>2, <3>1, <3>3, <5>1 DEF SaidAt
        <5>3. WillSettle(m, p, 1)
          BY <5>2, Zenon DEF MessagesFollow
        <5>4. WillSettle(m, p, 0 + 1)
          BY <5>3
        <5> QED
          BY <1>1, <5>4, SettleRead
      <4>3. CASE k \in DOMAIN chats[p] /\ chats'[p][k] = chats[p][k]
        BY <1>6, <2>1, <3>1, <4>3
      <4> QED
        BY <4>1, <4>2, <4>3
    <3>4. CASE p # c.peer
      BY <2>2, <3>1, <3>2, <3>4
    <3> QED
      BY <3>3, <3>4
  <2>10. CASE SettledCommand(c)
    <3>1. c.outcome \in Outcomes
      BY <1>2, <2>10, CommandFields DEF SettledCommand
    <3>2. /\ DOMAIN chats'[p] = DOMAIN chats[p]
          /\ p # c.peer => chats'[p] = chats[p]
          /\ p = c.peer => \A i \in DOMAIN chats[p] : chats'[p][i] = Settled(chats[p][i], c)
      BY <2>10, <3>1, SettledKeeps
    <3>3. chats[p][k] \in MessageRecord
      BY <1>6, <2>3, <3>2
    <3>4. CASE p = c.peer
      <4>1. chats'[p][k] = Settled(chats[p][k], c)
        BY <1>6, <3>2, <3>4
      <4>2. /\ chats[p][k].id = m /\ chats[p][k].from = "Local"
            /\ chats[p][k].delivery = "Pending" /\ m # c.id
        BY <1>6, <3>1, <3>3, <4>1, SettledFields DEF Outcomes
      <4> QED
        BY <1>6, <2>1, <3>2, <4>2
    <3>5. CASE p # c.peer
      BY <1>6, <2>1, <3>2, <3>5
    <3> QED
      BY <3>4, <3>5
  <2> QED
    BY <1>4, <2>4, <2>5, <2>6, <2>7, <2>8, <2>9, <2>10
<1> QED
  BY <1>5, <1>6, MessagesNext

-----------------------------------------------------------------------------
(* The steps of the program, by what they do to its parts.                 *)

Nothing == [kind |-> "Nothing"]

LEMMA FollowsKept == ASSUME SentFollows PROVE SentKept
  BY DEF SentFollows, SentKept

\* The runtime says nothing, or nothing of the contacts, of a message sent.
LEMMA QuietKeeps ==
  ASSUME ProgramInv, NEW c, Tells(c),
         c.kind \notin {"ContactAdded", "ContactRemoved", "OutgoingQueued"},
         UNCHANGED <<uiVars, known>>, SentKept,
         effects' \in Seq(EffectRecord), Len(effects') <= EffectCapacity
  PROVE  UiTyped' /\ ListFollows' /\ MessagesFollow'
<1>1. UiTyped /\ ListFollows /\ MessagesFollow
  BY DEF ProgramInv
<1>2. UNCHANGED <<running, contacts, chats>>
  BY DEF uiVars, dataVars
<1>3. UiTyped'
  BY <1>1, TellsTyped
<1>4. ListFollows'
  BY <1>1, <1>2, ListStays
<1>5. MessagesFollow'
  BY <1>1, <1>2, MessagesStay
<1> QED
  BY <1>3, <1>4, <1>5

LEMMA SilentKeeps ==
  ASSUME ProgramInv, UNCHANGED <<uiVars, effects, commands, known>>, SentKept
  PROVE  UiTyped' /\ ListFollows' /\ MessagesFollow'
<1>1. Tells(Nothing) /\ Nothing.kind = "Nothing"
  BY DEF Tells, Nothing
<1>2. effects' \in Seq(EffectRecord) /\ Len(effects') <= EffectCapacity
  BY DEF ProgramInv, UiTyped, QueuesTyped
<1> QED
  BY <1>1, <1>2, QuietKeeps

\* The runtime stays where it is, and so do its contacts.
LEMMA ProcessStays ==
  ASSUME ProcessSound, phase = "up", UNCHANGED <<phase, rt, known, allowlist, running>>, CallMoves
  PROVE  ProcessSound'
<1>1. op'.step \in {"closing", "closed"} => op.step \in {"closing", "closed"}
  BY DEF CallMoves, NoOp
<1>2. op'.step \in {"taking", "stopping"} => op.step \in {"taking", "stopping"}
  BY DEF CallMoves, NoOp
<1> QED
  BY <1>1, <1>2 DEF ProcessSound, Candidate

LEMMA StoreStays ==
  ASSUME StoreSound, UNCHANGED <<phase, rt, known, storeVars>>
  PROVE  StoreSound'
  BY DEF StoreSound, Candidate, storeVars

\* Messages and events of the transport, and its calls, around the runtime.
LEMMA SaysKeeps ==
  ASSUME ProgramInv, phase = "up", UNCHANGED <<phase, rt, known, uiVars, storeVars>>,
         UNCHANGED <<allowlist, table, session, accept, handler, sent, connects, op>>,
         EventsTyped', effects' \in Seq(EffectRecord), Len(effects') <= EffectCapacity,
         NEW c, Tells(c), c.kind \notin {"ContactAdded", "ContactRemoved", "OutgoingQueued"}
  PROVE  ProgramInv'
<1>1. Inv'
  BY OutsideKeeps DEF ProgramInv
<1>2. ProcessSound'
  BY ProcessStays DEF ProgramInv, CallMoves, uiVars
<1>3. StoreSound'
  BY StoreStays DEF ProgramInv
<1>4. UiTyped' /\ ListFollows' /\ MessagesFollow'
  <2>1. SentKept
    BY DEF SentKept
  <2> QED
    BY <2>1, QuietKeeps
<1> QED
  BY <1>1, <1>2, <1>3, <1>4 DEF ProgramInv

LEMMA TransportPartKeeps ==
  ASSUME ProgramInv, Transport
  PROVE  ProgramInv'
<1>1. /\ phase = "up" /\ TransportStep
      /\ UNCHANGED <<phase, rt, known, uiVars, effects, commands, storeVars>>
  BY DEF Transport, rtVars
<1>2. /\ Inv' /\ EventsTyped'
      /\ allowlist' = allowlist /\ CallMoves /\ SentFollows
  BY <1>1, TransportFrame DEF ProgramInv
<1>3. ProcessSound'
  BY <1>1, <1>2, ProcessStays DEF ProgramInv, uiVars
<1>4. StoreSound'
  BY <1>1, StoreStays DEF ProgramInv
<1>5. UiTyped' /\ ListFollows' /\ MessagesFollow'
  BY <1>1, <1>2, FollowsKept, SilentKeeps
<1> QED
  BY <1>2, <1>3, <1>4, <1>5 DEF ProgramInv

-----------------------------------------------------------------------------
(* The select loop.                                                        *)

LEMMA RtIncomingKeeps ==
  ASSUME ProgramInv, RtIncoming
  PROVE  ProgramInv'
<1> DEFINE c == IncomingMessage(Head(incoming).peer, Head(incoming).id)
<1>1. /\ phase = "up" /\ Receive /\ Tell(c)
      /\ UNCHANGED <<phase, rt, known, uiVars, effects, storeVars>>
  BY DEF RtIncoming, Selecting, rtVars
<1>2. /\ incoming # <<>> /\ incoming' = Tail(incoming) /\ incoming \in Seq(Received)
      /\ events' = events
      /\ UNCHANGED <<allowlist, table, session, accept, handler, sent, connects, op>>
  BY <1>1 DEF Receive, ProgramInv, EventsTyped
<1>3. Head(incoming) \in Received /\ incoming' \in Seq(Received)
  BY <1>2
<1>4. c \in CommandRecord /\ c.kind = "IncomingMessage"
  BY <1>3 DEF Received, IncomingMessage, CommandRecord
<1>5. EventsTyped'
  BY <1>2, <1>3 DEF ProgramInv, EventsTyped
<1>6. effects' \in Seq(EffectRecord) /\ Len(effects') <= EffectCapacity
  BY <1>1 DEF ProgramInv, UiTyped, QueuesTyped
<1>7. Tells(c)
  BY <1>1, <1>4 DEF Tells
<1> HIDE DEF c
<1> QED
  BY <1>1, <1>2, <1>4, <1>5, <1>6, <1>7, SaysKeeps

LEMMA RtEventKeeps ==
  ASSUME ProgramInv, RtEvent
  PROVE  ProgramInv'
<1> DEFINE e == Head(events)
           c == IF e.peer \in known THEN ConnectionChanged(e) ELSE Nothing
<1>1. /\ phase = "up"
      /\ UNCHANGED <<phase, rt, known, uiVars, effects, storeVars>>
      /\ UNCHANGED <<allowlist, table, session, accept, handler, incoming, sent, connects, op>>
  BY DEF RtEvent, Selecting, rtVars
<1>2. events # <<>> /\ events' = Tail(events) /\ events \in Seq(SoundEvent)
  BY DEF RtEvent, ProgramInv, EventsTyped
<1>3. e \in SoundEvent /\ events' \in Seq(SoundEvent)
  BY <1>2
<1>4. EventsTyped'
  BY <1>1, <1>3 DEF ProgramInv, EventsTyped
<1>5. effects' \in Seq(EffectRecord) /\ Len(effects') <= EffectCapacity
  BY <1>1 DEF ProgramInv, UiTyped, QueuesTyped
<1>6. Tells(c) /\ c.kind \in {"PeerConnectionStateChanged", "Nothing"}
  <2>1. CASE e.peer \in known
    <3>1. Tell(ConnectionChanged(e)) /\ e.peer \in Peers
      BY <2>1 DEF RtEvent, ProgramInv, ProcessSound
    <3>2. /\ ConnectionChanged(e) \in CommandRecord
          /\ ConnectionChanged(e).kind = "PeerConnectionStateChanged"
      BY <1>3, <3>1 DEF ConnectionChanged, CommandRecord, SoundEvent
    <3>3. c = ConnectionChanged(e)
      BY <2>1
    <3> HIDE DEF c
    <3> QED
      BY <3>1, <3>2, <3>3 DEF Tells
  <2>2. CASE e.peer \notin known
    BY <2>2 DEF RtEvent, TellNone, Tells, Nothing
  <2> QED
    BY <2>1, <2>2
<1> HIDE DEF c
<1> QED
  BY <1>1, <1>4, <1>5, <1>6, SaysKeeps

\* The effect that is taken, and those that wait.
LEMMA TakeTyped ==
  ASSUME UiTyped, NEW do, Take(do)
  PROVE  /\ Head(effects) \in EffectRecord /\ Head(effects).do = do
         /\ effects' \in Seq(EffectRecord) /\ Len(effects') <= EffectCapacity
         /\ phase = "up" /\ rt = Resting /\ op = NoOp
         /\ UNCHANGED <<phase, known, uiVars, storeVars>>
<1>1. /\ effects # <<>> /\ Head(effects).do = do /\ effects' = Tail(effects)
      /\ phase = "up" /\ rt = Resting /\ op = NoOp
      /\ UNCHANGED <<phase, known, uiVars, storeVars>>
  BY DEF Take, Selecting
<1>2. /\ effects \in Seq(EffectRecord) /\ Len(effects) <= EffectCapacity
      /\ EffectCapacity \in Nat
  BY TuiAssumption DEF UiTyped, QueuesTyped
<1>3. /\ Head(effects) \in EffectRecord /\ Tail(effects) \in Seq(EffectRecord)
      /\ Len(Tail(effects)) = Len(effects) - 1 /\ Len(effects) \in Nat
  BY <1>1, <1>2
<1>4. Len(Tail(effects)) <= EffectCapacity
  BY <1>2, <1>3
<1> QED
  BY <1>1, <1>3, <1>4

\* An effect that is answered at once, with one command or none.
LEMMA AnsweredKeeps ==
  ASSUME ProgramInv, NEW do, Take(do), UNCHANGED rt, UNCHANGED transportVars,
         NEW c, Tells(c), c.kind \notin {"ContactAdded", "ContactRemoved", "OutgoingQueued"}
  PROVE  ProgramInv'
<1>1. UNCHANGED <<allowlist, table, session, accept, handler, incoming, events, sent, connects, op>>
  BY DEF transportVars
<1>2. /\ effects' \in Seq(EffectRecord) /\ Len(effects') <= EffectCapacity
      /\ phase = "up" /\ UNCHANGED <<phase, known, uiVars, storeVars>>
  BY TakeTyped DEF ProgramInv
<1>3. EventsTyped'
  BY <1>1 DEF ProgramInv, EventsTyped
<1> QED
  BY <1>1, <1>2, <1>3, SaysKeeps

LEMMA CommandTyped ==
  ASSUME NEW p \in Peers
  PROVE  \A kind \in {"ContactAdded", "ContactAlreadyExists", "ContactRemoved", "SendRejected"} :
           Command(kind, p) \in CommandRecord /\ Command(kind, p).kind = kind
  BY DEF Command, CommandRecord

LEMMA RtSendTextKeeps ==
  ASSUME ProgramInv, RtSendText
  PROVE  ProgramInv'
<1> DEFINE e == Head(effects)
<1>1. /\ e.peer \in Peers /\ e.body \in Texts
      /\ effects' \in Seq(EffectRecord) /\ Len(effects') <= EffectCapacity
      /\ phase = "up" /\ rt = Resting /\ op = NoOp
      /\ UNCHANGED <<phase, known, uiVars, storeVars>>
  BY TakeTyped DEF RtSendText, ProgramInv, EffectRecord
<1>2. UNCHANGED rt /\ Take("SendText")
  BY DEF RtSendText
<1>3. CASE Tell(Command("SendRejected", e.peer)) /\ UNCHANGED transportVars
  <2>1. Tells(Command("SendRejected", e.peer)) /\ Command("SendRejected", e.peer).kind = "SendRejected"
    BY <1>1, <1>3, CommandTyped DEF Tells
  <2> QED
    BY <1>2, <1>3, <2>1, AnsweredKeeps
<1>4. CASE \E m \in NextMessage : Send(e.peer, m) /\ Tell(OutgoingQueued(e.peer, m, e.body))
  <2>1. PICK m \in Outbound : Send(e.peer, m) /\ Tell(OutgoingQueued(e.peer, m, e.body))
    BY <1>4 DEF NextMessage
  <2>2. UNCHANGED <<allowlist, op, incoming, events>>
    BY <2>1 DEF Send
  <2>3. Inv'
    BY <1>1, <2>1, SendKeeps DEF ProgramInv
  <2>4. ProcessSound'
    BY <1>1, <1>2, <2>2, ProcessStays DEF ProgramInv, CallMoves, uiVars
  <2>5. StoreSound' /\ EventsTyped'
    BY <1>1, <1>2, <2>2, StoreStays DEF ProgramInv, EventsTyped
  <2> DEFINE c == OutgoingQueued(e.peer, m, e.body)
  <2>6. c \in CommandRecord /\ c.kind = "OutgoingQueued"
    BY <1>1 DEF OutgoingQueued, CommandRecord
  <2>7. Tells(c)
    BY <2>1, <2>6 DEF Tells
  <2> HIDE DEF c
  <2>8. UiTyped' /\ ListFollows'
    BY <1>1, <2>6, <2>7, TellsTyped, ListStays DEF ProgramInv, uiVars, dataVars
  <2>9. MessagesFollow'
    BY <1>1, <2>1, MessagesSent DEF ProgramInv, uiVars, dataVars
  <2> QED
    BY <2>3, <2>4, <2>5, <2>8, <2>9 DEF ProgramInv
<1> QED
  BY <1>3, <1>4 DEF RtSendText

\* The runtime turns to the contacts.
LEMMA TurnsKeeps ==
  ASSUME ProgramInv, NEW do, Take(do), NEW p \in Peers, UNCHANGED <<commands, transportVars>>,
         \/ rt' = [step |-> "saving", do |-> "PersistContact", peer |-> p] /\ p \notin known
         \/ rt' = [step |-> "saving", do |-> "RemoveContact", peer |-> p] /\ p \in known
  PROVE  ProgramInv'
<1>1. UNCHANGED <<allowlist, table, session, accept, handler, incoming, events, sent, connects, op>>
  BY DEF transportVars
<1>2. /\ effects' \in Seq(EffectRecord) /\ Len(effects') <= EffectCapacity
      /\ phase = "up" /\ rt = Resting /\ op = NoOp
      /\ UNCHANGED <<phase, known, uiVars, storeVars>>
  BY TakeTyped DEF ProgramInv
<1>3. Inv' /\ EventsTyped'
  BY <1>1, OutsideKeeps DEF ProgramInv, EventsTyped
<1>4. ProcessSound'
  BY <1>1, <1>2 DEF ProgramInv, ProcessSound, RtRecord, Changing, Resting, NoOp
<1>5. StoreSound'
  BY <1>1, <1>2 DEF ProgramInv, StoreSound, Resting, storeVars
<1>6. UiTyped' /\ ListFollows' /\ MessagesFollow'
  <2>1. SentKept
    BY <1>1 DEF SentKept
  <2>2. Tells(Nothing) /\ Nothing.kind = "Nothing"
    BY DEF Tells, Nothing
  <2> QED
    BY <1>2, <2>1, <2>2, QuietKeeps
<1> QED
  BY <1>3, <1>4, <1>5, <1>6 DEF ProgramInv

LEMMA RtEffectKeeps ==
  ASSUME ProgramInv, RtEffect
  PROVE  ProgramInv'
<1>1. Tells(Nothing) \/ ~UNCHANGED commands
  BY DEF Tells
<1>2. Nothing.kind = "Nothing"
  BY DEF Nothing
<1>3. CASE RtCopyText
  BY <1>1, <1>2, <1>3, AnsweredKeeps DEF RtCopyText
<1>4. CASE RtSendText
  BY <1>4, RtSendTextKeeps
<1>5. CASE RtPersistContact
  <2> DEFINE p == Head(effects).peer
  <2>1. Take("PersistContact") /\ UNCHANGED transportVars
    BY <1>5 DEF RtPersistContact
  <2>2. p \in Peers
    BY <2>1, TakeTyped DEF ProgramInv, EffectRecord
  <2>3. CASE p \in known
    <3>1. UNCHANGED rt /\ Tell(Command("ContactAlreadyExists", p))
      BY <1>5, <2>3 DEF RtPersistContact
    <3>2. /\ Tells(Command("ContactAlreadyExists", p))
          /\ Command("ContactAlreadyExists", p).kind = "ContactAlreadyExists"
      BY <2>2, <3>1, CommandTyped DEF Tells
    <3> QED
      BY <2>1, <3>1, <3>2, AnsweredKeeps
  <2>4. CASE p \notin known
    <3>1. rt' = [step |-> "saving", do |-> "PersistContact", peer |-> p] /\ UNCHANGED commands
      BY <1>5, <2>4 DEF RtPersistContact, TellNone
    <3> QED
      BY <2>1, <2>2, <2>4, <3>1, TurnsKeeps
  <2> QED
    BY <2>3, <2>4
<1>6. CASE RtRemoveContact
  <2> DEFINE p == Head(effects).peer
  <2>1. Take("RemoveContact") /\ UNCHANGED <<commands, transportVars>>
    BY <1>6 DEF RtRemoveContact
  <2>2. p \in Peers
    BY <2>1, TakeTyped DEF ProgramInv, EffectRecord
  <2>3. CASE UNCHANGED rt
    BY <1>1, <1>2, <2>1, <2>3, AnsweredKeeps
  <2>4. CASE rt' = [step |-> "saving", do |-> "RemoveContact", peer |-> p] /\ p \in known
    BY <2>1, <2>2, <2>4, TurnsKeeps
  <2> QED
    BY <1>6, <2>3, <2>4 DEF RtRemoveContact
<1> QED
  BY <1>3, <1>4, <1>5, <1>6 DEF RtEffect

-----------------------------------------------------------------------------
(* The contacts change: the file, the transport, the runtime's list.       *)

LEMMA CandidateTyped ==
  ASSUME ProcessSound
  PROVE  Candidate \in SUBSET Peers \/ rt.step \notin Changing
  BY DEF ProcessSound, Candidate, Changing

LEMMA RtWriteKeeps ==
  ASSUME ProgramInv, RtWrite
  PROVE  ProgramInv'
<1>1. /\ phase = "up" /\ rt.step = "saving"
      /\ UNCHANGED <<phase, known, uiVars, effects, commands, transportVars>>
  BY DEF RtWrite
<1>2. UNCHANGED <<allowlist, table, session, accept, handler, incoming, events, sent, connects, op>>
  BY <1>1 DEF transportVars
<1>3. Inv' /\ EventsTyped' /\ UiTyped' /\ ListFollows' /\ MessagesFollow'
  <2>1. SentKept
    BY <1>2 DEF SentKept
  <2> QED
    BY <1>1, <1>2, <2>1, OutsideKeeps, SilentKeeps DEF ProgramInv, EventsTyped
<1>4. rt \in RtRecord /\ Candidate \in SUBSET Peers
  BY <1>1, CandidateTyped DEF ProgramInv, ProcessSound, Changing
<1>5. CASE CreateTemp /\ UNCHANGED rt
  <2>1. StoreSound'
    BY <1>1, <1>5 DEF ProgramInv, StoreSound, CreateTemp, Candidate
  <2>2. ProcessSound'
    BY <1>1, <1>2, <1>5, ProcessStays DEF ProgramInv, CallMoves, uiVars
  <2> QED
    BY <1>3, <2>1, <2>2 DEF ProgramInv
<1>6. CASE WriteTemp(Candidate) /\ UNCHANGED rt
  <2>1. PICK s \in Ascending(Candidate) : temp' = List(s)
    BY <1>6 DEF WriteTemp
  <2>2. Candidate \in SUBSET Int /\ IsFiniteSet(Candidate)
    <3>1. Candidate \in SUBSET Int
      BY <1>4, PeersAssumption
    <3>2. IsFiniteSet(Candidate)
      BY <1>4, PeersAssumption, FS_Subset, Zenon
    <3> QED
      BY <3>1, <3>2
  <2>3. s \in Seq(Candidate) /\ IsInjective(s) /\ Range(s) = Candidate
    BY <2>2, AscendingLists
  <2>4. IsList(s)
    BY <1>4, <2>3 DEF IsList
  <2>5. temp'.peers = s /\ temp' = List(temp'.peers)
    BY <2>1 DEF List
  <2>6. StoreSound'
    BY <1>1, <1>6, <2>3, <2>4, <2>5 DEF ProgramInv, StoreSound, WriteTemp, Candidate
  <2>7. ProcessSound'
    BY <1>1, <1>2, <1>6, ProcessStays DEF ProgramInv, CallMoves, uiVars
  <2> QED
    BY <1>3, <2>6, <2>7 DEF ProgramInv
<1>7. CASE Persist /\ rt' = [rt EXCEPT !.step = "saved"]
  <2>1. rt'.step = "saved" /\ rt'.do = rt.do /\ rt'.peer = rt.peer /\ rt' \in RtRecord
    BY <1>4, <1>7 DEF RtRecord
  <2>2. Candidate' = Candidate
    BY <1>1, <2>1 DEF Candidate
  <2>3. /\ temp = List(temp.peers) /\ IsList(temp.peers) /\ Range(temp.peers) = Candidate
        /\ file' = temp /\ temp' = NoFile
    BY <1>1, <1>7 DEF ProgramInv, StoreSound, Persist
  <2>4. file' # NoFile
    BY <1>7 DEF Persist
  <2>5. StoreSound'
    BY <1>1, <2>1, <2>2, <2>3, <2>4 DEF StoreSound, Loaded
  <2>6. ProcessSound'
    BY <1>1, <1>2, <2>1, <2>2 DEF ProgramInv, ProcessSound, Changing, uiVars
  <2> QED
    BY <1>3, <2>5, <2>6 DEF ProgramInv
<1> QED
  BY <1>5, <1>6, <1>7 DEF RtWrite

LEMMA RtWriteFailsKeeps ==
  ASSUME ProgramInv, RtWriteFails
  PROVE  ProgramInv'
<1>1. /\ phase = "up" /\ rt.step = "saving" /\ rt' = Resting
      /\ temp' = NoFile /\ file' = file
      /\ UNCHANGED <<phase, known, uiVars, effects, commands, transportVars>>
  BY DEF RtWriteFails, DropTemp
<1>2. UNCHANGED <<allowlist, table, session, accept, handler, incoming, events, sent, connects, op>>
  BY <1>1 DEF transportVars
<1>3. Inv' /\ EventsTyped' /\ UiTyped' /\ ListFollows' /\ MessagesFollow'
  <2>1. SentKept
    BY <1>2 DEF SentKept
  <2> QED
    BY <1>1, <1>2, <2>1, OutsideKeeps, SilentKeeps DEF ProgramInv, EventsTyped
<1>4. StoreSound'
  BY <1>1 DEF ProgramInv, StoreSound, Resting
<1>5. ProcessSound'
  BY <1>1, <1>2 DEF ProgramInv, ProcessSound, RtRecord, Changing, Resting, uiVars
<1> QED
  BY <1>3, <1>4, <1>5 DEF ProgramInv

LEMMA RtReplaceKeeps ==
  ASSUME ProgramInv, RtReplace
  PROVE  ProgramInv'
<1>1. /\ rt.step = "saved" /\ ReplaceContacts(Candidate) /\ rt' = [rt EXCEPT !.step = "replacing"]
      /\ UNCHANGED <<phase, known, uiVars, effects, commands, storeVars>>
  BY DEF RtReplace
<1>2. /\ op = NoOp /\ allowlist' = Candidate /\ op'.step = "taking"
      /\ UNCHANGED <<incoming, events, sent>>
  BY <1>1 DEF ReplaceContacts
<1>3. rt \in RtRecord /\ Candidate \in SUBSET Peers /\ phase = "up"
  BY <1>1, CandidateTyped DEF ProgramInv, ProcessSound, Changing, Resting
<1>4. rt'.step = "replacing" /\ rt'.do = rt.do /\ rt'.peer = rt.peer /\ rt' \in RtRecord
  BY <1>1, <1>3 DEF RtRecord
<1>5. Candidate' = Candidate
  BY <1>1, <1>4 DEF Candidate
<1>6. Inv'
  BY <1>1, <1>3, ReplaceContactsKeeps DEF ProgramInv
<1>7. EventsTyped' /\ UiTyped' /\ ListFollows' /\ MessagesFollow'
  <2>1. SentKept
    BY <1>2 DEF SentKept
  <2> QED
    BY <1>1, <1>2, <2>1, SilentKeeps DEF ProgramInv, EventsTyped
<1>8. StoreSound'
  BY <1>1, <1>4, <1>5 DEF ProgramInv, StoreSound, storeVars
<1>9. ProcessSound'
  BY <1>1, <1>2, <1>3, <1>4, <1>5 DEF ProgramInv, ProcessSound, Changing
<1> QED
  BY <1>6, <1>7, <1>8, <1>9 DEF ProgramInv

LEMMA RtReplacedKeeps ==
  ASSUME ProgramInv, RtReplaced
  PROVE  ProgramInv'
<1> DEFINE c == Command(IF rt.do = "PersistContact" THEN "ContactAdded" ELSE "ContactRemoved", rt.peer)
<1>1. /\ rt.step = "replacing" /\ op = NoOp /\ known' = Candidate /\ rt' = Resting
      /\ Tell(c)
      /\ UNCHANGED <<phase, uiVars, effects, storeVars, transportVars>>
  BY DEF RtReplaced
<1>2. UNCHANGED <<allowlist, table, session, accept, handler, incoming, events, sent, connects, op>>
  BY <1>1 DEF transportVars
<1>3. rt.peer \in Peers /\ Candidate \in SUBSET Peers /\ phase = "up" /\ allowlist = Candidate
  BY <1>1, CandidateTyped DEF ProgramInv, ProcessSound, Changing, Resting
<1>4. Inv' /\ EventsTyped'
  BY <1>2, OutsideKeeps DEF ProgramInv, EventsTyped
<1>5. Tells(c) /\ c.kind \in {"ContactAdded", "ContactRemoved"}
  BY <1>1, <1>3, CommandTyped DEF Tells
<1> HIDE DEF c
<1>6. effects' \in Seq(EffectRecord) /\ Len(effects') <= EffectCapacity
  BY <1>1 DEF ProgramInv, UiTyped, QueuesTyped
<1>7. UiTyped'
  BY <1>1, <1>5, <1>6, TellsTyped DEF ProgramInv
<1>8. ListFollows'
  BY ListReplaced DEF ProgramInv
<1>9. MessagesFollow'
  <2>1. SentKept /\ UNCHANGED chats
    BY <1>1, <1>2 DEF SentKept, uiVars, dataVars
  <2> QED
    BY <1>5, <2>1, MessagesStay DEF ProgramInv
<1>10. StoreSound'
  BY <1>1 DEF ProgramInv, StoreSound, Resting, storeVars
<1>11. ProcessSound'
  BY <1>1, <1>2, <1>3 DEF ProgramInv, ProcessSound, RtRecord, Changing, Resting, NoOp
<1> QED
  BY <1>4, <1>7, <1>8, <1>9, <1>10, <1>11 DEF ProgramInv

-----------------------------------------------------------------------------
(* The tasks that await an outcome, and the end of the loop.               *)

LEMMA RtReportKeeps ==
  ASSUME ProgramInv, NEW m \in Outbound, RtReport(m)
  PROVE  ProgramInv'
<1> DEFINE c == OutgoingSettled(sent[m].peer, m, sent[m].outcome)
<1>1. /\ phase = "up" /\ sent[m].outcome \in Outcomes
      /\ sent' = [sent EXCEPT ![m].told = TRUE] /\ Tell(c)
      /\ UNCHANGED <<phase, rt, known, uiVars, effects, storeVars>>
      /\ UNCHANGED <<allowlist, table, session, accept, handler, incoming, events, connects, op>>
  BY DEF RtReport, rtVars
<1>2. sent \in [Outbound -> SentRecord] /\ sent[m] \in SentRecord
  BY DEF ProgramInv, Inv, Typed, SentTyped, SentRecord
<1>3. /\ sent' \in [Outbound -> SentRecord]
      /\ \A n \in Outbound : sent'[n].outcome = sent[n].outcome /\ sent'[n].session = sent[n].session
  BY <1>1, <1>2 DEF SentRecord
<1>4. Owing'
  BY <1>1, <1>3 DEF ProgramInv, Inv, Owing
<1>5. Inv' /\ EventsTyped'
  BY <1>1, <1>3, <1>4, MessagesKeep DEF ProgramInv, EventsTyped
<1>6. ProcessSound' /\ StoreSound'
  BY <1>1, ProcessStays, StoreStays DEF ProgramInv, CallMoves, uiVars
<1>7. c \in CommandRecord /\ c.kind = "OutgoingSettled"
  BY <1>1, <1>2 DEF OutgoingSettled, CommandRecord, SentRecord
<1>8. Tells(c)
  BY <1>1, <1>7 DEF Tells
<1> HIDE DEF c
<1>9. UiTyped'
  <2>1. effects' \in Seq(EffectRecord) /\ Len(effects') <= EffectCapacity
    BY <1>1 DEF ProgramInv, UiTyped, QueuesTyped
  <2> QED
    BY <1>1, <1>8, <2>1, TellsTyped DEF ProgramInv
<1>10. ListFollows'
  BY <1>1, <1>7, <1>8, ListStays DEF ProgramInv, uiVars, dataVars
<1>11. MessagesFollow'
  BY MessagesReported DEF ProgramInv
<1> QED
  BY <1>5, <1>6, <1>9, <1>10, <1>11 DEF ProgramInv

LEMMA RtStopKeeps ==
  ASSUME ProgramInv, RtStop
  PROVE  ProgramInv'
<1>1. /\ phase = "up" /\ rt = Resting /\ ~running /\ CloseTransport
      /\ rt' = [Resting EXCEPT !.step = "stopping"]
      /\ UNCHANGED <<phase, known, uiVars, effects, commands, storeVars>>
  BY DEF RtStop, Selecting
<1>2. /\ op'.step = "closing" /\ UNCHANGED <<allowlist, incoming, events, sent>>
  BY <1>1 DEF CloseTransport, NoOp
<1>3. Inv'
  BY <1>1, CloseTransportKeeps DEF ProgramInv
<1>4. EventsTyped' /\ UiTyped' /\ ListFollows' /\ MessagesFollow'
  <2>1. SentKept
    BY <1>2 DEF SentKept
  <2> QED
    BY <1>1, <1>2, <2>1, SilentKeeps DEF ProgramInv, EventsTyped
<1>5. rt'.step = "stopping" /\ rt'.do = "None" /\ rt' \in RtRecord
  BY <1>1 DEF Resting, RtRecord
<1>6. StoreSound'
  BY <1>1, <1>5 DEF ProgramInv, StoreSound, Resting, storeVars
<1>7. ProcessSound'
  BY <1>1, <1>2, <1>5 DEF ProgramInv, ProcessSound, Changing, Resting, uiVars
<1> QED
  BY <1>3, <1>4, <1>6, <1>7 DEF ProgramInv

-----------------------------------------------------------------------------
(* The interface.                                                          *)

LEMMA QuitEmpties ==
  ASSUME Quit
  PROVE  running' = FALSE /\ commands' = <<>> /\ \A p \in Peers : chats'[p] = <<>>
  BY DEF Quit, UiStart

LEMMA UserPartKeeps ==
  ASSUME ProgramInv, User
  PROVE  ProgramInv'
<1>1. phase = "up" /\ UNCHANGED <<phase, rt, known, storeVars, transportVars>>
  BY DEF User, rtVars
<1>2. UNCHANGED <<allowlist, table, session, accept, handler, incoming, events, sent, connects, op>>
  BY <1>1 DEF transportVars
<1>3. Inv' /\ EventsTyped' /\ StoreSound'
  BY <1>1, <1>2, OutsideKeeps, StoreStays DEF ProgramInv, EventsTyped
<1>4. UiTyped' /\ (Quit \/ Undisturbed)
  BY UserKeeps DEF ProgramInv
<1>5. CASE Quit
  <2>1. running' = FALSE /\ commands' = <<>> /\ \A p \in Peers : chats'[p] = <<>>
    BY <1>5, QuitEmpties
  <2>2. ListFollows' /\ MessagesFollow'
    BY <2>1, ListStarts, MessagesGone
  <2>3. ProcessSound'
    BY <1>1, <1>2, <2>1 DEF ProgramInv, ProcessSound, Candidate
  <2> QED
    BY <1>3, <1>4, <2>2, <2>3 DEF ProgramInv
<1>6. CASE Undisturbed
  <2>1. /\ UNCHANGED <<running, contacts, commands>>
        /\ \A p \in Peers : chats'[p] = chats[p] \/ chats'[p] = <<>>
    BY <1>6 DEF Undisturbed
  <2>2. Tells(Nothing) /\ Nothing.kind = "Nothing"
    BY <2>1 DEF Tells, Nothing
  <2>3. SentKept
    BY <1>2 DEF SentKept
  <2>4. ListFollows' /\ MessagesFollow'
    BY <1>1, <2>1, <2>2, <2>3, ListStays, MessagesStay DEF ProgramInv
  <2>5. ProcessSound'
    BY <1>1, <1>2, <2>1, ProcessStays DEF ProgramInv, CallMoves
  <2> QED
    BY <1>3, <1>4, <2>4, <2>5 DEF ProgramInv
<1> QED
  BY <1>4, <1>5, <1>6

LEMMA ScreenKeeps ==
  ASSUME ProgramInv, Screen
  PROVE  ProgramInv'
<1>1. ApplyCommand /\ UNCHANGED <<phase, rt, known, storeVars, transportVars>>
  BY DEF Screen, rtVars
<1>2. UNCHANGED <<allowlist, table, session, accept, handler, incoming, events, sent, connects, op>>
  BY <1>1 DEF transportVars
<1>3. running /\ commands # <<>> /\ running' = running
  BY <1>1 DEF ApplyCommand
<1>4. phase = "up"
  BY <1>3 DEF ProgramInv, ProcessSound, UiOff
<1>5. Inv' /\ EventsTyped' /\ StoreSound'
  BY <1>1, <1>2, OutsideKeeps, StoreStays DEF ProgramInv, EventsTyped
<1>6. UiTyped'
  BY <1>1, <1>3, HeadAdds, ApplyKeeps DEF ProgramInv
<1>7. ListFollows' /\ MessagesFollow'
  BY <1>1, <1>2, ListRead, MessagesRead DEF ProgramInv
<1>8. ProcessSound'
  BY <1>1, <1>2, <1>3, <1>4, ProcessStays DEF ProgramInv, CallMoves
<1> QED
  BY <1>5, <1>6, <1>7, <1>8 DEF ProgramInv

-----------------------------------------------------------------------------
(* The process: it starts, ends, and dies.                                 *)

LEMMA UpBefore ==
  ASSUME ProcessSound, phase # "up"
  PROVE  UiOff /\ Started({}) /\ rt = Resting /\ known = {}
  BY DEF ProcessSound

\* What bind leaves is sound.
LEMMA StartedSound ==
  ASSUME NEW peers \in SUBSET Peers
  PROVE  (Started(peers) => Inv)'
<1>1. Started(peers) => Inv
  BY StartedInv
<1> QED
  BY <1>1, PTL

LEMMA StartedNext ==
  ASSUME NEW peers \in SUBSET Peers, StartTransport(peers)
  PROVE  Inv' /\ Started(peers)'
<1>1. Started(peers)'
  BY DEF StartTransport, Started
<1> QED
  BY <1>1, StartedSound

\* An interface and a transport over a list of contacts, or over none.
LEMMA StartKeeps ==
  ASSUME NEW on \in BOOLEAN, NEW list \in Seq(Peers), IsInjective(list), NEW created \in BOOLEAN,
         ~on => list = <<>>, UiStart(on, list, created), effects' = <<>>,
         StartTransport(Range(list)), known' = Range(list)
  PROVE  Inv' /\ UiTyped' /\ EventsTyped' /\ ListFollows' /\ MessagesFollow' /\ known' \in SUBSET Peers
<1>1. Range(list) \in SUBSET Peers
  BY DEF Range
<1>2. Inv'
  BY <1>1, StartedNext
<1>3. EventsTyped'
  BY DEF StartTransport, EventsTyped
<1>4. UiTyped'
  <2>1. effects' \in Seq(EffectRecord) /\ Len(effects') <= EffectCapacity
    BY TuiAssumption
  <2> QED
    BY <2>1, UiStartTyped
<1>5. contacts' = list /\ commands' = <<>> /\ \A p \in Peers : chats'[p] = <<>>
  BY DEF UiStart
<1>6. ListFollows'
  <2>1. Range(contacts') = known'
    BY <1>5
  <2> QED
    BY <1>5, <2>1, ListStarts
<1> QED
  BY <1>1, <1>2, <1>3, <1>4, <1>5, <1>6, MessagesGone

LEMMA LaunchKeeps ==
  ASSUME ProgramInv, Launch
  PROVE  ProgramInv'
<1> DEFINE list == Loaded(file)
<1>1. /\ phase \in {"created", "booting"} /\ phase' = "up" /\ rt' = Resting
      /\ known' = Range(list) /\ UiStart(TRUE, list, phase = "created") /\ effects' = <<>>
      /\ StartTransport(Range(list)) /\ file' = file /\ temp' = temp
  BY DEF Launch, storeVars
<1>2. list \in Seq(Peers) /\ IsInjective(list)
  <2>1. CASE file = NoFile
    BY <2>1 DEF Loaded, IsInjective
  <2>2. CASE file # NoFile
    BY <2>2 DEF Loaded, ProgramInv, StoreSound, IsList
  <2> QED
    BY <2>1, <2>2
<1>3. rt = Resting
  BY <1>1, UpBefore DEF ProgramInv
<1>4. StoreSound'
  BY <1>1, <1>3 DEF ProgramInv, StoreSound, Resting, Loaded
<1> HIDE DEF list
<1>5. Inv' /\ UiTyped' /\ EventsTyped' /\ ListFollows' /\ MessagesFollow' /\ known' \in SUBSET Peers
  BY <1>1, <1>2, StartKeeps
<1>6. allowlist' = known' /\ op' = NoOp
  BY <1>1 DEF StartTransport
<1>7. ProcessSound'
  BY <1>1, <1>5, <1>6 DEF ProcessSound, Resting, NoOp, RtRecord, Changing
<1> QED
  BY <1>4, <1>5, <1>7 DEF ProgramInv

LEMMA AllGoneKeeps ==
  ASSUME ProgramInv, AllGone, file' = file, temp' = NoFile \/ (temp' = temp /\ rt.step # "saving")
  PROVE  ProgramInv'
<1>1. /\ phase' = "down" /\ rt' = Resting /\ known' = {}
      /\ UiStart(FALSE, <<>>, FALSE) /\ effects' = <<>> /\ StartTransport({})
  BY DEF AllGone
<1>2. <<>> \in Seq(Peers) /\ IsInjective(<<>>) /\ Range(<<>>) = {}
  BY DEF IsInjective, Range
<1>3. Inv' /\ UiTyped' /\ EventsTyped' /\ ListFollows' /\ MessagesFollow'
  BY <1>1, <1>2, StartKeeps
<1>4. StoreSound'
  BY <1>1 DEF ProgramInv, StoreSound, Resting
<1>5. UiOff' /\ Started({})'
  <2>1. Started({})'
    BY <1>1, StartedNext
  <2>2. UiOff'
    BY <1>1, <1>2 DEF UiOff, UiStart
  <2> QED
    BY <2>1, <2>2
<1>6. allowlist' = {} /\ op' = NoOp
  BY <1>1 DEF StartTransport
<1>7. ProcessSound'
  BY <1>1, <1>5, <1>6 DEF ProcessSound, Resting, NoOp, RtRecord, Changing
<1> QED
  BY <1>3, <1>4, <1>7 DEF ProgramInv

LEMMA BootKeeps ==
  ASSUME ProgramInv, Boot
  PROVE  ProgramInv'
<1>1. /\ phase = "down" /\ phase' \in {"created", "booting"}
      /\ file' = file /\ temp' = temp
      /\ UNCHANGED <<rt, known, uiVars, effects, commands, transportVars>>
  BY DEF Boot, CreateKey, rtVars, storeVars
<1>2. UNCHANGED <<allowlist, table, session, accept, handler, incoming, taken, events, sent, connects, op>>
  BY <1>1 DEF transportVars
<1>3. UiOff /\ Started({}) /\ rt = Resting /\ known = {}
  BY <1>1, UpBefore DEF ProgramInv
<1>4. UiOff' /\ Started({})'
  <2>1. Started({})'
    BY <1>2, <1>3, Zenon DEF Started
  <2>2. UNCHANGED <<running, focus, mode, tab, index, overlay, contacts, view, chats, scroll, drafts, pending>>
    BY <1>1, Zenon DEF uiVars, navVars, dataVars, textVars
  <2>3. UiOff'
    BY <1>1, <1>3, <2>2, Zenon DEF UiOff
  <2> QED
    BY <2>1, <2>3
<1>5. ProcessSound'
  BY <1>1, <1>2, <1>3, <1>4 DEF ProgramInv, ProcessSound, Resting
<1>6. StoreSound'
  BY <1>1 DEF ProgramInv, StoreSound, Candidate
<1>7. Inv' /\ EventsTyped' /\ UiTyped' /\ ListFollows' /\ MessagesFollow'
  <2>1. SentKept
    BY <1>2 DEF SentKept
  <2> QED
    BY <1>1, <1>2, <2>1, OutsideKeeps, SilentKeeps DEF ProgramInv, EventsTyped
<1> QED
  BY <1>5, <1>6, <1>7 DEF ProgramInv

LEMMA StutterKeeps ==
  ASSUME ProgramInv, UNCHANGED vars
  PROVE  ProgramInv'
<1>1. UNCHANGED <<phase, rt, known, uiVars, effects, commands, storeVars, transportVars>>
  BY DEF vars, rtVars
<1>2. UNCHANGED <<allowlist, table, session, accept, handler, incoming, taken, events, sent, connects, op>>
  BY <1>1 DEF transportVars
<1>3. UNCHANGED <<running, focus, mode, tab, index, overlay, contacts, view, chats, scroll, drafts, pending>>
  BY <1>1 DEF uiVars, navVars, dataVars, textVars
<1>4. ProcessSound'
  BY <1>1, <1>2, <1>3, Zenon DEF ProgramInv, ProcessSound, UiOff, Started, Candidate
<1>5. StoreSound'
  BY <1>1, StoreStays DEF ProgramInv
<1>6. Inv' /\ EventsTyped' /\ UiTyped' /\ ListFollows' /\ MessagesFollow'
  <2>1. SentKept
    BY <1>2 DEF SentKept
  <2> QED
    BY <1>1, <1>2, <2>1, OutsideKeeps, SilentKeeps DEF ProgramInv, EventsTyped
<1> QED
  BY <1>4, <1>5, <1>6 DEF ProgramInv

-----------------------------------------------------------------------------
(* The theorems.                                                           *)

LEMMA ProgramInitInv == ProgramInit => ProgramInv
<1> SUFFICES ASSUME ProgramInit PROVE ProgramInv
  OBVIOUS
<1>1. phase = "down" /\ rt = Resting /\ known = {} /\ UiOff /\ StoreInit /\ Started({})
  BY DEF ProgramInit
<1>2. Inv /\ UiTyped
  BY <1>1, StartedInv, UiOffTyped
<1>3. /\ allowlist = {} /\ op = NoOp /\ events = <<>> /\ incoming = <<>>
      /\ running = FALSE /\ commands = <<>> /\ \A p \in Peers : chats[p] = <<>>
  BY <1>1 DEF Started, UiOff
<1>4. ProcessSound
  BY <1>1, <1>3 DEF ProcessSound, Resting, NoOp, RtRecord, Changing
<1>5. EventsTyped
  BY <1>3 DEF EventsTyped
<1>6. StoreSound
  <2>1. CASE file = NoFile
    BY <1>1, <2>1 DEF StoreSound, StoreInit
  <2>2. CASE \E peers \in SUBSET Peers : \E s \in Ascending(peers) : file = List(s)
    <3>0. PICK peers \in SUBSET Peers : \E s \in Ascending(peers) : file = List(s)
      BY <2>2
    <3>1. PICK s \in Ascending(peers) : file = List(s)
      BY <3>0
    <3>2. peers \in SUBSET Int
      BY PeersAssumption
    <3>3. IsFiniteSet(peers)
      BY PeersAssumption, FS_Subset, Zenon
    <3>4. s \in Seq(peers) /\ IsInjective(s)
      BY <3>1, <3>2, <3>3, AscendingLists
    <3>5. file.peers = s /\ file = List(file.peers) /\ IsList(file.peers)
      BY <3>1, <3>4 DEF List, IsList
    <3> QED
      BY <1>1, <3>5 DEF StoreSound, StoreInit
  <2> QED
    BY <1>1, <2>1, <2>2 DEF StoreInit
<1>7. ListFollows
  BY <1>3 DEF ListFollows
<1>8. MessagesFollow
  BY <1>3 DEF MessagesFollow, SaidAt
<1> QED
  BY <1>2, <1>4, <1>5, <1>6, <1>7, <1>8 DEF ProgramInv

LEMMA ProgramNextKeeps ==
  ASSUME ProgramInv, [ProgramNext]_vars
  PROVE  ProgramInv'
<1>1. CASE Runtime
  BY <1>1, RtIncomingKeeps, RtEventKeeps, RtEffectKeeps, RtWriteKeeps, RtWriteFailsKeeps,
     RtReplaceKeeps, RtReplacedKeeps, RtStopKeeps, RtReportKeeps DEF Runtime
<1>2. CASE Exit
  BY <1>2, AllGoneKeeps DEF Exit, storeVars
<1>3. CASE Crash
  BY <1>3, AllGoneKeeps DEF Crash, DropTemp
<1> QED
  BY <1>1, <1>2, <1>3, UserPartKeeps, ScreenKeeps, TransportPartKeeps, BootKeeps, LaunchKeeps,
     StutterKeeps DEF ProgramNext

\* The invariant of every state the program reaches, whatever the user, the
\* network and the file system do and however often the process dies.
THEOREM ProgramInvariant == ProgramSpec => []ProgramInv
<1>1. ProgramInv /\ [ProgramNext]_vars => ProgramInv'
  BY ProgramNextKeeps
<1> QED
  BY <1>1, ProgramInitInv, PTL DEF ProgramSpec

\* The shapes of the program's state.  A process that does not run, or has not
\* launched yet, has no interface, no contacts and no session (application.rs).
THEOREM ProgramTyped == ProgramSpec => []ProgramTypeOK
<1>1. ProgramInv => ProgramTypeOK
  <2> SUFFICES ASSUME ProgramInv PROVE ProgramTypeOK
    OBVIOUS
  <2>1. UiTypeOK /\ TransportTypeOK
    BY UiTypedOK, InvTyped DEF ProgramInv
  <2>2. phase # "up" => ~running /\ known = {} /\ Alive = {}
    <3>1. SUFFICES ASSUME phase # "up" PROVE ~running /\ known = {} /\ Alive = {}
      OBVIOUS
    <3>2. UiOff /\ Started({}) /\ known = {}
      BY <3>1, UpBefore DEF ProgramInv
    <3>3. \A s \in SessionIds : session[s] = Absent
      BY <3>2 DEF Started, StartedSessions
    <3> QED
      BY <3>2, <3>3 DEF UiOff, Alive, Absent
  <2>3. /\ phase \in {"down", "booting", "created", "up"} /\ known \subseteq Peers
        /\ rt.step \in {"resting", "saving", "saved", "replacing", "stopping"}
    BY DEF ProgramInv, ProcessSound, RtRecord
  <2> QED
    BY <2>1, <2>2, <2>3 DEF ProgramTypeOK
<1> QED
  BY <1>1, ProgramInvariant, PTL

\* A file that was not cut short can be read.
LEMMA FileLoads ==
  ASSUME StoreSound
  PROVE  Loads(file)
<1>1. CASE file = NoFile
  BY <1>1 DEF Loads, NoFile, Torn
<1>2. CASE file = List(file.peers) /\ IsList(file.peers)
  <2>1. PICK s : file = List(s)
    BY <1>2
  <2>2. file # Torn
    BY <2>1 DEF List, Torn
  <2> QED
    BY <1>2, <2>2 DEF Loads, IsList
<1> QED
  BY <1>1, <1>2 DEF StoreSound

\* No write that is cut short, no error and no death of the process loses a
\* contact the user saw added or leaves a file that cannot be read:
\* replace_contacts writes the file before anything else, and tells last.
THEOREM ContactsStored == ProgramSpec => []ShownContactsAreStored
<1>1. ProgramInv => ShownContactsAreStored
  <2> SUFFICES ASSUME ProgramInv PROVE ShownContactsAreStored
    OBVIOUS
  <2>1. Loads(file)
    BY FileLoads DEF ProgramInv
  <2>2. ASSUME NEW p \in Range(contacts)
        PROVE  \/ p \in Range(Loaded(file))
               \/ rt.do = "RemoveContact" /\ rt.peer = p
               \/ Told("ContactRemoved", p)
    <3>1. running /\ phase = "up" /\ p \in Peers
      <4>1. contacts # <<>> /\ p \in Peers
        BY <2>2 DEF ProgramInv, UiTyped, ListTyped, Range
      <4> QED
        BY <4>1 DEF ProgramInv, UiTyped, NavTyped, EndedEmpty, ProcessSound, UiOff
    <3>2. CASE p \notin known
      <4>1. SaidAt("ContactRemoved", p) # {}
        BY <2>2, <3>1, <3>2 DEF ProgramInv, ListFollows, Follows
      <4> QED
        BY <4>1 DEF SaidAt, Told
    <3>3. CASE p \in known
      BY <3>1, <3>3 DEF ProgramInv, StoreSound, Candidate, ProcessSound, RtRecord, Changing
    <3> QED
      BY <3>2, <3>3
  <2> QED
    BY <2>1, <2>2 DEF ShownContactsAreStored
<1> QED
  BY <1>1, ProgramInvariant, PTL

\* No message is left pending on the screen: send_text tells the message before
\* the task that tells its outcome, commands keep their order, and a session
\* that is stopped settles what it owes.
THEOREM PendingSettles == ProgramSpec => []PendingMessageWillSettle
<1>1. ProgramInv => PendingMessageWillSettle
  <2>1. SUFFICES ASSUME ProgramInv, NEW p \in Peers, NEW i \in DOMAIN chats[p], NEW m,
                        m = chats[p][i].id, chats[p][i].from = "Local",
                        chats[p][i].delivery = "Pending"
                 PROVE  \/ ~sent[m].told
                        \/ \E j \in DOMAIN commands :
                             commands[j].kind = "OutgoingSettled" /\ commands[j].id = m
    BY Zenon DEF PendingMessageWillSettle
  <2>2. WillSettle(m, p, 0)
    BY <2>1, Zenon DEF ProgramInv, MessagesFollow
  <2> QED
    BY <2>2 DEF WillSettle, SaidAt
<1> QED
  BY <1>1, ProgramInvariant, PTL

\* The transport as the program uses it: contacts come from the file and
\* through the interface, the process is started, stopped and dies.  No live
\* session drops out of the table, every contact has its session between
\* calls, no budget is exceeded, and every pending message has a session that
\* can settle it (transport.rs under chat_session.rs).
THEOREM TransportServesProgram ==
  ProgramSpec => [](SessionsOwned /\ ContactsHaveSessions /\ BudgetsKept /\ PendingHasSession)
<1>1. Inv => SessionsOwned
  BY DEF Inv, Owned, SessionsOwned, Alive
<1>2. Inv => ContactsHaveSessions
  BY OpFields DEF Inv, CallSound, ContactsHaveSessions
<1>3. Inv => BudgetsKept
  BY DEF Inv, Typed, SessionsTyped, Sound, Budgets, BudgetsKept, PermitsHeld, Alive
<1>4. Inv => PendingHasSession
  BY DEF Inv, Owing, PendingHasSession, Alive
<1> QED
  BY <1>1, <1>2, <1>3, <1>4, ProgramInvariant, PTL DEF ProgramInv

-----------------------------------------------------------------------------
(* Marks of messages that are being sent.                                  *)

\* A request about p waits for the runtime.
Asked(p) == \E i \in DOMAIN effects : effects[i].do = "SendText" /\ effects[i].peer = p

Answers == {"OutgoingQueued", "SendRejected", "ContactRemoved"}

\* The answer to a request about p waits for the screen.
Answering(p) == \E kind \in Answers : Told(kind, p)

\* No message is submitted while the effect channel is full.
RequestsFit == Len(effects) = EffectCapacity => pending' \subseteq pending

LEMMA SendingRead ==
  SendingHasRequest <=> (running => \A p \in pending : Asked(p) \/ Answering(p))
  BY Zenon DEF SendingHasRequest, Asked, Answering, Answers

LEMMA SendingNext ==
  ASSUME running' => running /\ \A p \in pending' : (Asked(p) \/ Answering(p))'
  PROVE  SendingHasRequest'
  BY Zenon DEF SendingHasRequest, Asked, Answering, Answers

LEMMA AskedStays ==
  ASSUME UiTyped, effects' = effects \/ \E e \in EffectRecord : effects' = Append(effects, e), NEW p, Asked(p)
  PROVE  Asked(p)'
<1>1. effects \in Seq(EffectRecord)
  BY DEF UiTyped, QueuesTyped
<1>2. PICK i \in DOMAIN effects : effects[i].do = "SendText" /\ effects[i].peer = p
  BY DEF Asked
<1>3. i \in DOMAIN effects' /\ effects'[i] = effects[i]
  BY <1>1, <1>2
<1> QED
  BY <1>2, <1>3 DEF Asked

LEMMA AnsweringStays ==
  ASSUME UiTyped, NEW c, commands' = commands \/ commands' = Append(commands, c), NEW p, Answering(p)
  PROVE  Answering(p)'
<1>1. commands \in Seq(CommandRecord)
  BY DEF UiTyped, QueuesTyped
<1>2. PICK kind \in Answers : Told(kind, p)
  BY DEF Answering
<1>3. PICK i \in DOMAIN commands : commands[i].kind = kind /\ commands[i].peer = p
  BY <1>2 DEF Told
<1>4. i \in DOMAIN commands' /\ commands'[i] = commands[i]
  BY <1>1, <1>3
<1> QED
  BY <1>3, <1>4 DEF Told, Answering
\* Something is told, or nothing.
Speaks == commands' = commands \/ \E c : commands' = Append(commands, c)

LEMMA TellSpeaks == ASSUME NEW c, Tell(c) PROVE Speaks
<1>1. CASE running
  BY <1>1, Zenon DEF Tell, Speaks
<1>2. CASE ~running
  BY <1>2, Zenon DEF Tell, Speaks
<1> QED
  BY <1>1, <1>2

\* The runtime speaks, and no mark is made.
LEMMA SpeakingKeeps ==
  ASSUME UiTyped, SendingHasRequest, Speaks, UNCHANGED <<uiVars, effects>>
  PROVE  SendingHasRequest'
<1>1. running' = running /\ pending' = pending
  BY DEF uiVars, textVars
<1>2. SUFFICES ASSUME running, NEW p, p \in pending
               PROVE  (Asked(p) \/ Answering(p))'
  BY <1>1, SendingNext
<1>3. CASE Asked(p)
  BY <1>3, AskedStays
<1>4. CASE Answering(p)
  BY <1>4, AnsweringStays DEF Speaks
<1> QED
  BY <1>2, <1>3, <1>4, SendingRead

\* What waits when an effect is taken.
LEMMA TakenAsks ==
  ASSUME UiTyped, NEW do, Take(do), NEW p, Asked(p)
  PROVE  Asked(p)' \/ (do = "SendText" /\ Head(effects).peer = p)
<1>1. effects \in Seq(EffectRecord) /\ effects # <<>> /\ effects' = Tail(effects) /\ Head(effects).do = do
  BY DEF UiTyped, QueuesTyped, Take
<1>2. PICK i \in DOMAIN effects : effects[i].do = "SendText" /\ effects[i].peer = p
  BY DEF Asked
<1>3. CASE i = 1
  BY <1>1, <1>2, <1>3
<1>4. CASE i # 1
  <2>1. i - 1 \in DOMAIN effects' /\ effects'[i - 1] = effects[i]
    BY <1>1, <1>2, <1>4
  <2> QED
    BY <1>2, <2>1 DEF Asked
<1> QED
  BY <1>3, <1>4

\* The runtime takes an effect: the answer to a message is told before it
\* takes another (send_text).
LEMMA EffectKeepsSending ==
  ASSUME UiTyped, SendingHasRequest, RtEffect
  PROVE  SendingHasRequest'
<1>1. PICK do : Take(do) /\ Speaks /\ (do = "SendText" => RtSendText)
  <2>1. CASE RtCopyText
    <3>1. Speaks /\ Take("CopyText")
      BY <2>1, Zenon DEF RtCopyText, Speaks
    <3> QED
      BY <3>1
  <2>2. CASE RtSendText
    <3>1. Speaks /\ Take("SendText")
      BY <2>2, TellSpeaks DEF RtSendText
    <3> QED
      BY <2>2, <3>1
  <2>3. CASE RtPersistContact
    <3>1. Speaks /\ Take("PersistContact")
      BY <2>3, TellSpeaks DEF RtPersistContact, TellNone, Speaks
    <3> QED
      BY <3>1
  <2>4. CASE RtRemoveContact
    <3>1. Speaks /\ Take("RemoveContact")
      BY <2>4, Zenon DEF RtRemoveContact, Speaks
    <3> QED
      BY <3>1
  <2> QED
    BY <2>1, <2>2, <2>3, <2>4 DEF RtEffect
<1>2. running' = running /\ pending' = pending
  BY <1>1 DEF Take, uiVars, textVars
<1>3. SUFFICES ASSUME running, NEW p, p \in pending
               PROVE  (Asked(p) \/ Answering(p))'
  BY <1>2, SendingNext
<1>4. CASE Answering(p)
  BY <1>1, <1>4, AnsweringStays DEF Speaks
<1>5. CASE Asked(p) /\ ~Asked(p)'
  <2>1. do = "SendText" /\ Head(effects).peer = p /\ RtSendText
    BY <1>1, <1>5, TakenAsks
  <2>2. PICK c : Tell(c) /\ c.kind \in Answers /\ c.peer = p
    <3>1. \/ \E m : Tell(OutgoingQueued(p, m, Head(effects).body))
          \/ Tell(Command("SendRejected", p))
      BY <2>1, Zenon DEF RtSendText
    <3>2. ASSUME NEW m, Tell(OutgoingQueued(p, m, Head(effects).body))
          PROVE  \E c : Tell(c) /\ c.kind \in Answers /\ c.peer = p
      <4>1. /\ OutgoingQueued(p, m, Head(effects).body).kind \in Answers
            /\ OutgoingQueued(p, m, Head(effects).body).peer = p
        BY DEF OutgoingQueued, Answers
      <4> QED
        BY <3>2, <4>1, Zenon
    <3>3. Command("SendRejected", p).kind \in Answers /\ Command("SendRejected", p).peer = p
      BY DEF Command, Answers
    <3> QED
      BY <3>1, <3>2, <3>3, Zenon
  <2>3. commands' = Append(commands, c) /\ commands \in Seq(CommandRecord)
    BY <1>3, <2>2 DEF Tell, UiTyped, QueuesTyped
  <2>4. Len(commands) + 1 \in DOMAIN commands' /\ commands'[Len(commands) + 1] = c
    BY <2>3
  <2> QED
    BY <2>2, <2>4 DEF Answering, Told
<1> QED
  BY <1>3, <1>4, <1>5, SendingRead


\* The screen reads an answer, and the mark goes with it.
LEMMA ScreenKeepsSending ==
  ASSUME UiTyped, SendingHasRequest, ApplyCommand
  PROVE  SendingHasRequest'
<1> DEFINE c == Head(commands)
<1>1. /\ c \in CommandRecord /\ commands' = Tail(commands)
      /\ Len(commands) \in Nat \ {0} /\ DOMAIN commands = 1..Len(commands)
      /\ Len(Tail(commands)) = Len(commands) - 1 /\ Tail(commands) \in Seq(CommandRecord)
      /\ c = commands[1]
      /\ \A i \in 1..Len(commands) - 1 : Tail(commands)[i] = commands[i + 1]
  BY HeadTyped DEF ApplyCommand
<1>2. running' = running /\ effects' = effects
  BY DEF ApplyCommand
<1>3. pending' \subseteq pending /\ (c.kind \in Answers => c.peer \notin pending')
  <2>1. c.kind \in Answers => c.peer \in Peers
    BY <1>1, CommandFields DEF Answers
  <2>2. CASE ContactRemoved(c)
    BY <2>2 DEF ContactRemoved
  <2>3. CASE QueuedCommand(c) \/ RejectedCommand(c)
    BY <2>3 DEF QueuedCommand, RejectedCommand
  <2>4. CASE StaleCommand(c)
    <3>1. c.peer \notin Range(contacts) /\ pending' = pending /\ c.kind \notin {"ContactRemoved", "SendRejected"}
      BY <2>4 DEF StaleCommand, Listed, textVars
    <3>2. c.kind \in Answers => c.peer \notin pending
      BY <2>1, <3>1 DEF UiTyped, DataTyped
    <3> QED
      BY <3>1, <3>2
  <2>5. CASE ContactAdded(c) \/ ContactAlreadyExists(c)
    BY <2>5 DEF ContactAdded, ContactAlreadyExists, textVars, Answers
  <2>6. CASE SettledCommand(c) \/ IncomingCommand(c) \/ ConnectionCommand(c)
    BY <2>6 DEF SettledCommand, IncomingCommand, ConnectionCommand, textVars, Answers
  <2> QED
    BY <2>2, <2>3, <2>4, <2>5, <2>6, Zenon DEF ApplyCommand
<1> HIDE DEF c
<1>4. SUFFICES ASSUME running, NEW p, p \in pending'
               PROVE  (Asked(p) \/ Answering(p))'
  BY <1>2, SendingNext
<1>5. CASE Asked(p)
  BY <1>2, <1>5, Zenon DEF Asked
<1>6. CASE Answering(p)
  <2>1. PICK kind \in Answers : Told(kind, p)
    BY <1>6 DEF Answering
  <2>2. PICK i \in DOMAIN commands : commands[i].kind = kind /\ commands[i].peer = p
    BY <2>1 DEF Told
  <2>3. i # 1
    BY <1>1, <1>3, <1>4, <2>1, <2>2
  <2>4. i - 1 \in DOMAIN commands' /\ commands'[i - 1] = commands[i]
    BY <1>1, <2>2, <2>3
  <2> QED
    BY <2>1, <2>2, <2>4 DEF Told, Answering
<1> QED
  BY <1>3, <1>4, <1>5, <1>6, SendingRead

\* What the user does adds at most one request, and a mark only with it.
Asks ==
  /\ running' = running /\ commands' = commands
  /\ effects' = effects \/ \E e \in EffectRecord : effects' = Append(effects, e)
  /\ \A p \in pending' : p \in pending \/ Asked(p)'

LEMMA RequestAsks ==
  ASSUME NEW e \in EffectRecord, Request(e) \/ NoRequest, UNCHANGED <<running, commands, pending>>
  PROVE  Asks
  BY Zenon DEF Request, NoRequest, Asks

LEMMA SubmitAsks ==
  ASSUME UiTyped, RequestsFit, NEW a, SubmitDraft(a), UNCHANGED commands
  PROVE  Asks
<1>1. /\ Active # NoPeer /\ Active \notin pending /\ pending' = pending \cup {Active}
      /\ Request(Effect("SendText", Active, drafts[Active]))
  BY DEF SubmitDraft
<1>0. running' = running
  BY DEF SubmitDraft
<1>2. effects \in Seq(EffectRecord) /\ Len(effects) <= EffectCapacity
  BY DEF UiTyped, QueuesTyped
<1>3. Len(effects) # EffectCapacity
  BY <1>1 DEF RequestsFit
<1>4. Len(effects) < EffectCapacity
  BY <1>2, <1>3, TuiAssumption
<1> DEFINE e == Effect("SendText", Active, drafts[Active])
<1>5. effects' = Append(effects, e)
  BY <1>1, <1>4, Zenon DEF Request
<1>6. Active \in Peers
  BY <1>1, ActiveListed DEF UiTyped
<1>7. e \in EffectRecord /\ e.do = "SendText" /\ e.peer = Active
  BY <1>6 DEF Effect, EffectRecord, UiTyped, DataTyped
<1> HIDE DEF e
<1>8. Len(effects) + 1 \in DOMAIN effects' /\ effects'[Len(effects) + 1] = e
  BY <1>2, <1>5, <1>7
<1>9. \A p \in pending' : p \in pending \/ Asked(p)'
  BY <1>1, <1>7, <1>8 DEF Asked
<1> QED
  BY <1>0, <1>5, <1>7, <1>9 DEF Asks
LEMMA OverlayAsks ==
  ASSUME UiTyped, NEW a, UpdateOverlay(a), UNCHANGED commands
  PROVE  Asks
<1>1. Effect("CopyText", NoPeer, 0) \in EffectRecord
  BY EffectTyped
<1>2. CASE AcceptFirstRun(a)
  BY <1>1, <1>2, RequestAsks DEF AcceptFirstRun, textVars
<1>3. CASE Close(a) \/ EditEntry(a) \/ MoveSelection(a)
  BY <1>1, <1>3, RequestAsks DEF Close, EditEntry, MoveSelection, textVars, NoRequest
<1>4. CASE SubmitEntry(a)
  <2>1. UNCHANGED <<running, pending>>
    BY <1>4, Zenon DEF SubmitEntry, textVars
  <2>2. CASE UNCHANGED effects
    BY <1>1, <2>1, <2>2, RequestAsks DEF NoRequest
  <2>3. CASE overlay.entry \in Peers /\ Request(Effect("PersistContact", overlay.entry, 0))
    <3>1. Effect("PersistContact", overlay.entry, 0) \in EffectRecord
      BY <2>3, EffectTyped, TuiAssumption
    <3> QED
      BY <2>1, <2>3, <3>1, RequestAsks
  <2>4. overlay.entry \in Peers \cup {OwnId, Garbled}
    BY <1>4, EntryTyped DEF SubmitEntry, UiTyped
  <2> QED
    BY <1>4, <2>2, <2>3, <2>4 DEF SubmitEntry, NoRequest
<1>5. CASE ActivateMenu(a)
  <2>1. UNCHANGED <<running, pending>> /\ (Request(Effect("CopyText", NoPeer, 0)) \/ NoRequest)
    BY <1>5, Zenon DEF ActivateMenu, textVars
  <2> QED
    BY <1>1, <2>1, RequestAsks
<1>6. CASE AnswerConfirm(a)
  <2>1. UNCHANGED <<running, pending>> /\ (NoRequest \/ Request(Effect("RemoveContact", overlay.action.peer, 0)))
    BY <1>6, Zenon DEF AnswerConfirm, textVars, NoRequest
  <2>2. overlay.action.peer \in Peers
    <3>1. PICK m \in MenuRecord, yes \in BOOLEAN : overlay = Confirm(m, yes) /\ m.peer \in Peers
      BY <1>6, QuestionTyped DEF AnswerConfirm
    <3> QED
      BY <3>1 DEF Confirm
  <2>3. Effect("RemoveContact", overlay.action.peer, 0) \in EffectRecord
    BY <2>2, EffectTyped, TuiAssumption
  <2> QED
    BY <2>1, <2>3, RequestAsks
<1> QED
  BY <1>2, <1>3, <1>4, <1>5, <1>6 DEF UpdateOverlay

LEMMA PanelsAsk ==
  ASSUME UiTyped, RequestsFit, NEW a, UpdatePanels(a), UNCHANGED commands
  PROVE  Asks
<1>1. Effect("CopyText", NoPeer, 0) \in EffectRecord
  BY EffectTyped
<1>2. CASE SubmitDraft(a)
  BY <1>2, SubmitAsks
<1>3. CASE Focus(a) \/ SelectTab(a) \/ OpenContextMenu(a) \/ Insert(a)
  <2>1. UNCHANGED <<running, pending, effects>>
    BY <1>3, Zenon DEF Focus, SetFocus, SelectTab, OpenContextMenu, Insert, textVars
  <2> QED
    BY <1>1, <2>1, RequestAsks DEF NoRequest
<1>4. CASE Navigate(a) \/ EditDraft(a)
  <2>1. UNCHANGED <<running, pending, effects>>
    BY <1>4, Zenon DEF Navigate, NavigateBy, EditDraft, textVars
  <2> QED
    BY <1>1, <2>1, RequestAsks DEF NoRequest
<1> QED
  BY <1>2, <1>3, <1>4 DEF UpdatePanels

LEMMA UserAsks ==
  ASSUME UiTyped, RequestsFit, NEW a, Update(a)
  PROVE  Quit \/ Asks
<1>1. CASE a.do # "Quit"
  <2>1. UNCHANGED commands /\ (UpdateOverlay(a) \/ UpdatePanels(a))
    BY <1>1, Zenon DEF Update
  <2> QED
    BY <2>1, OverlayAsks, PanelsAsk
<1> QED
  BY <1>1 DEF Update

LEMMA AsksKeeps ==
  ASSUME UiTyped, SendingHasRequest, Asks
  PROVE  SendingHasRequest'
<1>1. SUFFICES ASSUME running, NEW p, p \in pending'
               PROVE  (Asked(p) \/ Answering(p))'
  BY SendingNext DEF Asks
<1>2. CASE p \in pending /\ Asked(p)
  BY <1>2, AskedStays DEF Asks
<1>3. CASE p \in pending /\ Answering(p)
  BY <1>3, AnsweringStays DEF Asks
<1> QED
  BY <1>1, <1>2, <1>3, SendingRead DEF Asks

LEMMA SendingNextKeeps ==
  ASSUME ProgramInv, SendingHasRequest, RequestsFit, [ProgramNext]_vars
  PROVE  SendingHasRequest'
<1>1. UiTyped
  BY DEF ProgramInv
<1>2. CASE User
  <2>1. PICK a : Update(a)
    BY <1>2, Zenon DEF User, Press, PasteText
  <2>2. CASE Quit
    BY <2>2, QuitEmpties, SendingNext
  <2> QED
    BY <1>1, <2>1, <2>2, UserAsks, AsksKeeps
<1>3. CASE Screen
  BY <1>1, <1>3, ScreenKeepsSending DEF Screen
<1>4. CASE RtEffect
  BY <1>1, <1>4, EffectKeepsSending
<1>5. CASE Runtime /\ ~RtEffect
  <2>1. UNCHANGED <<uiVars, effects>> /\ Speaks
    <3>1. CASE RtIncoming
      BY <3>1, TellSpeaks DEF RtIncoming
    <3>2. CASE RtEvent
      BY <3>2, TellSpeaks DEF RtEvent, TellNone, Speaks
    <3>3. CASE RtWrite \/ RtWriteFails \/ RtReplace \/ RtStop
      BY <3>3, Zenon DEF RtWrite, RtWriteFails, RtReplace, RtStop, Speaks
    <3>4. CASE RtReplaced
      BY <3>4, TellSpeaks DEF RtReplaced
    <3>5. CASE \E m \in Outbound : RtReport(m)
      BY <3>5, TellSpeaks DEF RtReport
    <3> QED
      BY <1>5, <3>1, <3>2, <3>3, <3>4, <3>5 DEF Runtime
  <2> QED
    BY <1>1, <2>1, SpeakingKeeps
<1>6. CASE Transport \/ Boot \/ UNCHANGED vars
  <2>1. UNCHANGED <<uiVars, effects, commands>>
    BY <1>6, Zenon DEF Transport, Boot, vars
  <2> QED
    BY <1>1, <2>1, SpeakingKeeps DEF Speaks
<1>7. CASE Launch
  <2>1. pending' = {}
    BY <1>7 DEF Launch, UiStart
  <2>2. SendingHasRequest'
    BY <2>1, Zenon DEF SendingHasRequest
  <2> QED
    BY <2>2
<1>8. CASE Exit \/ Crash
  <2>1. running' = FALSE
    BY <1>8 DEF Exit, Crash, AllGone, UiStart
  <2> QED
    BY <2>1, SendingNext
<1> QED
  BY <1>2, <1>3, <1>4, <1>5, <1>6, <1>7, <1>8 DEF ProgramNext

\* A full effect channel is the only way a mark outlives its request: as long
\* as no message is submitted while the channel is full, every contact marked
\* as sending has its request or the answer under way, whatever is read from
\* the channels in between, and however the contacts change (submit_draft,
\* dispatch_effect, send_text, apply_command).
THEOREM SendingAnswered == ProgramSpec /\ [][RequestsFit]_vars => []SendingHasRequest
<1>1. ProgramInit => SendingHasRequest
  <2>1. ProgramInit => pending = {}
    BY DEF ProgramInit, UiOff
  <2> QED
    BY <2>1, Zenon DEF SendingHasRequest
<1>2. ProgramInv /\ SendingHasRequest /\ [ProgramNext]_vars /\ [RequestsFit]_vars => SendingHasRequest'
  <2>1. CASE UNCHANGED vars
    <3>1. UNCHANGED <<running, pending, effects, commands>>
      BY <2>1 DEF vars, uiVars, textVars
    <3> QED
      BY <3>1, Zenon DEF SendingHasRequest, Told
  <2> QED
    BY <2>1, SendingNextKeeps
<1> QED
  BY <1>1, <1>2, ProgramInvariant, PTL DEF ProgramSpec
=============================================================================
