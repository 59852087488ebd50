------------------------------ MODULE ViewProofs -----------------------------
(***************************************************************************)
(* What is shown of a contact is what its session is: through the events   *)
(* of the transport, the runtime and the commands to the screen, whatever  *)
(* dials, connections, keys and changes of the contacts come in between.   *)
(***************************************************************************)
EXTENDS ProgramProofs

-----------------------------------------------------------------------------
(* The invariant.                                                          *)

\* A session made for a contact dials, and is Connecting until it does.  Only
\* contacts have such sessions, and a session that is to be stopped is none
\* of a contact's.
DialsFollow ==
  \A s \in SessionIds : session[s].alive /\ ~session[s].permit =>
    session[s].dial # "never" /\ (session[s].dial = "asked" => session[s].state = "Connecting")

TableFollows ==
  \A p \in Peers : table[p] # NoSession /\ ~session[table[p]].permit =>
    p \in allowlist \cup op.removed

CallFollows ==
  /\ op.step \notin {"closing", "closed"} => \A s \in op.stop : session[s].peer \notin allowlist
  /\ op.add \subseteq allowlist
  /\ op.step # "taking" => op.removed = {}

SessionsFollow == DialsFollow /\ TableFollows /\ CallFollows

\* What a session, an event or the screen shows of a peer.
Display(r) == <<r.state, r.path, r.since>>

\* The events about p, and the commands that change what is shown of it.
Talk(p)  == {i \in DOMAIN events : events[i].peer = p}
About(p) == SaidAt("ContactAdded", p) \cup SaidAt("ContactRemoved", p)
              \cup SaidAt("PeerConnectionStateChanged", p)

\* The last event about p says d.
Coming(p, d) ==
  \E i \in Talk(p) : Display(events[i]) = d /\ \A j \in Talk(p) : j <= i

\* The last command about p says d, or the screen shows it and will keep it.
Reaching(p, d) ==
  \/ \E i \in SaidAt("PeerConnectionStateChanged", p) :
       Display(commands[i].event) = d /\ \A j \in About(p) : j <= i
  \/ p \in Range(contacts) /\ Display(view[p]) = d /\ About(p) = {}

WillShow(p, d) == Coming(p, d) \/ (p \in known /\ Talk(p) = {} /\ Reaching(p, d))

\* A contact whose session was made for it and has begun its dial.
Followed(p) ==
  /\ p \in allowlist /\ table[p] # NoSession
  /\ ~session[table[p]].permit /\ session[table[p]].dial # "asked"

ViewFollows ==
  running => \A p \in Peers : Followed(p) => WillShow(p, Display(session[table[p]]))

ViewInv == ProgramInv /\ SessionsFollow /\ ViewFollows

-----------------------------------------------------------------------------
(* What sessions say.                                                      *)

\* A session shows what it showed, and the events about p are what they were.
Steady(s) == Display(session'[s]) = Display(session[s])
Quiet(p)  == events' = events \/ \E e \in SoundEvent : e.peer # p /\ events' = Append(events, e)

\* An event tells what p's session has become.
Announced(p) ==
  \E e \in SoundEvent : /\ e.peer = p /\ events' = Append(events, e)
                        /\ Display(e) = Display(session'[table'[p]])

\* What a step of the transport does to what is followed.
Hears(p) ==
  Followed(p)' => \/ Followed(p) /\ table'[p] = table[p] /\ Steady(table[p]) /\ Quiet(p)
                  \/ Announced(p)

\* A live session acts: it says so, or shows what it showed.
Voices(s) ==
  /\ session[s].alive /\ session'[s].peer = session[s].peer
  /\ session'[s].permit <=> session[s].permit
  /\ \A t \in SessionIds : t # s => session'[t] = session[t]
  /\ \/ /\ session'[s].dial = session[s].dial
        /\ session'[s].state = session[s].state \/ session[s].dial # "asked"
                                                \/ session[s].state = "Connected"
     \/ session'[s].dial \in {"waiting", "dialing", "done"}
     \/ session[s].dial = "asked" /\ session[s].state = "Connected"
  /\ \/ events' = Append(events, EventOf(session'[s]))
     \/ /\ events' = events /\ Steady(s)
        /\ session'[s].dial = session[s].dial \/ session[s].dial # "asked"
                                              \/ session[s].state = "Connected"

LEMMA EventDisplays ==
  ASSUME NEW r
  PROVE  EventOf(r).peer = r.peer /\ Display(EventOf(r)) = Display(r)
  BY DEF EventOf, ConnEvent, Display

\* The table and what is in it.
LEMMA TableFacts ==
  ASSUME Inv
  PROVE  /\ \A p \in Peers : table[p] \in SessionIds \cup {NoSession}
         /\ \A p \in Peers : table[p] # NoSession =>
              table[p] \in SessionIds /\ session[table[p]].alive /\ session[table[p]].peer = p
         /\ \A s \in SessionIds : session[s].alive =>
              session[s].peer \in Peers /\ (table[session[s].peer] = s \/ s \in op.stop)
         /\ op.stop \in SUBSET SessionIds /\ op.step \in OpSteps
         /\ allowlist \in SUBSET Peers
<1>1. \A p \in Peers : table[p] \in SessionIds \cup {NoSession}
  BY DEF Inv, Typed, TableTyped
<1>2. \A s \in SessionIds : session[s].alive => session[s].peer \in Peers
  BY DEF Inv, Typed, SessionsTyped, Sound
<1>3. op.stop \in SUBSET SessionIds /\ op.step \in OpSteps /\ allowlist \in SUBSET Peers
  BY OpFields DEF Inv, Typed, TableTyped
<1> QED
  BY <1>1, <1>2, <1>3 DEF Inv, Owned

LEMMA VoicesFollow ==
  ASSUME Inv, Inv', SessionsFollow, NEW s \in SessionIds, Voices(s),
         UNCHANGED <<allowlist, table, op>>
  PROVE  /\ SessionsFollow'
         /\ op.step \notin {"closing", "closed"} => \A p \in Peers : Hears(p)
<1>1. /\ session[s].alive /\ session'[s].peer = session[s].peer
      /\ session'[s].permit <=> session[s].permit
      /\ \A t \in SessionIds : t # s => session'[t] = session[t]
  BY DEF Voices
<1>2. DialsFollow'
  BY <1>1 DEF Voices, SessionsFollow, DialsFollow
<1>3. TableFollows'
  BY <1>1, TableFacts DEF SessionsFollow, TableFollows
<1>4. CallFollows'
  BY <1>1, TableFacts DEF SessionsFollow, CallFollows
<1>5. ASSUME op.step \notin {"closing", "closed"}, NEW p \in Peers, Followed(p)'
      PROVE  \/ Followed(p) /\ table'[p] = table[p] /\ Steady(table[p]) /\ Quiet(p)
             \/ Announced(p)
  <2>1. /\ p \in allowlist /\ table[p] # NoSession /\ table'[p] = table[p]
        /\ ~session'[table[p]].permit /\ session'[table[p]].dial # "asked"
    BY <1>5 DEF Followed
  <2>2. table[p] \in SessionIds /\ session[table[p]].peer = p
    BY <2>1, TableFacts
  <2>3. EventOf(session'[s]) \in SoundEvent
    BY EventSound DEF Inv, Typed, SessionsTyped
  <2>4. CASE table[p] = s
    <3>1. CASE events' = Append(events, EventOf(session'[s]))
      BY <1>1, <2>1, <2>2, <2>3, <2>4, <3>1, EventDisplays DEF Announced
    <3>2. CASE events' = events /\ Steady(s) /\ (\/ session'[s].dial = session[s].dial
                                                 \/ session[s].dial # "asked"
                                                 \/ session[s].state = "Connected")
      <4>1. session[s].dial # "asked"
        BY <1>1, <2>1, <2>4, <3>2 DEF SessionsFollow, DialsFollow
      <4> QED
        BY <1>1, <2>1, <2>4, <3>2, <4>1 DEF Followed, Quiet
    <3> QED
      BY <3>1, <3>2 DEF Voices
  <2>5. CASE table[p] # s
    <3>1. session'[table[p]] = session[table[p]]
      BY <1>1, <2>2, <2>5
    <3>2. session[s].peer # p
      BY <1>1, <1>5, <2>1, <2>5, TableFacts DEF SessionsFollow, CallFollows
    <3>3. Quiet(p)
      BY <1>1, <2>3, <3>2, EventDisplays DEF Voices, Quiet
    <3> QED
      BY <2>1, <3>1, <3>3 DEF Followed, Steady
  <2> QED
    BY <2>4, <2>5
<1> QED
  BY <1>2, <1>3, <1>4, <1>5 DEF SessionsFollow, Hears

-----------------------------------------------------------------------------
(* The steps of the transport.                                             *)

\* attach_connection says what it shows, and changes no dial.
LEMMA AttachSays ==
  ASSUME SessionsTyped, NEW s \in SessionIds, NEW record, Sound(record), record.alive,
         Display(record) = Display(session[s]),
         NEW origin \in {"Inbound", "Outbound"}, Attach(s, record, origin)
  PROVE  /\ session'[s].peer = record.peer /\ session'[s].dial = record.dial
         /\ session'[s].permit <=> record.permit
         /\ \A t \in SessionIds : t # s => session'[t] = session[t]
         /\ events' = Append(events, EventOf(session'[s])) \/ (events' = events /\ Steady(s))
<1>1. record.state = session[s].state
  BY DEF Display
<1>2. PICK r : Writes(s, r) /\ r.peer = record.peer /\ (r.permit <=> record.permit) /\ r.dial = record.dial
  BY <1>1, AttachWrites
<1>3. session'[s] = r /\ \A t \in SessionIds : t # s => session'[t] = session[t]
  BY <1>2, WriteTyped
<1>4. Emit(s) \/ (events' = events /\ session' = [session EXCEPT ![s] = record])
  BY Zenon DEF Attach, Silent
<1>5. CASE Emit(s)
  BY <1>2, <1>3, <1>5 DEF Emit, EventOf
<1>6. CASE events' = events /\ session' = [session EXCEPT ![s] = record]
  <2>1. session'[s] = record
    BY <1>6 DEF SessionsTyped
  <2> QED
    BY <1>2, <1>3, <1>6, <2>1 DEF Steady
<1> QED
  BY <1>4, <1>5, <1>6

\* A step of the actor of a live session.
LEMMA ActorVoices ==
  ASSUME SessionsTyped, NEW s \in SessionIds, session[s].alive,
         \/ BeginDial(s) \/ StartDial(s) \/ DialSucceeds(s) \/ DialFails(s)
         \/ ConnectionLost(s) \/ PathChanged(s)
  PROVE  Voices(s)
<1>1. /\ session \in [SessionIds -> SessionRecord] /\ session[s] \in SessionRecord
      /\ Sound(session[s])
      /\ "never" \in Dials /\ "waiting" \in Dials /\ "dialing" \in Dials /\ "done" \in Dials
      /\ "Connecting" \in ConnStates /\ "NotConnected" \in ConnStates /\ "Unknown" \in AnyPath
      /\ "None" \in {"None", "Inbound", "Outbound"} /\ NoTime \in 0..MaxConnects
  BY TransportAssumption DEF SessionsTyped, Dials, ConnStates, AnyPath, NoTime
<1>2. ASSUME NEW r, session' = [session EXCEPT ![s] = r]
      PROVE  session'[s] = r /\ \A t \in SessionIds : t # s => session'[t] = session[t]
  BY <1>1, <1>2
<1>3. Emit(s) => events' = Append(events, EventOf(session'[s]))
  BY Zenon DEF Emit, EventOf
<1>4. CASE BeginDial(s)
  <2>1. CASE session[s].state = "Connected"
    <3>1. session' = [session EXCEPT ![s] = WithDial(session[s], "never")]
      BY <1>4, <2>1, Zenon DEF BeginDial, WithDial
    <3>2. events' = events /\ session[s].dial = "asked"
      BY <1>4, <2>1 DEF BeginDial, Silent
    <3> QED
      BY <1>1, <1>2, <2>1, <3>1, <3>2, FieldFields DEF Voices, Steady, Display
  <2>2. CASE session[s].state # "Connected"
    <3>1. session' = [session EXCEPT ![s] = Begun(session[s])] /\ Emit(s)
      BY <1>4, <2>2, Zenon DEF BeginDial, Begun
    <3> QED
      BY <1>1, <1>2, <1>3, <3>1, BegunFields DEF Voices
  <2> QED
    BY <2>1, <2>2
<1>5. CASE StartDial(s)
  <2>1. session' = [session EXCEPT ![s] = WithDial(session[s], "dialing")] /\ events' = events
    BY <1>5, Zenon DEF StartDial, WithDial
  <2>2. session[s].dial = "waiting"
    BY <1>5 DEF StartDial
  <2> QED
    BY <1>1, <1>2, <2>1, <2>2, FieldFields DEF Voices, Steady, Display
<1>6. CASE DialSucceeds(s)
  <2> DEFINE record == WithDial(session[s], "done")
  <2>1. Attach(s, record, "Outbound") /\ session[s].dial = "dialing"
    BY <1>6, Zenon DEF DialSucceeds, WithDial
  <2>2. /\ record \in SessionRecord /\ record.dial = "done" /\ record.alive
        /\ record.state = session[s].state /\ record.peer = session[s].peer
        /\ record.path = session[s].path /\ record.since = session[s].since
        /\ record.permit <=> session[s].permit
    BY <1>1, FieldFields
  <2> HIDE DEF record
  <2>3. Sound(record) /\ Display(record) = Display(session[s])
    BY <1>1, <2>2 DEF Sound, Display
  <2>4. /\ session'[s].peer = record.peer /\ session'[s].dial = record.dial
        /\ session'[s].permit <=> record.permit
        /\ \A t \in SessionIds : t # s => session'[t] = session[t]
        /\ events' = Append(events, EventOf(session'[s])) \/ (events' = events /\ Steady(s))
    BY <2>1, <2>2, <2>3, AttachSays
  <2> QED
    BY <2>1, <2>2, <2>4 DEF Voices
<1>7. CASE DialFails(s)
  <2> DEFINE failed == WithDial(session[s], "done")
  <2>1. /\ failed \in SessionRecord /\ failed.dial = "done"
        /\ failed.state = session[s].state /\ failed.peer = session[s].peer
        /\ failed.path = session[s].path /\ failed.since = session[s].since
        /\ failed.permit <=> session[s].permit
    BY <1>1, FieldFields
  <2>2. \/ session' = [session EXCEPT ![s] = WithState(failed, "NotConnected")] /\ Emit(s)
        \/ session' = [session EXCEPT ![s] = failed] /\ Silent
    BY <1>7, Zenon DEF DialFails, WithDial, WithState
  <2>3. session[s].dial # "asked"
    BY <1>7 DEF DialFails
  <2> HIDE DEF failed
  <2>4. CASE session' = [session EXCEPT ![s] = WithState(failed, "NotConnected")] /\ Emit(s)
    BY <1>1, <1>2, <1>3, <2>1, <2>4, FieldFields DEF Voices
  <2>5. CASE session' = [session EXCEPT ![s] = failed] /\ Silent
    BY <1>2, <2>1, <2>3, <2>5 DEF Voices, Steady, Display, Silent
  <2> QED
    BY <2>2, <2>4, <2>5
<1>8. CASE ConnectionLost(s)
  <2>1. session' = [session EXCEPT ![s] = Shown(session[s], "NotConnected", "None", "Unknown", NoTime)]
    BY <1>8, Zenon DEF ConnectionLost, Shown
  <2>2. Emit(s) /\ session[s].state = "Connected"
    BY <1>8, Zenon DEF ConnectionLost
  <2> QED
    BY <1>1, <1>2, <1>3, <2>1, <2>2, ShownFields DEF Voices
<1>9. CASE PathChanged(s)
  <2>1. PICK w \in Paths : session' = [session EXCEPT ![s] = WithPath(session[s], w)]
    BY <1>9, Zenon DEF PathChanged, WithPath
  <2>2. Emit(s) /\ session[s].state = "Connected" /\ w \in AnyPath
    BY <1>9, PeersAssumption DEF PathChanged, AnyPath
  <2> QED
    BY <1>1, <1>2, <1>3, <2>1, <2>2, FieldFields DEF Voices
<1> QED
  BY <1>4, <1>5, <1>6, <1>7, <1>8, <1>9

\* Sessions of contacts stay what they are, and nothing is said of them.
Mutes(s) ==
  /\ \A p \in Peers : table'[p] = table[p] /\ table[p] # s
  /\ \A t \in SessionIds : t # s => session'[t] = session[t]
  /\ ~session'[s].alive /\ events' = events

LEMMA MutesFollow ==
  ASSUME Inv, SessionsFollow, NEW s \in SessionIds, Mutes(s), UNCHANGED allowlist,
         op'.step = op.step, op'.removed = op.removed, op'.add = op.add,
         op'.stop \subseteq op.stop \ {s}
  PROVE  SessionsFollow' /\ \A p \in Peers : Hears(p)
<1>1. DialsFollow'
  BY DEF Mutes, SessionsFollow, DialsFollow
<1>2. \A p \in Peers : table[p] # NoSession => session'[table[p]] = session[table[p]]
  BY TableFacts DEF Mutes
<1>3. TableFollows'
  BY <1>2 DEF Mutes, SessionsFollow, TableFollows
<1>4. CallFollows'
  BY TableFacts DEF Mutes, SessionsFollow, CallFollows
<1>5. \A p \in Peers : Hears(p)
  BY <1>2 DEF Mutes, Hears, Followed, Quiet, Steady
<1> QED
  BY <1>1, <1>3, <1>4, <1>5 DEF SessionsFollow

\* The table, the sessions and what they say are left alone.
LEMMA ElseFollow ==
  ASSUME Inv, SessionsFollow, UNCHANGED <<allowlist, table, session, events>>,
         \/ UNCHANGED op
         \/ /\ op.step # "taking" /\ op'.step \in {"idle", "closed"}
            /\ op'.removed = {} /\ op'.stop = {} /\ op'.add \subseteq op.add
  PROVE  SessionsFollow' /\ \A p \in Peers : Hears(p)
<1>1. DialsFollow'
  BY DEF SessionsFollow, DialsFollow
<1>2. TableFollows'
  BY DEF SessionsFollow, TableFollows, CallFollows
<1>3. CallFollows'
  BY DEF SessionsFollow, CallFollows
<1>4. \A p \in Peers : Hears(p)
  BY DEF Hears, Followed, Quiet, Steady
<1> QED
  BY <1>1, <1>2, <1>3, <1>4 DEF SessionsFollow


\* A new session: one that has a permit, or one that has been asked to dial.
LEMMA SpawnFollows ==
  ASSUME Inv, Inv', SessionsFollow, NEW p \in Peers, Unused # {},
         table' = [table EXCEPT ![p] = Fresh], session'[Fresh].peer = p,
         \A t \in SessionIds : t # Fresh => session'[t] = session[t],
         \/ session'[Fresh].permit
         \/ session'[Fresh].dial = "asked" /\ session'[Fresh].state = "Connecting" /\ p \in allowlist,
         events' = events \/ events' = Append(events, EventOf(session'[Fresh])),
         UNCHANGED allowlist, op'.step = op.step, op'.removed = op.removed,
         op'.stop = op.stop, op'.add \subseteq op.add
  PROVE  SessionsFollow' /\ \A q \in Peers : Hears(q)
<1>1. Fresh \in SessionIds /\ ~session[Fresh].alive
  <2>1. Fresh \in SessionIds /\ session[Fresh] = Absent
    BY FreshUnused
  <2> QED
    BY <2>1 DEF Absent
<1>2. table'[p] = Fresh /\ \A q \in Peers : q # p => table'[q] = table[q]
  BY DEF Inv, Typed, TableTyped
<1>3. \A q \in Peers : q # p /\ table[q] # NoSession =>
        session'[table'[q]] = session[table[q]] /\ table[q] \in SessionIds
  BY <1>1, <1>2, TableFacts
<1>4. DialsFollow'
  BY DEF SessionsFollow, DialsFollow
<1>5. TableFollows'
  BY <1>2, <1>3 DEF SessionsFollow, TableFollows
<1>6. CallFollows'
  <2>1. Fresh \notin op.stop
    BY <1>1 DEF Inv, Owned
  <2> QED
    BY <2>1, TableFacts DEF SessionsFollow, CallFollows
<1>7. ASSUME NEW q \in Peers PROVE Hears(q)
  <2>1. CASE q = p
    BY <1>2, <2>1 DEF Hears, Followed
  <2>2. CASE q # p
    <3>1. EventOf(session'[Fresh]) \in SoundEvent
      BY <1>1, EventSound DEF Inv, Typed, SessionsTyped
    <3>2. Quiet(q)
      BY <2>2, <3>1, EventDisplays DEF Quiet
    <3> QED
      BY <1>2, <1>3, <2>2, <3>2 DEF Hears, Followed, Steady
  <2> QED
    BY <2>1, <2>2
<1> QED
  BY <1>4, <1>5, <1>6, <1>7 DEF SessionsFollow

LEMMA AttachInboundFollows ==
  ASSUME Inv, Inv', SessionsFollow, NEW i \in Accepts, AttachInbound(i)
  PROVE  /\ SessionsFollow'
         /\ op.step \notin {"closing", "closed"} => \A p \in Peers : Hears(p)
<1> DEFINE p == accept[i].peer
           s == table[p]
<1>1. /\ p \in Peers /\ SessionsTyped /\ \A u \in SessionIds : Sound(session[u])
      /\ UNCHANGED <<allowlist, op>>
  BY DEF Inv, Typed, AcceptsTyped, SessionsTyped, AttachInbound
<1>2. "Inbound" \in {"Inbound", "Outbound"}
  OBVIOUS
<1>3. CASE s # NoSession
  <2>1. s \in SessionIds /\ session[s].alive
    BY <1>1, <1>3, TableFacts
  <2>2. session[s].dial # "asked" /\ Attach(s, session[s], "Inbound") /\ UNCHANGED table
    BY <1>3 DEF AttachInbound
  <2> HIDE DEF s
  <2>3. /\ session'[s].peer = session[s].peer /\ session'[s].dial = session[s].dial
        /\ session'[s].permit <=> session[s].permit
        /\ \A t \in SessionIds : t # s => session'[t] = session[t]
        /\ events' = Append(events, EventOf(session'[s])) \/ (events' = events /\ Steady(s))
    BY <1>1, <1>2, <2>1, <2>2, AttachSays
  <2>4. Voices(s)
    BY <2>1, <2>2, <2>3 DEF Voices
  <2> QED
    BY <1>1, <2>1, <2>2, <2>4, VoicesFollow
<1>4. CASE s = NoSession /\ Attach(Fresh, Spawned(p, FALSE, TRUE), "Inbound")
           /\ Unused # {} /\ table' = [table EXCEPT ![p] = Fresh]
  <2> DEFINE new == Spawned(p, FALSE, TRUE)
  <2>1. Fresh \in SessionIds /\ session[Fresh] = Absent
    BY <1>4, FreshUnused
  <2>2. FALSE \in BOOLEAN /\ TRUE \in BOOLEAN
    OBVIOUS
  <2>3. Sound(new) /\ new.alive /\ new.peer = p /\ new.permit
    BY <1>1, <2>2, SpawnedSound
  <2>4. Display(new) = Display(session[Fresh])
    BY <2>1 DEF Display, Spawned, Absent
  <2> HIDE DEF new
  <2>5. /\ session'[Fresh].peer = p /\ session'[Fresh].permit
        /\ \A t \in SessionIds : t # Fresh => session'[t] = session[t]
        /\ events' = Append(events, EventOf(session'[Fresh])) \/ events' = events
    BY <1>1, <1>2, <1>4, <2>1, <2>3, <2>4, AttachSays DEF new
  <2> QED
    BY <1>1, <1>4, <2>5, SpawnFollows
<1>5. CASE UNCHANGED <<table, session, events>>
  BY <1>1, <1>5, ElseFollow
<1> QED
  BY <1>3, <1>4, <1>5 DEF AttachInbound

LEMMA EnsureOutboundFollows ==
  ASSUME Inv, Inv', SessionsFollow, NEW p \in Peers, EnsureOutbound(p)
  PROVE  SessionsFollow' /\ \A q \in Peers : Hears(q)
<1>1. UNCHANGED <<allowlist, events>> /\ p \in op.add /\ SessionsTyped
  BY DEF EnsureOutbound, Inv, Typed
<1>2. op'.step = op.step /\ op'.removed = op.removed /\ op'.stop = op.stop /\ op'.add \subseteq op.add
  <2>1. op' = [op EXCEPT !.add = op.add \ {p}]
    BY Zenon DEF EnsureOutbound
  <2> QED
    BY <2>1 DEF Inv, Typed, TableTyped, OpRecord
<1>3. CASE table[p] = NoSession
  <2>1. /\ Unused # {} /\ table' = [table EXCEPT ![p] = Fresh]
        /\ session' = [session EXCEPT ![Fresh] = Spawned(p, TRUE, FALSE)]
    BY <1>3 DEF EnsureOutbound
  <2>2. Fresh \in SessionIds
    BY <2>1, FreshUnused
  <2>3. /\ session'[Fresh] = Spawned(p, TRUE, FALSE)
        /\ \A t \in SessionIds : t # Fresh => session'[t] = session[t]
    BY <1>1, <2>1, <2>2 DEF SessionsTyped
  <2>4. /\ Spawned(p, TRUE, FALSE).peer = p /\ Spawned(p, TRUE, FALSE).dial = "asked"
        /\ Spawned(p, TRUE, FALSE).state = "Connecting"
    BY DEF Spawned, Absent
  <2>5. p \in allowlist
    BY <1>1 DEF SessionsFollow, CallFollows
  <2> QED
    BY <1>1, <1>2, <2>1, <2>3, <2>4, <2>5, SpawnFollows
<1>4. CASE table[p] # NoSession
  <2> DEFINE s == table[p]
  <2>1. s \in SessionIds /\ session[s].alive /\ session[s] \in SessionRecord
    BY <1>1, <1>4, TableFacts DEF SessionsTyped
  <2>2. PICK dial \in Dials : /\ session' = [session EXCEPT ![s] = WithDial(session[s], dial)]
                              /\ dial = session[s].dial \/ session[s].dial = "never"
    <3>1. session' = [session EXCEPT ![s] = WithDial(session[s],
             IF session[s].dial = "never" THEN "asked" ELSE session[s].dial)]
      BY <1>4, Zenon DEF EnsureOutbound, WithDial
    <3> QED
      BY <2>1, <3>1 DEF SessionRecord, Dials
  <2>3. UNCHANGED table
    BY <1>4 DEF EnsureOutbound
  <2> HIDE DEF s
  <2>4. "NotConnected" \in ConnStates /\ "Unknown" \in AnyPath
    BY DEF ConnStates, AnyPath
  <2>5. /\ session'[s].dial = dial /\ Display(session'[s]) = Display(session[s])
        /\ session'[s].peer = session[s].peer /\ session'[s].state = session[s].state
        /\ session'[s].permit <=> session[s].permit
        /\ \A t \in SessionIds : t # s => session'[t] = session[t]
    <3>1. /\ session'[s] = WithDial(session[s], dial)
          /\ \A t \in SessionIds : t # s => session'[t] = session[t]
      BY <1>1, <2>1, <2>2 DEF SessionsTyped
    <3> QED
      BY <2>1, <2>4, <3>1, FieldFields DEF Display
  <2>6. session[s].permit \/ dial = session[s].dial
    BY <2>1, <2>2 DEF SessionsFollow, DialsFollow
  <2>7. DialsFollow'
    BY <2>1, <2>5, <2>6 DEF SessionsFollow, DialsFollow
  <2>8. \A q \in Peers : table[q] # NoSession =>
          /\ session'[table[q]].peer = session[table[q]].peer
          /\ session'[table[q]].permit <=> session[table[q]].permit
          /\ Display(session'[table[q]]) = Display(session[table[q]])
          /\ session[table[q]].permit \/ session'[table[q]].dial = session[table[q]].dial
    BY <2>5, <2>6, TableFacts
  <2>9. TableFollows'
    BY <1>1, <1>2, <2>3, <2>8 DEF SessionsFollow, TableFollows
  <2>10. CallFollows'
    BY <1>1, <1>2, <2>5, TableFacts DEF SessionsFollow, CallFollows
  <2>11. \A q \in Peers : Hears(q)
    BY <1>1, <2>3, <2>8 DEF Hears, Followed, Steady, Quiet
  <2> QED
    BY <2>7, <2>9, <2>10, <2>11 DEF SessionsFollow
<1> QED
  BY <1>3, <1>4


\* The sessions of removed contacts are taken out of the table.
LEMMA TakeRemovedFollows ==
  ASSUME Inv, SessionsFollow, TakeRemoved
  PROVE  SessionsFollow' /\ \A p \in Peers : Hears(p)
<1>1. /\ UNCHANGED <<allowlist, session, events>> /\ op.removed \cap allowlist = {}
      /\ \A p \in Peers : table'[p] = IF p \in op.removed THEN NoSession ELSE table[p]
      /\ op.removed \in SUBSET Peers
  BY OpFields DEF TakeRemoved, Inv, CallSound, Typed, TableTyped
<1>2. /\ op'.step = "stopping" /\ op'.removed = {} /\ op'.add = op.add
      /\ op'.stop = SessionsOf(op.removed)
  BY DEF TakeRemoved, Inv, Typed, TableTyped, OpRecord
<1>3. DialsFollow'
  BY <1>1 DEF SessionsFollow, DialsFollow
<1>4. TableFollows'
  BY <1>1, <1>2 DEF SessionsFollow, TableFollows
<1>5. CallFollows'
  <2>1. \A s \in op'.stop : session[s].peer \in op.removed
    BY <1>1, <1>2, TableFacts DEF SessionsOf
  <2> QED
    BY <1>1, <1>2, <2>1 DEF SessionsFollow, CallFollows
<1>6. \A p \in Peers : Hears(p)
  BY <1>1 DEF Hears, Followed, Quiet, Steady
<1> QED
  BY <1>3, <1>4, <1>5, <1>6 DEF SessionsFollow

LEMMA StopSessionFollows ==
  ASSUME Inv, SessionsFollow, NEW s \in SessionIds, StopSession(s)
  PROVE  SessionsFollow' /\ \A p \in Peers : Hears(p)
<1>1. /\ s \in op.stop /\ session' = [session EXCEPT ![s] = Remains(s)]
      /\ op' = [op EXCEPT !.stop = op.stop \ {s}]
      /\ UNCHANGED <<allowlist, table, events>>
  BY Zenon DEF StopSession, EndSession
<1>2. op'.step = op.step /\ op'.removed = op.removed /\ op'.add = op.add /\ op'.stop = op.stop \ {s}
  BY <1>1 DEF Inv, Typed, TableTyped, OpRecord
<1>3. /\ session'[s] = Remains(s) /\ \A t \in SessionIds : t # s => session'[t] = session[t]
      /\ ~Remains(s).alive
  BY <1>1, RemainsSound DEF Inv, Typed, SessionsTyped
<1>4. \A p \in Peers : table[p] # s
  <2>1. NoSession \notin SessionIds
    BY TransportAssumption
  <2> QED
    BY <1>1, <2>1 DEF Inv, Owned
<1>5. Mutes(s)
  BY <1>1, <1>3, <1>4 DEF Mutes
<1> QED
  BY <1>1, <1>2, <1>5, MutesFollow

\* A dial ends whose session is gone.
LEMMA GoneFollows ==
  ASSUME Inv, SessionsFollow, NEW s \in SessionIds, ~session[s].alive,
         \/ BeginDial(s) \/ StartDial(s) \/ DialSucceeds(s) \/ DialFails(s)
         \/ ConnectionLost(s) \/ PathChanged(s)
  PROVE  SessionsFollow' /\ \A p \in Peers : Hears(p)
<1>1. /\ session \in [SessionIds -> SessionRecord] /\ session[s] \in SessionRecord
      /\ session[s].dial # "asked" /\ "dialing" \in Dials
      /\ "NotConnected" \in ConnStates /\ "Unknown" \in AnyPath
  BY DEF Inv, Typed, SessionsTyped, Sound, Dials, ConnStates, AnyPath
<1>2. UNCHANGED <<allowlist, table, op>>
  BY DEF BeginDial, StartDial, DialSucceeds, DialFails, ConnectionLost, PathChanged
<1>3. \/ session' = [session EXCEPT ![s] = Absent]
      \/ session' = [session EXCEPT ![s] = WithDial(session[s], "dialing")]
  BY <1>1, Zenon DEF BeginDial, StartDial, DialSucceeds, DialFails, ConnectionLost, PathChanged, WithDial
<1>4. events' = events
  BY <1>1, Zenon DEF BeginDial, StartDial, DialSucceeds, DialFails, ConnectionLost, PathChanged, Silent
<1>5. ~Absent.alive /\ ~WithDial(session[s], "dialing").alive
  BY <1>1, FieldFields DEF Absent
<1>6. ~session'[s].alive /\ \A t \in SessionIds : t # s => session'[t] = session[t]
  BY <1>1, <1>3, <1>5
<1>7. \A p \in Peers : table[p] # s
  <2>1. NoSession \notin SessionIds
    BY TransportAssumption
  <2> QED
    BY <2>1 DEF Inv, Owned
<1>8. Mutes(s)
  BY <1>2, <1>4, <1>6, <1>7 DEF Mutes
<1>9. op'.stop \subseteq op.stop \ {s}
  BY <1>2 DEF Inv, Owned
<1> QED
  BY <1>2, <1>8, <1>9, MutesFollow

\* Whatever the transport does, an event says it, unless it is of a peer that
\* nothing is said of.
LEMMA TransportFollows ==
  ASSUME Inv, SessionsFollow, TransportStep
  PROVE  /\ SessionsFollow'
         /\ op.step \notin {"closing", "closed"} => \A p \in Peers : Hears(p)
<1>1. Inv'
  BY TransportStepKeeps
<1>2. CASE \E s \in SessionIds : \/ BeginDial(s) \/ StartDial(s) \/ DialSucceeds(s) \/ DialFails(s)
                                 \/ ConnectionLost(s) \/ PathChanged(s)
  <2>1. PICK s \in SessionIds : \/ BeginDial(s) \/ StartDial(s) \/ DialSucceeds(s) \/ DialFails(s)
                                \/ ConnectionLost(s) \/ PathChanged(s)
    BY <1>2
  <2>2. UNCHANGED <<allowlist, op>>
    BY <2>1, ActorFrame
  <2>3. UNCHANGED table
    BY <2>1 DEF BeginDial, StartDial, DialSucceeds, DialFails, ConnectionLost, PathChanged
  <2>4. CASE session[s].alive
    BY <1>1, <2>1, <2>2, <2>3, <2>4, ActorVoices, VoicesFollow DEF Inv, Typed
  <2>5. CASE ~session[s].alive
    BY <2>1, <2>5, GoneFollows
  <2> QED
    BY <2>4, <2>5
<1>3. CASE Calls
  <2>1. CASE TakeRemoved
    BY <2>1, TakeRemovedFollows
  <2>2. CASE \E p \in Peers : EnsureOutbound(p)
    BY <1>1, <2>2, EnsureOutboundFollows
  <2>3. CASE Replaced
    <3>1. /\ op.step # "taking" /\ op'.step = "idle"
          /\ op'.removed = {} /\ op'.stop = {} /\ op'.add \subseteq op.add
          /\ UNCHANGED <<allowlist, table, session, events>>
      BY <2>3 DEF Replaced, NoOp
    <3> QED
      BY <3>1, ElseFollow
  <2>4. CASE Closed
    <3>1. /\ op.step = "closing" /\ op.stop = {} /\ op' = [op EXCEPT !.step = "closed"]
          /\ UNCHANGED <<allowlist, table, session, events>>
      BY <2>4 DEF Closed
    <3>2. op'.step = "closed" /\ op'.removed = op.removed /\ op'.stop = {} /\ op'.add = op.add
      BY <3>1 DEF Inv, Typed, TableTyped, OpRecord
    <3>3. op.removed = {}
      BY <3>1 DEF SessionsFollow, CallFollows
    <3> QED
      BY <3>1, <3>2, <3>3, ElseFollow
  <2> QED
    BY <1>3, <2>1, <2>2, <2>3, <2>4 DEF Calls
<1>4. CASE \E s \in SessionIds : StopSession(s)
  BY <1>4, StopSessionFollows
<1>5. CASE Acceptors
  <2>1. PICK i \in Accepts : Incoming(i) \/ DropConnection(i) \/ Authorise(i) \/ AttachInbound(i)
    BY <1>5 DEF Acceptors
  <2>2. CASE AttachInbound(i)
    BY <1>1, <2>2, AttachInboundFollows
  <2>3. CASE Incoming(i) \/ DropConnection(i) \/ Authorise(i)
    <3>1. UNCHANGED <<allowlist, table, session, events, op>>
      BY <2>3 DEF Incoming, DropConnection, Authorise
    <3> QED
      BY <3>1, ElseFollow
  <2> QED
    BY <2>1, <2>2, <2>3
<1>6. CASE Streams \/ \E m \in Outbound : Settle(m)
  <2>1. UNCHANGED <<allowlist, table, session, events, op>>
    BY <1>6 DEF Streams, OpenStream, ReadMessage, Enqueue, WriteReceipt, ResetStream, Settle
  <2> QED
    BY <2>1, ElseFollow
<1> QED
  BY <1>2, <1>3, <1>4, <1>5, <1>6 DEF TransportStep, Actors


-----------------------------------------------------------------------------
(* What is said reaches the screen.                                        *)

\* Commands that change what is shown of a peer.
Setters == {"ContactAdded", "ContactRemoved", "PeerConnectionStateChanged"}

LEMMA QuietTalk ==
  ASSUME EventsTyped, NEW p, Quiet(p)
  PROVE  Talk(p)' = Talk(p) /\ \A i \in Talk(p) : events'[i] = events[i]
<1>1. /\ events \in Seq(SoundEvent) /\ Len(events) \in Nat /\ DOMAIN events = 1..Len(events)
  BY DEF EventsTyped
<1>2. CASE events' = events
  BY <1>2 DEF Talk
<1>3. CASE \E e \in SoundEvent : e.peer # p /\ events' = Append(events, e)
  <2>1. PICK e \in SoundEvent : e.peer # p /\ events' = Append(events, e)
    BY <1>3
  <2>2. /\ DOMAIN events' = 1..Len(events) + 1 /\ events'[Len(events) + 1] = e
        /\ \A i \in 1..Len(events) : events'[i] = events[i]
    BY <1>1, <2>1
  <2>3. \A i \in 1..Len(events) + 1 : i \in Talk(p)' <=> i \in Talk(p)
    BY <1>1, <2>1, <2>2 DEF Talk
  <2>4. Talk(p)' \subseteq 1..Len(events) + 1 /\ Talk(p) \subseteq 1..Len(events) + 1
    BY <1>1, <2>2 DEF Talk
  <2>5. Talk(p)' = Talk(p)
    BY <2>3, <2>4
  <2> QED
    BY <1>1, <2>2, <2>5 DEF Talk
<1> QED
  BY <1>2, <1>3 DEF Quiet

\* The newest event is the last about its peer.
LEMMA NewsComing ==
  ASSUME EventsTyped, NEW e \in SoundEvent, events' = Append(events, e)
  PROVE  Coming(e.peer, Display(e))'
<1>1. /\ events \in Seq(SoundEvent) /\ Len(events) \in Nat /\ DOMAIN events = 1..Len(events)
  BY DEF EventsTyped
<1>2. DOMAIN events' = 1..Len(events) + 1 /\ events'[Len(events) + 1] = e
  BY <1>1
<1>3. Len(events) + 1 \in Talk(e.peer)'
  BY <1>1, <1>2 DEF Talk
<1>4. \A j \in Talk(e.peer)' : j <= Len(events) + 1
  BY <1>1, <1>2 DEF Talk
<1>5. Display(events'[Len(events) + 1]) = Display(e)
  BY <1>2
<1> QED
  BY <1>3, <1>4, <1>5 DEF Coming, Display

\* Nothing is told that would change what is shown of p.
LEMMA ReachingStays ==
  ASSUME UiTyped, NEW p, NEW d, Reaching(p, d), NEW c, Tells(c), c.kind \notin Setters \/ c.peer # p,
         contacts' = contacts, Display(view'[p]) = Display(view[p])
  PROVE  Reaching(p, d)'
<1>1. \A kind \in Setters : SaidAt(kind, p)' = SaidAt(kind, p)
  BY SaidTold DEF Setters
<1>2. About(p)' = About(p)
  BY <1>1 DEF About, Setters
<1>3. \A i \in SaidAt("PeerConnectionStateChanged", p) : commands'[i] = commands[i]
  BY SaidTold
<1>4. SaidAt("PeerConnectionStateChanged", p)' = SaidAt("PeerConnectionStateChanged", p)
  BY <1>1 DEF Setters
<1>5. CASE \E i \in SaidAt("PeerConnectionStateChanged", p) :
             Display(commands[i].event) = d /\ \A j \in About(p) : j <= i
  <2>1. PICK i \in SaidAt("PeerConnectionStateChanged", p) :
             Display(commands[i].event) = d /\ \A j \in About(p) : j <= i
    BY <1>5
  <2>2. Display(commands'[i].event) = d
    BY <1>3, <2>1
  <2> QED
    BY <1>2, <1>4, <2>1, <2>2 DEF Reaching, Display
<1>6. CASE p \in Range(contacts) /\ Display(view[p]) = d /\ About(p) = {}
  BY <1>2, <1>6 DEF Reaching, Display, Range
<1> QED
  BY <1>5, <1>6 DEF Reaching

\* What will be shown is still said, or said anew.
LEMMA ViewHeard ==
  ASSUME ProgramInv, ViewFollows, NEW c, Tells(c), c.kind \notin Setters,
         running' => /\ running /\ contacts' = contacts
                     /\ \A p \in Peers : Hears(p) /\ Display(view'[p]) = Display(view[p]),
         UNCHANGED known
  PROVE  ViewFollows'
<1>1. SUFFICES ASSUME running', NEW p \in Peers, Followed(p)'
               PROVE  WillShow(p, Display(session[table[p]]))'
  BY DEF ViewFollows
<1>2. /\ running /\ contacts' = contacts /\ Hears(p) /\ Display(view'[p]) = Display(view[p])
      /\ UiTyped /\ EventsTyped
  BY <1>1 DEF ProgramInv
<1>3. CASE Announced(p)
  <2>1. PICK e \in SoundEvent : /\ e.peer = p /\ events' = Append(events, e)
                                /\ Display(e) = Display(session'[table'[p]])
    BY <1>3 DEF Announced
  <2>2. Coming(p, Display(e))'
    BY <1>2, <2>1, NewsComing
  <2>3. Display(e)' = Display(session[table[p]])'
    BY <2>1 DEF Display
  <2> QED
    BY <2>2, <2>3, Zenon DEF WillShow
<1>4. CASE Followed(p) /\ table'[p] = table[p] /\ Steady(table[p]) /\ Quiet(p)
  <2> DEFINE d == Display(session[table[p]])
  <2>1. d' = d
    BY <1>4 DEF Steady, Display
  <2>2. WillShow(p, d)
    BY <1>2, <1>4 DEF ViewFollows
  <2>3. Talk(p)' = Talk(p) /\ \A i \in Talk(p) : events'[i] = events[i]
    BY <1>2, <1>4, QuietTalk
  <2> HIDE DEF d
  <2>4. CASE Coming(p, d)
    <3>1. PICK i \in Talk(p) : Display(events[i]) = d /\ \A j \in Talk(p) : j <= i
      BY <2>4 DEF Coming
    <3>2. Display(events'[i]) = d'
      BY <2>1, <2>3, <3>1
    <3>3. Coming(p, d)'
      BY <2>3, <3>1, <3>2 DEF Coming, Display
    <3> QED
      BY <3>3 DEF WillShow, d
  <2>5. CASE p \in known /\ Talk(p) = {} /\ Reaching(p, d)
    <3>1. Reaching(p, d)'
      <4> SUFFICES ASSUME NEW x, x = d PROVE Reaching(p, x)'
        BY <2>1
      <4> QED
        BY <1>2, <2>5, ReachingStays
    <3> QED
      BY <2>3, <2>5, <3>1 DEF WillShow, d
  <2> QED
    BY <2>2, <2>4, <2>5 DEF WillShow
<1> QED
  BY <1>1, <1>2, <1>3, <1>4 DEF Hears

-----------------------------------------------------------------------------
(* The steps of the program that leave the sessions and the transport's    *)
(* contacts alone, or leave them to the transport.                         *)

\* Something is said that changes nothing that is shown, or nothing.
Aside == \E c : Tells(c) /\ c.kind \notin Setters

LEMMA SilentAside == commands' = commands => Aside
<1>1. Nothing.kind = "Nothing"
  BY DEF Nothing
<1> QED
  BY <1>1 DEF Aside, Tells, Setters

LEMMA AsideShows ==
  ASSUME ViewInv, Aside, UNCHANGED <<allowlist, table, session, events, op, known>>,
         running' => /\ running /\ contacts' = contacts
                     /\ \A p \in Peers : Display(view'[p]) = Display(view[p])
  PROVE  SessionsFollow' /\ ViewFollows'
<1>1. PICK c : Tells(c) /\ c.kind \notin Setters
  BY DEF Aside
<1>2. ProgramInv /\ Inv /\ SessionsFollow /\ ViewFollows
  BY DEF ViewInv, ProgramInv
<1>3. SessionsFollow' /\ \A p \in Peers : Hears(p)
  BY <1>2, ElseFollow
<1>4. ViewFollows'
  BY <1>1, <1>2, <1>3, ViewHeard
<1> QED
  BY <1>3, <1>4

LEMMA TransportPartShows ==
  ASSUME ViewInv, Transport
  PROVE  SessionsFollow' /\ ViewFollows'
<1>1. TransportStep /\ UNCHANGED <<known, uiVars, commands>>
  BY DEF Transport, rtVars
<1>2. ProgramInv /\ Inv /\ SessionsFollow /\ ViewFollows
  BY DEF ViewInv, ProgramInv
<1>3. PICK c : Tells(c) /\ c.kind \notin Setters
  BY <1>1, SilentAside DEF Aside
<1>4. /\ SessionsFollow'
      /\ op.step \notin {"closing", "closed"} => \A p \in Peers : Hears(p)
  BY <1>1, <1>2, TransportFollows
<1>5. running => op.step \notin {"closing", "closed"}
  BY <1>2 DEF ProgramInv, ProcessSound
<1>6. UNCHANGED <<running, contacts, view>>
  BY <1>1 DEF uiVars, dataVars
<1>7. ViewFollows'
  BY <1>1, <1>2, <1>3, <1>4, <1>5, <1>6, ViewHeard
<1> QED
  BY <1>4, <1>7

LEMMA UserPartShows ==
  ASSUME ViewInv, User
  PROVE  SessionsFollow' /\ ViewFollows'
<1>1. UNCHANGED <<allowlist, table, session, events, op, known>>
  BY DEF User, rtVars, transportVars
<1>2. UiTyped /\ SessionsFollow /\ Inv
  BY DEF ViewInv, ProgramInv
<1>3. Quit \/ Undisturbed
  BY <1>2, UserKeeps
<1>4. CASE Quit
  <2>1. ~running'
    BY <1>4, QuitEmpties
  <2>2. ViewFollows'
    BY <2>1 DEF ViewFollows
  <2> QED
    BY <1>1, <1>2, <2>2, ElseFollow
<1>5. CASE Undisturbed
  <2>1. /\ UNCHANGED <<running, contacts, commands>>
        /\ \A p \in Peers : Display(view'[p]) = Display(view[p])
    BY <1>5 DEF Undisturbed, Display
  <2> QED
    BY <1>1, <2>1, SilentAside, AsideShows
<1> QED
  BY <1>3, <1>4, <1>5

\* The runtime hands on a message, answers an effect, writes the file, or
\* reports an outcome.
LEMMA AnswersAside ==
  ASSUME ProgramInv, RtIncoming \/ RtEffect \/ RtWrite \/ RtWriteFails \/ \E m \in Outbound : RtReport(m)
  PROVE  Aside /\ UNCHANGED <<allowlist, table, session, events, op, known, uiVars>>
<1>1. ASSUME NEW c \in CommandRecord, Tell(c), c.kind \notin Setters
      PROVE  Aside
  BY <1>1 DEF Aside, Tells
<1>2. ASSUME NEW p \in Peers, NEW kind \in {"ContactAlreadyExists", "SendRejected"}, Tell(Command(kind, p))
      PROVE  Aside
  BY <1>1, <1>2, CommandTyped DEF Setters
<1>3. CASE RtIncoming
  <2> DEFINE c == IncomingMessage(Head(incoming).peer, Head(incoming).id)
  <2>1. Receive /\ Tell(c) /\ UNCHANGED <<known, uiVars>>
    BY <1>3 DEF RtIncoming, rtVars
  <2>2. /\ incoming # <<>> /\ incoming \in Seq(Received)
        /\ UNCHANGED <<allowlist, table, session, events, op>>
    BY <2>1 DEF Receive, ProgramInv, EventsTyped
  <2>3. Head(incoming) \in Received
    BY <2>2
  <2>4. c \in CommandRecord /\ c.kind \notin Setters
    BY <2>3 DEF Received, IncomingMessage, CommandRecord, Setters
  <2> QED
    BY <1>1, <2>1, <2>2, <2>4
<1>4. CASE RtEffect
  <2> DEFINE p == Head(effects).peer
  <2>1. ASSUME NEW do, Take(do)
        PROVE  UNCHANGED <<known, uiVars>> /\ Head(effects) \in EffectRecord /\ Head(effects).do = do
    BY <2>1, TakeTyped DEF ProgramInv
  <2>2. CASE RtCopyText
    BY <2>1, <2>2, SilentAside DEF RtCopyText, transportVars
  <2>3. CASE RtSendText
    <3>1. Take("SendText") /\ p \in Peers /\ Head(effects).body \in Texts
      BY <2>1, <2>3 DEF RtSendText, EffectRecord
    <3>2. CASE Tell(Command("SendRejected", p)) /\ UNCHANGED transportVars
      BY <1>2, <2>1, <3>1, <3>2 DEF transportVars
    <3>3. CASE \E m \in NextMessage : Send(p, m) /\ Tell(OutgoingQueued(p, m, Head(effects).body))
      <4>1. PICK m \in Outbound : Send(p, m) /\ Tell(OutgoingQueued(p, m, Head(effects).body))
        BY <3>3 DEF NextMessage
      <4>2. UNCHANGED <<allowlist, table, session, events, op>>
        BY <4>1 DEF Send
      <4> DEFINE c == OutgoingQueued(p, m, Head(effects).body)
      <4>3. c \in CommandRecord /\ c.kind \notin Setters
        BY <3>1 DEF OutgoingQueued, CommandRecord, Setters
      <4> QED
        BY <1>1, <2>1, <3>1, <4>1, <4>2, <4>3
    <3> QED
      BY <2>3, <3>2, <3>3 DEF RtSendText
  <2>4. CASE RtPersistContact
    <3>1. Take("PersistContact") /\ UNCHANGED transportVars /\ p \in Peers
      BY <2>1, <2>4 DEF RtPersistContact, EffectRecord
    <3>2. Tell(Command("ContactAlreadyExists", p)) \/ commands' = commands
      BY <2>4 DEF RtPersistContact, TellNone
    <3>3. Aside
      BY <1>2, <3>1, <3>2, SilentAside
    <3> QED
      BY <2>1, <3>1, <3>3 DEF transportVars
  <2>5. CASE RtRemoveContact
    BY <2>1, <2>5, SilentAside DEF RtRemoveContact, transportVars
  <2> QED
    BY <1>4, <2>2, <2>3, <2>4, <2>5 DEF RtEffect
<1>5. CASE RtWrite \/ RtWriteFails
  BY <1>5, SilentAside DEF RtWrite, RtWriteFails, transportVars
<1>6. CASE \E m \in Outbound : RtReport(m)
  <2>1. PICK m \in Outbound : RtReport(m)
    BY <1>6
  <2> DEFINE c == OutgoingSettled(sent[m].peer, m, sent[m].outcome)
  <2>2. Tell(c) /\ UNCHANGED <<allowlist, table, session, events, op, known, uiVars>>
    BY <2>1 DEF RtReport, rtVars
  <2>3. sent[m].outcome \in Outcomes /\ sent[m] \in SentRecord
    BY <2>1 DEF RtReport, ProgramInv, Inv, Typed, SentTyped, SentRecord
  <2>4. c \in CommandRecord /\ c.kind \notin Setters
    BY <2>3 DEF OutgoingSettled, CommandRecord, SentRecord, Setters
  <2> QED
    BY <1>1, <2>2, <2>4
<1> QED
  BY <1>3, <1>4, <1>5, <1>6

LEMMA AnswersShow ==
  ASSUME ViewInv, RtIncoming \/ RtEffect \/ RtWrite \/ RtWriteFails \/ \E m \in Outbound : RtReport(m)
  PROVE  SessionsFollow' /\ ViewFollows'
<1>1. Aside /\ UNCHANGED <<allowlist, table, session, events, op, known, uiVars>>
  BY AnswersAside DEF ViewInv
<1>2. UNCHANGED <<running, contacts, view>>
  BY <1>1 DEF uiVars, dataVars
<1> QED
  BY <1>1, <1>2, AsideShows


-----------------------------------------------------------------------------
(* The runtime reads an event, and the screen a command.                   *)

\* When the oldest event is read the others move up.
LEMMA TalkRead ==
  ASSUME EventsTyped, events # <<>>, events' = Tail(events), NEW p
  PROVE  /\ MovedUp(Talk(p), Talk(p)') /\ Talk(p) \subseteq Nat \ {0}
         /\ 1 \in Talk(p) <=> Head(events).peer = p
         /\ Head(events) = events[1] /\ Head(events) \in SoundEvent
         /\ \A i \in Nat \ {0} : i + 1 \in Talk(p) => events'[i] = events[i + 1]
<1> DEFINE n == Len(events)
<1>1. events \in Seq(SoundEvent) /\ n \in Nat /\ DOMAIN events = 1..n
  BY DEF EventsTyped
<1>2. n # 0 /\ Head(events) = events[1] /\ Head(events) \in SoundEvent
  BY <1>1
<1>3. /\ DOMAIN events' = 1..n - 1
      /\ \A i \in 1..n - 1 : events'[i] = events[i + 1]
  BY <1>1, <1>2
<1> HIDE DEF n
<1>4. \A i \in Nat \ {0} : i \in 1..n - 1 <=> i + 1 \in 1..n
  BY <1>1
<1>5. MovedUp(Talk(p), Talk(p)')
  BY <1>1, <1>3, <1>4 DEF Talk, MovedUp
<1>6. 1 \in Talk(p) <=> Head(events).peer = p
  BY <1>1, <1>2 DEF Talk
<1>7. \A i \in Nat \ {0} : i + 1 \in Talk(p) => events'[i] = events[i + 1]
  BY <1>1, <1>3, <1>4 DEF Talk
<1>8. Talk(p) \subseteq Nat \ {0}
  BY <1>1 DEF Talk
<1> QED
  BY <1>2, <1>5, <1>6, <1>7, <1>8, Zenon

\* The last of them stays the last, one place up.
LEMMA LastMoves ==
  ASSUME NEW S \in SUBSET (Nat \ {0}), NEW T, MovedUp(S, T), NEW i \in S, i # 1,
         \A j \in S : j <= i
  PROVE  i - 1 \in T /\ i - 1 \in Nat \ {0} /\ (i - 1) + 1 = i /\ \A j \in T : j <= i - 1
<1>1. i - 1 \in Nat \ {0} /\ (i - 1) + 1 = i
  OBVIOUS
<1>2. i - 1 \in T
  BY <1>1 DEF MovedUp
<1>3. \A j \in T : j <= i - 1
  <2> SUFFICES ASSUME NEW j \in T PROVE j <= i - 1
    OBVIOUS
  <2>1. j \in Nat /\ j + 1 \in S
    BY DEF MovedUp
  <2> QED
    BY <2>1
<1> QED
  BY <1>1, <1>2, <1>3

LEMMA OnlyMoves ==
  ASSUME NEW S \in SUBSET (Nat \ {0}), NEW T, MovedUp(S, T), \A j \in S : j <= 1
  PROVE  T = {}
<1> SUFFICES ASSUME NEW j \in T PROVE FALSE
  OBVIOUS
<1>1. j \in Nat \ {0} /\ j + 1 \in S
  BY DEF MovedUp
<1> QED
  BY <1>1

\* What a connection event says is the last that is said of its peer.
LEMMA NewsReaches ==
  ASSUME UiTyped, running, NEW e, ConnectionChanged(e) \in CommandRecord, Tell(ConnectionChanged(e))
  PROVE  Reaching(e.peer, Display(e))'
<1> DEFINE c == ConnectionChanged(e)
           n == Len(commands)
           p == e.peer
<1>1. c.kind = "PeerConnectionStateChanged" /\ c.peer = p /\ c.event = e
  BY DEF ConnectionChanged
<1>2. c \in CommandRecord /\ Tell(c)
  OBVIOUS
<1>3. Tells(c)
  BY <1>2 DEF Tells
<1> HIDE DEF c
<1>4. /\ SaidAt(c.kind, c.peer)' = SaidAt(c.kind, c.peer) \cup {n + 1}
      /\ commands'[n + 1] = c
  BY <1>2, SaidNew
<1>5. n + 1 \in SaidAt("PeerConnectionStateChanged", p)'
  BY <1>1, <1>4
<1>6. \A kind : \A j \in SaidAt(kind, p)' : j <= n + 1
  <2> TAKE kind
  <2>1. /\ SaidAt(kind, p) \in SUBSET (1..n) /\ n \in Nat
        /\ SaidAt(kind, p)' \in {SaidAt(kind, p), SaidAt(kind, p) \cup {n + 1}}
    BY <1>3, SaidTold
  <2> QED
    BY <2>1
<1>7. \A j \in About(p)' : j <= n + 1
  BY <1>6 DEF About
<1>8. Display(commands'[n + 1].event) = Display(e)
  BY <1>1, <1>4
<1> QED
  BY <1>5, <1>7, <1>8 DEF Reaching, Display

LEMMA RtEventShows ==
  ASSUME ViewInv, RtEvent
  PROVE  SessionsFollow' /\ ViewFollows'
<1> DEFINE e == Head(events)
<1>1. /\ Inv /\ UiTyped /\ EventsTyped /\ ProcessSound /\ ViewFollows /\ SessionsFollow
      /\ rt = Resting
  BY DEF ViewInv, ProgramInv, RtEvent, Selecting
<1>2. /\ events # <<>> /\ events' = Tail(events)
      /\ UNCHANGED <<known, uiVars, allowlist, table, session, op>>
      /\ IF e.peer \in known THEN Tell(ConnectionChanged(e)) ELSE TellNone
  BY DEF RtEvent, rtVars
<1>3. UNCHANGED <<running, contacts, view>>
  BY <1>2 DEF uiVars, dataVars
<1>4. allowlist = known
  BY <1>1 DEF ProcessSound, Resting
<1>5. SessionsFollow'
  BY <1>1, <1>2 DEF SessionsFollow, DialsFollow, TableFollows, CallFollows
<1>6. SUFFICES ASSUME running, NEW p \in Peers, Followed(p), NEW d, d = Display(session[table[p]])
               PROVE  WillShow(p, d)'
  BY <1>2, <1>3, <1>5, Zenon DEF ViewFollows, Followed, Display
<1>7. p \in known /\ WillShow(p, d)
  BY <1>1, <1>4, <1>6 DEF ViewFollows, Followed
<1>8. /\ MovedUp(Talk(p), Talk(p)') /\ Talk(p) \in SUBSET (Nat \ {0})
      /\ 1 \in Talk(p) <=> e.peer = p
      /\ e = events[1] /\ e \in SoundEvent
      /\ \A i \in Nat \ {0} : i + 1 \in Talk(p) => events'[i] = events[i + 1]
  BY <1>1, <1>2, TalkRead
<1>9. e.peer \in known => ConnectionChanged(e) \in CommandRecord
  BY <1>1, <1>8 DEF ProcessSound, ConnectionChanged, CommandRecord, SoundEvent
<1> HIDE DEF e
<1>10. CASE Coming(p, d)
  <2>1. PICK i \in Talk(p) : Display(events[i]) = d /\ \A j \in Talk(p) : j <= i
    BY <1>10 DEF Coming
  <2>2. CASE i = 1
    <3>1. e.peer = p /\ Display(e) = d
      BY <1>8, <2>1, <2>2
    <3>2. Talk(p)' = {}
      BY <1>8, <2>1, <2>2, OnlyMoves
    <3>3. Reaching(p, d)'
      <4> SUFFICES ASSUME NEW x, x = e PROVE Reaching(p, d)'
        OBVIOUS
      <4>1. ConnectionChanged(x) \in CommandRecord /\ Tell(ConnectionChanged(x))
        BY <1>2, <1>7, <1>9, <3>1
      <4>2. Reaching(x.peer, Display(x))'
        BY <1>1, <1>6, <4>1, NewsReaches
      <4>3. x.peer = p /\ Display(x) = d
        BY <3>1
      <4>4. Display(x)' = Display(x)
        BY DEF Display
      <4> QED
        BY <4>2, <4>3, <4>4
    <3> QED
      BY <1>2, <1>7, <3>2, <3>3 DEF WillShow
  <2>3. CASE i # 1
    <3>1. i - 1 \in Talk(p)' /\ i - 1 \in Nat \ {0} /\ (i - 1) + 1 = i /\ \A j \in Talk(p)' : j <= i - 1
      BY <1>8, <2>1, <2>3, LastMoves
    <3>2. Display(events'[i - 1]) = d
      BY <1>8, <2>1, <3>1
    <3>3. Coming(p, d)'
      BY <3>1, <3>2 DEF Coming, Display
    <3> QED
      BY <3>3 DEF WillShow
  <2> QED
    BY <2>2, <2>3
<1>11. CASE Talk(p) = {} /\ Reaching(p, d)
  <2>1. e.peer # p
    BY <1>8, <1>11
  <2>2. Talk(p)' = {}
    BY <1>8, <1>11, OnlyMoves
  <2>3. \E c : Tells(c) /\ (c.kind \notin Setters \/ c.peer # p)
    <3>1. CASE e.peer \in known
      <4>1. ConnectionChanged(e).peer # p
        BY <2>1 DEF ConnectionChanged
      <4> QED
        BY <1>2, <1>9, <3>1, <4>1 DEF Tells
    <3>2. CASE e.peer \notin known
      BY <1>2, <3>2, SilentAside DEF TellNone, Aside
    <3> QED
      BY <3>1, <3>2
  <2>4. PICK c : Tells(c) /\ (c.kind \notin Setters \/ c.peer # p)
    BY <2>3
  <2>5. Display(view'[p]) = Display(view[p])
    BY <1>3
  <2>6. Reaching(p, d)'
    BY <1>1, <1>3, <1>11, <2>4, <2>5, ReachingStays
  <2> QED
    BY <1>2, <1>7, <2>2, <2>6 DEF WillShow
<1> QED
  BY <1>7, <1>10, <1>11 DEF WillShow


\* A command that does not add, remove or show p leaves it as it is.
LEMMA ShownStays ==
  ASSUME UiTyped, ListFollows, ApplyCommand, NEW p \in Peers,
         Head(commands).kind \notin Setters \/ Head(commands).peer # p
  PROVE  /\ p \in Range(contacts) <=> p \in Range(contacts')
         /\ Display(view'[p]) = Display(view[p])
<1> DEFINE c == Head(commands)
<1>1. running /\ commands # <<>>
  BY DEF ApplyCommand
<1>2. c \in CommandRecord /\ (c.kind = "ContactAdded" => c.peer \in Peers \ Range(contacts))
  BY <1>1, HeadTyped, HeadAdds, CommandFields
<1>3. \/ ContactAdded(c) \/ ContactAlreadyExists(c) \/ ContactRemoved(c)
      \/ QueuedCommand(c) \/ SettledCommand(c) \/ RejectedCommand(c)
      \/ IncomingCommand(c) \/ ConnectionCommand(c) \/ StaleCommand(c)
  BY Zenon DEF ApplyCommand
<1>4. c.kind \notin Setters \/ c.peer # p
  OBVIOUS
<1>5. view \in [Peers -> ViewRecord]
  BY DEF UiTyped, DataTyped
<1> HIDE DEF c
<1>6. CASE ContactAdded(c)
  <2>1. c.kind = "ContactAdded" /\ c.peer # p /\ view' = [view EXCEPT ![c.peer] = NewView]
    BY <1>4, <1>6 DEF ContactAdded, Setters
  <2>2. Range(contacts') = Range(contacts) \cup {c.peer}
    BY <1>2, <1>6, <2>1, AddedKeeps
  <2> QED
    BY <1>5, <2>1, <2>2
<1>7. CASE ContactRemoved(c)
  <2>1. c.kind = "ContactRemoved" /\ c.peer # p
    BY <1>4, <1>7 DEF ContactRemoved, Setters
  <2>2. c.peer \in Peers
    BY <1>2, <2>1, CommandFields
  <2>3. Range(contacts') = Range(contacts) \ {c.peer} /\ view'[p] = view[p]
    BY <1>7, <2>1, <2>2, RemovedKeeps
  <2> QED
    BY <2>1, <2>3
<1>8. CASE ConnectionCommand(c)
  <2>1. c.kind = "PeerConnectionStateChanged" /\ c.peer # p
    BY <1>4, <1>8 DEF ConnectionCommand, Setters
  <2>2. c.peer \in Peers /\ c.event \in EventRecord /\ FitsState(c.event)
    BY <1>2, <2>1, CommandFields
  <2> QED
    BY <1>8, <2>1, <2>2, ConnectionKeeps
<1>9. CASE IncomingCommand(c)
  <2>1. contacts' = contacts
    BY <1>9 DEF IncomingCommand
  <2>2. view' = view \/ view' = [view EXCEPT ![c.peer].unread = @ + 1]
    BY <1>9 DEF IncomingCommand
  <2>3. view'[p] = view[p] \/ view'[p] = [view[p] EXCEPT !.unread = @ + 1]
    BY <1>5, <2>2
  <2>4. view[p] \in ViewRecord
    BY <1>5
  <2>5. Display(view'[p]) = Display(view[p])
    BY <2>3, <2>4 DEF ViewRecord, Display
  <2> QED
    BY <2>1, <2>5
<1>10. CASE \/ ContactAlreadyExists(c) \/ QueuedCommand(c) \/ SettledCommand(c)
            \/ RejectedCommand(c) \/ StaleCommand(c)
  BY <1>10 DEF ContactAlreadyExists, QueuedCommand, SettledCommand, RejectedCommand, StaleCommand, dataVars
<1> QED
  BY <1>3, <1>6, <1>7, <1>8, <1>9, <1>10

\* When the last command about a contact is read, it is shown.
LEMMA LastShown ==
  ASSUME UiTyped, ListFollows, ApplyCommand, NEW p \in Peers, p \in known,
         Head(commands).kind = "PeerConnectionStateChanged", Head(commands).peer = p,
         SaidAt("ContactAdded", p) = {}
  PROVE  p \in Range(contacts') /\ Display(view'[p]) = Display(Head(commands).event)
<1> DEFINE c == Head(commands)
<1>1. running /\ commands # <<>>
  BY DEF ApplyCommand
<1>2. c \in CommandRecord /\ c.kind = "PeerConnectionStateChanged" /\ c.peer = p
  BY <1>1, HeadTyped
<1>3. \/ ContactAdded(c) \/ ContactAlreadyExists(c) \/ ContactRemoved(c)
      \/ QueuedCommand(c) \/ SettledCommand(c) \/ RejectedCommand(c)
      \/ IncomingCommand(c) \/ ConnectionCommand(c) \/ StaleCommand(c)
  BY Zenon DEF ApplyCommand
<1>4. p \in Range(contacts)
  BY <1>1 DEF ListFollows, Follows
<1> HIDE DEF c
<1>5. ConnectionCommand(c)
  BY <1>2, <1>3, <1>4 DEF ContactAdded, ContactAlreadyExists, ContactRemoved, QueuedCommand,
     SettledCommand, RejectedCommand, IncomingCommand, StaleCommand, Listed
<1>6. c.peer \in Peers /\ c.event \in EventRecord /\ FitsState(c.event)
  BY <1>2, CommandFields
<1>7. p \in Range(contacts') /\ Display(view'[p]) = Display(c.event)
  BY <1>2, <1>4, <1>5, <1>6, ConnectionKeeps DEF Display
<1> QED
  BY <1>7 DEF c

\* What is said about p when the oldest command is read.
LEMMA AboutRead ==
  ASSUME UiTyped, commands # <<>>, commands' = Tail(commands), NEW p
  PROVE  /\ MovedUp(About(p), About(p)') /\ About(p) \in SUBSET (Nat \ {0})
         /\ 1 \in About(p) <=> Head(commands).kind \in Setters /\ Head(commands).peer = p
<1>1. ASSUME NEW kind
      PROVE  /\ MovedUp(SaidAt(kind, p), SaidAt(kind, p)')
             /\ SaidAt(kind, p) \subseteq Nat \ {0}
             /\ 1 \in SaidAt(kind, p) <=> Head(commands).kind = kind /\ Head(commands).peer = p
  BY SaidRead
<1>2. About(p) \in SUBSET (Nat \ {0})
  BY <1>1 DEF About
<1>3. 1 \in About(p) <=> Head(commands).kind \in Setters /\ Head(commands).peer = p
  BY <1>1 DEF About, Setters
<1>4. MovedUp(About(p), About(p)')
  BY <1>1 DEF About, MovedUp
<1> QED
  BY <1>2, <1>3, <1>4


LEMMA ScreenShows ==
  ASSUME ViewInv, Screen
  PROVE  SessionsFollow' /\ ViewFollows'
<1> DEFINE c == Head(commands)
<1>1. Inv /\ UiTyped /\ ListFollows /\ ViewFollows /\ SessionsFollow
  BY DEF ViewInv, ProgramInv
<1>2. /\ ApplyCommand
      /\ UNCHANGED <<known, allowlist, table, session, events, op>>
  BY DEF Screen, rtVars, transportVars
<1>3. running /\ running' = running /\ commands # <<>> /\ commands' = Tail(commands)
  BY <1>2 DEF ApplyCommand
<1>4. SessionsFollow'
  BY <1>1, <1>2, ElseFollow
<1>5. SUFFICES ASSUME NEW p \in Peers, Followed(p), NEW d, d = Display(session[table[p]])
               PROVE  WillShow(p, d)'
  BY <1>2, <1>3, <1>4, Zenon DEF ViewFollows, Followed, Display
<1>6. WillShow(p, d)
  BY <1>1, <1>3, <1>5 DEF ViewFollows
<1>7. Talk(p)' = Talk(p)
  BY <1>2 DEF Talk
<1>8. CASE Coming(p, d)
  <2>1. Coming(p, d)'
    BY <1>2, <1>7, <1>8, Zenon DEF Coming, Display
  <2> QED
    BY <2>1 DEF WillShow
<1>9. CASE p \in known /\ Talk(p) = {} /\ Reaching(p, d)
  <2>1. /\ MovedUp(About(p), About(p)') /\ About(p) \in SUBSET (Nat \ {0})
        /\ 1 \in About(p) <=> c.kind \in Setters /\ c.peer = p
    BY <1>1, <1>3, AboutRead
  <2> DEFINE S == SaidAt("PeerConnectionStateChanged", p)
  <2>2. /\ MovedUp(S, S') /\ S \subseteq About(p)
        /\ 1 \in S <=> c.kind = "PeerConnectionStateChanged" /\ c.peer = p
        /\ \A i \in Nat \ {0} : i + 1 \in S => commands'[i] = commands[i + 1]
    BY <1>1, <1>3, SaidRead DEF About
  <2>3. ASSUME \E i \in S : Display(commands[i].event) = d /\ \A j \in About(p) : j <= i
        PROVE  Reaching(p, d)'
    <3>1. PICK i \in S : Display(commands[i].event) = d /\ \A j \in About(p) : j <= i
      BY <2>3
    <3>2. CASE i = 1
      <4>1. c.kind = "PeerConnectionStateChanged" /\ c.peer = p /\ About(p)' = {}
        BY <2>1, <2>2, <3>1, <3>2, OnlyMoves
      <4>2. SaidAt("ContactAdded", p) = {}
        <5>1. SUFFICES ASSUME NEW j \in SaidAt("ContactAdded", p) PROVE FALSE
          OBVIOUS
        <5>2. j = 1 /\ commands[1].kind = "ContactAdded" /\ commands[1].kind = "PeerConnectionStateChanged"
          BY <2>1, <3>1, <3>2, <5>1 DEF About, SaidAt
        <5> QED
          BY <5>2
      <4>3. Head(commands) = commands[1]
        BY <1>1, <1>3, HeadTyped
      <4>4. p \in Range(contacts') /\ Display(view'[p]) = d
        BY <1>1, <1>2, <1>9, <3>1, <3>2, <4>1, <4>2, <4>3, LastShown
      <4> QED
        BY <4>1, <4>4 DEF Reaching, Display, Range
    <3>3. CASE i # 1
      <4>1. i - 1 \in S' /\ i - 1 \in Nat \ {0} /\ (i - 1) + 1 = i
        BY <2>1, <2>2, <3>1, <3>3 DEF MovedUp
      <4>2. \A j \in About(p)' : j <= i - 1
        BY <2>1, <2>2, <3>1, <3>3, LastMoves
      <4>3. Display(commands'[i - 1].event) = d
        BY <2>2, <3>1, <4>1
      <4> QED
        BY <4>1, <4>2, <4>3 DEF Reaching, Display
    <3> QED
      BY <3>2, <3>3
  <2>4. ASSUME p \in Range(contacts), Display(view[p]) = d, About(p) = {}
        PROVE  Reaching(p, d)'
    <3>1. About(p)' = {}
      BY <2>1, <2>4, OnlyMoves
    <3>2. p \in Range(contacts') /\ Display(view'[p]) = d
      BY <1>1, <1>2, <2>1, <2>4, ShownStays
    <3> QED
      BY <3>1, <3>2 DEF Reaching, Display, Range
  <2>5. Reaching(p, d)'
    BY <1>9, <2>3, <2>4 DEF Reaching
  <2> QED
    BY <1>2, <1>7, <1>9, <2>5 DEF WillShow
<1> QED
  BY <1>6, <1>8, <1>9 DEF WillShow

-----------------------------------------------------------------------------
(* The contacts change.                                                    *)

\* A peer that becomes a contact has no session made for one.
LEMMA RtReplaceShows ==
  ASSUME ViewInv, RtReplace
  PROVE  SessionsFollow' /\ ViewFollows'
<1>1. /\ ProgramInv /\ ViewFollows /\ SessionsFollow /\ Inv
  BY DEF ViewInv, ProgramInv
<1>2. /\ op = NoOp /\ allowlist' = Candidate
      /\ op' = [step |-> "taking", removed |-> allowlist \ Candidate, stop |-> {},
                add |-> Candidate \ allowlist]
      /\ UNCHANGED <<table, session, events, known, uiVars, commands>>
  BY DEF RtReplace, ReplaceContacts
<1>3. op.removed = {}
  BY <1>2 DEF NoOp
<1>4. \A p \in Peers : table[p] # NoSession /\ ~session[table[p]].permit => p \in allowlist
  BY <1>1, <1>3 DEF SessionsFollow, TableFollows
<1>5. DialsFollow' /\ CallFollows'
  BY <1>1, <1>2 DEF SessionsFollow, DialsFollow, CallFollows
<1>6. TableFollows'
  BY <1>2, <1>4 DEF TableFollows
<1>7. \A p \in Peers : Hears(p)
  BY <1>2, <1>4 DEF Hears, Followed, Steady, Quiet
<1>8. PICK c : Tells(c) /\ c.kind \notin Setters
  BY <1>2, SilentAside DEF Aside
<1>9. UNCHANGED <<running, contacts, view>>
  BY <1>2 DEF uiVars, dataVars
<1>10. ViewFollows'
  BY <1>1, <1>2, <1>7, <1>8, <1>9, ViewHeard
<1> QED
  BY <1>5, <1>6, <1>10 DEF SessionsFollow

\* What is told then is about the one contact that was none, or is none now.
LEMMA RtReplacedShows ==
  ASSUME ViewInv, RtReplaced
  PROVE  SessionsFollow' /\ ViewFollows'
<1> DEFINE c == Command(IF rt.do = "PersistContact" THEN "ContactAdded" ELSE "ContactRemoved", rt.peer)
<1>1. /\ Inv /\ UiTyped /\ ProcessSound /\ ViewFollows /\ SessionsFollow
  BY DEF ViewInv, ProgramInv
<1>2. /\ rt.step = "replacing" /\ known' = Candidate /\ Tell(c)
      /\ UNCHANGED <<uiVars, allowlist, table, session, events, op>>
  BY DEF RtReplaced, transportVars
<1>3. UNCHANGED <<running, contacts, view>>
  BY <1>2 DEF uiVars, dataVars
<1>4. /\ rt.peer \in Peers /\ allowlist = Candidate
      /\ rt.do = "PersistContact" <=> rt.peer \notin known
  BY <1>1, <1>2 DEF ProcessSound, Changing
<1>5. Tells(c) /\ c.peer = rt.peer
  <2>1. c \in CommandRecord
    BY <1>4, CommandTyped
  <2> QED
    BY <1>2, <2>1 DEF Tells, Command
<1> HIDE DEF c
<1>6. SessionsFollow'
  BY <1>1, <1>2, ElseFollow
<1>7. SUFFICES ASSUME running, NEW p \in Peers, Followed(p), NEW d, d = Display(session[table[p]])
               PROVE  WillShow(p, d)'
  BY <1>2, <1>3, <1>6, Zenon DEF ViewFollows, Followed, Display
<1>8. WillShow(p, d) /\ p \in Candidate
  BY <1>1, <1>4, <1>7 DEF ViewFollows, Followed
<1>9. Talk(p)' = Talk(p)
  BY <1>2 DEF Talk
<1>10. CASE Coming(p, d)
  <2>1. Coming(p, d)'
    BY <1>2, <1>9, <1>10, Zenon DEF Coming, Display
  <2> QED
    BY <2>1 DEF WillShow
<1>11. CASE p \in known /\ Talk(p) = {} /\ Reaching(p, d)
  <2>1. c.peer # p
    BY <1>4, <1>5, <1>8, <1>11 DEF Candidate
  <2>2. Display(view'[p]) = Display(view[p])
    BY <1>3
  <2>3. Reaching(p, d)'
    BY <1>1, <1>3, <1>5, <1>11, <2>1, <2>2, ReachingStays
  <2> QED
    BY <1>2, <1>8, <1>9, <1>11, <2>3 DEF WillShow
<1> QED
  BY <1>8, <1>10, <1>11 DEF WillShow

LEMMA RtStopShows ==
  ASSUME ViewInv, RtStop
  PROVE  SessionsFollow' /\ ViewFollows'
<1>1. /\ ~running /\ UNCHANGED <<uiVars, session, allowlist>> /\ op = NoOp
      /\ op' = [NoOp EXCEPT !.step = "closing", !.stop = SessionsOf(Peers)]
      /\ table' = [p \in Peers |-> NoSession]
  BY DEF RtStop, CloseTransport
<1>2. ~running'
  BY <1>1 DEF uiVars
<1>3. op'.step = "closing" /\ op'.add = {} /\ op'.removed = {}
  BY <1>1 DEF NoOp
<1>4. DialsFollow' /\ TableFollows' /\ CallFollows'
  BY <1>1, <1>3 DEF ViewInv, SessionsFollow, DialsFollow, TableFollows, CallFollows
<1> QED
  BY <1>2, <1>4 DEF SessionsFollow, ViewFollows

-----------------------------------------------------------------------------
(* The process starts, ends, and dies.                                     *)

\* Every session the transport starts with is to dial.
LEMMA StartedFollows ==
  ASSUME NEW peers \in SUBSET Peers, Started(peers)
  PROVE  SessionsFollow /\ \A p \in Peers : ~Followed(p)
<1> DEFINE f == FirstSessions(peers)
<1>1. /\ f \in [peers -> SessionIds]
      /\ \A p, q \in peers : f[p] = f[q] => p = q
  BY FirstSessionsInjective
<1>2. /\ table = [p \in Peers |-> IF p \in peers THEN f[p] ELSE NoSession]
      /\ session = [s \in SessionIds |->
                      IF \E p \in peers : f[p] = s
                      THEN Spawned(CHOOSE p \in peers : f[p] = s, TRUE, FALSE)
                      ELSE Absent]
      /\ allowlist = peers /\ op = NoOp
  BY DEF Started, StartedTable, StartedSessions
<1> HIDE DEF f
<1>3. \A s \in SessionIds : session[s] = Absent \/ \E p : session[s] = Spawned(p, TRUE, FALSE)
  BY <1>2
<1>4. \A p : Spawned(p, TRUE, FALSE).dial = "asked" /\ Spawned(p, TRUE, FALSE).state = "Connecting"
  BY DEF Spawned, Absent
<1>5. ~Absent.alive
  BY DEF Absent
<1>6. DialsFollow
  BY <1>3, <1>4, <1>5 DEF DialsFollow
<1>7. \A p \in Peers : table[p] # NoSession => p \in peers /\ session[table[p]].dial = "asked"
  <2> SUFFICES ASSUME NEW p \in Peers, table[p] # NoSession
               PROVE  p \in peers /\ session[table[p]].dial = "asked"
    OBVIOUS
  <2>1. p \in peers /\ table[p] = f[p] /\ f[p] \in SessionIds
    BY <1>1, <1>2
  <2>2. \E q : session[f[p]] = Spawned(q, TRUE, FALSE)
    BY <1>2, <2>1
  <2> QED
    BY <1>4, <2>1, <2>2
<1>8. TableFollows /\ CallFollows
  BY <1>2, <1>7 DEF TableFollows, CallFollows, NoOp
<1> QED
  BY <1>6, <1>7, <1>8 DEF SessionsFollow, Followed

LEMMA StartedFollowsNext ==
  ASSUME NEW peers \in SUBSET Peers
  PROVE  (Started(peers) => SessionsFollow /\ \A p \in Peers : ~Followed(p))'
<1>1. Started(peers) => SessionsFollow /\ \A p \in Peers : ~Followed(p)
  BY StartedFollows
<1> QED
  BY <1>1, PTL

LEMMA StartShows ==
  ASSUME NEW peers \in SUBSET Peers, StartTransport(peers)
  PROVE  SessionsFollow' /\ ViewFollows'
<1>1. Started(peers)'
  BY StartedNext
<1>2. SessionsFollow' /\ \A p \in Peers : ~Followed(p)'
  BY <1>1, StartedFollowsNext
<1> QED
  BY <1>2 DEF ViewFollows

LEMMA ProcessShows ==
  ASSUME ViewInv, Launch \/ Exit \/ Crash
  PROVE  SessionsFollow' /\ ViewFollows'
<1>1. CASE Launch
  <2>1. StartTransport(Range(Loaded(file)))
    BY <1>1 DEF Launch
  <2>2. Range(Loaded(file)) \in SUBSET Peers
    BY DEF ViewInv, ProgramInv, StoreSound, IsList, Loaded, Range
  <2> QED
    BY <2>1, <2>2, StartShows
<1>2. CASE Exit \/ Crash
  <2>1. StartTransport({})
    BY <1>2 DEF Exit, Crash, AllGone
  <2> QED
    BY <2>1, StartShows
<1> QED
  BY <1>1, <1>2

LEMMA RestShows ==
  ASSUME ViewInv, Boot \/ UNCHANGED vars
  PROVE  SessionsFollow' /\ ViewFollows'
<1>1. UNCHANGED <<known, uiVars, commands, transportVars>>
  BY DEF Boot, vars, rtVars
<1>2. UNCHANGED <<running, contacts, view, allowlist, table, session, events, op>>
  BY <1>1 DEF uiVars, dataVars, transportVars
<1> QED
  BY <1>1, <1>2, SilentAside, AsideShows

-----------------------------------------------------------------------------
(* The theorems.                                                           *)

LEMMA ProgramInitView == ProgramInit => ViewInv
<1> SUFFICES ASSUME ProgramInit PROVE ViewInv
  OBVIOUS
<1>1. Started({}) /\ ProgramInv
  BY ProgramInitInv DEF ProgramInit
<1>2. SessionsFollow /\ \A p \in Peers : ~Followed(p)
  BY <1>1, StartedFollows
<1> QED
  BY <1>1, <1>2 DEF ViewInv, ViewFollows

LEMMA ProgramNextShows ==
  ASSUME ViewInv, [ProgramNext]_vars
  PROVE  ViewInv'
<1>1. ProgramInv'
  BY ProgramNextKeeps DEF ViewInv
<1>2. CASE Runtime
  BY <1>1, <1>2, RtEventShows, AnswersShow, RtReplaceShows, RtReplacedShows, RtStopShows
     DEF Runtime, ViewInv
<1> QED
  BY <1>1, <1>2, UserPartShows, ScreenShows, TransportPartShows, ProcessShows, RestShows
     DEF ProgramNext, ViewInv

\* The invariant of what is said and shown, in every state the program reaches.
THEOREM ViewInvariant == ProgramSpec => []ViewInv
<1>1. ViewInv /\ [ProgramNext]_vars => ViewInv'
  BY ProgramNextShows
<1> QED
  BY <1>1, ProgramInitView, PTL DEF ProgramSpec

\* No order of events, commands, dials, accepted connections, keys and changes
\* of the contacts leaves interface, runtime, transport and file with different
\* contacts, or a contact shown in a state its session is not in
\* (handle_connection_event, apply_command, replace_contacts).
THEOREM ViewTrue == ProgramSpec => []ViewAgreesAtRest
<1>1. ViewInv => ViewAgreesAtRest
  <2> SUFFICES ASSUME ViewInv, AtRest PROVE ViewAgreesAtRest
    BY DEF ViewAgreesAtRest
  <2>1. /\ Inv /\ UiTyped /\ ProcessSound /\ StoreSound /\ ListFollows
        /\ SessionsFollow /\ ViewFollows
    BY DEF ViewInv, ProgramInv
  <2>2. /\ phase = "up" /\ rt = Resting /\ op = NoOp /\ running
        /\ events = <<>> /\ commands = <<>>
    BY DEF AtRest, Selecting
  <2>3. \A kind, p : SaidAt(kind, p) = {}
    BY <2>2 DEF SaidAt
  <2>4. allowlist = known /\ known \in SUBSET Peers
    BY <2>1, <2>2 DEF ProcessSound, Resting
  <2>5. Range(contacts) = known
    <3>1. Range(contacts) \subseteq Peers
      BY <2>1 DEF UiTyped, ListTyped, Range
    <3>2. \A p \in Peers : p \in Range(contacts) <=> p \in known
      BY <2>1, <2>2, <2>3 DEF ListFollows, Follows
    <3> QED
      BY <2>4, <3>1, <3>2
  <2>6. Loads(file) /\ Range(Loaded(file)) = known
    BY <2>1, <2>2, FileLoads DEF StoreSound, Resting
  <2>7. ASSUME NEW p \in known, session[table[p]].dial # "asked", ~Adopted(p)
        PROVE  /\ view[p].state = session[table[p]].state
               /\ view[p].path = session[table[p]].path
               /\ view[p].since = session[table[p]].since
    <3>1. p \in Peers /\ p \in allowlist
      BY <2>4, <2>7
    <3>2. table[p] # NoSession
      BY <2>1, <2>2, <3>1 DEF Inv, CallSound, NoOp
    <3>3. Followed(p)
      BY <2>7, <3>1, <3>2 DEF Followed, Adopted
    <3>4. WillShow(p, Display(session[table[p]]))
      BY <2>1, <2>2, <3>1, <3>3 DEF ViewFollows
    <3>5. Talk(p) = {}
      BY <2>2 DEF Talk
    <3>6. Display(view[p]) = Display(session[table[p]])
      BY <2>3, <3>4, <3>5 DEF WillShow, Coming, Reaching
    <3> QED
      BY <3>6 DEF Display
  <2> QED
    BY <2>4, <2>5, <2>6, <2>7 DEF ViewAgreesAtRest
<1> QED
  BY <1>1, ViewInvariant, PTL


=============================================================================
