--------------------------- MODULE TransportProofs --------------------------
(***************************************************************************)
(* The session table of ChatTransport and its budgets, for every number of *)
(* peers, sessions, permits and messages: no session is lost sight of, no  *)
(* contact is without one, no permit is lost, no message is left with a    *)
(* session that is gone.                                                   *)
(***************************************************************************)
EXTENDS ChatTransport, FiniteSetTheorems, SequenceTheorems, TLAPS

-----------------------------------------------------------------------------
(* The invariant.                                                          *)

Dials    == {"never", "asked", "waiting", "dialing", "done"}
AnyPath  == Paths \cup {"Unknown"}
OpSteps  == {"idle", "taking", "stopping", "closing", "closed"}

SessionRecord ==
  [peer : Peers \cup {NoPeer}, alive : BOOLEAN, state : ConnStates, dial : Dials, permit : BOOLEAN,
   origin : {"None", "Inbound", "Outbound"}, path : AnyPath, since : 0..MaxConnects]

\* What a session shows fits its state, and one that is gone holds nothing.
Sound(r) ==
  /\ r \in SessionRecord
  /\ (r.state = "Connected") <=> (r.since # NoTime)
  /\ r.state # "Connected" => r.path = "Unknown"
  /\ r.alive => r.peer \in Peers
  /\ ~r.alive => ~r.permit /\ r.state = "NotConnected" /\ r.dial # "asked"

SessionsTyped ==
  /\ session \in [SessionIds -> SessionRecord]
  /\ \A s \in SessionIds : Sound(session[s])
  /\ connects \in 0..MaxConnects

AcceptsTyped ==
  /\ accept \in [Accepts -> [peer : Peers \cup {NoPeer},
                             step : {"idle", "handshake", "refusing", "authorised"}]]
  /\ \A i \in Accepts : accept[i].step # "idle" => accept[i].peer \in Peers

HandlersTyped ==
  handler \in [Handlers -> [peer : Peers \cup {NoPeer}, id : Inbound \cup {0},
                            step : {"idle", "reading", "waiting", "queued"}]]

OpRecord ==
  [step : OpSteps, removed : SUBSET Peers, stop : SUBSET SessionIds, add : SUBSET Peers]

TableTyped ==
  /\ allowlist \in SUBSET Peers
  /\ table \in [Peers -> SessionIds \cup {NoSession}]
  /\ op \in OpRecord

SentTyped ==
  sent \in [Outbound -> [peer : Peers \cup {NoPeer}, session : SessionIds \cup {NoSession},
                         outcome : Outcomes \cup {"None", "Pending"}, told : BOOLEAN]]

Typed == SessionsTyped /\ AcceptsTyped /\ HandlersTyped /\ TableTyped /\ SentTyped

\* The table and the live sessions agree, and the call under way stops the
\* sessions it took out of the table and no others.
Owned ==
  /\ \A s \in SessionIds : session[s].alive => table[session[s].peer] = s \/ s \in op.stop
  /\ \A p \in Peers : table[p] # NoSession =>
       session[table[p]].alive /\ session[table[p]].peer = p /\ table[p] \notin op.stop
  /\ \A s \in op.stop : session[s].alive

\* What the call under way has still to do.  A contact has a session, or the
\* call will give it one; what it takes out is no contact any more.
CallSound ==
  /\ op.step \in {"idle", "taking"} => op.stop = {}
  /\ op.removed \cap allowlist = {}
  /\ \A p \in allowlist : \/ table[p] # NoSession
                          \/ p \in op.add
                          \/ op.step \in {"closing", "closed"}

Budgets ==
  /\ Cardinality(Dialing) <= DialPermits
  /\ Cardinality(PermitsHeld) <= SessionPermits
  /\ Cardinality(Admitted) <= Admissions

\* A message owed an outcome belongs to a session that can still settle it.
Owing ==
  \A m \in Outbound : sent[m].outcome = "Pending" =>
    sent[m].session \in SessionIds /\ session[sent[m].session].alive

Inv == Typed /\ Owned /\ CallSound /\ Budgets /\ Owing

-----------------------------------------------------------------------------
(* Cardinalities.                                                          *)

\* A part of a set that fits a budget fits it.
LEMMA Shrinks ==
  ASSUME NEW S, IsFiniteSet(S), NEW T \in SUBSET S, NEW n \in Nat, Cardinality(S) <= n
  PROVE  Cardinality(T) <= n
<1>1. Cardinality(S) \in Nat /\ Cardinality(T) \in Nat
  BY FS_CardinalityType, FS_Subset
<1>2. Cardinality(T) <= Cardinality(S)
  BY FS_Subset
<1> QED
  BY <1>1, <1>2

\* One more fits it while the budget is not used up.
LEMMA Grows ==
  ASSUME NEW S, IsFiniteSet(S), NEW x, NEW T \in SUBSET (S \cup {x}),
         NEW n \in Nat, Cardinality(S) < n
  PROVE  Cardinality(T) <= n
<1>1. Cardinality(S) \in Nat
  BY FS_CardinalityType
<1>2. /\ IsFiniteSet(S \cup {x})
      /\ Cardinality(S \cup {x}) = Cardinality(S) \/ Cardinality(S \cup {x}) = Cardinality(S) + 1
  BY FS_AddElement
<1>3. Cardinality(S \cup {x}) <= n
  BY <1>1, <1>2
<1> QED
  BY <1>2, <1>3, Shrinks

\* The sets the budgets count are finite.
LEMMA CountedFinite ==
  /\ IsFiniteSet(Dialing) /\ IsFiniteSet(PermitsHeld) /\ IsFiniteSet(Admitted)
<1>1. /\ Dialing \in SUBSET SessionIds
      /\ PermitsHeld \in SUBSET SessionIds
      /\ Admitted \in SUBSET Accepts
  BY DEF Dialing, PermitsHeld, Admitted
<1> QED
  BY <1>1, FS_Subset, TransportAssumption

-----------------------------------------------------------------------------
(* Sessions.                                                               *)

\* The session a spawn takes is one that is gone.
LEMMA FreshUnused ==
  ASSUME Unused # {}
  PROVE  Fresh \in SessionIds /\ session[Fresh] = Absent
  BY DEF Fresh, Unused

\* The records sessions are made from, and what is left of one.
LEMMA AbsentSound == Sound(Absent)
  BY TransportAssumption DEF Sound, SessionRecord, Absent, NoTime, ConnStates, Dials, AnyPath

Made(r, p, permit, state, dial) ==
  [r EXCEPT !.peer = p, !.alive = TRUE, !.permit = permit, !.state = state, !.dial = dial]

LEMMA MadeFields ==
  ASSUME NEW r \in SessionRecord, NEW p \in Peers, NEW permit \in BOOLEAN,
         NEW state \in ConnStates, NEW dial \in Dials
  PROVE  /\ Made(r, p, permit, state, dial) \in SessionRecord
         /\ Made(r, p, permit, state, dial).peer = p
         /\ Made(r, p, permit, state, dial).alive
         /\ Made(r, p, permit, state, dial).permit <=> permit
         /\ Made(r, p, permit, state, dial).state = state
         /\ Made(r, p, permit, state, dial).dial = dial
         /\ Made(r, p, permit, state, dial).path = r.path
         /\ Made(r, p, permit, state, dial).since = r.since
  BY TransportAssumption DEF Made, SessionRecord, ConnStates, Dials, AnyPath

LEMMA SpawnedSound ==
  ASSUME NEW p \in Peers, NEW dialing \in BOOLEAN, NEW permit \in BOOLEAN
  PROVE  /\ Sound(Spawned(p, dialing, permit))
         /\ Spawned(p, dialing, permit).alive
         /\ Spawned(p, dialing, permit).peer = p
         /\ Spawned(p, dialing, permit).permit <=> permit
         /\ Spawned(p, dialing, permit).state # "Connected"
         /\ Spawned(p, dialing, permit).dial # "dialing"
<1>1. /\ Absent \in SessionRecord /\ Absent.path = "Unknown" /\ Absent.since = NoTime
      /\ "Connecting" \in ConnStates /\ "NotConnected" \in ConnStates
      /\ "asked" \in Dials /\ "never" \in Dials
  BY AbsentSound DEF Sound, Absent, ConnStates, Dials
<1>2. CASE dialing
  <2>1. Spawned(p, dialing, permit) = Made(Absent, p, permit, "Connecting", "asked")
    BY <1>2, Zenon DEF Spawned, Made
  <2> QED
    BY <1>1, <2>1, MadeFields DEF Sound
<1>3. CASE ~dialing
  <2>1. Spawned(p, dialing, permit) = Made(Absent, p, permit, "NotConnected", "never")
    BY <1>3, Zenon DEF Spawned, Made
  <2> QED
    BY <1>1, <2>1, MadeFields DEF Sound
<1> QED
  BY <1>2, <1>3

LEMMA RemainsSound ==
  ASSUME NEW s \in SessionIds
  PROVE  /\ Sound(Remains(s)) /\ ~Remains(s).alive
         /\ Remains(s).dial = "dialing" => session[s].dial = "dialing"
  BY AbsentSound DEF Remains, Sound, SessionRecord, Absent, Dials

\* A step that writes one session.
Writes(s, r) ==
  /\ Sound(r)
  /\ session' = [session EXCEPT ![s] = r]
  /\ connects' \in 0..MaxConnects

LEMMA WriteTyped ==
  ASSUME SessionsTyped, NEW s \in SessionIds, NEW r, Writes(s, r)
  PROVE  /\ SessionsTyped'
         /\ session'[s] = r
         /\ \A t \in SessionIds : t # s => session'[t] = session[t]
  BY DEF SessionsTyped, Writes, Sound

\* What a session shows, and what it shows of a connection.
Shown(r, state, origin, path, since) ==
  [r EXCEPT !.state = state, !.origin = origin, !.path = path, !.since = since]
Moved(r, origin, path) == [r EXCEPT !.origin = origin, !.path = path]

LEMMA ShownFields ==
  ASSUME NEW r \in SessionRecord, NEW state \in ConnStates,
         NEW origin \in {"None", "Inbound", "Outbound"}, NEW path \in AnyPath,
         NEW since \in 0..MaxConnects
  PROVE  /\ Shown(r, state, origin, path, since) \in SessionRecord
         /\ Shown(r, state, origin, path, since).state = state
         /\ Shown(r, state, origin, path, since).path = path
         /\ Shown(r, state, origin, path, since).since = since
         /\ Shown(r, state, origin, path, since).peer = r.peer
         /\ Shown(r, state, origin, path, since).alive <=> r.alive
         /\ Shown(r, state, origin, path, since).permit <=> r.permit
         /\ Shown(r, state, origin, path, since).dial = r.dial
  BY TransportAssumption DEF Shown, SessionRecord, ConnStates, Dials, AnyPath

LEMMA MovedFields ==
  ASSUME NEW r \in SessionRecord, NEW origin \in {"None", "Inbound", "Outbound"},
         NEW path \in AnyPath
  PROVE  /\ Moved(r, origin, path) \in SessionRecord
         /\ Moved(r, origin, path).path = path
         /\ Moved(r, origin, path).state = r.state
         /\ Moved(r, origin, path).since = r.since
         /\ Moved(r, origin, path).peer = r.peer
         /\ Moved(r, origin, path).alive <=> r.alive
         /\ Moved(r, origin, path).permit <=> r.permit
         /\ Moved(r, origin, path).dial = r.dial
  BY TransportAssumption DEF Moved, SessionRecord, ConnStates, Dials, AnyPath

\* attach_connection writes the record it is given, with the connection.
LEMMA AttachWrites ==
  ASSUME SessionsTyped, NEW s \in SessionIds, NEW record, Sound(record), record.alive,
         record.state = session[s].state,
         NEW origin \in {"Inbound", "Outbound"}, Attach(s, record, origin)
  PROVE  \E r : /\ Writes(s, r)
                /\ r.alive /\ r.peer = record.peer
                /\ (r.permit <=> record.permit) /\ r.dial = record.dial
                /\ session[s].state = "Connected" => r.since = record.since
<1>1. /\ record \in SessionRecord /\ "Connected" \in ConnStates
      /\ origin \in {"None", "Inbound", "Outbound"}
      /\ \A w \in Paths : w \in AnyPath
  BY PeersAssumption DEF Sound, ConnStates, AnyPath
<1>2. CASE session[s].state # "Connected"
  <2>1. /\ connects < MaxConnects /\ connects' = connects + 1
        /\ \E w \in Paths :
             session' = [session EXCEPT ![s] = Shown(record, "Connected", origin, w, connects + 1)]
    BY <1>2, Zenon DEF Attach, Shown
  <2>2. PICK w \in Paths :
          session' = [session EXCEPT ![s] = Shown(record, "Connected", origin, w, connects + 1)]
    BY <2>1
  <2>3. connects' \in 0..MaxConnects /\ connects + 1 \in 0..MaxConnects /\ connects + 1 # NoTime
    BY <2>1, TransportAssumption DEF SessionsTyped, NoTime
  <2> DEFINE r == Shown(record, "Connected", origin, w, connects + 1)
  <2>4. /\ r \in SessionRecord /\ r.state = "Connected" /\ r.since = connects + 1
        /\ r.peer = record.peer /\ (r.alive <=> record.alive)
        /\ (r.permit <=> record.permit) /\ r.dial = record.dial
    BY <1>1, <2>3, ShownFields
  <2> HIDE DEF r
  <2>5. Sound(r)
    BY <2>3, <2>4 DEF Sound
  <2>6. Writes(s, r)
    BY <2>2, <2>3, <2>5 DEF Writes, r
  <2> QED
    BY <1>2, <2>4, <2>6
<1>3. CASE session[s].state = "Connected"
  <2>1. connects' \in 0..MaxConnects
    BY <1>3 DEF Attach, SessionsTyped
  <2>2. CASE session' = [session EXCEPT ![s] = record]
    BY <2>1, <2>2 DEF Writes
  <2>3. CASE \E w \in Paths : session' = [session EXCEPT ![s] = Moved(record, origin, w)]
    <3>1. PICK w \in Paths : session' = [session EXCEPT ![s] = Moved(record, origin, w)]
      BY <2>3
    <3> DEFINE r == Moved(record, origin, w)
    <3>2. /\ r \in SessionRecord /\ r.state = record.state /\ r.since = record.since
          /\ r.peer = record.peer /\ (r.alive <=> record.alive)
          /\ (r.permit <=> record.permit) /\ r.dial = record.dial
      BY <1>1, MovedFields
    <3> HIDE DEF r
    <3>3. Sound(r)
      BY <1>3, <3>2 DEF Sound
    <3>4. Writes(s, r)
      BY <2>1, <3>1, <3>3 DEF Writes, r
    <3> QED
      BY <3>2, <3>4
  <2> QED
    BY <1>3, <2>2, <2>3, Zenon DEF Attach, Moved
<1> QED
  BY <1>2, <1>3

\* Single fields.
WithDial(r, dial)   == [r EXCEPT !.dial = dial]
WithState(r, state) == [r EXCEPT !.state = state]
WithPath(r, path)   == [r EXCEPT !.path = path]
Begun(r)            == [r EXCEPT !.dial = "waiting", !.state = "Connecting"]

LEMMA FieldFields ==
  ASSUME NEW r \in SessionRecord, NEW dial \in Dials, NEW state \in ConnStates,
         NEW path \in AnyPath
  PROVE  /\ WithDial(r, dial) \in SessionRecord
         /\ WithDial(r, dial).dial = dial
         /\ WithDial(r, dial).state = r.state
         /\ WithDial(r, dial).peer = r.peer
         /\ WithDial(r, dial).alive <=> r.alive
         /\ WithDial(r, dial).permit <=> r.permit
         /\ WithDial(r, dial).since = r.since
         /\ WithDial(r, dial).path = r.path
         /\ WithState(r, state) \in SessionRecord
         /\ WithState(r, state).state = state
         /\ WithState(r, state).dial = r.dial
         /\ WithState(r, state).peer = r.peer
         /\ WithState(r, state).alive <=> r.alive
         /\ WithState(r, state).permit <=> r.permit
         /\ WithState(r, state).since = r.since
         /\ WithState(r, state).path = r.path
         /\ WithPath(r, path) \in SessionRecord
         /\ WithPath(r, path).path = path
         /\ WithPath(r, path).state = r.state
         /\ WithPath(r, path).dial = r.dial
         /\ WithPath(r, path).peer = r.peer
         /\ WithPath(r, path).alive <=> r.alive
         /\ WithPath(r, path).permit <=> r.permit
         /\ WithPath(r, path).since = r.since
<1>1. /\ WithDial(r, dial) \in SessionRecord
      /\ WithDial(r, dial).dial = dial
      /\ WithDial(r, dial).state = r.state
      /\ WithDial(r, dial).peer = r.peer
      /\ WithDial(r, dial).alive <=> r.alive
      /\ WithDial(r, dial).permit <=> r.permit
      /\ WithDial(r, dial).since = r.since
      /\ WithDial(r, dial).path = r.path
  BY DEF WithDial, SessionRecord
<1>2. /\ WithState(r, state) \in SessionRecord
      /\ WithState(r, state).state = state
      /\ WithState(r, state).dial = r.dial
      /\ WithState(r, state).peer = r.peer
      /\ WithState(r, state).alive <=> r.alive
      /\ WithState(r, state).permit <=> r.permit
      /\ WithState(r, state).since = r.since
      /\ WithState(r, state).path = r.path
  BY DEF WithState, SessionRecord
<1>3. /\ WithPath(r, path) \in SessionRecord
      /\ WithPath(r, path).path = path
      /\ WithPath(r, path).state = r.state
      /\ WithPath(r, path).dial = r.dial
      /\ WithPath(r, path).peer = r.peer
      /\ WithPath(r, path).alive <=> r.alive
      /\ WithPath(r, path).permit <=> r.permit
      /\ WithPath(r, path).since = r.since
  BY DEF WithPath, SessionRecord
<1> QED
  BY <1>1, <1>2, <1>3

LEMMA BegunFields ==
  ASSUME NEW r \in SessionRecord
  PROVE  /\ Begun(r) \in SessionRecord
         /\ Begun(r).dial = "waiting" /\ Begun(r).state = "Connecting"
         /\ Begun(r).peer = r.peer
         /\ Begun(r).alive <=> r.alive
         /\ Begun(r).permit <=> r.permit
         /\ Begun(r).since = r.since
         /\ Begun(r).path = r.path
  BY DEF Begun, SessionRecord, Dials, ConnStates

\* A step of a session actor: it may begin its dial within the budget, and it
\* keeps its peer, its permit and the start of its connection.
Acts(s, r) ==
  /\ Writes(s, r)
  /\ r.alive <=> session[s].alive
  /\ r.alive => r.peer = session[s].peer
  /\ r.permit <=> session[s].permit
  /\ r.dial = "dialing" => session[s].dial = "dialing" \/ Cardinality(Dialing) < DialPermits
  /\ session[s].state = "Connected" /\ r.state = "Connected" => r.since = session[s].since

LEMMA BeginDialActs ==
  ASSUME SessionsTyped, NEW s \in SessionIds, BeginDial(s)
  PROVE  \E r : Acts(s, r)
<1>1. /\ session[s] \in SessionRecord /\ Sound(session[s]) /\ connects' \in 0..MaxConnects
      /\ session[s].dial = "asked" /\ "never" \in Dials /\ "Connecting" \in ConnStates
      /\ "Unknown" \in AnyPath
  BY DEF SessionsTyped, BeginDial, Dials, ConnStates, AnyPath
<1>2. CASE session[s].state = "Connected"
  <2>1. session' = [session EXCEPT ![s] = WithDial(session[s], "never")]
    BY <1>2, Zenon DEF BeginDial, WithDial
  <2>2. Acts(s, WithDial(session[s], "never"))
    BY <1>1, <1>2, <2>1, FieldFields DEF Acts, Writes, Sound
  <2> QED
    BY <2>2
<1>3. CASE session[s].state # "Connected"
  <2>1. session' = [session EXCEPT ![s] = Begun(session[s])]
    BY <1>3, Zenon DEF BeginDial, Begun
  <2>2. Acts(s, Begun(session[s]))
    BY <1>1, <1>3, <2>1, BegunFields DEF Acts, Writes, Sound
  <2> QED
    BY <2>2
<1> QED
  BY <1>2, <1>3

LEMMA StartDialActs ==
  ASSUME SessionsTyped, NEW s \in SessionIds, StartDial(s)
  PROVE  \E r : Acts(s, r)
<1>1. /\ session[s] \in SessionRecord /\ Sound(session[s]) /\ connects' \in 0..MaxConnects
      /\ "dialing" \in Dials /\ "Connected" \in ConnStates /\ "Unknown" \in AnyPath
      /\ Cardinality(Dialing) < DialPermits
  BY DEF SessionsTyped, StartDial, Dials, ConnStates, AnyPath
<1>2. session' = [session EXCEPT ![s] = WithDial(session[s], "dialing")]
  BY Zenon DEF StartDial, WithDial
<1>3. Acts(s, WithDial(session[s], "dialing"))
  BY <1>1, <1>2, FieldFields DEF Acts, Writes, Sound
<1> QED
  BY <1>3

\* What a dial leaves behind of a session that is gone.
LEMMA GoneActs ==
  ASSUME SessionsTyped, NEW s \in SessionIds, ~session[s].alive,
         session' = [session EXCEPT ![s] = Absent], UNCHANGED connects
  PROVE  Acts(s, Absent)
<1>1. ~Absent.alive /\ ~Absent.permit /\ Absent.dial = "never" /\ Absent.state = "NotConnected"
  BY DEF Absent
<1>2. Sound(session[s]) /\ connects' \in 0..MaxConnects
  BY DEF SessionsTyped
<1> QED
  BY <1>1, <1>2, AbsentSound DEF Acts, Writes, Sound

LEMMA DialSucceedsActs ==
  ASSUME SessionsTyped, NEW s \in SessionIds, DialSucceeds(s)
  PROVE  \E r : Acts(s, r)
<1>1. CASE session[s].alive
  <2> DEFINE record == WithDial(session[s], "done")
  <2>1. /\ session[s] \in SessionRecord /\ Sound(session[s])
        /\ "done" \in Dials /\ "Connected" \in ConnStates /\ "Unknown" \in AnyPath
    BY DEF SessionsTyped, Dials, ConnStates, AnyPath
  <2>2. /\ record \in SessionRecord /\ record.dial = "done" /\ record.alive
        /\ record.state = session[s].state /\ record.peer = session[s].peer
        /\ record.path = session[s].path /\ record.since = session[s].since
        /\ record.permit <=> session[s].permit
    BY <1>1, <2>1, FieldFields
  <2>3. Attach(s, record, "Outbound")
    BY <1>1, Zenon DEF DialSucceeds, WithDial
  <2> HIDE DEF record
  <2>4. Sound(record)
    BY <1>1, <2>1, <2>2 DEF Sound
  <2>5. "Outbound" \in {"Inbound", "Outbound"}
    OBVIOUS
  <2>6. PICK r : /\ Writes(s, r)
                 /\ r.alive /\ r.peer = record.peer
                 /\ (r.permit <=> record.permit) /\ r.dial = record.dial
                 /\ session[s].state = "Connected" => r.since = record.since
    BY <2>2, <2>3, <2>4, <2>5, AttachWrites
  <2>7. Acts(s, r)
    BY <1>1, <2>2, <2>6 DEF Acts
  <2> QED
    BY <2>7
<1>2. CASE ~session[s].alive
  BY <1>2, GoneActs DEF DialSucceeds
<1> QED
  BY <1>1, <1>2

LEMMA DialFailsActs ==
  ASSUME SessionsTyped, NEW s \in SessionIds, DialFails(s)
  PROVE  \E r : Acts(s, r)
<1>1. /\ session[s] \in SessionRecord /\ Sound(session[s]) /\ connects' \in 0..MaxConnects
      /\ "done" \in Dials /\ "NotConnected" \in ConnStates /\ "Unknown" \in AnyPath
  BY DEF SessionsTyped, DialFails, Dials, ConnStates, AnyPath
<1> DEFINE failed == WithDial(session[s], "done")
<1>2. /\ failed \in SessionRecord /\ failed.dial = "done"
      /\ failed.alive <=> session[s].alive
      /\ failed.state = session[s].state /\ failed.peer = session[s].peer
      /\ failed.path = session[s].path /\ failed.since = session[s].since
      /\ failed.permit <=> session[s].permit
  BY <1>1, FieldFields
<1>3. CASE ~session[s].alive
  BY <1>3, GoneActs DEF DialFails
<1>4. CASE session[s].alive /\ session[s].state = "Connecting"
  <2>1. session' = [session EXCEPT ![s] = WithState(failed, "NotConnected")]
    BY <1>4, Zenon DEF DialFails, WithDial, WithState
  <2> HIDE DEF failed
  <2>2. Acts(s, WithState(failed, "NotConnected"))
    BY <1>1, <1>2, <1>4, <2>1, FieldFields DEF Acts, Writes, Sound
  <2> QED
    BY <2>2
<1>5. CASE session[s].alive /\ session[s].state # "Connecting"
  <2>1. session' = [session EXCEPT ![s] = failed]
    BY <1>5, Zenon DEF DialFails, WithDial
  <2> HIDE DEF failed
  <2>2. Acts(s, failed)
    BY <1>1, <1>2, <1>5, <2>1 DEF Acts, Writes, Sound
  <2> QED
    BY <2>2
<1> QED
  BY <1>3, <1>4, <1>5

LEMMA ConnectionLostActs ==
  ASSUME SessionsTyped, NEW s \in SessionIds, ConnectionLost(s)
  PROVE  \E r : Acts(s, r)
<1>1. /\ session[s] \in SessionRecord /\ Sound(session[s]) /\ connects' \in 0..MaxConnects
      /\ "NotConnected" \in ConnStates /\ "None" \in {"None", "Inbound", "Outbound"}
      /\ "Unknown" \in AnyPath /\ NoTime \in 0..MaxConnects
      /\ session[s].alive
  BY TransportAssumption DEF SessionsTyped, ConnectionLost, NoTime, ConnStates, AnyPath
<1>2. session' = [session EXCEPT ![s] = Shown(session[s], "NotConnected", "None", "Unknown", NoTime)]
  BY Zenon DEF ConnectionLost, Shown
<1>3. Acts(s, Shown(session[s], "NotConnected", "None", "Unknown", NoTime))
  BY <1>1, <1>2, ShownFields DEF Acts, Writes, Sound
<1> QED
  BY <1>3

LEMMA PathChangedActs ==
  ASSUME SessionsTyped, NEW s \in SessionIds, PathChanged(s)
  PROVE  \E r : Acts(s, r)
<1>1. /\ session[s] \in SessionRecord /\ Sound(session[s]) /\ connects' \in 0..MaxConnects
      /\ session[s].alive /\ session[s].state = "Connected"
      /\ "never" \in Dials /\ "Connected" \in ConnStates
      /\ \A w \in Paths : w \in AnyPath
  BY PeersAssumption DEF SessionsTyped, PathChanged, AnyPath, Dials, ConnStates
<1>2. PICK w \in Paths : session' = [session EXCEPT ![s] = WithPath(session[s], w)]
  BY Zenon DEF PathChanged, WithPath
<1>3. Acts(s, WithPath(session[s], w))
  BY <1>1, <1>2, FieldFields DEF Acts, Writes, Sound
<1> QED
  BY <1>3

-----------------------------------------------------------------------------
(* Every step keeps the invariant, and the start of a connection.          *)

Kept == \A s \in SessionIds :
  session[s].state = "Connected" /\ session'[s].state = "Connected"
    => session'[s].since = session[s].since

\* The budgets, when one session is written.
LEMMA WriteBudgets ==
  ASSUME SessionsTyped, Budgets, NEW s \in SessionIds, NEW r, Writes(s, r), Cardinality(Admitted') <= Admissions,
         r.dial = "dialing" => session[s].dial = "dialing" \/ Cardinality(Dialing) < DialPermits,
         r.permit => session[s].permit \/ Cardinality(PermitsHeld) < SessionPermits
  PROVE  Budgets'
<1>1. /\ session'[s] = r
      /\ \A u \in SessionIds : u # s => session'[u] = session[u]
  BY WriteTyped
<1>2. Cardinality(Dialing') <= DialPermits
  <2>1. CASE r.dial = "dialing" /\ session[s].dial # "dialing"
    <3>1. Dialing' \in SUBSET (Dialing \cup {s})
      BY <1>1 DEF Dialing
    <3> QED
      BY <2>1, <3>1, CountedFinite, Grows, TransportAssumption
  <2>2. CASE ~(r.dial = "dialing" /\ session[s].dial # "dialing")
    <3>1. Dialing' \in SUBSET Dialing
      BY <1>1, <2>2 DEF Dialing
    <3> QED
      BY <3>1, CountedFinite, Shrinks, TransportAssumption DEF Budgets
  <2> QED
    BY <2>1, <2>2
<1>3. Cardinality(PermitsHeld') <= SessionPermits
  <2>1. CASE r.permit /\ ~session[s].permit
    <3>1. PermitsHeld' \in SUBSET (PermitsHeld \cup {s})
      BY <1>1 DEF PermitsHeld
    <3> QED
      BY <2>1, <3>1, CountedFinite, Grows, TransportAssumption
  <2>2. CASE ~(r.permit /\ ~session[s].permit)
    <3>1. PermitsHeld' \in SUBSET PermitsHeld
      BY <1>1, <2>2 DEF PermitsHeld
    <3> QED
      BY <3>1, CountedFinite, Shrinks, TransportAssumption DEF Budgets
  <2> QED
    BY <2>1, <2>2
<1> QED
  BY <1>2, <1>3 DEF Budgets

\* The call under way goes on, less some of the peers it had to add.
CallRemains(added) ==
  /\ op' \in OpRecord
  /\ op'.step = op.step /\ op'.removed = op.removed /\ op'.stop = op.stop
  /\ op.add \subseteq op'.add \cup added

LEMMA CallRests ==
  ASSUME Inv, UNCHANGED op
  PROVE  CallRemains({})
  BY DEF Inv, Typed, TableTyped, CallRemains

\* A step of an actor disturbs nothing around it.
LEMMA ActsKeep ==
  ASSUME Inv, NEW s \in SessionIds, NEW r, Acts(s, r),
         AcceptsTyped', Cardinality(Admitted') <= Admissions,
         NEW added, CallRemains(added), \A p \in added : table[p] # NoSession,
         UNCHANGED <<allowlist, table, handler, sent>>
  PROVE  Inv' /\ Kept
<1>1. /\ SessionsTyped' /\ session'[s] = r
      /\ \A u \in SessionIds : u # s => session'[u] = session[u]
  BY WriteTyped DEF Inv, Typed, Acts
<1>2. Typed'
  BY <1>1 DEF Inv, Typed, HandlersTyped, TableTyped, SentTyped, CallRemains
<1>3. \A u \in SessionIds : /\ session'[u].alive <=> session[u].alive
                            /\ session'[u].alive => session'[u].peer = session[u].peer
  BY <1>1 DEF Acts
<1>4. Owned'
  <2>1. \A p \in Peers : table[p] \in SessionIds \cup {NoSession}
    BY DEF Inv, Typed, TableTyped
  <2>2. \A u \in op.stop : u \in SessionIds
    BY DEF Inv, Typed, TableTyped, OpRecord
  <2> QED
    BY <1>3, <2>1, <2>2 DEF Inv, Owned, CallRemains
<1>5. CallSound'
  BY DEF Inv, CallSound, CallRemains
<1>6. Budgets'
  BY WriteBudgets DEF Inv, Typed, Acts
<1>7. Owing'
  BY <1>3 DEF Inv, Owing
<1>8. Kept
  BY <1>1 DEF Kept, Acts
<1> QED
  BY <1>2, <1>4, <1>5, <1>6, <1>7, <1>8 DEF Inv

LEMMA AcceptsKept ==
  ASSUME Inv, UNCHANGED accept
  PROVE  AcceptsTyped' /\ Cardinality(Admitted') <= Admissions
  BY DEF Inv, Typed, AcceptsTyped, Budgets, Admitted

LEMMA BeginDialKeeps ==
  ASSUME Inv, NEW s \in SessionIds, BeginDial(s)
  PROVE  Inv' /\ Kept
  BY BeginDialActs, ActsKeep, AcceptsKept, CallRests DEF Inv, Typed, BeginDial

LEMMA StartDialKeeps ==
  ASSUME Inv, NEW s \in SessionIds, StartDial(s)
  PROVE  Inv' /\ Kept
  BY StartDialActs, ActsKeep, AcceptsKept, CallRests DEF Inv, Typed, StartDial

LEMMA DialSucceedsKeeps ==
  ASSUME Inv, NEW s \in SessionIds, DialSucceeds(s)
  PROVE  Inv' /\ Kept
  BY DialSucceedsActs, ActsKeep, AcceptsKept, CallRests DEF Inv, Typed, DialSucceeds

LEMMA DialFailsKeeps ==
  ASSUME Inv, NEW s \in SessionIds, DialFails(s)
  PROVE  Inv' /\ Kept
  BY DialFailsActs, ActsKeep, AcceptsKept, CallRests DEF Inv, Typed, DialFails

LEMMA ConnectionLostKeeps ==
  ASSUME Inv, NEW s \in SessionIds, ConnectionLost(s)
  PROVE  Inv' /\ Kept
  BY ConnectionLostActs, ActsKeep, AcceptsKept, CallRests DEF Inv, Typed, ConnectionLost

LEMMA PathChangedKeeps ==
  ASSUME Inv, NEW s \in SessionIds, PathChanged(s)
  PROVE  Inv' /\ Kept
  BY PathChangedActs, ActsKeep, AcceptsKept, CallRests DEF Inv, Typed, PathChanged

\* Steps that leave the sessions, the table and the messages as they are.
LEMMA AroundKeeps ==
  ASSUME Inv, AcceptsTyped', HandlersTyped', Cardinality(Admitted') <= Admissions,
         UNCHANGED <<allowlist, table, session, sent, connects, op>>
  PROVE  Inv' /\ Kept
<1>1. Typed'
  BY DEF Inv, Typed, SessionsTyped, TableTyped, SentTyped
<1>2. Owned' /\ CallSound' /\ Owing'
  BY DEF Inv, Owned, CallSound, Owing
<1>3. Budgets'
  BY DEF Inv, Budgets, Dialing, PermitsHeld
<1>4. Kept
  BY DEF Kept
<1> QED
  BY <1>1, <1>2, <1>3, <1>4 DEF Inv

-----------------------------------------------------------------------------
(* The accept loop.                                                        *)

AcceptRecord == [peer : Peers \cup {NoPeer}, step : {"idle", "handshake", "refusing", "authorised"}]

LEMMA AdmissionsKept ==
  ASSUME Inv, NEW i \in Accepts, NEW r \in AcceptRecord,
         r.step # "idle" => r.peer \in Peers,
         accept' = [accept EXCEPT ![i] = r],
         r.step \in {"handshake", "refusing"}
           => accept[i].step \in {"handshake", "refusing"} \/ Cardinality(Admitted) < Admissions
  PROVE  AcceptsTyped' /\ Cardinality(Admitted') <= Admissions
<1>1. /\ accept \in [Accepts -> AcceptRecord]
      /\ \A j \in Accepts : accept[j].step # "idle" => accept[j].peer \in Peers
  BY DEF Inv, Typed, AcceptsTyped, AcceptRecord
<1>2. /\ accept' \in [Accepts -> AcceptRecord]
      /\ accept'[i] = r
      /\ \A j \in Accepts : j # i => accept'[j] = accept[j]
  BY <1>1
<1>3. AcceptsTyped'
  BY <1>1, <1>2 DEF AcceptsTyped, AcceptRecord
<1>4. CASE r.step \in {"handshake", "refusing"} /\ accept[i].step \notin {"handshake", "refusing"}
  <2>1. Admitted' \in SUBSET (Admitted \cup {i})
    BY <1>2 DEF Admitted
  <2> QED
    BY <1>3, <1>4, <2>1, CountedFinite, Grows, TransportAssumption
<1>5. CASE ~(r.step \in {"handshake", "refusing"} /\ accept[i].step \notin {"handshake", "refusing"})
  <2>1. Admitted' \in SUBSET Admitted
    BY <1>2, <1>5 DEF Admitted
  <2> QED
    BY <1>3, <2>1, CountedFinite, Shrinks, TransportAssumption DEF Inv, Budgets
<1> QED
  BY <1>4, <1>5

LEMMA IncomingKeeps ==
  ASSUME Inv, NEW i \in Accepts, Incoming(i)
  PROVE  Inv' /\ Kept
<1>1. PICK p \in Peers : accept' = [accept EXCEPT ![i] = [peer |-> p, step |-> "handshake"]]
  BY DEF Incoming
<1>2. AcceptsTyped' /\ Cardinality(Admitted') <= Admissions
  <2> DEFINE r == [peer |-> p, step |-> "handshake"]
  <2>1. r \in AcceptRecord /\ r.peer \in Peers
    BY DEF AcceptRecord
  <2>2. Cardinality(Admitted) < Admissions /\ accept' = [accept EXCEPT ![i] = r]
    BY <1>1 DEF Incoming
  <2> HIDE DEF r
  <2> QED
    BY <2>1, <2>2, AdmissionsKept
<1>3. HandlersTyped' /\ UNCHANGED <<allowlist, table, session, sent, connects, op>>
  BY DEF Inv, Typed, HandlersTyped, Incoming
<1> QED
  BY <1>2, <1>3, AroundKeeps

LEMMA IdleRecord == Idle \in AcceptRecord /\ Idle.step = "idle"
  BY DEF Idle, AcceptRecord

LEMMA DropConnectionKeeps ==
  ASSUME Inv, NEW i \in Accepts, DropConnection(i)
  PROVE  Inv' /\ Kept
<1>1. AcceptsTyped' /\ Cardinality(Admitted') <= Admissions
  BY IdleRecord, AdmissionsKept DEF DropConnection
<1>2. HandlersTyped' /\ UNCHANGED <<allowlist, table, session, sent, connects, op>>
  BY DEF Inv, Typed, HandlersTyped, DropConnection
<1> QED
  BY <1>1, <1>2, AroundKeeps

LEMMA AuthoriseKeeps ==
  ASSUME Inv, NEW i \in Accepts, Authorise(i)
  PROVE  Inv' /\ Kept
<1>1. /\ accept[i] \in AcceptRecord /\ accept[i].step = "handshake" /\ accept[i].peer \in Peers
  BY DEF Inv, Typed, AcceptsTyped, AcceptRecord, Authorise
<1>2. PICK step \in {"authorised", "refusing"} : accept' = [accept EXCEPT ![i].step = step]
  BY DEF Authorise
<1> DEFINE r == [accept[i] EXCEPT !.step = step]
<1>3. r \in AcceptRecord /\ r.peer \in Peers
  BY <1>1 DEF AcceptRecord
<1>4. accept' = [accept EXCEPT ![i] = r]
  BY <1>2, Zenon
<1> HIDE DEF r
<1>5. AcceptsTyped' /\ Cardinality(Admitted') <= Admissions
  BY <1>1, <1>3, <1>4, AdmissionsKept
<1>6. HandlersTyped' /\ UNCHANGED <<allowlist, table, session, sent, connects, op>>
  BY DEF Inv, Typed, HandlersTyped, Authorise
<1> QED
  BY <1>5, <1>6, AroundKeeps

\* A new session for a peer that has none.
LEMMA SpawnKeeps ==
  ASSUME Inv, NEW p \in Peers, table[p] = NoSession, Unused # {},
         NEW r, Writes(Fresh, r), r.alive, r.peer = p, r.dial # "dialing",
         r.permit => Cardinality(PermitsHeld) < SessionPermits,
         table' = [table EXCEPT ![p] = Fresh],
         AcceptsTyped', Cardinality(Admitted') <= Admissions,
         CallRemains({p}),
         UNCHANGED <<allowlist, handler, sent>>
  PROVE  Inv' /\ Kept
<1>1. /\ Fresh \in SessionIds /\ ~session[Fresh].alive /\ session[Fresh].state # "Connected"
      /\ Fresh # NoSession
  <2>1. ~Absent.alive /\ Absent.state # "Connected"
    BY DEF Absent
  <2>2. Fresh \in SessionIds /\ session[Fresh] = Absent
    BY FreshUnused
  <2>3. NoSession \notin SessionIds
    BY TransportAssumption
  <2> QED
    BY <2>1, <2>2, <2>3
<1>2. /\ SessionsTyped' /\ session'[Fresh] = r
      /\ \A u \in SessionIds : u # Fresh => session'[u] = session[u]
  BY <1>1, WriteTyped DEF Inv, Typed
<1>3. /\ table \in [Peers -> SessionIds \cup {NoSession}]
      /\ \A q \in Peers : table[q] \in SessionIds \cup {NoSession}
      /\ op.stop \in SUBSET SessionIds /\ op'.stop = op.stop
      /\ \A u \in SessionIds : session[u].alive => session[u].peer \in Peers
  BY DEF Inv, Typed, TableTyped, OpRecord, SessionsTyped, Sound, CallRemains
<1>4. table'[p] = Fresh /\ \A q \in Peers : q # p => table'[q] = table[q]
  BY <1>3
<1>5. Typed'
  BY <1>1, <1>2, <1>3 DEF Inv, Typed, HandlersTyped, TableTyped, SentTyped, CallRemains
<1>6. Owned'
  <2>1. ASSUME NEW u \in SessionIds, session'[u].alive
        PROVE  table'[session'[u].peer] = u \/ u \in op'.stop
    <3>1. CASE u = Fresh
      BY <1>2, <1>4, <3>1
    <3>2. CASE u # Fresh
      <4>1. session'[u] = session[u] /\ session[u].alive /\ session[u].peer \in Peers
        BY <1>2, <1>3, <2>1, <3>2
      <4>2. table[session[u].peer] = u \/ u \in op.stop
        BY <4>1 DEF Inv, Owned
      <4>3. u # NoSession
        BY TransportAssumption
      <4> QED
        BY <1>3, <1>4, <4>1, <4>2, <4>3
    <3> QED
      BY <3>1, <3>2
  <2>2. ASSUME NEW q \in Peers, table'[q] # NoSession
        PROVE  session'[table'[q]].alive /\ session'[table'[q]].peer = q /\ table'[q] \notin op'.stop
    <3>1. CASE q = p
      <4>1. Fresh \notin op.stop
        BY <1>1 DEF Inv, Owned
      <4> QED
        BY <1>2, <1>3, <1>4, <3>1, <4>1
    <3>2. CASE q # p
      <4>1. /\ table'[q] = table[q] /\ table[q] \in SessionIds
            /\ session[table[q]].alive /\ session[table[q]].peer = q /\ table[q] \notin op.stop
        BY <1>3, <1>4, <2>2, <3>2 DEF Inv, Owned
      <4> QED
        BY <1>1, <1>2, <1>3, <4>1
    <3> QED
      BY <3>1, <3>2
  <2>3. \A u \in op'.stop : session'[u].alive
    BY <1>1, <1>2, <1>3 DEF Inv, Owned
  <2> QED
    BY <2>1, <2>2, <2>3 DEF Owned
<1>7. CallSound'
  <2>1. allowlist \in SUBSET Peers
    BY DEF Inv, Typed, TableTyped
  <2> QED
    BY <1>1, <1>4, <2>1 DEF Inv, CallSound, CallRemains
<1>8. Budgets'
  BY <1>1, WriteBudgets DEF Inv, Typed
<1>9. Owing'
  BY <1>1, <1>2 DEF Inv, Owing
<1>10. Kept
  BY <1>1, <1>2 DEF Kept
<1> QED
  BY <1>5, <1>6, <1>7, <1>8, <1>9, <1>10 DEF Inv

LEMMA AttachInboundKeeps ==
  ASSUME Inv, NEW i \in Accepts, AttachInbound(i)
  PROVE  Inv' /\ Kept
<1> DEFINE p == accept[i].peer
           s == table[p]
<1>1. /\ p \in Peers /\ s \in SessionIds \cup {NoSession}
      /\ SessionsTyped
      /\ \A u \in SessionIds : Sound(session[u])
  BY DEF Inv, Typed, AcceptsTyped, TableTyped, SessionsTyped, AttachInbound
<1>2. AcceptsTyped' /\ Cardinality(Admitted') <= Admissions
  BY IdleRecord, AdmissionsKept DEF AttachInbound
<1>3. UNCHANGED <<allowlist, handler, sent, op>>
  BY DEF AttachInbound
<1>4. "Inbound" \in {"Inbound", "Outbound"}
  OBVIOUS
<1>5. CASE s # NoSession
  <2>1. s \in SessionIds /\ Attach(s, session[s], "Inbound") /\ UNCHANGED table
    BY <1>1, <1>5 DEF AttachInbound
  <2>2. session[s].alive
    BY <1>1, <1>5 DEF Inv, Owned
  <2> HIDE DEF s
  <2>3. PICK r : /\ Writes(s, r)
                 /\ r.alive /\ r.peer = session[s].peer
                 /\ (r.permit <=> session[s].permit) /\ r.dial = session[s].dial
                 /\ session[s].state = "Connected" => r.since = session[s].since
    BY <1>1, <1>4, <2>1, <2>2, AttachWrites
  <2>4. Acts(s, r)
    BY <2>2, <2>3 DEF Acts
  <2> QED
    BY <1>2, <1>3, <2>1, <2>4, ActsKeep, CallRests
<1>6. CASE s = NoSession /\ Cardinality(PermitsHeld) < SessionPermits /\ op.step # "closed"
  <2> DEFINE new == Spawned(p, FALSE, TRUE)
  <2>1. /\ Unused # {} /\ table' = [table EXCEPT ![p] = Fresh]
        /\ Attach(Fresh, new, "Inbound")
    BY <1>6 DEF AttachInbound
  <2>2. Fresh \in SessionIds /\ session[Fresh].state = "NotConnected"
    BY <2>1, FreshUnused DEF Absent
  <2>3. FALSE \in BOOLEAN /\ TRUE \in BOOLEAN
    OBVIOUS
  <2>4. Sound(new) /\ new.alive /\ new.peer = p /\ new.dial # "dialing"
    BY <1>1, <2>3, SpawnedSound
  <2>5. new.state = session[Fresh].state
    BY <2>2, Zenon DEF Spawned, Absent
  <2> HIDE DEF new
  <2>6. PICK r : Writes(Fresh, r) /\ r.alive /\ r.peer = new.peer /\ r.dial = new.dial
    BY <1>1, <1>4, <2>1, <2>2, <2>4, <2>5, AttachWrites
  <2>7. CallRemains({p})
    BY <1>3, CallRests DEF CallRemains
  <2> QED
    BY <1>1, <1>2, <1>3, <1>6, <2>1, <2>4, <2>6, <2>7, SpawnKeeps
<1>7. CASE s = NoSession /\ ~(Cardinality(PermitsHeld) < SessionPermits /\ op.step # "closed")
  <2>1. UNCHANGED <<table, session, connects>>
    BY <1>7 DEF AttachInbound
  <2>2. HandlersTyped'
    BY <1>3 DEF Inv, Typed, HandlersTyped
  <2> QED
    BY <1>2, <1>3, <2>1, <2>2, AroundKeeps
<1> QED
  BY <1>5, <1>6, <1>7

-----------------------------------------------------------------------------
(* The streams and what is received.                                       *)

HandlerRecord ==
  [peer : Peers \cup {NoPeer}, id : Inbound \cup {0}, step : {"idle", "reading", "waiting", "queued"}]

LEMMA HandlerKeeps ==
  ASSUME Inv, NEW h \in Handlers, NEW r \in HandlerRecord, handler' = [handler EXCEPT ![h] = r],
         UNCHANGED <<allowlist, table, session, accept, sent, connects, op>>
  PROVE  Inv' /\ Kept
<1>1. HandlersTyped'
  BY DEF Inv, Typed, HandlersTyped, HandlerRecord
<1> QED
  BY <1>1, AcceptsKept, AroundKeeps

LEMMA NoStreamRecord == NoStream \in HandlerRecord
  BY DEF NoStream, HandlerRecord

LEMMA HandlerMoves ==
  ASSUME Inv, NEW h \in Handlers, NEW step \in {"waiting", "queued"}
  PROVE  [handler[h] EXCEPT !.step = step] \in HandlerRecord
  BY DEF Inv, Typed, HandlersTyped, HandlerRecord

LEMMA OpenStreamKeeps ==
  ASSUME Inv, NEW h \in Handlers, OpenStream(h)
  PROVE  Inv' /\ Kept
<1>1. PICK s \in Alive, id \in Inbound \ Presented :
        handler' = [handler EXCEPT ![h] = [peer |-> session[s].peer, id |-> id, step |-> "reading"]]
  BY DEF OpenStream
<1>2. session[s].peer \in Peers
  BY DEF Inv, Typed, SessionsTyped, Sound, Alive
<1>3. [peer |-> session[s].peer, id |-> id, step |-> "reading"] \in HandlerRecord
  BY <1>2 DEF HandlerRecord
<1>4. UNCHANGED <<allowlist, table, session, accept, sent, connects, op>>
  BY DEF OpenStream
<1> QED
  BY <1>1, <1>3, <1>4, HandlerKeeps

LEMMA ReadMessageKeeps ==
  ASSUME Inv, NEW h \in Handlers, ReadMessage(h)
  PROVE  Inv' /\ Kept
<1>1. UNCHANGED <<allowlist, table, session, accept, sent, connects, op>>
  BY DEF ReadMessage
<1>2. CASE handler[h].peer \in allowlist
  <2>1. handler' = [handler EXCEPT ![h] = [handler[h] EXCEPT !.step = "waiting"]]
    BY <1>2, Zenon DEF ReadMessage
  <2>2. [handler[h] EXCEPT !.step = "waiting"] \in HandlerRecord
    BY HandlerMoves
  <2> QED
    BY <1>1, <2>1, <2>2, HandlerKeeps, Zenon
<1>3. CASE handler[h].peer \notin allowlist
  <2>1. handler' = [handler EXCEPT ![h] = NoStream]
    BY <1>3, Zenon DEF ReadMessage
  <2> QED
    BY <1>1, <2>1, NoStreamRecord, HandlerKeeps
<1> QED
  BY <1>2, <1>3

LEMMA EnqueueKeeps ==
  ASSUME Inv, NEW h \in Handlers, Enqueue(h)
  PROVE  Inv' /\ Kept
<1>1. UNCHANGED <<allowlist, table, session, accept, sent, connects, op>>
  BY DEF Enqueue
<1>2. handler' = [handler EXCEPT ![h] = [handler[h] EXCEPT !.step = "queued"]]
  BY Zenon DEF Enqueue
<1>3. [handler[h] EXCEPT !.step = "queued"] \in HandlerRecord
  BY HandlerMoves
<1> QED
  BY <1>1, <1>2, <1>3, HandlerKeeps, Zenon

LEMMA WriteReceiptKeeps ==
  ASSUME Inv, NEW h \in Handlers, WriteReceipt(h)
  PROVE  Inv' /\ Kept
  BY NoStreamRecord, HandlerKeeps DEF WriteReceipt

LEMMA ResetStreamKeeps ==
  ASSUME Inv, NEW h \in Handlers, ResetStream(h)
  PROVE  Inv' /\ Kept
  BY NoStreamRecord, HandlerKeeps DEF ResetStream

\* What the client reads, and every step that touches nothing of the above.
LEMMA OutsideKeeps ==
  ASSUME Inv, UNCHANGED <<allowlist, table, session, accept, handler, sent, connects, op>>
  PROVE  Inv' /\ Kept
<1>1. HandlersTyped'
  BY DEF Inv, Typed, HandlersTyped
<1> QED
  BY <1>1, AcceptsKept, AroundKeeps

-----------------------------------------------------------------------------
(* Messages to send.                                                       *)

SentRecord ==
  [peer : Peers \cup {NoPeer}, session : SessionIds \cup {NoSession},
   outcome : Outcomes \cup {"None", "Pending"}, told : BOOLEAN]

\* Messages change, and those owed an outcome have a live session.
LEMMA MessagesKeep ==
  ASSUME Inv, sent' \in [Outbound -> SentRecord], Owing',
         UNCHANGED <<allowlist, table, session, accept, handler, connects, op>>
  PROVE  Inv' /\ Kept
<1>1. Typed'
  BY DEF Inv, Typed, SessionsTyped, AcceptsTyped, HandlersTyped, TableTyped, SentTyped, SentRecord
<1>2. Owned' /\ CallSound'
  BY DEF Inv, Owned, CallSound
<1>3. Budgets'
  BY DEF Inv, Budgets, Dialing, PermitsHeld, Admitted
<1>4. Kept
  BY DEF Kept
<1> QED
  BY <1>1, <1>2, <1>3, <1>4 DEF Inv

LEMMA SendKeeps ==
  ASSUME Inv, NEW p \in Peers, NEW m \in Outbound, Send(p, m)
  PROVE  Inv' /\ Kept
<1>1. table[p] \in SessionIds /\ session[table[p]].alive
  <2>1. StateOf(p) = "Connected" /\ table[p] \in SessionIds \cup {NoSession}
    BY DEF Inv, Typed, TableTyped, Send, CanSend
  <2>2. table[p] # NoSession
    BY <2>1 DEF StateOf
  <2> QED
    BY <2>1, <2>2 DEF Inv, Owned
<1> DEFINE r == [peer |-> p, session |-> table[p], outcome |-> "Pending", told |-> FALSE]
<1>2. r \in SentRecord /\ r.session = table[p]
  BY <1>1 DEF SentRecord
<1>3. sent' = [sent EXCEPT ![m] = r]
  BY DEF Send
<1> HIDE DEF r
<1>4. sent \in [Outbound -> SentRecord]
  BY DEF Inv, Typed, SentTyped, SentRecord
<1>5. sent' \in [Outbound -> SentRecord]
  BY <1>2, <1>3, <1>4
<1>6. UNCHANGED <<allowlist, table, session, accept, handler, connects, op>>
  BY DEF Send
<1>7. Owing'
  <2>1. ASSUME NEW n \in Outbound, sent'[n].outcome = "Pending"
        PROVE  sent'[n].session \in SessionIds /\ session[sent'[n].session].alive
    BY <1>1, <1>2, <1>3, <1>4, <2>1 DEF Inv, Owing
  <2> QED
    BY <1>6, <2>1 DEF Owing
<1> QED
  BY <1>5, <1>6, <1>7, MessagesKeep

LEMMA SettleKeeps ==
  ASSUME Inv, NEW m \in Outbound, Settle(m)
  PROVE  Inv' /\ Kept
<1>1. PICK o \in Outcomes : sent' = [sent EXCEPT ![m].outcome = o]
  BY DEF Settle
<1> DEFINE r == [sent[m] EXCEPT !.outcome = o]
<1>2. sent \in [Outbound -> SentRecord]
  BY DEF Inv, Typed, SentTyped, SentRecord
<1>3. r \in SentRecord /\ r.outcome # "Pending"
  BY <1>2 DEF SentRecord, Outcomes
<1>4. sent' = [sent EXCEPT ![m] = r]
  BY <1>1, Zenon
<1> HIDE DEF r
<1>5. sent' \in [Outbound -> SentRecord]
  BY <1>2, <1>3, <1>4
<1>6. UNCHANGED <<allowlist, table, session, accept, handler, connects, op>>
  BY DEF Settle
<1>7. Owing'
  <2>1. ASSUME NEW n \in Outbound, sent'[n].outcome = "Pending"
        PROVE  sent'[n].session \in SessionIds /\ session[sent'[n].session].alive
    BY <1>2, <1>3, <1>4, <2>1 DEF Inv, Owing
  <2> QED
    BY <1>6, <2>1 DEF Owing
<1> QED
  BY <1>5, <1>6, <1>7, MessagesKeep

-----------------------------------------------------------------------------
(* The calls.                                                              *)

LEMMA OpFields ==
  /\ op \in OpRecord
     => /\ op.step \in OpSteps /\ op.removed \in SUBSET Peers
        /\ op.stop \in SUBSET SessionIds /\ op.add \in SUBSET Peers
  /\ NoOp \in OpRecord
  /\ NoOp.step = "idle" /\ NoOp.removed = {} /\ NoOp.stop = {} /\ NoOp.add = {}
  BY DEF OpRecord, NoOp, OpSteps

\* A step of a call that leaves the sessions and the messages alone.
LEMMA CallKeeps ==
  ASSUME Inv, TableTyped', Owned', CallSound',
         UNCHANGED <<session, accept, handler, sent, connects>>
  PROVE  Inv' /\ Kept
<1>1. Typed'
  BY DEF Inv, Typed, SessionsTyped, AcceptsTyped, HandlersTyped, SentTyped
<1>2. Budgets' /\ Owing'
  BY DEF Inv, Budgets, Dialing, PermitsHeld, Admitted, Owing
<1>3. Kept
  BY DEF Kept
<1> QED
  BY <1>1, <1>2, <1>3 DEF Inv

LEMMA ReplaceContactsKeeps ==
  ASSUME Inv, NEW peers \in SUBSET Peers, ReplaceContacts(peers)
  PROVE  Inv' /\ Kept
<1>1. /\ op.step = "idle" /\ op.removed = {} /\ op.stop = {} /\ op.add = {}
      /\ allowlist' = peers /\ allowlist \in SUBSET Peers
      /\ UNCHANGED <<table, session, accept, handler, sent, connects>>
  BY OpFields DEF ReplaceContacts, Inv, Typed, TableTyped
<1>2. /\ op' \in OpRecord
      /\ op'.step = "taking" /\ op'.removed = allowlist \ peers /\ op'.stop = {}
      /\ op'.add = peers \ allowlist
  BY <1>1 DEF ReplaceContacts, OpRecord, OpSteps
<1>3. TableTyped'
  BY <1>1, <1>2 DEF Inv, Typed, TableTyped
<1>4. Owned'
  BY <1>1, <1>2 DEF Inv, Owned
<1>5. CallSound'
  BY <1>1, <1>2 DEF Inv, CallSound
<1> QED
  BY <1>1, <1>3, <1>4, <1>5, CallKeeps

LEMMA TakeRemovedKeeps ==
  ASSUME Inv, TakeRemoved
  PROVE  Inv' /\ Kept
<1>1. /\ op \in OpRecord /\ allowlist \in SUBSET Peers
      /\ table \in [Peers -> SessionIds \cup {NoSession}]
      /\ op.step = "taking" /\ op.stop = {}
      /\ UNCHANGED <<allowlist, session, accept, handler, sent, connects>>
      /\ \A u \in SessionIds : session[u].alive => session[u].peer \in Peers
  BY DEF TakeRemoved, Inv, Typed, TableTyped, CallSound, SessionsTyped, Sound
<1>2. /\ op.removed \in SUBSET Peers
      /\ SessionsOf(op.removed) \in SUBSET SessionIds
  BY <1>1, OpFields DEF SessionsOf
<1>3. /\ op' \in OpRecord
      /\ op'.step = "stopping" /\ op'.removed = {} /\ op'.stop = SessionsOf(op.removed)
      /\ op'.add = op.add
  <2> DEFINE stopped == SessionsOf(op.removed)
  <2>1. op' = [op EXCEPT !.step = "stopping", !.stop = stopped, !.removed = {}]
    BY DEF TakeRemoved
  <2>2. stopped \in SUBSET SessionIds
    BY <1>2
  <2> HIDE DEF stopped
  <2>3. /\ op' \in OpRecord
        /\ op'.step = "stopping" /\ op'.removed = {} /\ op'.stop = stopped /\ op'.add = op.add
    BY <1>1, <2>1, <2>2 DEF OpRecord, OpSteps
  <2> QED
    BY <2>3 DEF stopped
<1>4. /\ table' \in [Peers -> SessionIds \cup {NoSession}]
      /\ \A p \in Peers : table'[p] = IF p \in op.removed THEN NoSession ELSE table[p]
  BY <1>1 DEF TakeRemoved
<1>5. TableTyped'
  BY <1>1, <1>3, <1>4 DEF TableTyped
<1>6. Owned'
  <2>1. ASSUME NEW u \in SessionIds, session[u].alive
        PROVE  table'[session[u].peer] = u \/ u \in SessionsOf(op.removed)
    <3>1. /\ session[u].peer \in Peers /\ table[session[u].peer] = u
      BY <1>1, <2>1 DEF Inv, Owned
    <3>2. u # NoSession
      BY TransportAssumption
    <3> QED
      BY <1>2, <1>4, <3>1, <3>2 DEF SessionsOf
  <2>2. ASSUME NEW p \in Peers, table'[p] # NoSession
        PROVE  /\ session[table'[p]].alive /\ session[table'[p]].peer = p
               /\ table'[p] \notin SessionsOf(op.removed)
    <3>1. /\ p \notin op.removed /\ table'[p] = table[p]
          /\ session[table[p]].alive /\ session[table[p]].peer = p
      BY <1>4, <2>2 DEF Inv, Owned
    <3>2. ASSUME NEW q \in op.removed, table[q] = table[p], table[q] # NoSession
          PROVE  FALSE
      BY <1>2, <3>1, <3>2 DEF Inv, Owned
    <3> QED
      BY <3>1, <3>2 DEF SessionsOf
  <2>3. \A u \in SessionsOf(op.removed) : session[u].alive
    BY <1>2 DEF SessionsOf, Inv, Owned
  <2> QED
    BY <1>1, <1>3, <2>1, <2>2, <2>3 DEF Owned
<1>7. CallSound'
  BY <1>1, <1>3, <1>4 DEF Inv, CallSound
<1> QED
  BY <1>1, <1>5, <1>6, <1>7, CallKeeps

LEMMA StopSessionKeeps ==
  ASSUME Inv, NEW s \in SessionIds, StopSession(s)
  PROVE  Inv' /\ Kept
<1> DEFINE r == Remains(s)
<1>1. /\ op \in OpRecord /\ op.step \in {"stopping", "closing"} /\ s \in op.stop
      /\ session' = [session EXCEPT ![s] = r]
      /\ sent' = Resolved(s)
      /\ UNCHANGED <<allowlist, table, accept, handler, connects>>
  BY DEF StopSession, EndSession, Inv, Typed, TableTyped
<1>2. /\ op' \in OpRecord
      /\ op'.step = op.step /\ op'.removed = op.removed /\ op'.stop = op.stop \ {s}
      /\ op'.add = op.add
  <2>1. op' = [op EXCEPT !.stop = op.stop \ {s}]
    BY Zenon DEF StopSession, EndSession
  <2> QED
    BY <1>1, <2>1 DEF OpRecord, OpSteps
<1>3. Sound(r) /\ ~r.alive /\ (r.dial = "dialing" => session[s].dial = "dialing")
  BY RemainsSound
<1> HIDE DEF r
<1>4. r.state # "Connected" /\ ~r.permit
  BY <1>3 DEF Sound
<1>5. Writes(s, r)
  BY <1>1, <1>3 DEF Writes, Inv, Typed, SessionsTyped
<1>6. /\ SessionsTyped' /\ session'[s] = r
      /\ \A u \in SessionIds : u # s => session'[u] = session[u]
  BY <1>5, WriteTyped DEF Inv, Typed
<1>7. sent' \in [Outbound -> SentRecord]
  <2>1. \A m \in Outbound : sent[m] \in SentRecord /\ [sent[m] EXCEPT !.outcome = "Failed"] \in SentRecord
    BY DEF Inv, Typed, SentTyped, SentRecord, Outcomes
  <2> QED
    BY <1>1, <2>1, Zenon DEF Resolved
<1>8. Typed'
  BY <1>1, <1>2, <1>6, <1>7, AcceptsKept
     DEF Inv, Typed, HandlersTyped, TableTyped, SentTyped, SentRecord
<1>9. Owned'
  <2>1. \A p \in Peers : table[p] \in SessionIds \cup {NoSession}
    BY DEF Inv, Typed, TableTyped
  <2>2. \A u \in op.stop : u \in SessionIds
    BY <1>1, OpFields
  <2>3. \A p \in Peers : table[p] # s \/ table[p] = NoSession
    BY <1>1 DEF Inv, Owned
  <2> QED
    BY <1>1, <1>2, <1>3, <1>6, <2>1, <2>2, <2>3 DEF Inv, Owned
<1>10. CallSound'
  BY <1>1, <1>2 DEF Inv, CallSound
<1>11. Budgets'
  BY <1>1, <1>3, <1>4, <1>5, AcceptsKept, WriteBudgets DEF Inv, Typed
<1>12. Owing'
  <2>1. ASSUME NEW m \in Outbound, sent'[m].outcome = "Pending"
        PROVE  sent'[m].session \in SessionIds /\ session'[sent'[m].session].alive
    <3>1. m \notin InFlight(s)
      <4>1. CASE m \in InFlight(s)
        <5>1. sent'[m] = [sent[m] EXCEPT !.outcome = "Failed"] /\ sent[m] \in SentRecord
          BY <1>1, <4>1 DEF Resolved, Inv, Typed, SentTyped, SentRecord
        <5>2. [sent[m] EXCEPT !.outcome = "Failed"].outcome = "Failed"
          BY <5>1 DEF SentRecord
        <5> QED
          BY <2>1, <5>1, <5>2
      <4> QED
        BY <4>1
    <3>2. sent'[m] = sent[m]
      BY <1>1, <3>1 DEF Resolved
    <3>3. sent[m].session # s /\ sent[m].session \in SessionIds /\ session[sent[m].session].alive
      BY <2>1, <3>1, <3>2 DEF InFlight, Inv, Owing
    <3> QED
      BY <1>6, <3>2, <3>3
  <2> QED
    BY <2>1 DEF Owing
<1>13. Kept
  BY <1>4, <1>6 DEF Kept
<1> QED
  BY <1>8, <1>9, <1>10, <1>11, <1>12, <1>13 DEF Inv

LEMMA EnsureOutboundKeeps ==
  ASSUME Inv, NEW p \in Peers, EnsureOutbound(p)
  PROVE  Inv' /\ Kept
<1>1. /\ op \in OpRecord /\ p \in op.add
      /\ table \in [Peers -> SessionIds \cup {NoSession}]
      /\ table[p] \in SessionIds \cup {NoSession}
      /\ UNCHANGED <<allowlist, accept, handler, sent, connects>>
      /\ SessionsTyped /\ connects' \in 0..MaxConnects
  BY DEF EnsureOutbound, Inv, Typed, TableTyped, SessionsTyped
<1>2. CallRemains({p})
  <2>1. op' = [op EXCEPT !.add = op.add \ {p}]
    BY Zenon DEF EnsureOutbound
  <2>2. /\ op' \in OpRecord
        /\ op'.step = op.step /\ op'.removed = op.removed /\ op'.stop = op.stop
        /\ op'.add = op.add \ {p}
    BY <1>1, <2>1 DEF OpRecord, OpSteps
  <2> QED
    BY <1>1, <2>2, OpFields DEF CallRemains
<1>3. AcceptsTyped' /\ Cardinality(Admitted') <= Admissions
  BY <1>1, AcceptsKept
<1>4. CASE table[p] = NoSession
  <2> DEFINE r == Spawned(p, TRUE, FALSE)
  <2>1. /\ Unused # {} /\ table' = [table EXCEPT ![p] = Fresh]
        /\ session' = [session EXCEPT ![Fresh] = r]
    BY <1>4 DEF EnsureOutbound
  <2>2. TRUE \in BOOLEAN /\ FALSE \in BOOLEAN
    OBVIOUS
  <2>3. Sound(r) /\ r.alive /\ r.peer = p /\ ~r.permit /\ r.dial # "dialing"
    BY <2>2, SpawnedSound
  <2> HIDE DEF r
  <2>4. Writes(Fresh, r)
    BY <1>1, <2>1, <2>3 DEF Writes
  <2> QED
    BY <1>1, <1>2, <1>3, <1>4, <2>1, <2>3, <2>4, SpawnKeeps
<1>5. CASE table[p] # NoSession
  <2> DEFINE s == table[p]
             dial == IF session[s].dial = "never" THEN "asked" ELSE session[s].dial
             r == WithDial(session[s], dial)
  <2>1. /\ s \in SessionIds /\ session[s].alive /\ session[s] \in SessionRecord
        /\ Sound(session[s])
    BY <1>1, <1>5 DEF Inv, Owned, SessionsTyped
  <2>2. session' = [session EXCEPT ![s] = r] /\ UNCHANGED table
    <3>1. /\ session' = [session EXCEPT ![table[p]].dial = IF @ = "never" THEN "asked" ELSE @]
          /\ UNCHANGED table
      BY <1>5 DEF EnsureOutbound
    <3> QED
      BY <3>1, Zenon DEF WithDial
  <2> HIDE DEF s
  <2>3. dial \in Dials /\ (dial = "dialing" => session[s].dial = "dialing")
    BY <2>1 DEF SessionRecord, Dials
  <2> HIDE DEF dial
  <2>4. "Connected" \in ConnStates /\ "Unknown" \in AnyPath
    BY DEF ConnStates, AnyPath
  <2>5. /\ r \in SessionRecord /\ r.dial = dial /\ r.alive
        /\ r.state = session[s].state /\ r.peer = session[s].peer
        /\ r.path = session[s].path /\ r.since = session[s].since
        /\ r.permit <=> session[s].permit
    BY <2>1, <2>3, <2>4, FieldFields
  <2> HIDE DEF r
  <2>6. Acts(s, r)
    BY <1>1, <2>1, <2>2, <2>3, <2>5 DEF Acts, Writes, Sound
  <2>7. \A q \in {p} : table[q] # NoSession
    BY <1>5
  <2> QED
    BY <1>1, <1>2, <1>3, <2>1, <2>2, <2>6, <2>7, ActsKeep
<1> QED
  BY <1>4, <1>5

LEMMA ReplacedKeeps ==
  ASSUME Inv, Replaced
  PROVE  Inv' /\ Kept
<1>1. /\ op.step = "stopping" /\ op.stop = {} /\ op.add = {} /\ op' = NoOp
      /\ UNCHANGED <<allowlist, table, session, accept, handler, sent, connects>>
  BY DEF Replaced
<1>2. TableTyped' /\ Owned' /\ CallSound'
  BY <1>1, OpFields DEF Inv, Typed, TableTyped, Owned, CallSound
<1> QED
  BY <1>1, <1>2, CallKeeps

LEMMA CloseTransportKeeps ==
  ASSUME Inv, CloseTransport
  PROVE  Inv' /\ Kept
<1>1. /\ op.stop = {} /\ table' = [p \in Peers |-> NoSession]
      /\ UNCHANGED <<allowlist, session, accept, handler, sent, connects>>
      /\ table \in [Peers -> SessionIds \cup {NoSession}]
      /\ \A u \in SessionIds : session[u].alive => session[u].peer \in Peers
  BY OpFields DEF CloseTransport, Inv, Typed, TableTyped, SessionsTyped, Sound
<1>2. SessionsOf(Peers) \in SUBSET SessionIds
  BY <1>1 DEF SessionsOf
<1>3. /\ op' \in OpRecord
      /\ op'.step = "closing" /\ op'.removed = {} /\ op'.stop = SessionsOf(Peers) /\ op'.add = {}
  BY <1>2 DEF CloseTransport, NoOp, OpRecord, OpSteps
<1>4. TableTyped'
  BY <1>1, <1>3 DEF Inv, Typed, TableTyped
<1>5. Owned'
  <2>1. ASSUME NEW u \in SessionIds, session[u].alive
        PROVE  u \in SessionsOf(Peers)
    <3>1. session[u].peer \in Peers /\ table[session[u].peer] = u /\ u # NoSession
      BY <1>1, <2>1, TransportAssumption DEF Inv, Owned
    <3> QED
      BY <3>1 DEF SessionsOf
  <2>2. \A u \in SessionsOf(Peers) : session[u].alive
    BY DEF SessionsOf, Inv, Owned
  <2> QED
    BY <1>1, <1>3, <2>1, <2>2 DEF Owned
<1>6. CallSound'
  BY <1>1, <1>3 DEF Inv, CallSound
<1> QED
  BY <1>1, <1>4, <1>5, <1>6, CallKeeps

LEMMA ClosedKeeps ==
  ASSUME Inv, Closed
  PROVE  Inv' /\ Kept
<1>1. /\ op \in OpRecord /\ op.step = "closing" /\ op.stop = {} 
      /\ op' = [op EXCEPT !.step = "closed"]
      /\ UNCHANGED <<allowlist, table, session, accept, handler, sent, connects>>
  BY DEF Closed, Inv, Typed, TableTyped
<1>2. /\ op' \in OpRecord
      /\ op'.step = "closed" /\ op'.removed = op.removed /\ op'.stop = op.stop /\ op'.add = op.add
  BY <1>1 DEF OpRecord, OpSteps
<1>3. TableTyped' /\ Owned' /\ CallSound'
  BY <1>1, <1>2 DEF Inv, Typed, TableTyped, Owned, CallSound
<1> QED
  BY <1>1, <1>3, CallKeeps

-----------------------------------------------------------------------------
(* The start, and the specification.                                       *)

LEMMA FirstSessionsInjective ==
  ASSUME NEW peers \in SUBSET Peers
  PROVE  /\ FirstSessions(peers) \in [peers -> SessionIds]
         /\ \A p, q \in peers : FirstSessions(peers)[p] = FirstSessions(peers)[q] => p = q
<1>1. PICK f \in [Peers -> SessionIds] : IsInjective(f)
  BY SessionsAssumption
<1> DEFINE g == [p \in peers |-> f[p]]
<1>2. g \in [peers -> SessionIds] /\ IsInjective(g)
  BY <1>1 DEF IsInjective
<1> HIDE DEF g
<1>3. FirstSessions(peers) \in [peers -> SessionIds] /\ IsInjective(FirstSessions(peers))
  BY <1>2 DEF FirstSessions
<1> QED
  BY <1>3 DEF IsInjective

LEMMA StartedInv ==
  ASSUME NEW peers \in SUBSET Peers, Started(peers)
  PROVE  Inv
<1> DEFINE f == FirstSessions(peers)
<1>1. /\ f \in [peers -> SessionIds]
      /\ \A p, q \in peers : f[p] = f[q] => p = q
  BY FirstSessionsInjective
<1>2. /\ table = [p \in Peers |-> IF p \in peers THEN f[p] ELSE NoSession]
      /\ session = [s \in SessionIds |->
                      IF \E p \in peers : f[p] = s
                      THEN Spawned(CHOOSE p \in peers : f[p] = s, TRUE, FALSE)
                      ELSE Absent]
  BY DEF Started, StartedTable, StartedSessions
<1> HIDE DEF f
<1>3. /\ allowlist = peers /\ op = NoOp /\ connects = 0
      /\ accept = [i \in Accepts |-> Idle]
      /\ handler = [h \in Handlers |-> NoStream]
      /\ sent = [m \in Outbound |-> Unsent]
  BY DEF Started
<1>4. TRUE \in BOOLEAN /\ FALSE \in BOOLEAN
  OBVIOUS
<1>5. ~Absent.alive /\ ~Absent.permit /\ Absent.dial = "never"
  BY DEF Absent
<1>6. \A p \in peers : session[f[p]] = Spawned(p, TRUE, FALSE)
  BY <1>1, <1>2
<1>7. \A s \in SessionIds : (\E p \in peers : f[p] = s) \/ session[s] = Absent
  BY <1>2
<1>8. \A p \in peers : /\ Sound(session[f[p]]) /\ session[f[p]].alive
                       /\ session[f[p]].peer = p /\ ~session[f[p]].permit
                       /\ session[f[p]].dial # "dialing"
  <2> SUFFICES ASSUME NEW p \in peers
               PROVE  /\ Sound(session[f[p]]) /\ session[f[p]].alive
                      /\ session[f[p]].peer = p /\ ~session[f[p]].permit
                      /\ session[f[p]].dial # "dialing"
    OBVIOUS
  <2> DEFINE r == Spawned(p, TRUE, FALSE)
  <2>1. Sound(r) /\ r.alive /\ r.peer = p /\ ~r.permit /\ r.dial # "dialing"
    BY <1>4, SpawnedSound
  <2>2. session[f[p]] = r
    BY <1>6
  <2> HIDE DEF r
  <2> QED
    BY <2>1, <2>2
<1>9. \A s \in SessionIds : /\ Sound(session[s])
                            /\ session[s].dial # "dialing" /\ ~session[s].permit
  BY <1>5, <1>7, <1>8, AbsentSound
<1>10. SessionsTyped
  <2>1. \A s \in SessionIds : session[s] \in SessionRecord
    BY <1>9 DEF Sound
  <2>2. session \in [SessionIds -> SessionRecord]
    BY <1>2, <2>1
  <2> QED
    BY <1>3, <1>9, <2>2, TransportAssumption DEF SessionsTyped
<1>11. AcceptsTyped
  BY <1>3 DEF AcceptsTyped, Idle
<1>12. HandlersTyped
  BY <1>3 DEF HandlersTyped, NoStream
<1>13. TableTyped
  BY <1>1, <1>2, <1>3, OpFields DEF TableTyped
<1>14. SentTyped
  BY <1>3 DEF SentTyped, Unsent
<1>15. Owned
  <2>1. ASSUME NEW s \in SessionIds, session[s].alive
        PROVE  table[session[s].peer] = s
    <3>1. PICK p \in peers : f[p] = s
      BY <1>5, <1>7, <2>1
    <3>2. session[s].peer = p /\ p \in Peers
      BY <1>8, <3>1
    <3>3. table[p] = f[p]
      BY <1>2, <3>2
    <3> QED
      BY <3>1, <3>2, <3>3
  <2>2. ASSUME NEW p \in Peers, table[p] # NoSession
        PROVE  session[table[p]].alive /\ session[table[p]].peer = p
    BY <1>2, <1>8, <2>2
  <2> QED
    BY <1>3, <2>1, <2>2, OpFields DEF Owned
<1>16. CallSound
  <2>1. \A p \in peers : table[p] # NoSession
    BY <1>1, <1>2, TransportAssumption
  <2> QED
    BY <1>3, <2>1, OpFields DEF CallSound
<1>17. Budgets
  <2>1. Dialing = {} /\ PermitsHeld = {}
    BY <1>9 DEF Dialing, PermitsHeld
  <2>2. Admitted = {}
    BY <1>3 DEF Admitted, Idle
  <2> QED
    BY <2>1, <2>2, FS_EmptySet, TransportAssumption DEF Budgets
<1>18. Owing
  BY <1>3 DEF Owing, Unsent
<1> QED
  BY <1>10, <1>11, <1>12, <1>13, <1>14, <1>15, <1>16, <1>17, <1>18 DEF Inv, Typed

LEMMA InitInv == Init => Inv
  BY StartedInv DEF Init

\* The transport's own steps, whoever calls it.
LEMMA TransportStepKeeps ==
  ASSUME Inv, TransportStep
  PROVE  Inv' /\ Kept
<1>1. CASE Actors
  <2>1. PICK s \in SessionIds :
          \/ BeginDial(s) \/ StartDial(s) \/ DialSucceeds(s) \/ DialFails(s)
          \/ ConnectionLost(s) \/ PathChanged(s) \/ StopSession(s)
    BY <1>1 DEF Actors
  <2> QED
    BY <2>1, BeginDialKeeps, StartDialKeeps, DialSucceedsKeeps, DialFailsKeeps,
       ConnectionLostKeeps, PathChangedKeeps, StopSessionKeeps
<1>2. CASE Acceptors
  BY <1>2, IncomingKeeps, DropConnectionKeeps, AuthoriseKeeps, AttachInboundKeeps DEF Acceptors
<1>3. CASE Streams
  BY <1>3, OpenStreamKeeps, ReadMessageKeeps, EnqueueKeeps, WriteReceiptKeeps, ResetStreamKeeps
     DEF Streams
<1>4. CASE \E m \in Outbound : Settle(m)
  BY <1>4, SettleKeeps
<1>5. CASE Calls
  BY <1>5, TakeRemovedKeeps, EnsureOutboundKeeps, ReplacedKeeps, ClosedKeeps DEF Calls
<1> QED
  BY <1>1, <1>2, <1>3, <1>4, <1>5 DEF TransportStep

LEMMA ClientKeeps ==
  ASSUME Inv, Client
  PROVE  Inv' /\ Kept
<1>1. CASE Receive
  BY <1>1, OutsideKeeps DEF Receive
<1>2. CASE /\ events # <<>>
           /\ events' = <<>>
           /\ UNCHANGED <<allowlist, table, session, accept, handler, incoming, taken, sent, connects, op>>
  BY <1>2, OutsideKeeps
<1>3. CASE \E p \in Peers : ReplaceContacts(allowlist \cup {p}) \/ ReplaceContacts(allowlist \ {p})
  <2>1. PICK p \in Peers : ReplaceContacts(allowlist \cup {p}) \/ ReplaceContacts(allowlist \ {p})
    BY <1>3
  <2>2. allowlist \cup {p} \in SUBSET Peers /\ allowlist \ {p} \in SUBSET Peers
    BY DEF Inv, Typed, TableTyped
  <2> QED
    BY <2>1, <2>2, ReplaceContactsKeeps
<1>4. CASE \E p \in Peers, m \in Outbound : Send(p, m)
  BY <1>4, SendKeeps
<1>5. CASE CloseTransport
  BY <1>5, CloseTransportKeeps
<1> QED
  BY <1>1, <1>2, <1>3, <1>4, <1>5 DEF Client

LEMMA NextKeeps ==
  ASSUME Inv, [Next]_transportVars
  PROVE  Inv' /\ Kept
<1>1. CASE TransportStep
  BY <1>1, TransportStepKeeps
<1>2. CASE Client
  BY <1>2, ClientKeeps
<1>3. CASE UNCHANGED transportVars
  BY <1>3, OutsideKeeps DEF transportVars
<1> QED
  BY <1>1, <1>2, <1>3 DEF Next

\* The invariant of every state the transport reaches, from which the
\* properties follow.
THEOREM TransportInvariant == Spec => []Inv
<1>1. Inv /\ [Next]_transportVars => Inv'
  BY NextKeeps
<1> QED
  BY <1>1, InitInv, PTL DEF Spec

LEMMA InvTyped == Inv => TransportTypeOK
  BY OpFields DEF Inv, Typed, SessionsTyped, AcceptsTyped, HandlersTyped, TableTyped,
     TransportTypeOK, Sound, SessionRecord, Dials, OpSteps

\* The shapes of the transport's state; a session shows a path and a start
\* of its connection exactly while it is connected (PeerSession's published
\* state, transport.rs).
THEOREM TransportTyped == Spec => []TransportTypeOK
  BY InvTyped, TransportInvariant, PTL

\* However inbound connections, dials, a replacement of the contacts and the
\* shutdown meet in the session table, no live session drops out of it but
\* into the hands of the call that stops it.
THEOREM Ownership == Spec => []SessionsOwned
<1>1. Inv => SessionsOwned
  BY DEF Inv, Owned, SessionsOwned, Alive
<1> QED
  BY <1>1, TransportInvariant, PTL

\* When no call is under way every contact has a session: what
\* replace_contacts found to add was added, whatever was accepted meanwhile.
THEOREM ContactsServed == Spec => []ContactsHaveSessions
<1>1. Inv => ContactsHaveSessions
  BY OpFields DEF Inv, CallSound, ContactsHaveSessions
<1> QED
  BY <1>1, TransportInvariant, PTL

\* The semaphores of dials and inbound sessions and the admissions of the
\* accept loop are never exceeded, for any sizes, and a session that is gone
\* keeps no permit.
THEOREM BudgetsHold == Spec => []BudgetsKept
<1>1. Inv => BudgetsKept
  BY DEF Inv, Typed, SessionsTyped, Sound, Budgets, BudgetsKept, PermitsHeld, Alive
<1> QED
  BY <1>1, TransportInvariant, PTL

\* Stopping a session resolves every message it owes an outcome: a message
\* that is pending has a session that can still settle it.
THEOREM NothingForgotten == Spec => []PendingHasSession
<1>1. Inv => PendingHasSession
  BY DEF Inv, Owing, PendingHasSession, Alive
<1> QED
  BY <1>1, TransportInvariant, PTL

\* No step changes the start of a connection that lasts: a preferred
\* connection that takes over and a change of path keep the clock.
THEOREM StartUnbroken == Spec => StartKept
<1>1. Inv /\ [Next]_transportVars =>
        [\A s \in SessionIds :
           session[s].state = "Connected" /\ session'[s].state = "Connected"
             => session'[s].since = session[s].since]_session
  BY NextKeeps DEF Kept
<1> QED
  BY <1>1, TransportInvariant, PTL DEF Spec, StartKept
=============================================================================
