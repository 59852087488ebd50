------------------------------ MODULE UiProofs ------------------------------
(***************************************************************************)
(* The interface of ChatProgram stays well formed under every key and      *)
(* every command, for every list of contacts, every set of texts and every *)
(* length of its queues.                                                   *)
(***************************************************************************)
EXTENDS ChatProgram, TransportProofs, FunctionTheorems

-----------------------------------------------------------------------------
(* The shapes of what the interface keeps.                                 *)

AnyId == Inbound \cup Outbound \cup {0}

ViewRecord    == [unread : Nat, state : ConnStates, path : AnyPath, since : 0..MaxConnects]
MessageRecord == [id : AnyId, from : {"Local", "Contact"}, delivery : Outcomes \cup {"Pending", "None"}]
EventRecord   == [peer : Peers \cup {NoPeer}, state : ConnStates, path : AnyPath, since : 0..MaxConnects]
EffectRecord  == [do : {"CopyText"}, peer : {NoPeer}, body : {0}]
                   \cup [do : {"SendText", "PersistContact", "RemoveContact"}, peer : Peers, body : Texts]

MenuRecord    == [do : {"CopyOwnId", "AddContact"}, peer : {NoPeer}]
                   \cup [do : {"RemoveContact", "ClearChat"}, peer : Peers]

\* A connection that is shown has a start, and only one.
FitsState(r) == /\ r.state = "Connected" <=> r.since # NoTime
                /\ r.state # "Connected" => r.path = "Unknown"

CommandRecord ==
  [kind : {"ContactAdded", "ContactAlreadyExists", "ContactRemoved", "SendRejected"}, peer : Peers]
    \cup [kind : {"OutgoingQueued"}, peer : Peers, id : Outbound, body : Texts]
    \cup [kind : {"OutgoingSettled"}, peer : Peers \cup {NoPeer}, id : Outbound, outcome : Outcomes]
    \cup [kind : {"IncomingMessage"}, peer : Peers \cup {NoPeer}, id : AnyId]
    \cup [kind : {"PeerConnectionStateChanged"}, peer : Peers, event : {e \in EventRecord : FitsState(e)}]

NavTyped ==
  /\ running \in BOOLEAN
  /\ focus \in {"List", "Chat", "Details"}
  /\ mode \in {"Normal", "Insert"} /\ (mode = "Insert" => focus = "Chat")
  /\ tab \in {"Contacts", "Relays"}

ListTyped ==
  /\ contacts \in Seq(Peers) /\ IsInjective(contacts)
  /\ index \in 0..Len(contacts)

OverlayTyped ==
  \/ overlay \in {NoOverlay, FirstRun}
  \/ \E entry \in Peers \cup {OwnId, Garbled} : overlay = AddDialog(entry)
  \/ /\ overlay.kind = "Context"
     /\ overlay = Menu(overlay.actions, overlay.selected)
     /\ overlay.actions \in Seq(MenuRecord)
     /\ overlay.selected \in 0..Len(overlay.actions) - 1
  \/ \E m \in MenuRecord, yes \in BOOLEAN :
       overlay = Confirm(m, yes) /\ m.do \in {"RemoveContact", "ClearChat"}

\* What is kept by peer, and that nothing is kept about one that is not listed.
DataTyped ==
  /\ view \in [Peers -> ViewRecord]
  /\ chats \in [Peers -> Seq(MessageRecord)]
  /\ drafts \in [Peers -> Texts]
  /\ scroll \in [Peers -> Nat]
  /\ pending \in SUBSET Peers
  /\ \A p \in Peers : FitsState(view[p])
  /\ \A p \in Peers : scroll[p] = 0 \/ scroll[p] < Len(chats[p])
  /\ \A p \in Peers \ Range(contacts) :
       view[p] = NoView /\ chats[p] = <<>> /\ drafts[p] = 0 /\ p \notin pending

QueuesTyped ==
  /\ effects \in Seq(EffectRecord) /\ Len(effects) <= EffectCapacity
  /\ commands \in Seq(CommandRecord)

\* An interface that has ended keeps nothing.
EndedEmpty ==
  ~running => contacts = <<>> /\ commands = <<>>

UiTyped == NavTyped /\ ListTyped /\ OverlayTyped /\ DataTyped /\ QueuesTyped /\ EndedEmpty

-----------------------------------------------------------------------------
(* Sorted lists.                                                           *)

\* The ascending order of a finite set lists it, and nothing twice.
LEMMA AscendingLists ==
  ASSUME NEW S \in SUBSET Int, IsFiniteSet(S), NEW s \in Ascending(S)
  PROVE  s \in Seq(S) /\ Len(s) = Cardinality(S) /\ IsInjective(s) /\ Range(s) = S
<1>1. /\ Cardinality(S) \in Nat
      /\ s \in [1..Cardinality(S) -> S]
      /\ \A i, j \in DOMAIN s : i < j => s[i] < s[j]
  BY FS_CardinalityType DEF Ascending
<1>2. s \in Seq(S) /\ Len(s) = Cardinality(S)
  BY <1>1
<1>3. IsInjective(s)
  <2>1. SUFFICES ASSUME NEW i \in DOMAIN s, NEW j \in DOMAIN s, s[i] = s[j], i # j
                 PROVE  FALSE
    BY Zenon DEF IsInjective
  <2>2. i \in 1..Cardinality(S) /\ j \in 1..Cardinality(S) /\ s[i] \in S /\ s[j] \in S
    BY <1>1
  <2>3. i < j \/ j < i
    BY <1>1, <2>1, <2>2
  <2>4. s[i] < s[j] \/ s[j] < s[i]
    BY <1>1, <2>3
  <2>5. s[i] \in Int /\ s[j] \in Int
    BY <2>2
  <2> QED
    BY <2>1, <2>4, <2>5
<1>4. s \in Injection(1..Cardinality(S), S)
  BY <1>1, <1>3, Zenon DEF Injection
<1>5. Cardinality(1..Cardinality(S)) = Cardinality(S)
  BY <1>1, FS_Interval
<1>6. s \in Surjection(1..Cardinality(S), S)
  BY <1>4, <1>5, FS_Injection
<1>7. Range(s) = S
  BY <1>6, Fun_SurjectionProperties
<1> QED
  BY <1>2, <1>3, <1>7

\* Sorting moves what is listed and changes nothing of it.
LEMMA SortedLists ==
  ASSUME NEW s \in Seq(Peers), NEW list \in Sorted(s)
  PROVE  /\ list \in Seq(Peers) /\ Len(list) = Len(s)
         /\ Range(list) = Range(s)
         /\ IsInjective(s) => IsInjective(list)
<1>1. PICK p \in Bijection(DOMAIN s, DOMAIN s) : list = [i \in DOMAIN s |-> s[p[i]]]
  BY Zenon DEF Sorted
<1>2. /\ p \in [DOMAIN s -> DOMAIN s]
      /\ \A a, b \in DOMAIN s : p[a] = p[b] => a = b
      /\ \A t \in DOMAIN s : \E a \in DOMAIN s : p[a] = t
  BY DEF Bijection, Injection, Surjection, IsInjective
<1>3. DOMAIN s = 1..Len(s) /\ Len(s) \in Nat /\ \A i \in DOMAIN s : s[i] \in Peers
  OBVIOUS
<1>4. list \in [1..Len(s) -> Peers] /\ DOMAIN list = DOMAIN s
  BY <1>1, <1>2, <1>3
<1>5. list \in Seq(Peers) /\ Len(list) = Len(s)
  BY <1>3, <1>4
<1>6. Range(list) = Range(s)
  <2>1. \A i \in DOMAIN s : list[i] = s[p[i]]
    BY <1>1
  <2>2. \A x \in Range(list) : x \in Range(s)
    BY <1>2, <1>4, <2>1 DEF Range
  <2>3. \A x \in Range(s) : x \in Range(list)
    BY <1>2, <1>4, <2>1 DEF Range
  <2> QED
    BY <2>2, <2>3
<1>7. IsInjective(s) => IsInjective(list)
  BY <1>1, <1>2, <1>4 DEF IsInjective
<1> QED
  BY <1>5, <1>6, <1>7

\* What retain leaves.
LEMMA RetainedLists ==
  ASSUME ListTyped, NEW p, NEW list \in Retained(p)
  PROVE  list \in Seq(Peers) /\ IsInjective(list) /\ Range(list) = Range(contacts) \ {p}
<1> DEFINE places == {i \in DOMAIN contacts : contacts[i] # p}
<1>1. /\ DOMAIN contacts = 1..Len(contacts) /\ Len(contacts) \in Nat
      /\ \A i \in DOMAIN contacts : contacts[i] \in Peers
      /\ \A i, j \in DOMAIN contacts : contacts[i] = contacts[j] => i = j
  BY DEF ListTyped, IsInjective
<1>2. PICK kept \in Ascending(places) : list = [i \in DOMAIN kept |-> contacts[kept[i]]]
  BY Zenon DEF Retained
<1>3. places \in SUBSET Int /\ IsFiniteSet(places)
  <2>1. IsFiniteSet(1..Len(contacts))
    BY <1>1, FS_Interval
  <2>2. places \in SUBSET (1..Len(contacts))
    BY <1>1
  <2> QED
    BY <2>1, <2>2, FS_Subset
<1>4. kept \in Seq(places) /\ IsInjective(kept) /\ Range(kept) = places
  BY <1>2, <1>3, AscendingLists
<1>5. /\ DOMAIN kept = 1..Len(kept) /\ Len(kept) \in Nat
      /\ \A i \in DOMAIN kept : kept[i] \in places
      /\ \A i, j \in DOMAIN kept : kept[i] = kept[j] => i = j
      /\ \A x \in places : \E i \in DOMAIN kept : kept[i] = x
  BY <1>4 DEF IsInjective, Range
<1>6. DOMAIN list = DOMAIN kept /\ \A i \in DOMAIN kept : list[i] = contacts[kept[i]]
  BY <1>2
<1>7. list \in Seq(Peers)
  BY <1>1, <1>2, <1>5
<1>8. IsInjective(list)
  BY <1>1, <1>5, <1>6 DEF IsInjective
<1>9. \A x \in Range(list) : x \in Range(contacts) \ {p}
  BY <1>1, <1>5, <1>6 DEF Range
<1>10. \A x \in Range(contacts) \ {p} : x \in Range(list)
  BY <1>1, <1>5, <1>6 DEF Range
<1> QED
  BY <1>7, <1>8, <1>9, <1>10

-----------------------------------------------------------------------------
(* What the user does.                                                     *)

\* What a key leaves alone while the interface stays on: who is listed, what
\* was told, and the messages but for chats that are cleared.
Undisturbed ==
  /\ running' = running /\ contacts' = contacts /\ commands' = commands
  /\ \A p \in Peers : chats'[p] = chats[p] \/ chats'[p] = <<>>
  /\ \A p \in Peers : /\ view'[p].state = view[p].state
                      /\ view'[p].path = view[p].path
                      /\ view'[p].since = view[p].since

LEMMA RestTyped ==
  ASSUME UiTyped
  PROVE  /\ UNCHANGED <<running, focus, mode, tab>> => NavTyped'
         /\ UNCHANGED <<contacts, index>> => ListTyped'
         /\ UNCHANGED overlay => OverlayTyped'
         /\ UNCHANGED <<dataVars, textVars>> => DataTyped'
         /\ UNCHANGED <<effects, commands>> => QueuesTyped'
         /\ UNCHANGED <<running, contacts, commands>> => EndedEmpty'
         /\ UNCHANGED <<running, contacts, commands, chats, view>> => Undisturbed
<1>1. UNCHANGED <<running, focus, mode, tab>> => NavTyped'
  BY DEF UiTyped, NavTyped
<1>2. UNCHANGED <<contacts, index>> => ListTyped'
  BY Zenon DEF UiTyped, ListTyped
<1>3. UNCHANGED overlay => OverlayTyped'
  BY Zenon DEF UiTyped, OverlayTyped
<1>4. UNCHANGED <<dataVars, textVars>> => DataTyped'
  BY Zenon DEF UiTyped, DataTyped, dataVars, textVars
<1>5. UNCHANGED <<effects, commands>> => QueuesTyped'
  BY Zenon DEF UiTyped, QueuesTyped
<1>6. UNCHANGED <<running, contacts, commands>> => EndedEmpty'
  BY DEF UiTyped, EndedEmpty
<1>7. UNCHANGED <<running, contacts, commands, chats, view>> => Undisturbed
  BY Zenon DEF Undisturbed
<1> QED
  BY <1>1, <1>2, <1>3, <1>4, <1>5, <1>6, <1>7

\* A request waits in a channel with room for it, or is dropped.
LEMMA RequestTyped ==
  ASSUME UiTyped, NEW e \in EffectRecord, Request(e), UNCHANGED commands
  PROVE  QueuesTyped'
<1>1. effects \in Seq(EffectRecord) /\ Len(effects) <= EffectCapacity /\ EffectCapacity \in Nat
  BY TuiAssumption DEF UiTyped, QueuesTyped
<1>2. CASE Len(effects) < EffectCapacity
  <2>1. effects' = Append(effects, e)
    BY <1>2 DEF Request
  <2>2. effects' \in Seq(EffectRecord) /\ Len(effects') = Len(effects) + 1
    BY <1>1, <2>1
  <2>3. Len(effects') <= EffectCapacity
    BY <1>1, <1>2, <2>2
  <2> QED
    BY <2>2, <2>3 DEF UiTyped, QueuesTyped
<1>3. CASE ~(Len(effects) < EffectCapacity)
  BY <1>1, <1>3 DEF UiTyped, QueuesTyped, Request
<1> QED
  BY <1>2, <1>3

\* The effects a key asks for.
LEMMA EffectTyped ==
  /\ Effect("CopyText", NoPeer, 0) \in EffectRecord
  /\ \A p \in Peers, t \in Texts :
       /\ Effect("SendText", p, t) \in EffectRecord
       /\ Effect("PersistContact", p, t) \in EffectRecord
       /\ Effect("RemoveContact", p, t) \in EffectRecord
  BY DEF Effect, EffectRecord

\* The contact that is active is listed.
LEMMA ActiveListed ==
  ASSUME UiTyped, Active # NoPeer
  PROVE  Active \in Peers /\ Active \in Range(contacts)
<1>1. /\ contacts \in Seq(Peers) /\ Len(contacts) \in Nat /\ index \in Nat
      /\ DOMAIN contacts = 1..Len(contacts)
      /\ \A i \in DOMAIN contacts : contacts[i] \in Peers
  BY DEF UiTyped, ListTyped
<1>2. contacts # <<>> /\ Active = contacts[Clamp(index, Len(contacts)) + 1]
  BY DEF Active
<1>3. Len(contacts) # 0
  BY <1>1, <1>2
<1>4. Clamp(index, Len(contacts)) + 1 \in 1..Len(contacts)
  BY <1>1, <1>3 DEF Clamp
<1> QED
  BY <1>1, <1>2, <1>4 DEF Range

LEMMA FocusKeeps ==
  ASSUME UiTyped, NEW a, Focus(a), UNCHANGED commands
  PROVE  UiTyped' /\ Undisturbed
<1>1. PICK panel \in {"List", "Chat", "Details"} : SetFocus(panel)
  BY DEF Focus, NextPanel, PreviousPanel, UiTyped, NavTyped
<1>2. UNCHANGED <<running, tab, index, overlay, dataVars, textVars, effects, commands>>
  BY <1>1 DEF SetFocus
<1>3. UNCHANGED <<contacts, chats, view>>
  BY <1>2 DEF dataVars
<1>4. NavTyped'
  BY <1>1 DEF SetFocus, UiTyped, NavTyped
<1> QED
  BY <1>2, <1>3, <1>4, RestTyped DEF UiTyped

LEMMA SelectTabKeeps ==
  ASSUME UiTyped, NEW a, SelectTab(a), UNCHANGED commands
  PROVE  UiTyped' /\ Undisturbed
<1>1. UNCHANGED <<running, focus, mode, index, overlay, dataVars, textVars, effects, commands>>
  BY DEF SelectTab
<1>2. UNCHANGED <<contacts, chats, view>>
  BY <1>1 DEF dataVars
<1>3. NavTyped'
  BY DEF SelectTab, UiTyped, NavTyped
<1> QED
  BY <1>1, <1>2, <1>3, RestTyped DEF UiTyped

\* Where a move of the selection or of the offset ends.
LEMMA MoveIndexBound ==
  ASSUME NEW i \in Nat, NEW d \in Int, NEW n \in Nat
  PROVE  /\ MoveIndex(i, d, n) \in Nat
         /\ MoveIndex(i, d, n) = 0 \/ MoveIndex(i, d, n) < n
         /\ Clamp(i, n) \in Nat /\ (Clamp(i, n) = 0 \/ Clamp(i, n) < n) /\ Clamp(i, n) <= n
  BY DEF MoveIndex, Clamp

\* The messages of a contact are read.
Read(r) == [r EXCEPT !.unread = 0]

LEMMA ReadFields ==
  ASSUME NEW r \in ViewRecord
  PROVE  /\ Read(r) \in ViewRecord
         /\ Read(r).state = r.state /\ Read(r).path = r.path /\ Read(r).since = r.since
         /\ r = NoView => Read(r) = r
  BY DEF Read, ViewRecord, NoView

LEMMA NavigateByKeeps ==
  ASSUME UiTyped, NEW d \in Int, NavigateBy(d), UNCHANGED commands
  PROVE  UiTyped' /\ Undisturbed
<1>1. UNCHANGED <<running, focus, mode, tab, overlay, contacts, chats, textVars, effects, commands>>
  BY DEF NavigateBy
<1>2. NavTyped' /\ OverlayTyped' /\ QueuesTyped' /\ EndedEmpty'
  BY <1>1, RestTyped
<1>3. /\ contacts \in Seq(Peers) /\ Len(contacts) \in Nat /\ index \in Nat
      /\ DOMAIN contacts = 1..Len(contacts)
      /\ \A i \in DOMAIN contacts : contacts[i] \in Peers
  BY DEF UiTyped, ListTyped
<1>4. CASE /\ contacts # <<>>
           /\ LET n == Len(contacts)
                  i == MoveIndex(Clamp(index, n), d, n)
              IN /\ index' = i
                 /\ view' = [view EXCEPT ![contacts[i + 1]].unread = 0]
           /\ UNCHANGED scroll
  <2> DEFINE i == MoveIndex(Clamp(index, Len(contacts)), d, Len(contacts))
  <2> DEFINE q == contacts[i + 1]
  <2>1. Len(contacts) # 0
    BY <1>3, <1>4
  <2>2. i \in Nat /\ i < Len(contacts)
    <3> DEFINE j == Clamp(index, Len(contacts))
    <3>1. j \in Nat
      BY <1>3, MoveIndexBound
    <3> HIDE DEF j
    <3>2. MoveIndex(j, d, Len(contacts)) \in Nat
      BY <1>3, <3>1, MoveIndexBound
    <3>3. MoveIndex(j, d, Len(contacts)) = 0 \/ MoveIndex(j, d, Len(contacts)) < Len(contacts)
      BY <1>3, <3>1, MoveIndexBound
    <3> QED
      BY <1>3, <2>1, <3>2, <3>3 DEF j
  <2>3. index' = i /\ view' = [view EXCEPT ![q] = Read(view[q])]
    BY <1>4, Zenon DEF Read
  <2> HIDE DEF i
  <2>4. q \in Peers /\ q \in Range(contacts)
    BY <1>3, <2>2 DEF Range
  <2> HIDE DEF q
  <2>5. ListTyped'
    BY <1>1, <2>2, <2>3 DEF UiTyped, ListTyped
  <2>6. view \in [Peers -> ViewRecord]
    BY DEF UiTyped, DataTyped
  <2>7. /\ view' \in [Peers -> ViewRecord]
        /\ view'[q] = Read(view[q])
        /\ \A p \in Peers : p # q => view'[p] = view[p]
    BY <2>3, <2>4, <2>6, ReadFields
  <2>8. \A p \in Peers : /\ view'[p].state = view[p].state
                         /\ view'[p].path = view[p].path
                         /\ view'[p].since = view[p].since
    BY <2>6, <2>7, ReadFields
  <2>9. DataTyped'
    <3>1. \A p \in Peers : FitsState(view'[p])
      BY <2>8 DEF UiTyped, DataTyped, FitsState
    <3>2. \A p \in Peers \ Range(contacts) : view'[p] = view[p]
      BY <2>4, <2>7
    <3> QED
      BY <1>1, <1>4, <2>7, <3>1, <3>2 DEF UiTyped, DataTyped, textVars
  <2> QED
    BY <1>1, <1>2, <2>5, <2>8, <2>9 DEF UiTyped, Undisturbed
<1>5. CASE /\ Active # NoPeer
           /\ scroll' = [scroll EXCEPT ![Active] = MoveIndex(@, -d, Len(chats[Active]))]
           /\ UNCHANGED <<index, view>>
  <2>1. Active \in Peers
    BY <1>5, ActiveListed
  <2>2. /\ scroll \in [Peers -> Nat] /\ chats \in [Peers -> Seq(MessageRecord)]
        /\ Len(chats[Active]) \in Nat /\ -d \in Int
    BY <2>1 DEF UiTyped, DataTyped
  <2> DEFINE i == MoveIndex(scroll[Active], -d, Len(chats[Active]))
  <2>3. i \in Nat /\ (i = 0 \/ i < Len(chats[Active]))
    BY <2>1, <2>2, MoveIndexBound
  <2>4. scroll' = [scroll EXCEPT ![Active] = i]
    BY <1>5
  <2> HIDE DEF i
  <2>5. scroll' \in [Peers -> Nat] /\ \A p \in Peers : scroll'[p] = 0 \/ scroll'[p] < Len(chats[p])
    BY <2>1, <2>2, <2>3, <2>4 DEF UiTyped, DataTyped
  <2>6. DataTyped'
    BY <1>1, <1>5, <2>5 DEF UiTyped, DataTyped, textVars
  <2>7. ListTyped' /\ Undisturbed
    BY <1>1, <1>5, RestTyped
  <2> QED
    BY <1>2, <2>6, <2>7 DEF UiTyped
<1> QED
  BY <1>4, <1>5 DEF NavigateBy

LEMMA NavigateKeeps ==
  ASSUME UiTyped, NEW a, a.delta \in {-1, 0, 1}, Navigate(a), UNCHANGED commands
  PROVE  UiTyped' /\ Undisturbed
<1>1. a.delta \in Int /\ 5 * a.delta \in Int
  OBVIOUS
<1>2. NavigateBy(a.delta) \/ NavigateBy(5 * a.delta)
  BY DEF Navigate
<1> QED
  BY <1>1, <1>2, NavigateByKeeps

LEMMA OpenContextMenuKeeps ==
  ASSUME UiTyped, NEW a, OpenContextMenu(a), UNCHANGED commands
  PROVE  UiTyped' /\ Undisturbed
<1>1. UNCHANGED <<running, navVars, dataVars, textVars, effects, commands>>
  BY DEF OpenContextMenu
<1>2. UNCHANGED <<focus, mode, tab, index, contacts, chats, view>>
  BY <1>1 DEF dataVars, navVars
<1>3. overlay' = Menu(ContextActions, 0) /\ (focus = "Chat" => Active # NoPeer)
  BY DEF OpenContextMenu
<1>4. /\ MenuAction("CopyOwnId", NoPeer) \in MenuRecord
      /\ MenuAction("AddContact", NoPeer) \in MenuRecord
      /\ Active # NoPeer => /\ MenuAction("ClearChat", Active) \in MenuRecord
                            /\ MenuAction("RemoveContact", Active) \in MenuRecord
  BY ActiveListed DEF MenuAction, MenuRecord
<1>5. ContextActions \in Seq(MenuRecord) /\ Len(ContextActions) > 0
  <2>1. CASE focus = "Chat"
    <3>1. ContextActions = <<MenuAction("ClearChat", Active)>>
      BY <2>1 DEF ContextActions
    <3>2. MenuAction("ClearChat", Active) \in MenuRecord
      BY <1>3, <1>4, <2>1
    <3> QED
      BY <3>1, <3>2
  <2>2. CASE focus # "Chat" /\ Active = NoPeer
    <3>1. ContextActions = <<MenuAction("CopyOwnId", NoPeer), MenuAction("AddContact", NoPeer)>> \o <<>>
      BY <2>2 DEF ContextActions
    <3> QED
      BY <1>4, <3>1
  <2>3. CASE focus # "Chat" /\ Active # NoPeer
    <3>1. ContextActions = <<MenuAction("CopyOwnId", NoPeer), MenuAction("AddContact", NoPeer)>>
                             \o <<MenuAction("RemoveContact", Active)>>
      BY <2>3 DEF ContextActions
    <3> QED
      BY <1>4, <2>3, <3>1
  <2> QED
    BY <2>1, <2>2, <2>3
<1>6. OverlayTyped'
  <2>1. /\ overlay'.kind = "Context" /\ overlay'.actions = ContextActions /\ overlay'.selected = 0
        /\ overlay' = Menu(overlay'.actions, overlay'.selected)
    BY <1>3 DEF Menu
  <2>2. overlay'.selected \in 0..Len(overlay'.actions) - 1
    BY <1>5, <2>1
  <2> QED
    BY <1>5, <2>1, <2>2 DEF OverlayTyped
<1> QED
  BY <1>1, <1>2, <1>6, RestTyped DEF UiTyped

LEMMA InsertKeeps ==
  ASSUME UiTyped, overlay = NoOverlay, NEW a, Insert(a), a.do = "EnterInsert" => focus = "Chat",
         UNCHANGED commands
  PROVE  UiTyped' /\ Undisturbed
<1>1. UNCHANGED <<running, focus, tab, index, overlay, dataVars, textVars, effects, commands>>
  BY DEF Insert
<1>2. UNCHANGED <<contacts, chats, view>>
  BY <1>1 DEF dataVars
<1>3. NavTyped'
  BY <1>1 DEF Insert, UiTyped, NavTyped
<1> QED
  BY <1>1, <1>2, <1>3, RestTyped DEF UiTyped

LEMMA EditDraftKeeps ==
  ASSUME UiTyped, NEW a, EditDraft(a), UNCHANGED commands
  PROVE  UiTyped' /\ Undisturbed
<1>1. UNCHANGED <<running, navVars, overlay, dataVars, pending, effects, commands>>
  BY DEF EditDraft
<1>2. UNCHANGED <<focus, mode, tab, index, contacts, view, chats, scroll>>
  BY <1>1 DEF dataVars, navVars
<1>3. Active \in Peers /\ Active \in Range(contacts)
  BY ActiveListed DEF EditDraft
<1>4. PICK t \in Texts : drafts' = [drafts EXCEPT ![Active] = t]
  <2>1. /\ a.do \in {"InsertChar", "Paste", "Backspace", "Delete"}
        /\ \E t \in Edited(a, drafts[Active]) : drafts' = [drafts EXCEPT ![Active] = t]
    BY DEF EditDraft
  <2>2. \A t \in Edited(a, drafts[Active]) : t \in Texts
    BY <2>1, TuiAssumption DEF Edited
  <2> QED
    BY <2>1, <2>2
<1>5. /\ drafts \in [Peers -> Texts]
      /\ drafts' \in [Peers -> Texts]
      /\ \A p \in Peers \ Range(contacts) : drafts'[p] = drafts[p]
  BY <1>3, <1>4 DEF UiTyped, DataTyped
<1>6. DataTyped'
  BY <1>1, <1>2, <1>5 DEF UiTyped, DataTyped
<1> QED
  BY <1>1, <1>2, <1>6, RestTyped DEF UiTyped

LEMMA SubmitDraftKeeps ==
  ASSUME UiTyped, NEW a, SubmitDraft(a), UNCHANGED commands
  PROVE  UiTyped' /\ Undisturbed
<1>1. /\ UNCHANGED <<running, navVars, overlay, dataVars, drafts, commands>>
      /\ pending' = pending \cup {Active}
      /\ Request(Effect("SendText", Active, drafts[Active]))
  BY DEF SubmitDraft
<1>2. UNCHANGED <<focus, mode, tab, index, contacts, view, chats, scroll>>
  BY <1>1 DEF dataVars, navVars
<1>3. Active \in Peers /\ Active \in Range(contacts)
  BY ActiveListed DEF SubmitDraft
<1>4. drafts[Active] \in Texts
  BY <1>3 DEF UiTyped, DataTyped
<1>5. QueuesTyped'
  BY <1>1, <1>3, <1>4, EffectTyped, RequestTyped
<1>6. DataTyped'
  BY <1>1, <1>2, <1>3 DEF UiTyped, DataTyped
<1> QED
  BY <1>1, <1>2, <1>5, <1>6, RestTyped DEF UiTyped

\* Steps that write only the overlay, or also ask for something.
LEMMA OverlayStep ==
  ASSUME UiTyped, OverlayTyped', QueuesTyped',
         UNCHANGED <<running, navVars, dataVars, textVars, commands>>
  PROVE  UiTyped' /\ Undisturbed
<1>1. UNCHANGED <<focus, mode, tab, index, contacts, view, chats, scroll>>
  BY DEF dataVars, navVars
<1> QED
  BY <1>1, RestTyped DEF UiTyped

LEMMA NoOverlayTyped == ASSUME overlay' = NoOverlay PROVE OverlayTyped'
  BY DEF OverlayTyped

LEMMA CloseKeeps ==
  ASSUME UiTyped, NEW a, Close(a), UNCHANGED commands
  PROVE  UiTyped' /\ Undisturbed
<1>1. /\ UNCHANGED <<running, navVars, dataVars, textVars, effects, commands>>
      /\ overlay' = NoOverlay
  BY DEF Close
<1> QED
  BY <1>1, NoOverlayTyped, OverlayStep, RestTyped

LEMMA AcceptFirstRunKeeps ==
  ASSUME UiTyped, NEW a, AcceptFirstRun(a), UNCHANGED commands
  PROVE  UiTyped' /\ Undisturbed
<1>1. /\ UNCHANGED <<running, navVars, dataVars, textVars, commands>>
      /\ overlay' = NoOverlay
      /\ Request(Effect("CopyText", NoPeer, 0))
  BY DEF AcceptFirstRun
<1> QED
  BY <1>1, EffectTyped, RequestTyped, NoOverlayTyped, OverlayStep

LEMMA EditEntryKeeps ==
  ASSUME UiTyped, NEW a, EditEntry(a), UNCHANGED commands
  PROVE  UiTyped' /\ Undisturbed
<1>1. /\ UNCHANGED <<running, navVars, dataVars, textVars, effects, commands>>
      /\ \E entry \in Peers \cup {OwnId, Garbled} : overlay' = AddDialog(entry)
  BY DEF EditEntry
<1>2. OverlayTyped'
  BY <1>1 DEF OverlayTyped
<1> QED
  BY <1>1, <1>2, OverlayStep, RestTyped

\* The entry of the dialog.
LEMMA EntryTyped ==
  ASSUME UiTyped, overlay.kind = "AddContact"
  PROVE  overlay.entry \in Peers \cup {OwnId, Garbled}
  BY DEF UiTyped, OverlayTyped, NoOverlay, FirstRun, AddDialog, Menu, Confirm

LEMMA SubmitEntryKeeps ==
  ASSUME UiTyped, NEW a, SubmitEntry(a), UNCHANGED commands
  PROVE  UiTyped' /\ Undisturbed
<1>1. /\ UNCHANGED <<running, focus, mode, dataVars, textVars, commands>>
      /\ overlay' = NoOverlay
      /\ overlay.entry # Garbled
      /\ overlay.entry \in Peers \cup {OwnId, Garbled}
  BY EntryTyped DEF SubmitEntry
<1>2. UNCHANGED <<contacts, view, chats, scroll>>
  BY <1>1 DEF dataVars
<1>3. OverlayTyped'
  BY <1>1, NoOverlayTyped
<1>4. NavTyped' /\ ListTyped' /\ QueuesTyped'
  <2>1. CASE overlay.entry = OwnId /\ UNCHANGED <<tab, index, effects>>
    BY <1>1, <1>2, <2>1, RestTyped
  <2>2. CASE /\ Listed(overlay.entry)
             /\ index' = Position(contacts, overlay.entry) - 1
             /\ tab' = "Contacts"
             /\ NoRequest
    <3>1. /\ contacts \in Seq(Peers) /\ Len(contacts) \in Nat
          /\ DOMAIN contacts = 1..Len(contacts)
      BY DEF UiTyped, ListTyped
    <3>2. \E i \in DOMAIN contacts : contacts[i] = overlay.entry
      BY <2>2 DEF Listed, Range
    <3>3. Position(contacts, overlay.entry) \in 1..Len(contacts)
      BY <3>1, <3>2 DEF Position
    <3>4. index' \in 0..Len(contacts)
      BY <2>2, <3>1, <3>3
    <3>5. ListTyped'
      BY <1>2, <3>4 DEF UiTyped, ListTyped
    <3>6. NavTyped'
      BY <1>1, <2>2 DEF UiTyped, NavTyped
    <3>7. QueuesTyped'
      BY <1>1, <2>2, RestTyped DEF NoRequest
    <3> QED
      BY <3>5, <3>6, <3>7
  <2>3. CASE /\ overlay.entry # OwnId
             /\ Request(Effect("PersistContact", overlay.entry, 0))
             /\ UNCHANGED <<tab, index>>
    <3>1. overlay.entry \in Peers /\ 0 \in Texts
      BY <1>1, <2>3, TuiAssumption
    <3>2. QueuesTyped'
      BY <1>1, <2>3, <3>1, EffectTyped, RequestTyped
    <3> QED
      BY <1>1, <1>2, <2>3, <3>2, RestTyped
  <2> QED
    BY <2>1, <2>2, <2>3 DEF SubmitEntry
<1>5. DataTyped' /\ EndedEmpty' /\ Undisturbed
  BY <1>1, <1>2, RestTyped
<1> QED
  BY <1>3, <1>4, <1>5 DEF UiTyped

\* What is known of an open menu, and of a question.
LEMMA MenuTyped ==
  ASSUME UiTyped, overlay.kind = "Context"
  PROVE  /\ overlay = Menu(overlay.actions, overlay.selected)
         /\ overlay.actions \in Seq(MenuRecord) /\ Len(overlay.actions) \in Nat
         /\ overlay.selected \in 0..Len(overlay.actions) - 1
  BY DEF UiTyped, OverlayTyped, NoOverlay, FirstRun, AddDialog, Confirm

LEMMA QuestionTyped ==
  ASSUME UiTyped, overlay.kind = "Confirm"
  PROVE  \E m \in MenuRecord, yes \in BOOLEAN :
           overlay = Confirm(m, yes) /\ m.do \in {"RemoveContact", "ClearChat"} /\ m.peer \in Peers
<1>1. \E m \in MenuRecord, yes \in BOOLEAN :
        overlay = Confirm(m, yes) /\ m.do \in {"RemoveContact", "ClearChat"}
  BY DEF UiTyped, OverlayTyped, NoOverlay, FirstRun, AddDialog, Menu
<1>2. \A m \in MenuRecord : m.do \in {"RemoveContact", "ClearChat"} => m.peer \in Peers
  BY DEF MenuRecord
<1> QED
  BY <1>1, <1>2

LEMMA MoveSelectionKeeps ==
  ASSUME UiTyped, NEW a, a.delta \in {-1, 0, 1}, MoveSelection(a), UNCHANGED commands
  PROVE  UiTyped' /\ Undisturbed
<1>1. UNCHANGED <<running, navVars, dataVars, textVars, effects, commands>>
  BY DEF MoveSelection
<1>2. CASE /\ overlay.kind = "Context"
           /\ overlay' = [overlay EXCEPT !.selected = (@ + a.delta) % Len(overlay.actions)]
  <2> DEFINE actions == overlay.actions
  <2> DEFINE i == (overlay.selected + a.delta) % Len(actions)
  <2>1. /\ overlay = Menu(actions, overlay.selected)
        /\ actions \in Seq(MenuRecord) /\ Len(actions) \in Nat
        /\ overlay.selected \in 0..Len(actions) - 1
    BY <1>2, MenuTyped
  <2>2. overlay' = Menu(actions, i)
    <3>1. overlay' = [overlay EXCEPT !.selected = i]
      BY <1>2
    <3> HIDE DEF i, actions
    <3> QED
      BY <2>1, <3>1 DEF Menu
  <2>3. i \in 0..Len(actions) - 1
    <3>1. Len(actions) > 0 /\ overlay.selected + a.delta \in Int
      BY <2>1
    <3> HIDE DEF actions
    <3> QED
      BY <2>1, <3>1
  <2> HIDE DEF i, actions
  <2>4. overlay'.kind = "Context" /\ overlay'.actions = actions /\ overlay'.selected = i
    BY <2>2 DEF Menu
  <2>5. OverlayTyped'
    BY <2>1, <2>2, <2>3, <2>4 DEF OverlayTyped
  <2> QED
    BY <1>1, <2>5, OverlayStep, RestTyped
<1>3. CASE overlay.kind = "Confirm" /\ overlay' = [overlay EXCEPT !.yes = ~@]
  <2>1. PICK m \in MenuRecord, yes \in BOOLEAN :
          overlay = Confirm(m, yes) /\ m.do \in {"RemoveContact", "ClearChat"}
    BY <1>3, QuestionTyped
  <2>2. overlay' = Confirm(m, ~yes)
    BY <1>3, <2>1 DEF Confirm
  <2>3. \E no \in BOOLEAN : ~yes = no
    <3>1. CASE yes
      BY <3>1, Zenon
    <3>2. CASE ~yes
      BY <3>2, Zenon
    <3> QED
      BY <3>1, <3>2
  <2>4. OverlayTyped'
    BY <2>1, <2>2, <2>3 DEF OverlayTyped
  <2> QED
    BY <1>1, <2>4, OverlayStep, RestTyped
<1> QED
  BY <1>2, <1>3 DEF MoveSelection

LEMMA ActivateMenuKeeps ==
  ASSUME UiTyped, NEW a, ActivateMenu(a), UNCHANGED commands
  PROVE  UiTyped' /\ Undisturbed
<1> DEFINE m == overlay.actions[overlay.selected + 1]
<1>1. UNCHANGED <<running, navVars, dataVars, textVars, commands>>
  BY DEF ActivateMenu
<1>2. m \in MenuRecord
  <2>1. /\ overlay.actions \in Seq(MenuRecord) /\ Len(overlay.actions) \in Nat
        /\ overlay.selected + 1 \in 1..Len(overlay.actions)
    BY MenuTyped DEF ActivateMenu
  <2> QED
    BY <2>1
<1>3. \/ overlay' = NoOverlay /\ Request(Effect("CopyText", NoPeer, 0))
      \/ overlay' = AddDialog(Garbled) /\ NoRequest
      \/ m.do \in {"RemoveContact", "ClearChat"} /\ overlay' = Confirm(m, FALSE) /\ NoRequest
  BY Zenon DEF ActivateMenu
<1> HIDE DEF m
<1>4. OverlayTyped'
  BY <1>2, <1>3 DEF OverlayTyped
<1>5. QueuesTyped'
  BY <1>1, <1>3, EffectTyped, RequestTyped, RestTyped DEF NoRequest
<1> QED
  BY <1>1, <1>4, <1>5, OverlayStep

LEMMA AnswerConfirmKeeps ==
  ASSUME UiTyped, NEW a, AnswerConfirm(a), UNCHANGED commands
  PROVE  UiTyped' /\ Undisturbed
<1>1. /\ UNCHANGED <<running, navVars, contacts, view, textVars, commands>>
      /\ overlay' = NoOverlay /\ overlay.kind = "Confirm"
  BY DEF AnswerConfirm
<1>2. UNCHANGED <<focus, mode, tab, index, drafts, pending>>
  BY <1>1 DEF navVars, textVars
<1>3. PICK q \in Peers : overlay.action.peer = q
  <2>1. PICK m \in MenuRecord, yes \in BOOLEAN : overlay = Confirm(m, yes) /\ m.peer \in Peers
    BY <1>1, QuestionTyped
  <2> QED
    BY <2>1 DEF Confirm
<1>4. \/ Request(Effect("RemoveContact", q, 0)) /\ UNCHANGED <<chats, scroll>>
      \/ /\ chats' = [chats EXCEPT ![q] = <<>>]
         /\ scroll' = [scroll EXCEPT ![q] = 0]
         /\ NoRequest
      \/ UNCHANGED <<chats, scroll, effects>>
  BY <1>3 DEF AnswerConfirm
<1>5. OverlayTyped' /\ NavTyped' /\ ListTyped' /\ EndedEmpty'
  BY <1>1, <1>2, NoOverlayTyped, RestTyped
<1>6. QueuesTyped'
  <2>1. 0 \in Texts
    BY TuiAssumption
  <2> QED
    BY <1>1, <1>4, <2>1, EffectTyped, RequestTyped, RestTyped DEF NoRequest
<1>7. DataTyped' /\ Undisturbed
  <2>1. CASE UNCHANGED <<chats, scroll>>
    <3>1. UNCHANGED <<dataVars, textVars>>
      BY <1>1, <2>1 DEF dataVars
    <3> QED
      BY <1>1, <2>1, <3>1, RestTyped
  <2>2. CASE chats' = [chats EXCEPT ![q] = <<>>] /\ scroll' = [scroll EXCEPT ![q] = 0]
    <3>1. chats \in [Peers -> Seq(MessageRecord)] /\ scroll \in [Peers -> Nat]
      BY DEF UiTyped, DataTyped
    <3>2. /\ chats' \in [Peers -> Seq(MessageRecord)] /\ scroll' \in [Peers -> Nat]
          /\ chats'[q] = <<>> /\ scroll'[q] = 0
          /\ \A p \in Peers : p # q => chats'[p] = chats[p] /\ scroll'[p] = scroll[p]
      BY <2>2, <3>1
    <3>3. Undisturbed
      BY <1>1, <3>2 DEF Undisturbed
    <3>4. DataTyped'
      BY <1>1, <1>2, <3>2 DEF UiTyped, DataTyped
    <3> QED
      BY <3>3, <3>4
  <2> QED
    BY <1>4, <2>1, <2>2
<1> QED
  BY <1>5, <1>6, <1>7 DEF UiTyped

\* A key moves by at most one, and opens insert mode only in the chat panel.
LEMMA KeyMeaning ==
  ASSUME NEW k
  PROVE  /\ ActionForKey(k).delta \in {-1, 0, 1}
         /\ ActionForKey(k).do = "EnterInsert" => focus = "Chat"
<1>1. ActionForKey(k).delta \in {-1, 0, 1}
  BY SMT DEF ActionForKey, Act, Move, Turn, OverlayAction, EditAction, DialogAction,
             InsertAction, NormalAction
<1>2. ActionForKey(k).do = "EnterInsert" => focus = "Chat"
  <2>1. EditAction(k).do # "EnterInsert"
    BY DEF EditAction, Act
  <2>2. DialogAction(k).do # "EnterInsert" /\ InsertAction(k).do # "EnterInsert"
    BY <2>1 DEF DialogAction, InsertAction, Act
  <2>3. OverlayAction(k).do # "EnterInsert"
    BY DEF OverlayAction, Act, Move
  <2>4. NormalAction(k).do = "EnterInsert" => focus = "Chat"
    BY DEF NormalAction, Act, Move, Turn
  <2> QED
    BY <2>2, <2>3, <2>4 DEF ActionForKey, Act
<1> QED
  BY <1>1, <1>2

\* An interface that opens over a list of contacts, or is not on.
LEMMA UiStartTyped ==
  ASSUME NEW on \in BOOLEAN, NEW list \in Seq(Peers), IsInjective(list), NEW created \in BOOLEAN,
         ~on => list = <<>>, UiStart(on, list, created),
         effects' \in Seq(EffectRecord), Len(effects') <= EffectCapacity
  PROVE  UiTyped'
<1>1. /\ running' = on /\ focus' = "List" /\ mode' = "Normal" /\ tab' = "Contacts" /\ index' = 0
      /\ overlay' \in {FirstRun, NoOverlay}
      /\ contacts' = list
      /\ view' = [p \in Peers |-> IF p \in Range(list) THEN NewView ELSE NoView]
      /\ chats' = [p \in Peers |-> <<>>]
      /\ drafts' = [p \in Peers |-> 0]
      /\ scroll' = [p \in Peers |-> 0]
      /\ pending' = {}
      /\ commands' = <<>>
  BY DEF UiStart
<1>2. NavTyped' /\ OverlayTyped' /\ EndedEmpty'
  BY <1>1 DEF NavTyped, OverlayTyped, EndedEmpty
<1>3. ListTyped'
  BY <1>1 DEF ListTyped
<1>4. QueuesTyped'
  BY <1>1 DEF QueuesTyped
<1>5. DataTyped'
  <2>1. /\ NoView \in ViewRecord /\ NewView \in ViewRecord
        /\ FitsState(NoView) /\ FitsState(NewView)
    BY TransportAssumption DEF NoView, NewView, ViewRecord, FitsState, NoTime, ConnStates, AnyPath
  <2>2. view' \in [Peers -> ViewRecord] /\ \A p \in Peers : FitsState(view'[p])
    BY <1>1, <2>1
  <2>3. \A p \in Peers \ Range(list) : view'[p] = NoView
    BY <1>1
  <2>4. 0 \in Texts
    BY TuiAssumption
  <2>5. chats' \in [Peers -> Seq(MessageRecord)] /\ drafts' \in [Peers -> Texts] /\ scroll' \in [Peers -> Nat]
    BY <1>1, <2>4
  <2> QED
    BY <1>1, <2>2, <2>3, <2>5 DEF DataTyped
<1> QED
  BY <1>2, <1>3, <1>4, <1>5 DEF UiTyped

LEMMA QuitKeeps ==
  ASSUME UiTyped, Quit
  PROVE  UiTyped'
<1>1. UiStart(FALSE, <<>>, FALSE) /\ effects' = effects
  BY DEF Quit, NoRequest
<1>2. effects' \in Seq(EffectRecord) /\ Len(effects') <= EffectCapacity
  BY <1>1 DEF UiTyped, QueuesTyped
<1>3. <<>> \in Seq(Peers) /\ IsInjective(<<>>)
  BY DEF IsInjective
<1> QED
  BY <1>1, <1>2, <1>3, UiStartTyped

LEMMA UiOffTyped ==
  ASSUME UiOff
  PROVE  UiTyped
<1>1. NavTyped /\ OverlayTyped /\ EndedEmpty
  BY DEF UiOff, NavTyped, OverlayTyped, EndedEmpty
<1>2. ListTyped /\ QueuesTyped
  BY TuiAssumption DEF UiOff, ListTyped, QueuesTyped, IsInjective
<1>3. DataTyped
  <2>1. NoView \in ViewRecord /\ FitsState(NoView) /\ 0 \in Texts
    BY TransportAssumption, TuiAssumption DEF NoView, ViewRecord, FitsState, NoTime, ConnStates, AnyPath
  <2>2. /\ view \in [Peers -> ViewRecord] /\ chats \in [Peers -> Seq(MessageRecord)]
        /\ drafts \in [Peers -> Texts] /\ scroll \in [Peers -> Nat]
        /\ \A p \in Peers : /\ view[p] = NoView /\ chats[p] = <<>> /\ drafts[p] = 0
                            /\ scroll[p] = 0
        /\ pending = {}
    BY <2>1 DEF UiOff
  <2> QED
    BY <2>1, <2>2 DEF DataTyped
<1> QED
  BY <1>1, <1>2, <1>3 DEF UiTyped

\* A key or a paste.
LEMMA UpdateKeeps ==
  ASSUME UiTyped, NEW a, a.delta \in {-1, 0, 1}, a.do = "EnterInsert" => focus = "Chat", Update(a)
  PROVE  UiTyped' /\ (Quit \/ Undisturbed)
<1>1. CASE a.do = "Quit"
  BY <1>1, QuitKeeps DEF Update
<1>2. CASE a.do # "Quit" /\ overlay = FirstRun
  <2>1. AcceptFirstRun(a) /\ UNCHANGED commands
    BY <1>2 DEF Update, UpdateOverlay, FirstRun, NoOverlay
  <2> QED
    BY <2>1, AcceptFirstRunKeeps
<1>3. CASE a.do # "Quit" /\ overlay # NoOverlay /\ overlay # FirstRun
  <2>1. /\ Close(a) \/ EditEntry(a) \/ SubmitEntry(a) \/ MoveSelection(a) \/ ActivateMenu(a)
           \/ AnswerConfirm(a)
        /\ UNCHANGED commands
    BY <1>3, Zenon DEF Update, UpdateOverlay
  <2> QED
    BY <2>1, CloseKeeps, EditEntryKeeps, SubmitEntryKeeps, MoveSelectionKeeps, ActivateMenuKeeps,
       AnswerConfirmKeeps
<1>4. CASE a.do # "Quit" /\ overlay = NoOverlay
  <2>1. /\ Focus(a) \/ SelectTab(a) \/ Navigate(a) \/ OpenContextMenu(a) \/ Insert(a) \/ EditDraft(a)
           \/ SubmitDraft(a)
        /\ UNCHANGED commands
    BY <1>4, Zenon DEF Update, UpdatePanels
  <2> QED
    BY <1>4, <2>1, FocusKeeps, SelectTabKeeps, NavigateKeeps, OpenContextMenuKeeps, InsertKeeps,
       EditDraftKeeps, SubmitDraftKeeps
<1> QED
  BY <1>1, <1>2, <1>3, <1>4

LEMMA UserKeeps ==
  ASSUME UiTyped, User
  PROVE  UiTyped' /\ (Quit \/ Undisturbed)
<1>1. CASE \E k \in Keys : Press(k)
  BY <1>1, KeyMeaning, UpdateKeeps DEF Press
<1>2. CASE PasteText
  <2>1. Act("Paste").delta \in {-1, 0, 1} /\ Act("Paste").do # "EnterInsert"
    BY DEF Act
  <2> QED
    BY <1>2, <2>1, UpdateKeeps DEF PasteText
<1> QED
  BY <1>1, <1>2 DEF User

-----------------------------------------------------------------------------
(* What the commands of the runtime do.                                    *)

\* What a command holds, by its kind.
LEMMA CommandFields ==
  ASSUME NEW c \in CommandRecord
  PROVE  /\ c.kind \in {"ContactAdded", "ContactAlreadyExists", "ContactRemoved", "SendRejected",
                        "OutgoingQueued", "PeerConnectionStateChanged"} => c.peer \in Peers
         /\ c.kind = "OutgoingQueued" => c.id \in Outbound
         /\ c.kind = "OutgoingSettled" => c.id \in Outbound /\ c.outcome \in Outcomes
         /\ c.kind = "IncomingMessage" => c.id \in AnyId
         /\ c.kind = "PeerConnectionStateChanged" => c.event \in EventRecord /\ FitsState(c.event)
  BY DEF CommandRecord

\* The commands wait in order, and the oldest is read.
LEMMA HeadTyped ==
  ASSUME UiTyped, commands # <<>>
  PROVE  /\ Head(commands) \in CommandRecord /\ Tail(commands) \in Seq(CommandRecord)
         /\ Len(commands) \in Nat \ {0} /\ DOMAIN commands = 1..Len(commands)
         /\ Len(Tail(commands)) = Len(commands) - 1
         /\ Head(commands) = commands[1]
         /\ \A i \in 1..Len(commands) - 1 : Tail(commands)[i] = commands[i + 1]
<1>1. commands \in Seq(CommandRecord)
  BY DEF UiTyped, QueuesTyped
<1> QED
  BY <1>1

\* A position that is selected is one of the list.
LEMMA SelectBound ==
  ASSUME NEW list \in Seq(Peers), NEW p, index \in 0..Len(list), Select(list, p)
  PROVE  index' \in 0..Len(list)
<1>1. CASE p \in Range(list)
  <2>1. Len(list) \in Nat /\ \E i \in 1..Len(list) : list[i] = p
    BY <1>1 DEF Range
  <2>2. Position(list, p) \in 1..Len(list)
    BY <2>1 DEF Position
  <2> QED
    BY <1>1, <2>1, <2>2 DEF Select
<1>2. CASE p \notin Range(list)
  BY <1>2 DEF Select
<1> QED
  BY <1>1, <1>2

LEMMA AddedKeeps ==
  ASSUME UiTyped, NEW c, ContactAdded(c), c.peer \in Peers \ Range(contacts)
  PROVE  /\ NavTyped' <=> running' \in BOOLEAN
         /\ ListTyped' /\ DataTyped'
         /\ Range(contacts') = Range(contacts) \cup {c.peer}
         /\ chats' = chats
         /\ view'[c.peer] = NewView
         /\ \A q \in Peers : q # c.peer => view'[q] = view[q]
<1> DEFINE p == c.peer
<1>1. /\ p \in Peers /\ p \notin Range(contacts)
      /\ view' = [view EXCEPT ![p] = NewView]
      /\ tab' = "Contacts"
      /\ UNCHANGED <<focus, mode, chats, scroll, textVars>>
  BY DEF ContactAdded
<1>2. PICK list \in Sorted(Append(contacts, p)) : contacts' = list /\ Select(list, p)
  BY DEF ContactAdded
<1> HIDE DEF p
<1>3. /\ contacts \in Seq(Peers) /\ Len(contacts) \in Nat /\ DOMAIN contacts = 1..Len(contacts)
      /\ index \in 0..Len(contacts) /\ IsInjective(contacts)
  BY DEF UiTyped, ListTyped
<1> DEFINE longer == Append(contacts, p)
<1>4. /\ longer \in Seq(Peers) /\ Len(longer) = Len(contacts) + 1
      /\ DOMAIN longer = 1..Len(contacts) + 1
      /\ \A i \in 1..Len(contacts) : longer[i] = contacts[i]
      /\ longer[Len(contacts) + 1] = p
  BY <1>1, <1>3
<1>5. IsInjective(longer)
  <2>1. \A i \in 1..Len(contacts) : contacts[i] # p
    BY <1>1, <1>3 DEF Range
  <2> HIDE DEF longer
  <2>2. \A i, j \in 1..Len(contacts) : contacts[i] = contacts[j] => i = j
    BY <1>3 DEF IsInjective
  <2>3. \A i, j \in 1..Len(contacts) + 1 : longer[i] = longer[j] => i = j
    BY <1>3, <1>4, <2>1, <2>2
  <2> QED
    BY <1>4, <2>3 DEF IsInjective
<1>6. Range(longer) = Range(contacts) \cup {p}
  <2> HIDE DEF longer
  <2>1. \A x \in Range(longer) : x \in Range(contacts) \cup {p}
    BY <1>3, <1>4 DEF Range
  <2>2. \A x \in Range(contacts) \cup {p} : x \in Range(longer)
    BY <1>3, <1>4 DEF Range
  <2> QED
    BY <2>1, <2>2
<1> HIDE DEF longer
<1>7. /\ list \in Seq(Peers) /\ Len(list) = Len(contacts) + 1
      /\ Range(list) = Range(contacts) \cup {p} /\ IsInjective(list)
  BY <1>2, <1>4, <1>5, <1>6, SortedLists DEF longer
<1>8. ListTyped'
  <2>1. index \in 0..Len(list)
    BY <1>3, <1>7
  <2>2. index' \in 0..Len(list)
    BY <1>2, <1>7, <2>1, SelectBound
  <2> QED
    BY <1>2, <1>7, <2>2 DEF ListTyped
<1>9. view \in [Peers -> ViewRecord]
  BY DEF UiTyped, DataTyped
<1>10. NewView \in ViewRecord /\ FitsState(NewView)
  BY TransportAssumption DEF NoView, NewView, ViewRecord, FitsState, NoTime, ConnStates, AnyPath
<1>11. /\ view' \in [Peers -> ViewRecord] /\ view'[p] = NewView
       /\ \A q \in Peers : q # p => view'[q] = view[q]
  BY <1>1, <1>9, <1>10
<1>12. DataTyped'
  <2>1. \A q \in Peers : FitsState(view'[q])
    BY <1>10, <1>11 DEF UiTyped, DataTyped
  <2>2. \A q \in Peers \ Range(contacts') :
          view'[q] = NoView /\ chats'[q] = <<>> /\ drafts'[q] = 0 /\ q \notin pending'
    BY <1>1, <1>2, <1>7, <1>11 DEF UiTyped, DataTyped, textVars
  <2> QED
    BY <1>1, <1>11, <2>1, <2>2 DEF UiTyped, DataTyped, textVars
<1>13. NavTyped' <=> running' \in BOOLEAN
  BY <1>1 DEF UiTyped, NavTyped
<1> QED
  BY <1>1, <1>2, <1>7, <1>8, <1>11, <1>12, <1>13 DEF p

LEMMA RemovedKeeps ==
  ASSUME UiTyped, NEW c, ContactRemoved(c), c.peer \in Peers
  PROVE  /\ UNCHANGED <<focus, mode, tab>>
         /\ ListTyped' /\ DataTyped'
         /\ Range(contacts') = Range(contacts) \ {c.peer}
         /\ chats'[c.peer] = <<>>
         /\ \A q \in Peers : q # c.peer => view'[q] = view[q] /\ chats'[q] = chats[q]
<1> DEFINE p == c.peer
<1>1. /\ p \in Peers
      /\ view' = [view EXCEPT ![p] = NoView]
      /\ chats' = [chats EXCEPT ![p] = <<>>]
      /\ drafts' = [drafts EXCEPT ![p] = 0]
      /\ scroll' = [scroll EXCEPT ![p] = 0]
      /\ pending' = pending \ {p}
      /\ UNCHANGED <<focus, mode, tab>>
  BY DEF ContactRemoved
<1>2. PICK list \in Retained(p) : contacts' = list /\ index' = Clamp(index, Len(list))
  BY DEF ContactRemoved
<1> HIDE DEF p
<1>3. list \in Seq(Peers) /\ IsInjective(list) /\ Range(list) = Range(contacts) \ {p}
  BY <1>2, RetainedLists DEF UiTyped
<1>4. ListTyped'
  <2>1. index \in Nat
    BY DEF UiTyped, ListTyped
  <2>2. Len(list) \in Nat
    BY <1>3
  <2>3. index' \in 0..Len(list)
    BY <1>2, <2>1, <2>2, MoveIndexBound
  <2> QED
    BY <1>2, <1>3, <2>3 DEF ListTyped
<1>5. /\ view \in [Peers -> ViewRecord] /\ chats \in [Peers -> Seq(MessageRecord)]
      /\ drafts \in [Peers -> Texts] /\ scroll \in [Peers -> Nat]
      /\ NoView \in ViewRecord /\ FitsState(NoView) /\ 0 \in Texts
  BY TransportAssumption, TuiAssumption
  DEF UiTyped, DataTyped, NoView, ViewRecord, FitsState, NoTime, ConnStates, AnyPath
<1>6. /\ view' \in [Peers -> ViewRecord] /\ chats' \in [Peers -> Seq(MessageRecord)]
      /\ drafts' \in [Peers -> Texts] /\ scroll' \in [Peers -> Nat]
      /\ view'[p] = NoView /\ chats'[p] = <<>> /\ drafts'[p] = 0 /\ scroll'[p] = 0
      /\ \A q \in Peers : q # p => /\ view'[q] = view[q] /\ chats'[q] = chats[q]
                                   /\ drafts'[q] = drafts[q] /\ scroll'[q] = scroll[q]
  BY <1>1, <1>5
<1>7. DataTyped'
  <2>1. \A q \in Peers : FitsState(view'[q])
    BY <1>5, <1>6 DEF UiTyped, DataTyped
  <2>2. \A q \in Peers \ Range(contacts') :
          view'[q] = NoView /\ chats'[q] = <<>> /\ drafts'[q] = 0 /\ q \notin pending'
    BY <1>1, <1>2, <1>3, <1>6 DEF UiTyped, DataTyped
  <2>3. \A q \in Peers : scroll'[q] = 0 \/ scroll'[q] < Len(chats'[q])
    BY <1>6 DEF UiTyped, DataTyped
  <2> QED
    BY <1>1, <1>6, <2>1, <2>2, <2>3 DEF UiTyped, DataTyped
<1> QED
  BY <1>1, <1>2, <1>3, <1>4, <1>6, <1>7 DEF p

\* A message that is appended, and one that is settled.
LEMMA QueuedKeeps ==
  ASSUME UiTyped, NEW c, QueuedCommand(c), c.peer \in Peers, c.id \in Outbound
  PROVE  /\ UNCHANGED <<focus, mode, tab>> /\ ListTyped' /\ DataTyped'
         /\ UNCHANGED <<contacts, view>>
         /\ chats'[c.peer] = Append(chats[c.peer], Message(c.id, "Local", "Pending"))
         /\ \A q \in Peers : q # c.peer => chats'[q] = chats[q]
<1> DEFINE p == c.peer
<1> DEFINE longer == Append(chats[p], Message(c.id, "Local", "Pending"))
<1>1. /\ p \in Peers /\ p \in Range(contacts)
      /\ pending' = pending \ {p}
      /\ drafts' = [drafts EXCEPT ![p] = 0]
      /\ chats' = [chats EXCEPT ![p] = longer]
      /\ UNCHANGED <<navVars, contacts, view, scroll>>
  BY DEF QueuedCommand, Listed
<1>2. UNCHANGED <<focus, mode, tab, index>>
  BY <1>1 DEF navVars
<1>3. /\ chats \in [Peers -> Seq(MessageRecord)] /\ drafts \in [Peers -> Texts] /\ 0 \in Texts
      /\ chats[p] \in Seq(MessageRecord)
  BY <1>1, TuiAssumption DEF UiTyped, DataTyped
<1>4. Message(c.id, "Local", "Pending") \in MessageRecord
  BY DEF Message, MessageRecord, AnyId
<1>5. longer \in Seq(MessageRecord) /\ Len(longer) = Len(chats[p]) + 1 /\ Len(chats[p]) \in Nat
  BY <1>3, <1>4
<1> HIDE DEF longer, p
<1>6. /\ chats' \in [Peers -> Seq(MessageRecord)] /\ drafts' \in [Peers -> Texts]
      /\ chats'[p] = longer /\ drafts'[p] = 0
      /\ \A q \in Peers : q # p => chats'[q] = chats[q] /\ drafts'[q] = drafts[q]
  BY <1>1, <1>3, <1>5
<1>7. \A q \in Peers : scroll'[q] = 0 \/ scroll'[q] < Len(chats'[q])
  <2>1. scroll \in [Peers -> Nat] /\ \A q \in Peers : scroll[q] = 0 \/ scroll[q] < Len(chats[q])
    BY DEF UiTyped, DataTyped
  <2>2. \A q \in Peers : q # p => (scroll'[q] = 0 \/ scroll'[q] < Len(chats'[q]))
    BY <1>1, <1>6, <2>1
  <2>3. scroll'[p] = 0 \/ scroll'[p] < Len(chats'[p])
    BY <1>1, <1>5, <1>6, <2>1
  <2> QED
    BY <2>2, <2>3
<1>8. DataTyped'
  <2>1. \A q \in Peers \ Range(contacts') :
          view'[q] = NoView /\ chats'[q] = <<>> /\ drafts'[q] = 0 /\ q \notin pending'
    BY <1>1, <1>6 DEF UiTyped, DataTyped
  <2> QED
    BY <1>1, <1>6, <1>7, <2>1 DEF UiTyped, DataTyped
<1>9. ListTyped'
  BY <1>1, <1>2, RestTyped
<1> QED
  BY <1>1, <1>2, <1>6, <1>8, <1>9 DEF p, longer

\* What settling makes of a message.
Settled(r, c) == IF r.id = c.id /\ r.from = "Local" THEN [r EXCEPT !.delivery = c.outcome] ELSE r

LEMMA SettledFields ==
  ASSUME NEW r \in MessageRecord, NEW c, c.outcome \in Outcomes
  PROVE  /\ Settled(r, c) \in MessageRecord
         /\ Settled(r, c).id = r.id /\ Settled(r, c).from = r.from
         /\ Settled(r, c).delivery \in {r.delivery, c.outcome}
         /\ r.id = c.id /\ r.from = "Local" => Settled(r, c).delivery = c.outcome
  BY DEF Settled, MessageRecord

LEMMA SettledKeeps ==
  ASSUME UiTyped, NEW c, SettledCommand(c), c.outcome \in Outcomes
  PROVE  /\ UNCHANGED <<focus, mode, tab>> /\ ListTyped' /\ DataTyped'
         /\ UNCHANGED <<contacts, view>>
         /\ \A q \in Peers : /\ Len(chats'[q]) = Len(chats[q])
                             /\ DOMAIN chats'[q] = DOMAIN chats[q]
         /\ \A q \in Peers : q # c.peer => chats'[q] = chats[q]
         /\ c.peer \in Peers => \A i \in DOMAIN chats[c.peer] :
                                  chats'[c.peer][i] = Settled(chats[c.peer][i], c)
<1> DEFINE p == c.peer
<1> DEFINE after == [i \in DOMAIN chats[p] |-> Settled(chats[p][i], c)]
<1>1. /\ chats' = [chats EXCEPT ![p] = after]
      /\ UNCHANGED <<navVars, contacts, view, scroll, textVars>>
  BY Zenon DEF SettledCommand, Settled
<1>2. UNCHANGED <<focus, mode, tab, index, drafts, pending>>
  BY <1>1 DEF navVars, textVars
<1>3. chats \in [Peers -> Seq(MessageRecord)]
  BY DEF UiTyped, DataTyped
<1>4. CASE p \in Peers
  <2>1. /\ chats[p] \in Seq(MessageRecord) /\ Len(chats[p]) \in Nat /\ DOMAIN chats[p] = 1..Len(chats[p])
        /\ \A i \in DOMAIN chats[p] : chats[p][i] \in MessageRecord
    BY <1>3, <1>4
  <2>2. /\ after \in [1..Len(chats[p]) -> MessageRecord]
        /\ \A i \in DOMAIN chats[p] : after[i] = Settled(chats[p][i], c)
    BY <2>1, SettledFields
  <2>3. after \in Seq(MessageRecord) /\ Len(after) = Len(chats[p]) /\ DOMAIN after = DOMAIN chats[p]
    BY <2>1, <2>2
  <2> HIDE DEF after, p
  <2>4. /\ chats' \in [Peers -> Seq(MessageRecord)] /\ chats'[p] = after
        /\ \A q \in Peers : q # p => chats'[q] = chats[q]
    BY <1>1, <1>3, <1>4, <2>3
  <2>5. \A q \in Peers : Len(chats'[q]) = Len(chats[q]) /\ DOMAIN chats'[q] = DOMAIN chats[q]
    BY <2>3, <2>4
  <2>6. \A q \in Peers \ Range(contacts) : chats'[q] = <<>>
    <3>1. \A q \in Peers \ Range(contacts) : chats[q] = <<>>
      BY DEF UiTyped, DataTyped
    <3>2. p \notin Range(contacts) => after = <<>>
      BY <1>4, <2>3, <3>1
    <3> QED
      BY <2>4, <3>1, <3>2
  <2>7. DataTyped'
    BY <1>1, <1>2, <2>4, <2>5, <2>6 DEF UiTyped, DataTyped
  <2>8. ListTyped'
    BY <1>1, <1>2, RestTyped
  <2> QED
    BY <1>1, <1>2, <2>2, <2>4, <2>5, <2>7, <2>8 DEF p
<1>5. CASE p \notin Peers
  <2>1. chats' = chats
    BY <1>1, <1>3, <1>5
  <2>2. UNCHANGED <<dataVars, textVars>>
    BY <1>1, <2>1 DEF dataVars
  <2> QED
    BY <1>1, <1>2, <1>5, <2>1, <2>2, RestTyped
<1> QED
  BY <1>4, <1>5

\* A message of the contact is counted as unread, or not.
Unread(r) == [r EXCEPT !.unread = @ + 1]

LEMMA UnreadFields ==
  ASSUME NEW r \in ViewRecord
  PROVE  /\ Unread(r) \in ViewRecord
         /\ Unread(r).state = r.state /\ Unread(r).path = r.path /\ Unread(r).since = r.since
  BY DEF Unread, ViewRecord

LEMMA IncomingMessageKeeps ==
  ASSUME UiTyped, NEW c, IncomingCommand(c), c.id \in AnyId
  PROVE  /\ UNCHANGED <<focus, mode, tab>> /\ ListTyped' /\ DataTyped'
         /\ contacts' = contacts
         /\ c.peer \in Peers
         /\ chats'[c.peer] = Append(chats[c.peer], Message(c.id, "Contact", "None"))
         /\ \A q \in Peers : q # c.peer => chats'[q] = chats[q]
         /\ \A q \in Peers : /\ view'[q].state = view[q].state
                             /\ view'[q].path = view[q].path
                             /\ view'[q].since = view[q].since
<1> DEFINE p == c.peer
<1> DEFINE longer == Append(chats[p], Message(c.id, "Contact", "None"))
<1>1. /\ p \in Range(contacts)
      /\ chats' = [chats EXCEPT ![p] = longer]
      /\ view' = view \/ view' = [view EXCEPT ![p] = Unread(view[p])]
      /\ UNCHANGED <<navVars, contacts, scroll, textVars>>
  BY Zenon DEF IncomingCommand, Listed, Unread
<1>2. UNCHANGED <<focus, mode, tab, index, drafts, pending>>
  BY <1>1 DEF navVars, textVars
<1>3. p \in Peers
  BY <1>1 DEF UiTyped, ListTyped, Range
<1>4. /\ chats \in [Peers -> Seq(MessageRecord)] /\ view \in [Peers -> ViewRecord]
      /\ chats[p] \in Seq(MessageRecord)
  BY <1>3 DEF UiTyped, DataTyped
<1>5. Message(c.id, "Contact", "None") \in MessageRecord
  BY DEF Message, MessageRecord
<1>6. longer \in Seq(MessageRecord) /\ Len(longer) = Len(chats[p]) + 1 /\ Len(chats[p]) \in Nat
  BY <1>4, <1>5
<1> HIDE DEF longer, p
<1>7. /\ chats' \in [Peers -> Seq(MessageRecord)] /\ chats'[p] = longer
      /\ \A q \in Peers : q # p => chats'[q] = chats[q]
  BY <1>1, <1>3, <1>4, <1>6
<1>8. /\ view' \in [Peers -> ViewRecord]
      /\ \A q \in Peers : q # p => view'[q] = view[q]
      /\ view'[p] \in {view[p], Unread(view[p])}
  BY <1>1, <1>3, <1>4, UnreadFields
<1>9. \A q \in Peers : /\ view'[q].state = view[q].state
                       /\ view'[q].path = view[q].path
                       /\ view'[q].since = view[q].since
  BY <1>3, <1>4, <1>8, UnreadFields
<1>10. \A q \in Peers : scroll'[q] = 0 \/ scroll'[q] < Len(chats'[q])
  <2>1. scroll \in [Peers -> Nat] /\ \A q \in Peers : scroll[q] = 0 \/ scroll[q] < Len(chats[q])
    BY DEF UiTyped, DataTyped
  <2>2. \A q \in Peers : q # p => (scroll'[q] = 0 \/ scroll'[q] < Len(chats'[q]))
    BY <1>1, <1>7, <2>1
  <2>3. scroll'[p] = 0 \/ scroll'[p] < Len(chats'[p])
    BY <1>1, <1>3, <1>6, <1>7, <2>1
  <2> QED
    BY <2>2, <2>3
<1>11. DataTyped'
  <2>1. \A q \in Peers \ Range(contacts') :
          view'[q] = NoView /\ chats'[q] = <<>> /\ drafts'[q] = 0 /\ q \notin pending'
    BY <1>1, <1>2, <1>7, <1>8 DEF UiTyped, DataTyped
  <2>2. \A q \in Peers : FitsState(view'[q])
    BY <1>9 DEF UiTyped, DataTyped, FitsState
  <2> QED
    BY <1>1, <1>2, <1>7, <1>8, <1>10, <2>1, <2>2 DEF UiTyped, DataTyped
<1>12. ListTyped'
  BY <1>1, <1>2, RestTyped
<1> QED
  BY <1>1, <1>2, <1>3, <1>7, <1>9, <1>11, <1>12 DEF p, longer

\* The connection a contact is shown in.
Changed(r, e) ==
  LET connected == e.state = "Connected"
  IN [r EXCEPT !.state = e.state,
               !.path  = IF connected THEN e.path ELSE "Unknown",
               !.since = IF ~connected THEN NoTime
                         ELSE IF e.since = NoTime THEN @ ELSE e.since]

LEMMA ChangedFields ==
  ASSUME NEW r \in ViewRecord, NEW e \in EventRecord, FitsState(e)
  PROVE  /\ Changed(r, e) \in ViewRecord /\ FitsState(Changed(r, e))
         /\ Changed(r, e).state = e.state /\ Changed(r, e).path = e.path
         /\ Changed(r, e).since = e.since
<1>1. /\ e.state \in ConnStates /\ e.path \in AnyPath /\ e.since \in 0..MaxConnects
      /\ e.state = "Connected" <=> e.since # NoTime
      /\ e.state # "Connected" => e.path = "Unknown"
  BY DEF EventRecord, FitsState
<1>2. "Unknown" \in AnyPath /\ NoTime \in 0..MaxConnects /\ NoTime = 0
  BY TransportAssumption DEF AnyPath, NoTime
<1> DEFINE r2 == [r EXCEPT !.state = e.state, !.path = e.path, !.since = e.since]
<1>3. Changed(r, e) = r2
  BY <1>1 DEF Changed, ViewRecord
<1>4. /\ r2 \in ViewRecord /\ r2.state = e.state /\ r2.path = e.path /\ r2.since = e.since
  BY <1>1 DEF ViewRecord
<1> HIDE DEF r2
<1> QED
  BY <1>1, <1>3, <1>4 DEF FitsState

LEMMA ConnectionKeeps ==
  ASSUME UiTyped, NEW c, ConnectionCommand(c), c.peer \in Peers,
         c.event \in EventRecord, FitsState(c.event)
  PROVE  /\ UNCHANGED <<focus, mode, tab>> /\ ListTyped' /\ DataTyped'
         /\ contacts' = contacts /\ chats' = chats
         /\ view'[c.peer].state = c.event.state
         /\ view'[c.peer].path = c.event.path
         /\ view'[c.peer].since = c.event.since
         /\ \A q \in Peers : q # c.peer => view'[q] = view[q]
<1> DEFINE p == c.peer
<1>1. /\ p \in Peers /\ p \in Range(contacts)
      /\ view' = [view EXCEPT ![p] = Changed(view[p], c.event)]
      /\ UNCHANGED <<navVars, contacts, chats, scroll, textVars>>
  BY Zenon DEF ConnectionCommand, Listed, Changed
<1>2. UNCHANGED <<focus, mode, tab, index, drafts, pending>>
  BY <1>1 DEF navVars, textVars
<1>3. view \in [Peers -> ViewRecord] /\ view[p] \in ViewRecord
  BY <1>1 DEF UiTyped, DataTyped
<1> HIDE DEF p
<1>4. /\ view' \in [Peers -> ViewRecord]
      /\ view'[p] = Changed(view[p], c.event)
      /\ \A q \in Peers : q # p => view'[q] = view[q]
  BY <1>1, <1>3, ChangedFields
<1>5. /\ view'[p].state = c.event.state /\ view'[p].path = c.event.path
      /\ view'[p].since = c.event.since
  BY <1>3, <1>4, ChangedFields
<1>6. DataTyped'
  <2>1. \A q \in Peers : FitsState(view'[q])
    BY <1>3, <1>4, ChangedFields DEF UiTyped, DataTyped
  <2>2. \A q \in Peers \ Range(contacts') :
          view'[q] = NoView /\ chats'[q] = <<>> /\ drafts'[q] = 0 /\ q \notin pending'
    BY <1>1, <1>2, <1>4 DEF UiTyped, DataTyped
  <2> QED
    BY <1>1, <1>2, <1>4, <2>1, <2>2 DEF UiTyped, DataTyped
<1>7. ListTyped'
  BY <1>1, <1>2, RestTyped
<1> QED
  BY <1>1, <1>2, <1>4, <1>5, <1>6, <1>7 DEF p

\* Commands that leave what is listed, shown and written alone.
LEMMA OtherCommandKeeps ==
  ASSUME UiTyped, NEW c, ContactAlreadyExists(c) \/ RejectedCommand(c) \/ StaleCommand(c)
  PROVE  /\ NavTyped' <=> running' \in BOOLEAN
         /\ ListTyped' /\ DataTyped'
         /\ UNCHANGED <<contacts, chats, view>>
<1>1. UNCHANGED dataVars
  BY DEF ContactAlreadyExists, RejectedCommand, StaleCommand
<1>2. UNCHANGED <<contacts, view, chats, scroll>>
  BY <1>1 DEF dataVars
<1>3. DataTyped'
  <2>1. CASE UNCHANGED textVars
    BY <1>1, <2>1, RestTyped
  <2>2. CASE RejectedCommand(c)
    <3>1. drafts' = drafts /\ pending' = pending \ {c.peer}
      BY <2>2 DEF RejectedCommand
    <3> QED
      BY <1>2, <3>1 DEF UiTyped, DataTyped
  <2> QED
    BY <2>1, <2>2 DEF ContactAlreadyExists, StaleCommand
<1>4. ListTyped' /\ (NavTyped' <=> running' \in BOOLEAN)
  <2>1. CASE UNCHANGED navVars
    <3>1. UNCHANGED <<focus, mode, tab, index>>
      BY <2>1 DEF navVars
    <3> QED
      BY <1>2, <3>1, RestTyped DEF UiTyped, NavTyped
  <2>2. CASE ContactAlreadyExists(c)
    <3>1. contacts \in Seq(Peers) /\ index \in 0..Len(contacts)
      BY DEF UiTyped, ListTyped
    <3>2. index' \in 0..Len(contacts)
      BY <2>2, <3>1, SelectBound DEF ContactAlreadyExists
    <3>3. tab' = "Contacts" /\ UNCHANGED <<focus, mode>>
      BY <2>2 DEF ContactAlreadyExists
    <3> QED
      BY <1>2, <3>2, <3>3 DEF UiTyped, ListTyped, NavTyped
  <2> QED
    BY <2>1, <2>2 DEF RejectedCommand, StaleCommand
<1> QED
  BY <1>2, <1>3, <1>4

\* The next command is applied.  A contact it adds is not listed yet.
LEMMA ApplyKeeps ==
  ASSUME UiTyped, ApplyCommand,
         Head(commands).kind = "ContactAdded" => Head(commands).peer \notin Range(contacts)
  PROVE  UiTyped'
<1> DEFINE c == Head(commands)
<1>1. /\ running /\ commands # <<>> /\ commands' = Tail(commands)
      /\ UNCHANGED <<running, overlay, effects>>
  BY DEF ApplyCommand
<1>2. c \in CommandRecord /\ Tail(commands) \in Seq(CommandRecord)
  BY <1>1, HeadTyped
<1>3. \/ ContactAdded(c) \/ ContactAlreadyExists(c) \/ ContactRemoved(c)
      \/ QueuedCommand(c) \/ SettledCommand(c) \/ RejectedCommand(c)
      \/ IncomingCommand(c) \/ ConnectionCommand(c) \/ StaleCommand(c)
  BY Zenon DEF ApplyCommand
<1>4. c.kind = "ContactAdded" => c.peer \notin Range(contacts)
  OBVIOUS
<1> HIDE DEF c
<1>5. QueuesTyped' /\ OverlayTyped' /\ EndedEmpty'
  BY <1>1, <1>2, RestTyped DEF UiTyped, QueuesTyped, EndedEmpty
<1>6. running' \in BOOLEAN /\ (UNCHANGED <<focus, mode, tab>> => NavTyped')
  BY <1>1 DEF UiTyped, NavTyped
<1>7. CASE ContactAdded(c)
  <2>1. c.kind = "ContactAdded" /\ c.peer \in Peers \ Range(contacts)
    BY <1>2, <1>4, <1>7, CommandFields DEF ContactAdded
  <2> QED
    BY <1>5, <1>6, <1>7, <2>1, AddedKeeps DEF UiTyped
<1>8. CASE ContactAlreadyExists(c) \/ RejectedCommand(c) \/ StaleCommand(c)
  BY <1>5, <1>6, <1>8, OtherCommandKeeps DEF UiTyped
<1>9. CASE ContactRemoved(c)
  <2>1. c.peer \in Peers
    BY <1>2, <1>9, CommandFields DEF ContactRemoved
  <2> QED
    BY <1>5, <1>6, <1>9, <2>1, RemovedKeeps DEF UiTyped
<1>10. CASE QueuedCommand(c)
  <2>1. c.peer \in Peers /\ c.id \in Outbound
    BY <1>2, <1>10, CommandFields DEF QueuedCommand
  <2> QED
    BY <1>5, <1>6, <1>10, <2>1, QueuedKeeps DEF UiTyped
<1>11. CASE SettledCommand(c)
  <2>1. c.outcome \in Outcomes
    BY <1>2, <1>11, CommandFields DEF SettledCommand
  <2> QED
    BY <1>5, <1>6, <1>11, <2>1, SettledKeeps DEF UiTyped
<1>12. CASE IncomingCommand(c)
  <2>1. c.id \in AnyId
    BY <1>2, <1>12, CommandFields DEF IncomingCommand
  <2> QED
    BY <1>5, <1>6, <1>12, <2>1, IncomingMessageKeeps DEF UiTyped
<1>13. CASE ConnectionCommand(c)
  <2>1. c.peer \in Peers /\ c.event \in EventRecord /\ FitsState(c.event)
    BY <1>2, <1>13, CommandFields DEF ConnectionCommand
  <2> QED
    BY <1>5, <1>6, <1>13, <2>1, ConnectionKeeps DEF UiTyped
<1> QED
  BY <1>3, <1>7, <1>8, <1>9, <1>10, <1>11, <1>12, <1>13

\* What is kept well formed is what the runs check.
LEMMA UiTypedOK == UiTyped => UiTypeOK
<1> SUFFICES ASSUME UiTyped PROVE UiTypeOK
  OBVIOUS
<1>1. OverlayOK
  <2>1. CASE overlay \in {NoOverlay, FirstRun} \/ \E entry \in Peers \cup {OwnId, Garbled} : overlay = AddDialog(entry)
    BY <2>1 DEF OverlayOK
  <2>2. CASE /\ overlay.kind = "Context"
             /\ overlay.actions \in Seq(MenuRecord)
             /\ overlay.selected \in 0..Len(overlay.actions) - 1
    <3>1. overlay.selected + 1 \in DOMAIN overlay.actions
      BY <2>2
    <3> QED
      BY <2>2, <3>1 DEF OverlayOK
  <2>3. CASE \E m \in MenuRecord, yes \in BOOLEAN :
               overlay = Confirm(m, yes) /\ m.do \in {"RemoveContact", "ClearChat"}
    <3>1. PICK m \in MenuRecord, yes \in BOOLEAN :
            overlay = Confirm(m, yes) /\ m.do \in {"RemoveContact", "ClearChat"}
      BY <2>3
    <3>2. m.peer \in Peers
      BY <3>1 DEF MenuRecord
    <3>3. overlay.kind = "Confirm" /\ overlay.action = m
      BY <3>1 DEF Confirm
    <3> QED
      BY <3>1, <3>2, <3>3 DEF OverlayOK
  <2> QED
    BY <2>1, <2>2, <2>3 DEF UiTyped, OverlayTyped
<1>2. /\ focus \in DOMAIN NextPanel
      /\ mode \in {"Normal", "Insert"} /\ (mode = "Insert" => focus = "Chat")
      /\ tab \in {"Contacts", "Relays"}
  BY DEF UiTyped, NavTyped, NextPanel
<1>3. \A p \in Peers :
       /\ drafts[p] \in Texts
       /\ scroll[p] = 0 \/ scroll[p] < Len(chats[p])
       /\ view[p].state \in ConnStates /\ view[p].path \in Paths \cup {"Unknown"}
       /\ view[p].state # "Connected" => view[p].since = NoTime /\ view[p].path = "Unknown"
       /\ ~Listed(p) => view[p] = NoView /\ chats[p] = <<>> /\ drafts[p] = 0 /\ p \notin pending
  BY DEF UiTyped, DataTyped, ViewRecord, FitsState, Listed, AnyPath
<1> QED
  BY <1>1, <1>2, <1>3 DEF UiTyped, ListTyped, QueuesTyped, UiTypeOK

=============================================================================
