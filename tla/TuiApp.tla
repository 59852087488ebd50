------------------------------- MODULE TuiApp -------------------------------
(***************************************************************************)
(* The terminal interface: the state TuiApp keeps, what a key or a paste   *)
(* does to it, and what a command of the chat runtime does to it           *)
(* (tui/app.rs, tui/input.rs, tui/mod.rs).  The interface talks to the     *)
(* runtime through two channels only: effects, bounded and written with    *)
(* try_send, and commands, unbounded.                                      *)
(*                                                                         *)
(* A text is a number, 0 the empty one; what one edit makes of it is       *)
(* ChatPanel's subject, and an edit here may make any text of any other.   *)
(* The status line, the blinking cursor and the connecting animation are   *)
(* written and shown but steer nothing, and are left out; so are the       *)
(* relays: TuiData::from_contacts lists none and nothing adds one.         *)
(***************************************************************************)
EXTENDS Domain, SequencesExt

CONSTANTS
  Keys,            \* keys the user presses
  Texts,           \* texts a draft can hold
  EffectCapacity   \* capacity of the effect channel

OwnId   == -1      \* the user's own id, typed into the add-contact dialog
Garbled == -2      \* anything typed there that is not an id

ASSUME TuiAssumption ==
  /\ Texts \subseteq Nat
  /\ 0 \in Texts
  /\ EffectCapacity \in Nat \ {0}

VARIABLES
  running,   \* ~ should_quit
  focus, mode, tab,
  index,     \* sidebar.contact_index
  overlay,
  contacts,  \* data.contacts, in the order shown
  view,      \* the other fields of ContactView, by peer
  chats, drafts, scroll,
  pending,   \* chat.pending_send
  effects, commands

navVars  == <<focus, mode, tab, index>>
textVars == <<drafts, pending>>
dataVars == <<contacts, view, chats, scroll>>
uiVars   == <<running, navVars, overlay, dataVars, textVars>>

-----------------------------------------------------------------------------
(* Values.                                                                 *)

NoView == [unread |-> 0, state |-> "NotConnected", path |-> "Unknown", since |-> NoTime]

\* A contact is listed as Connecting, at startup and when it is added.
NewView == [NoView EXCEPT !.state = "Connecting"]

NoOverlay == [kind |-> "None"]
FirstRun  == [kind |-> "FirstRunIdentity"]
AddDialog(entry) == [kind |-> "AddContact", entry |-> entry]
MenuAction(do, p) == [do |-> do, peer |-> p]
Menu(actions, i)  == [kind |-> "Context", actions |-> actions, selected |-> i]
Confirm(a, yes)   == [kind |-> "Confirm", action |-> a, yes |-> yes]

Effect(do, p, t)  == [do |-> do, peer |-> p, body |-> t]

\* Commands of the runtime; ShowStatus only writes the status line.
Command(kind, p)           == [kind |-> kind, peer |-> p]
OutgoingQueued(p, id, t)   == [kind |-> "OutgoingQueued", peer |-> p, id |-> id, body |-> t]
OutgoingSettled(p, id, o)  == [kind |-> "OutgoingSettled", peer |-> p, id |-> id, outcome |-> o]
IncomingMessage(p, id)     == [kind |-> "IncomingMessage", peer |-> p, id |-> id]
ConnectionChanged(e)       == [kind |-> "PeerConnectionStateChanged", peer |-> e.peer, event |-> e]

Message(id, from, delivery) == [id |-> id, from |-> from, delivery |-> delivery]

-----------------------------------------------------------------------------
(* The selection.                                                          *)

Listed(p) == p \in Range(contacts)

Clamp(i, n) == IF i < n THEN i ELSE IF n = 0 THEN 0 ELSE n - 1

\* active_contact: the index may lag behind a shorter list, so it is clamped.
Active == IF contacts = <<>> THEN NoPeer
          ELSE contacts[Clamp(index, Len(contacts)) + 1]

MoveIndex(i, d, n) ==
  IF n = 0 \/ i + d < 0 THEN 0 ELSE Clamp(i + d, n)

Position(s, p) == CHOOSE i \in DOMAIN s : s[i] = p

-----------------------------------------------------------------------------
(* Keys.  A key means what the context makes of it.                        *)

Act(do)     == [do |-> do, delta |-> 0]
Move(d)     == [do |-> "Navigate", delta |-> d]
Turn(d)     == [do |-> "Page", delta |-> d]
Down        == {"j", "Down"}
Up          == {"k", "Up"}
Letters     == {"1", "2", "h", "i", "j", "k", "l", "q", "x"}

\* overlay_action: keys of a menu, a question or the first-run notice.
OverlayAction(k) ==
  CASE k \in Down \cup {"l", "Right"} -> Move(1)
    [] k \in Up \cup {"h", "Left"}    -> Move(-1)
    [] k = "Enter"                    -> Act("Activate")
    [] k = "Esc"                      -> Act("CloseOverlay")
    [] OTHER                          -> Act("Noop")

\* Keys that edit a text; moving the cursor changes no text.
EditAction(k) ==
  CASE k \in Letters               -> Act("InsertChar")
    [] k \in {"Backspace", "Delete"} -> Act(k)
    [] OTHER                         -> Act("Noop")

\* overlay_text_action: the add-contact dialog.
DialogAction(k) ==
  CASE k = "Esc"   -> Act("CloseOverlay")
    [] k = "Enter" -> Act("Activate")
    [] OTHER       -> EditAction(k)

\* insert_action: typing a message.
InsertAction(k) ==
  CASE k = "Esc"   -> Act("ExitInsert")
    [] k = "Enter" -> Act("SubmitDraft")
    [] OTHER       -> EditAction(k)

\* normal_action, by panel.
NormalAction(k) ==
  CASE k = "q"   -> Act("Quit")
    [] k = "x"   -> Act("OpenContextMenu")
    [] k = "Esc" -> Act("FocusList")
    [] k \in Down -> Move(1)
    [] k \in Up   -> Move(-1)
    [] focus = "List" /\ k \in {"h", "Left"}        -> Act("SelectContacts")
    [] focus = "List" /\ k \in {"l", "Right"}       -> Act("SelectRelays")
    [] focus = "Chat" /\ k \in {"i", "Enter"}       -> Act("EnterInsert")
    [] focus \in {"Chat", "Details"} /\ k = "PageDown" -> Turn(1)
    [] focus \in {"Chat", "Details"} /\ k = "PageUp"   -> Turn(-1)
    [] OTHER -> Act("Noop")

\* action_for_key, in the order its context is asked for.
ActionForKey(k) ==
  IF k = "Ctrl-C" THEN Act("Quit")
  ELSE IF overlay.kind = "AddContact" THEN DialogAction(k)
  ELSE IF overlay # NoOverlay THEN OverlayAction(k)
  ELSE IF k = "Tab" THEN Act("FocusNext")
  ELSE IF k = "BackTab" THEN Act("FocusPrevious")
  ELSE IF focus = "Chat" /\ mode = "Insert" THEN InsertAction(k)
  ELSE IF k = "1" THEN Act("SelectContacts")
  ELSE IF k = "2" THEN Act("SelectRelays")
  ELSE NormalAction(k)

-----------------------------------------------------------------------------
(* Effects.  An action of the user asks for at most one, and run_loop      *)
(* hands it on at once; dispatch_effect drops it when the channel is full. *)

Request(e) ==
  effects' = IF Len(effects) < EffectCapacity THEN Append(effects, e) ELSE effects

NoRequest == UNCHANGED effects

-----------------------------------------------------------------------------
(* Actions of the user while nothing covers the panels.                    *)

NextPanel     == [List |-> "Chat", Chat |-> "Details", Details |-> "List"]
PreviousPanel == [List |-> "Details", Chat |-> "List", Details |-> "Chat"]

\* Mutant: insert mode survives a change of focus.
SetFocusKeepingMode(panel) ==
  /\ focus' = panel
  /\ UNCHANGED <<running, mode, tab, index, overlay, dataVars, textVars, effects>>

\* set_focus: only the chat panel keeps insert mode.
SetFocus(panel) ==
  /\ focus' = panel
  /\ mode' = IF panel = "Chat" THEN mode ELSE "Normal"
  /\ UNCHANGED <<running, tab, index, overlay, dataVars, textVars, effects>>

Focus(a) ==
  \/ a.do = "FocusNext" /\ SetFocus(NextPanel[focus])
  \/ a.do = "FocusPrevious" /\ SetFocus(PreviousPanel[focus])
  \/ a.do = "FocusList" /\ SetFocus("List")

SelectTab(a) ==
  /\ \/ a.do = "SelectContacts" /\ tab' = "Contacts"
     \/ a.do = "SelectRelays" /\ tab' = "Relays"
  /\ UNCHANGED <<running, focus, mode, index, overlay, dataVars, textVars, effects>>

\* navigate: choosing a contact in the list reads its messages; in the chat
\* panel it scrolls, against the direction of the key.
NavigateBy(d) ==
  /\ \/ /\ focus = "List"
        /\ tab = "Contacts"
        /\ contacts # <<>>
        /\ LET n == Len(contacts)
               i == MoveIndex(Clamp(index, n), d, n)
           IN /\ index' = i
              /\ view' = [view EXCEPT ![contacts[i + 1]].unread = 0]
        /\ UNCHANGED scroll
     \/ /\ focus = "Chat"
        /\ Active # NoPeer
        /\ scroll' = [scroll EXCEPT ![Active] = MoveIndex(@, -d, Len(chats[Active]))]
        /\ UNCHANGED <<index, view>>
  /\ UNCHANGED <<running, focus, mode, tab, overlay, contacts, chats, textVars, effects>>

Navigate(a) ==
  \/ a.do = "Navigate" /\ NavigateBy(a.delta)
  \/ a.do = "Page" /\ focus # "List" /\ NavigateBy(5 * a.delta)

\* menu_action_enabled: a contact that is being connected can be neither
\* removed nor cleared.
MenuEnabled(m) ==
  m.do \in {"RemoveContact", "ClearChat"} =>
    Listed(m.peer) /\ view[m.peer].state # "Connecting"

\* open_context_menu: a disabled entry is shown too.  The relays tab has no
\* menu, its list being empty.
ContextActions ==
  IF focus = "Chat" THEN <<MenuAction("ClearChat", Active)>>
  ELSE <<MenuAction("CopyOwnId", NoPeer), MenuAction("AddContact", NoPeer)>>
         \o IF Active = NoPeer THEN <<>> ELSE <<MenuAction("RemoveContact", Active)>>

OpenContextMenu(a) ==
  /\ a.do = "OpenContextMenu"
  /\ IF focus = "Chat" THEN Active # NoPeer ELSE tab = "Contacts"
  /\ overlay' = Menu(ContextActions, 0)
  /\ UNCHANGED <<running, navVars, dataVars, textVars, effects>>

Insert(a) ==
  /\ \/ a.do = "EnterInsert" /\ Active # NoPeer /\ mode' = "Insert"
     \/ a.do = "ExitInsert" /\ mode' = "Normal"
  /\ UNCHANGED <<running, focus, tab, index, overlay, dataVars, textVars, effects>>

\* What an edit can make of a text.
Edited(a, t) ==
  CASE a.do = "InsertChar" -> Texts \ {0}
    [] a.do = "Paste"      -> Texts
    [] a.do \in {"Backspace", "Delete"} -> IF t = 0 THEN {0} ELSE Texts

EditDraft(a) ==
  /\ a.do \in {"InsertChar", "Paste", "Backspace", "Delete"}
  /\ mode = "Insert"
  /\ Active # NoPeer
  /\ \E t \in Edited(a, drafts[Active]) : drafts' = [drafts EXCEPT ![Active] = t]
  /\ UNCHANGED <<running, navVars, overlay, dataVars, pending, effects>>

\* submit_draft: one message at a time is on its way to the runtime.
SubmitDraft(a) ==
  /\ a.do = "SubmitDraft"
  /\ Active # NoPeer
  /\ Active \notin pending
  /\ drafts[Active] # 0
  /\ view[Active].state = "Connected"
  /\ pending' = pending \cup {Active}
  /\ Request(Effect("SendText", Active, drafts[Active]))
  /\ UNCHANGED <<running, navVars, overlay, dataVars, drafts>>

-----------------------------------------------------------------------------
(* Actions of the user while an overlay is open (update_overlay).          *)

Close(a) ==
  /\ a.do = "CloseOverlay"
  /\ overlay.kind # "FirstRunIdentity"
  /\ overlay' = NoOverlay
  /\ UNCHANGED <<running, navVars, dataVars, textVars, effects>>

\* The first-run notice closes only by copying the id.
AcceptFirstRun(a) ==
  /\ overlay = FirstRun
  /\ a.do = "Activate"
  /\ overlay' = NoOverlay
  /\ Request(Effect("CopyText", NoPeer, 0))
  /\ UNCHANGED <<running, navVars, dataVars, textVars>>

EditEntry(a) ==
  /\ overlay.kind = "AddContact"
  /\ a.do \in {"InsertChar", "Paste", "Backspace", "Delete"}
  /\ \E entry \in Peers \cup {OwnId, Garbled} : overlay' = AddDialog(entry)
  /\ UNCHANGED <<running, navVars, dataVars, textVars, effects>>

\* submit_add_contact: a known contact is selected, a new one asked for.  A
\* text that is no id leaves the dialog open.
SubmitEntry(a) ==
  /\ overlay.kind = "AddContact"
  /\ a.do = "Activate"
  /\ overlay.entry # Garbled
  /\ overlay' = NoOverlay
  /\ \/ /\ overlay.entry = OwnId
        /\ UNCHANGED <<tab, index, effects>>
     \/ /\ Listed(overlay.entry)
        /\ index' = Position(contacts, overlay.entry) - 1
        /\ tab' = "Contacts"
        /\ NoRequest
     \/ /\ overlay.entry # OwnId
        /\ ~Listed(overlay.entry)
        /\ Request(Effect("PersistContact", overlay.entry, 0))
        /\ UNCHANGED <<tab, index>>
  /\ UNCHANGED <<running, focus, mode, dataVars, textVars>>

MoveSelection(a) ==
  /\ a.do = "Navigate"
  /\ \/ /\ overlay.kind = "Context"
        /\ overlay' = [overlay EXCEPT !.selected = (@ + a.delta) % Len(overlay.actions)]
     \/ /\ overlay.kind = "Confirm"
        /\ overlay' = [overlay EXCEPT !.yes = ~@]
  /\ UNCHANGED <<running, navVars, dataVars, textVars, effects>>

ActivateMenu(a) ==
  /\ overlay.kind = "Context"
  /\ a.do = "Activate"
  /\ LET m == overlay.actions[overlay.selected + 1]
     IN /\ MenuEnabled(m)
        /\ \/ /\ m.do = "CopyOwnId"
              /\ overlay' = NoOverlay
              /\ Request(Effect("CopyText", NoPeer, 0))
           \/ /\ m.do = "AddContact"
              /\ overlay' = AddDialog(Garbled)
              /\ NoRequest
           \/ /\ m.do \in {"RemoveContact", "ClearChat"}
              /\ overlay' = Confirm(m, FALSE)
              /\ NoRequest
  /\ UNCHANGED <<running, navVars, dataVars, textVars>>

\* The ClearChat command, and why the check is made again when the question
\* is answered: the contact may have been added anew meanwhile.
AnswerConfirm(a) ==
  /\ overlay.kind = "Confirm"
  /\ a.do = "Activate"
  /\ overlay' = NoOverlay
  /\ LET m == overlay.action
         agreed == overlay.yes /\ MenuEnabled(m)
     IN \/ /\ agreed
           /\ m.do = "RemoveContact"
           /\ Request(Effect("RemoveContact", m.peer, 0))
           /\ UNCHANGED <<chats, scroll>>
        \/ /\ agreed
           /\ m.do = "ClearChat"
           /\ chats' = [chats EXCEPT ![m.peer] = <<>>]
           /\ scroll' = [scroll EXCEPT ![m.peer] = 0]
           /\ NoRequest
        \/ /\ ~agreed
           /\ UNCHANGED <<chats, scroll, effects>>
  /\ UNCHANGED <<running, navVars, contacts, view, textVars>>

-----------------------------------------------------------------------------
(* update: an open overlay takes every action but Quit.                    *)

\* TuiApp::new over the contacts that were loaded.  The first run of an
\* installation opens with a notice.  Nothing is kept when it is not on.
UiStart(on, list, created) ==
  /\ running' = on
  /\ focus' = "List" /\ mode' = "Normal" /\ tab' = "Contacts" /\ index' = 0
  /\ overlay' = IF created THEN FirstRun ELSE NoOverlay
  /\ contacts' = list
  /\ view' = [p \in Peers |-> IF p \in Range(list) THEN NewView ELSE NoView]
  /\ chats' = [p \in Peers |-> <<>>]
  /\ drafts' = [p \in Peers |-> 0]
  /\ scroll' = [p \in Peers |-> 0]
  /\ pending' = {}
  /\ commands' = <<>>

\* run_loop ends, and with it the interface and the receiver of commands;
\* what was asked of the runtime stays in its channel.
Quit == UiStart(FALSE, <<>>, FALSE) /\ NoRequest

UpdateOverlay(a) ==
  IF overlay = FirstRun THEN AcceptFirstRun(a)
  ELSE \/ Close(a)
       \/ EditEntry(a)
       \/ SubmitEntry(a)
       \/ MoveSelection(a)
       \/ ActivateMenu(a)
       \/ AnswerConfirm(a)

UpdatePanels(a) ==
  \/ Focus(a)
  \/ SelectTab(a)
  \/ Navigate(a)
  \/ OpenContextMenu(a)
  \/ Insert(a)
  \/ EditDraft(a)
  \/ SubmitDraft(a)

Update(a) ==
  /\ running
  /\ IF a.do = "Quit" THEN Quit
     ELSE /\ IF overlay # NoOverlay THEN UpdateOverlay(a) ELSE UpdatePanels(a)
          /\ UNCHANGED commands

\* A turn of run_loop that reads a key or a pasted text.  A key that means
\* nothing in its context changes nothing.
Press(k)  == Update(ActionForKey(k))
PasteText == Update(Act("Paste"))

-----------------------------------------------------------------------------
(* Commands of the runtime (apply_command).                                *)

\* The orders of a sequence that are sorted; what is twice in it stays so.
Sorted(s) ==
  {list \in {[i \in DOMAIN s |-> s[p[i]]] : p \in Bijection(DOMAIN s, DOMAIN s)} :
     \A i, j \in DOMAIN s : i < j => list[i] <= list[j]}

\* select_contact: unread messages of the contact stay counted.
Select(list, p) == index' = IF p \in Range(list) THEN Position(list, p) - 1 ELSE index

\* sort_by after push: the list stays in the order of the ids.
ContactAdded(c) ==
  /\ c.kind = "ContactAdded"
  /\ \E list \in Sorted(Append(contacts, c.peer)) : contacts' = list /\ Select(list, c.peer)
  /\ view' = [view EXCEPT ![c.peer] = NewView]
  /\ tab' = "Contacts"
  /\ UNCHANGED <<focus, mode, chats, scroll, textVars>>

ContactAlreadyExists(c) ==
  /\ c.kind = "ContactAlreadyExists"
  /\ Select(contacts, c.peer)
  /\ tab' = "Contacts"
  /\ UNCHANGED <<focus, mode, dataVars, textVars>>

\* retain: the places whose contact stays, and what is left in their order.
Retained(p) ==
  {[i \in DOMAIN kept |-> contacts[kept[i]]] :
     kept \in Ascending({i \in DOMAIN contacts : contacts[i] # p})}

\* remove_contact_state: everything kept about the contact goes with it.
ContactRemoved(c) ==
  LET p == c.peer
  IN /\ c.kind = "ContactRemoved"
     /\ \E list \in Retained(p) : contacts' = list /\ index' = Clamp(index, Len(list))
     /\ view' = [view EXCEPT ![p] = NoView]
     /\ chats' = [chats EXCEPT ![p] = <<>>]
     /\ drafts' = [drafts EXCEPT ![p] = 0]
     /\ scroll' = [scroll EXCEPT ![p] = 0]
     /\ pending' = pending \ {p}
     /\ UNCHANGED <<focus, mode, tab>>

\* append_outgoing_message: the draft has become the message.
QueuedCommand(c) ==
  /\ c.kind = "OutgoingQueued"
  /\ Listed(c.peer)
  /\ pending' = pending \ {c.peer}
  /\ drafts' = [drafts EXCEPT ![c.peer] = 0]
  /\ chats' = [chats EXCEPT ![c.peer] = Append(@, Message(c.id, "Local", "Pending"))]
  /\ UNCHANGED <<navVars, contacts, view, scroll>>

\* Mutant: only the last message of the chat is looked at.
SettledCommandLast(c) ==
  /\ c.kind = "OutgoingSettled"
  /\ chats' = [chats EXCEPT ![c.peer] = [i \in DOMAIN @ |->
       IF i = Len(@) /\ @[i].id = c.id /\ @[i].from = "Local"
       THEN [@[i] EXCEPT !.delivery = c.outcome] ELSE @[i]]]
  /\ UNCHANGED <<navVars, contacts, view, scroll, textVars>>

\* settle_outgoing_message: a message cleared from the chat is not found.
SettledCommand(c) ==
  /\ c.kind = "OutgoingSettled"
  /\ chats' = [chats EXCEPT ![c.peer] = [i \in DOMAIN @ |->
       IF @[i].id = c.id /\ @[i].from = "Local"
       THEN [@[i] EXCEPT !.delivery = c.outcome] ELSE @[i]]]
  /\ UNCHANGED <<navVars, contacts, view, scroll, textVars>>

\* Mutant: a refused message leaves its mark.
RejectedCommandKeepingPending(c) ==
  /\ c.kind = "SendRejected"
  /\ UNCHANGED <<navVars, dataVars, textVars>>

\* SendRejected gives the draft back: it was never taken away.
RejectedCommand(c) ==
  /\ c.kind = "SendRejected"
  /\ pending' = pending \ {c.peer}
  /\ UNCHANGED <<navVars, dataVars, drafts>>

\* append_incoming_message: unread unless its contact is the active one.
IncomingCommand(c) ==
  /\ c.kind = "IncomingMessage"
  /\ Listed(c.peer)
  /\ chats' = [chats EXCEPT ![c.peer] = Append(@, Message(c.id, "Contact", "None"))]
  /\ view' = IF Active = c.peer THEN view ELSE [view EXCEPT ![c.peer].unread = @ + 1]
  /\ UNCHANGED <<navVars, contacts, scroll, textVars>>

\* Mutant: the start of the connection outlives it.
ConnectionCommandKeepingSince(c) ==
  /\ c.kind = "PeerConnectionStateChanged"
  /\ Listed(c.peer)
  /\ LET e == c.event
     IN view' = [view EXCEPT ![c.peer] =
          [@ EXCEPT !.state = e.state,
                    !.path  = e.path,
                    !.since = IF @ = NoTime THEN e.since ELSE @]]
  /\ UNCHANGED <<navVars, contacts, chats, scroll, textVars>>

\* A connection event: path and start are those of the event while it says
\* Connected, and none otherwise; a start it omits keeps the one shown.
ConnectionCommand(c) ==
  /\ c.kind = "PeerConnectionStateChanged"
  /\ Listed(c.peer)
  /\ LET e == c.event
         connected == e.state = "Connected"
     IN view' = [view EXCEPT ![c.peer] =
          [@ EXCEPT !.state = e.state,
                    !.path  = IF connected THEN e.path ELSE "Unknown",
                    !.since = IF ~connected THEN NoTime
                              ELSE IF e.since = NoTime THEN view[c.peer].since
                              ELSE e.since]]
  /\ UNCHANGED <<navVars, contacts, chats, scroll, textVars>>

\* A command about a contact that is gone.
StaleCommand(c) ==
  /\ c.kind \in {"OutgoingQueued", "IncomingMessage", "PeerConnectionStateChanged"}
  /\ ~Listed(c.peer)
  /\ UNCHANGED <<navVars, dataVars, textVars>>

\* One command of drain_commands; a key may be read between two of them,
\* since the runtime can send one just after the drain.
ApplyCommand ==
  /\ running
  /\ commands # <<>>
  /\ commands' = Tail(commands)
  /\ LET c == Head(commands)
     IN \/ ContactAdded(c)
        \/ ContactAlreadyExists(c)
        \/ ContactRemoved(c)
        \/ QueuedCommand(c)
        \/ SettledCommand(c)
        \/ RejectedCommand(c)
        \/ IncomingCommand(c)
        \/ ConnectionCommand(c)
        \/ StaleCommand(c)
  /\ UNCHANGED <<running, overlay, effects>>

-----------------------------------------------------------------------------
(* The program without an interface.                                       *)

UiOff ==
  /\ running = FALSE
  /\ focus = "List" /\ mode = "Normal" /\ tab = "Contacts" /\ index = 0
  /\ overlay = NoOverlay
  /\ contacts = <<>>
  /\ view = [p \in Peers |-> NoView]
  /\ chats = [p \in Peers |-> <<>>]
  /\ drafts = [p \in Peers |-> 0]
  /\ scroll = [p \in Peers |-> 0]
  /\ pending = {}
  /\ effects = <<>>
  /\ commands = <<>>

-----------------------------------------------------------------------------
(* Properties.                                                             *)

OverlayOK ==
  \/ overlay \in {NoOverlay, FirstRun}
  \/ \E entry \in Peers \cup {OwnId, Garbled} : overlay = AddDialog(entry)
  \/ /\ overlay.kind = "Context"
     /\ overlay.selected + 1 \in DOMAIN overlay.actions
  \/ /\ overlay.kind = "Confirm"
     /\ overlay.action.do \in {"RemoveContact", "ClearChat"}
     /\ overlay.action.peer \in Peers

\* The interface is well formed: no contact is listed twice, the selection
\* and every scroll offset point into what they index, insert mode belongs
\* to the chat panel, and nothing is kept about a peer that is not listed.
UiTypeOK ==
  /\ focus \in DOMAIN NextPanel
  /\ mode \in {"Normal", "Insert"}
  /\ mode = "Insert" => focus = "Chat"
  /\ tab \in {"Contacts", "Relays"}
  /\ contacts \in Seq(Peers) /\ IsInjective(contacts)
  /\ index \in 0..Len(contacts)
  /\ OverlayOK
  /\ \A p \in Peers :
       /\ drafts[p] \in Texts
       /\ scroll[p] = 0 \/ scroll[p] < Len(chats[p])
       /\ view[p].state \in ConnStates /\ view[p].path \in Paths \cup {"Unknown"}
       /\ view[p].state # "Connected" => view[p].since = NoTime /\ view[p].path = "Unknown"
       /\ ~Listed(p) => view[p] = NoView /\ chats[p] = <<>> /\ drafts[p] = 0 /\ p \notin pending
  /\ Len(effects) <= EffectCapacity
=============================================================================
