----------------------------- MODULE TextBuffer -----------------------------
(***************************************************************************)
(* What a text field promises: characters before and after a cursor.       *)
(* Every edit touches whole characters next to the cursor and nothing      *)
(* else, and moving the cursor changes no text.                            *)
(***************************************************************************)
EXTENDS Integers, Sequences

CONSTANTS Chars, Pastes   \* characters; texts that can be pasted

VARIABLES before, after

Init == before = <<>> /\ after = <<>>

Insert    == \E c \in Chars : before' = Append(before, c) /\ after' = after
Paste     == \E s \in Pastes : before' = before \o s /\ after' = after
Backspace == before # <<>> /\ before' = SubSeq(before, 1, Len(before) - 1) /\ after' = after
Delete    == after # <<>> /\ after' = Tail(after) /\ before' = before
Move      == before' \o after' = before \o after
Clear     == before' = <<>> /\ after' = <<>>

Next == Insert \/ Paste \/ Backspace \/ Delete \/ Move \/ Clear

Spec == Init /\ [][Next]_<<before, after>>
=============================================================================
