-------------------------- MODULE DeliveryContract --------------------------
(***************************************************************************)
(* What the chat client may rely on when send_text hands it a              *)
(* DeliveryHandle, without saying how a session delivers: a message that   *)
(* was admitted gets one answer and keeps it, the peer's answers come in   *)
(* the order of admission except for messages whose deadline has passed,   *)
(* TimedOut is never early, and once the session has ended only messages   *)
(* past their deadline are still without an answer.                        *)
(***************************************************************************)
EXTENDS Integers

CONSTANT MaxMessages

VARIABLES
  sent,      \* messages 1 .. sent have been admitted
  expired,   \* of those, the deadline of 1 .. expired has passed
  outcome,   \* the answer of each message, or "none"
  open       \* the session has not ended

vars == <<sent, expired, outcome, open>>

Messages == 1 .. MaxMessages
Pending  == {m \in 1 .. sent : outcome[m] = "none"}
Late     == 1 .. expired

\* Nothing admitted earlier can still be delivered.
Turn(m) == \A k \in 1 .. m - 1 : k \in Pending => k \in Late

Init ==
  /\ sent = 0
  /\ expired = 0
  /\ outcome = [m \in Messages |-> "none"]
  /\ open = TRUE

Admit ==
  /\ open
  /\ sent < MaxMessages
  /\ sent' = sent + 1
  /\ UNCHANGED <<expired, outcome, open>>

DeadlinePasses ==
  /\ expired < sent
  /\ expired' = expired + 1
  /\ UNCHANGED <<sent, outcome, open>>

\* The outcome of an attempt, or the reason there will be none.
Attempt(m) ==
  /\ m \in Pending
  /\ Turn(m)
  /\ \E r \in {"Accepted", "Rejected", "Transport", "NotAContact",
               "PeerNotConnected"} :
       outcome' = [outcome EXCEPT ![m] = r]
  /\ UNCHANGED <<sent, expired, open>>

TimeOut(m) ==
  /\ m \in Pending \cap Late
  /\ outcome' = [outcome EXCEPT ![m] = "TimedOut"]
  /\ UNCHANGED <<sent, expired, open>>

\* The end of the session answers everything that is not about to time out.
End ==
  /\ open
  /\ open' = FALSE
  /\ \E r \in {"NotAContact", "ShutDown"}, S \in SUBSET Pending :
       /\ Pending \ S \subseteq Late
       /\ outcome' = [m \in Messages |-> IF m \in S THEN r ELSE outcome[m]]
  /\ UNCHANGED <<sent, expired>>

Next ==
  \/ Admit
  \/ DeadlinePasses
  \/ \E m \in Messages : Attempt(m) \/ TimeOut(m)
  \/ End

Spec == Init /\ [][Next]_vars

=============================================================================
