------------------------------- MODULE Domain -------------------------------
(***************************************************************************)
(* The words the interface, the runtime and the transport share: peers,    *)
(* the connection state of a contact, the kind of path a connection takes, *)
(* and how a delivery ends (domain/connection.rs, domain/identity.rs,      *)
(* tui/model.rs).                                                          *)
(***************************************************************************)
EXTENDS Integers, FiniteSets

CONSTANTS
  Peers,   \* ids of other users, numbered in the order of their ids
  Paths    \* kinds of path a connection can be seen to take

NoPeer == 0

ASSUME PeersAssumption ==
  /\ Peers \subseteq Nat \ {NoPeer}
  /\ IsFiniteSet(Peers)
  /\ Paths \subseteq {"DirectIp", "Relay", "Custom", "Unknown"}

ConnStates == {"Connecting", "Connected", "NotConnected"}

\* How DeliveryState can settle.
Outcomes == {"Delivered", "Rejected", "TimedOut", "Failed"}

\* connected_since: a connection is numbered when it is made, 0 is None.
NoTime == 0

\* A set of numbers in ascending order: the only such sequence, in a set.
Ascending(S) ==
  {s \in [1..Cardinality(S) -> S] : \A i, j \in DOMAIN s : i < j => s[i] < s[j]}

\* PeerConnectionEvent.
ConnEvent(p, s, w, t) == [peer |-> p, state |-> s, path |-> w, since |-> t]
=============================================================================
