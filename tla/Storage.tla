------------------------------ MODULE Storage -------------------------------
(***************************************************************************)
(* What the program keeps on disk: the device key and the contact list     *)
(* (storage/contacts_toml.rs, storage/file.rs, storage/keyring.rs), and    *)
(* how they are read when it starts (application.rs).  The contacts file   *)
(* is replaced by writing a temporary file beside it and renaming that.    *)
(* Only the program writes these files, and only the program dies: a loss  *)
(* of power, which could undo a write that was never synced, is not        *)
(* modelled.                                                               *)
(***************************************************************************)
EXTENDS Domain, SequencesExt

CONSTANT Secrets   \* device keys that can be generated

NoSecret == 0

\* Contents of a file.
NoFile  == [kind |-> "absent"]
Torn    == [kind |-> "torn"]
List(s) == [kind |-> "list", peers |-> s]

ASSUME SecretsAssumption == Secrets \subseteq Nat \ {NoSecret}

VARIABLES
  key,    \* the stored device key
  file,   \* contents of contacts.toml
  temp    \* contents of the temporary file being written

storeVars == <<key, file, temp>>

\* What earlier runs may have left.
StoreInit ==
  /\ key \in Secrets \cup {NoSecret}
  /\ file \in {NoFile} \cup UNION {{List(s) : s \in Ascending(peers)} : peers \in SUBSET Peers}
  /\ temp = NoFile

\* bootstrap_identity: a key is generated and saved only when none is
\* stored.  The caller starts from what is stored after it.
CreateKey ==
  /\ key = NoSecret
  /\ key' \in Secrets
  /\ UNCHANGED <<file, temp>>

\* load: no file is an empty list; a file that does not parse, or names a
\* contact twice, is an error.
Loads(f)  == f # Torn /\ (f # NoFile => IsInjective(f.peers))
Loaded(f) == IF f = NoFile THEN <<>> ELSE f.peers

\* replace, in order: the temporary file is created, written, renamed.
CreateTemp == temp = NoFile /\ temp' = Torn /\ UNCHANGED <<key, file>>

WriteTemp(peers) ==
  /\ temp = Torn
  /\ \E s \in Ascending(peers) : temp' = List(s)
  /\ UNCHANGED <<key, file>>

Persist ==
  /\ temp \notin {NoFile, Torn}
  /\ file' = temp
  /\ temp' = NoFile
  /\ UNCHANGED key

\* An error on the way deletes the temporary file with its handle; a death
\* leaves it under a name of its own, which no later write uses.
DropTemp == temp' = NoFile /\ UNCHANGED <<key, file>>
=============================================================================
