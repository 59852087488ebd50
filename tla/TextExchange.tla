---------------------------- MODULE TextExchange ----------------------------
(***************************************************************************)
(* One text, from end to end: the peer's delivery (run_outbound_stream in  *)
(* network/chat/session.rs), the stream it opens for it, and the handler   *)
(* on this side, which are ChatTransport's.  Each direction of the stream  *)
(* carries one document and its end (network/chat/framing.rs), and neither *)
(* side acts on a document before it has seen the end.                     *)
(*                                                                         *)
(* The peer runs the same program, or one of another version, whose        *)
(* documents decode refuses.  Its deliveries follow each other, as its own *)
(* session makes them, and give up when their time is over.                *)
(***************************************************************************)
EXTENDS ChatTransport

CONSTANT Documents   \* what the peer sends: texts, other documents

ASSUME DocumentsAssumption == Documents \subseteq {"Text", "Other"} /\ Inbound \subseteq Nat

VARIABLE
  exchange   \* by message: the peer's delivery, both directions of the stream

vars == <<transportVars, exchange>>

\* request and reply: what is in each direction, "none", a document whose end
\* is or is not there yet, or "reset".  seen: the stream was accepted here.
\* disturbed: the network, a deadline or a budget interfered.
Unbegun == [peer |-> NoPeer, doc |-> "Text", step |-> "unsent", request |-> "none",
            seen |-> FALSE, reply |-> "none", answer |-> "None", disturbed |-> FALSE]

Active(id) == exchange[id].step \in {"writing", "finishing", "awaiting"}

Connected(p) == {s \in Alive : session[s].peer = p /\ session[s].state = "Connected"}

-----------------------------------------------------------------------------
(* The peer's delivery.                                                    *)

\* run_outbound_stream opens a stream, one delivery at a time.
FarOpen(p, id) ==
  /\ Connected(p) # {}
  /\ exchange[id].step = "unsent"
  /\ \A other \in Inbound : other < id => exchange[other].step # "unsent"
  /\ \A other \in Inbound : exchange[other].peer = p => exchange[other].step = "ended"
  /\ \E doc \in Documents :
       exchange' = [exchange EXCEPT ![id] = [Unbegun EXCEPT !.peer = p, !.doc = doc, !.step = "writing"]]
  /\ UNCHANGED transportVars

\* write_document: the length and the document.
FarWrite(id) ==
  /\ exchange[id].step = "writing"
  /\ exchange[id].request # "reset"
  /\ exchange' = [exchange EXCEPT ![id].request = "whole", ![id].step = "finishing"]
  /\ UNCHANGED transportVars

\* Mutant: the stream is left open for more.
FarFinishNot(id) ==
  /\ exchange[id].step = "finishing"
  /\ exchange[id].request # "reset"
  /\ exchange' = [exchange EXCEPT ![id].step = "awaiting"]
  /\ UNCHANGED transportVars

\* send.finish: there is nothing after the document.
FarFinish(id) ==
  /\ exchange[id].step = "finishing"
  /\ exchange[id].request # "reset"
  /\ exchange' = [exchange EXCEPT ![id].request = "finished", ![id].step = "awaiting"]
  /\ UNCHANGED transportVars

\* The receipt, of validate_receipt.
FarRead(id) ==
  /\ exchange[id].step = "awaiting"
  /\ exchange[id].reply \in {"Accepted", "Rejected"}
  /\ exchange' = [exchange EXCEPT
       ![id].answer = IF exchange[id].reply = "Accepted" THEN "Delivered" ELSE "Rejected",
       ![id].step = "ended"]
  /\ UNCHANGED transportVars

\* A stage fails: the stream was reset or its connection is gone.
FarFails(id) ==
  /\ Active(id)
  /\ exchange[id].reply = "reset"
  /\ exchange' = [exchange EXCEPT ![id].answer = "Failed", ![id].step = "ended", ![id].request = "reset"]
  /\ UNCHANGED transportVars

\* run_stream_stage: the deadline ends any stage.  The reset that follows may
\* overtake a document that was finished.
FarTimesOut(id) ==
  /\ Active(id)
  /\ \E left \in {exchange[id].request, "reset"} :
       /\ exchange[id].request # "finished" => left = "reset"
       /\ exchange' = [exchange EXCEPT ![id].answer = "TimedOut", ![id].step = "ended",
                                       ![id].request = left, ![id].disturbed = TRUE]
  /\ UNCHANGED transportVars

-----------------------------------------------------------------------------
(* This side.                                                              *)

Replied(id, reply) ==
  exchange' = [exchange EXCEPT ![id].reply = IF @ = "reset" THEN @ ELSE reply]

Disturb(id) ==
  exchange' = [exchange EXCEPT ![id].reply = "reset", ![id].disturbed = TRUE]

\* accept_bi, with a permit.
Arrive(h) ==
  /\ OpenStream(h)
  /\ LET id == handler'[h].id
     IN /\ exchange[id].peer = handler'[h].peer
        /\ exchange[id].request # "none" /\ ~exchange[id].seen
        /\ exchange' = [exchange EXCEPT ![id].seen = TRUE]

\* accept_bi, with no permit left: the stream is reset.
Refuse(id) ==
  /\ \A h \in Handlers : handler[h] # NoStream
  /\ Connected(exchange[id].peer) # {}
  /\ exchange[id].request # "none" /\ ~exchange[id].seen
  /\ exchange' = [exchange EXCEPT ![id].seen = TRUE, ![id].reply = "reset", ![id].disturbed = TRUE]
  /\ UNCHANGED transportVars

\* read_single_document: one text and the end of the stream.  A sender that
\* is no contact any more is told so.
Read(h) ==
  LET id == handler[h].id
  IN /\ ReadMessage(h)
     /\ exchange[id].request = "finished"
     /\ exchange[id].doc = "Text"
     /\ IF handler[h].peer \in allowlist THEN UNCHANGED exchange ELSE Replied(id, "Rejected")

\* decode refuses what is not a text of this version; or the peer is gone.
ReadFails(h) ==
  LET id == handler[h].id
  IN /\ handler[h].step = "reading"
     /\ ResetStream(h)
     /\ \/ exchange[id].request = "reset"
        \/ exchange[id].request = "finished" /\ exchange[id].doc = "Other"
     /\ Replied(id, "reset")

\* INBOUND_STREAM_TIMEOUT.
ReadTimesOut(h) ==
  /\ handler[h].step = "reading"
  /\ ResetStream(h)
  /\ Disturb(handler[h].id)

\* incoming_tx is closed: the runtime has ended.
QueueClosed(h) ==
  /\ handler[h].step = "waiting"
  /\ ResetStream(h)
  /\ Disturb(handler[h].id)

\* The receipt, and the end of the stream.
Accept(h) == WriteReceipt(h) /\ Replied(handler[h].id, "Accepted")

\* What the transport does besides; a connection that is lost, or closed with
\* its session, takes its streams along.
Lost(p) == \E s \in Connected(p) : session'[s].state # "Connected"

Besides ==
  /\ Actors \/ Acceptors \/ Calls \/ Client
  /\ exchange' = [id \in Inbound |->
       IF exchange[id].step # "unsent" /\ Lost(exchange[id].peer)
       THEN [exchange[id] EXCEPT !.request = "reset", !.reply = "reset", !.disturbed = TRUE]
       ELSE exchange[id]]

-----------------------------------------------------------------------------

Deliveries(id) == FarWrite(id) \/ FarFinish(id) \/ FarRead(id) \/ FarFails(id)

Handling(h) == Read(h) \/ ReadFails(h) \/ (Enqueue(h) /\ UNCHANGED exchange) \/ Accept(h) \/ QueueClosed(h)

Accepting == (\E h \in Handlers : Arrive(h)) \/ (\E id \in Inbound : Refuse(id))

ExchangeInit == Init /\ exchange = [id \in Inbound |-> Unbegun]

ExchangeNext ==
  \/ \E p \in Peers, id \in Inbound : FarOpen(p, id)
  \/ \E id \in Inbound : Deliveries(id) \/ FarTimesOut(id)
  \/ \E h \in Handlers : Handling(h) \/ ReadTimesOut(h)
  \/ Accepting
  \/ Besides

\* Both ends run what can run, and the runtime takes what is in the queue.
\* No deadline and no failure is needed for anything to end.
ExchangeFairness ==
  /\ \A id \in Inbound : WF_vars(Deliveries(id))
  /\ \A h \in Handlers : WF_vars(Handling(h))
  /\ WF_vars(Accepting)
  /\ WF_vars(Besides /\ Calls)
  /\ \A s \in SessionIds : WF_vars(Besides /\ (BeginDial(s) \/ StopSession(s)))
  /\ \A s \in SessionIds : WF_vars(Besides /\ (DialSucceeds(s) \/ DialFails(s)))
  /\ SF_vars(op = NoOp /\ Receive /\ UNCHANGED exchange)

ExchangeSpec == ExchangeInit /\ [][ExchangeNext]_vars /\ ExchangeFairness

-----------------------------------------------------------------------------
(* Properties.                                                             *)

Told(id, answer) == exchange[id].answer = answer

\* What the sender is told is true: a text it is told was delivered is the
\* runtime's or in its queue, also when the queue was full or the contact was
\* removed meanwhile; one it is told was rejected is not; and texts a peer was
\* told were delivered are taken in the order it sent them, though one given
\* up may still come in later (handle_inbound_stream, run_outbound_stream).
AnswersAreTrue ==
  \A id \in Inbound :
    /\ Told(id, "Delivered") => id \in taken \cup Waiting
    /\ Told(id, "Rejected") => id \notin taken \cup Waiting
    /\ \A later \in Inbound :
         /\ exchange[id].peer = exchange[later].peer /\ id < later
         /\ Told(id, "Delivered") /\ Told(later, "Delivered")
         => /\ later \in taken => id \in taken
            /\ \A i, j \in DOMAIN incoming : incoming[i].id = id /\ incoming[j].id = later => i < j

\* Neither end waits for the other for ever: while nothing interferes, every
\* text is answered, by the runtime's end or the contact's, and what is no
\* text of this version is refused.
AnsweredUnlessDisturbed ==
  \A id \in Inbound :
    Active(id) ~> \/ exchange[id].disturbed
                  \/ exchange[id].doc = "Text" /\ (Told(id, "Delivered") \/ Told(id, "Rejected"))
                  \/ exchange[id].doc = "Other" /\ Told(id, "Failed")

\* A stream gets its answer or is reset: its permit comes back.
StreamsEnd == \A h \in Handlers : (handler[h] # NoStream) ~> (handler[h] = NoStream)

\* A change of the contacts ends, though the queue of received messages may
\* be full and only the task that makes the change empties it.
ChangeEnds == (op.step = "taking") ~> (op = NoOp)
=============================================================================
