------------------------- MODULE TextExchangeProofs -------------------------
(***************************************************************************)
(* What a peer is told of its texts is true, for every number of peers,    *)
(* texts and streams and every size of the queue; and the exchange of      *)
(* texts only takes steps of the transport, whose theorems it inherits.    *)
(***************************************************************************)
EXTENDS TextExchange, TransportProofs

-----------------------------------------------------------------------------
(* The invariant.                                                          *)

ExchangeRecord ==
  [peer : Peers \cup {NoPeer}, doc : {"Text", "Other"},
   step : {"unsent", "writing", "finishing", "awaiting", "ended"},
   request : {"none", "whole", "finished", "reset"}, seen : BOOLEAN,
   reply : {"none", "Accepted", "Rejected", "reset"},
   answer : {"None", "Delivered", "Rejected", "Failed", "TimedOut"}, disturbed : BOOLEAN]

Received == [peer : Peers \cup {NoPeer}, id : Inbound]

ExchangeTyped ==
  /\ exchange \in [Inbound -> ExchangeRecord]
  /\ incoming \in Seq(Received)
  /\ taken \in SUBSET Inbound
  /\ \A h \in Handlers : handler[h].step # "idle" => handler[h].id \in Inbound

Arrived == taken \cup Waiting

Handled(id) == \E h \in Handlers : handler[h].step # "idle" /\ handler[h].id = id

\* A text passes through here once: one stream, then one place in the queue.
Once ==
  /\ \A g, h \in Handlers :
       handler[g].step # "idle" /\ handler[h].step # "idle" /\ handler[g].id = handler[h].id => g = h
  /\ \A h \in Handlers : handler[h].step \in {"reading", "waiting"} => handler[h].id \notin Arrived
  /\ \A h \in Handlers : handler[h].step = "queued" => handler[h].id \in Arrived
  /\ \A i, j \in DOMAIN incoming : incoming[i].id = incoming[j].id => i = j
  /\ Waiting \cap taken = {}

\* Nothing is known of a text before its stream was accepted.
FirstSeen ==
  \A id \in Inbound :
    /\ exchange[id].step = "unsent" => exchange[id] = Unbegun
    /\ Handled(id) \/ id \in Arrived => exchange[id].seen

\* What the stream says, and what the peer understood, is so.
Answered ==
  \A id \in Inbound :
    /\ exchange[id].reply = "Accepted" \/ Told(id, "Delivered") => id \in Arrived
    /\ exchange[id].reply = "Rejected" \/ Told(id, "Rejected") =>
         exchange[id].seen /\ ~Handled(id) /\ id \notin Arrived

\* A peer sends one text after another.
OneByOne ==
  \A id, later \in Inbound : id < later /\ exchange[later].step # "unsent" =>
    /\ exchange[id].step # "unsent"
    /\ exchange[id].peer = exchange[later].peer => exchange[id].step = "ended"

\* What was delivered before is taken before.
InOrder ==
  \A id, later \in Inbound :
    /\ exchange[id].peer = exchange[later].peer /\ id < later /\ Told(id, "Delivered")
    => /\ later \in taken => id \in taken
       /\ \A i, j \in DOMAIN incoming : incoming[i].id = id /\ incoming[j].id = later => i < j

ExchangeInv == Inv /\ ExchangeTyped /\ Once /\ FirstSeen /\ Answered /\ OneByOne /\ InOrder

-----------------------------------------------------------------------------
(* The queue of received messages.                                         *)

LEMMA WaitingIds ==
  ASSUME ExchangeTyped
  PROVE  /\ Waiting \in SUBSET Inbound
         /\ \A i \in DOMAIN incoming : incoming[i].id \in Waiting /\ incoming[i].id \in Inbound
         /\ \A id \in Waiting : \E i \in DOMAIN incoming : incoming[i].id = id
<1>1. \A i \in DOMAIN incoming : incoming[i] \in Received
  BY DEF ExchangeTyped
<1>2. \A i \in DOMAIN incoming : incoming[i].id \in Inbound
  BY <1>1 DEF Received
<1> QED
  BY <1>2, Zenon DEF Waiting

LEMMA Appended ==
  ASSUME ExchangeTyped, NEW e \in Received, incoming' = Append(incoming, e)
  PROVE  /\ incoming' \in Seq(Received)
         /\ Len(incoming') = Len(incoming) + 1
         /\ DOMAIN incoming = 1..Len(incoming) /\ DOMAIN incoming' = 1..Len(incoming')
         /\ Len(incoming) \in Nat
         /\ incoming'[Len(incoming) + 1] = e
         /\ \A i \in DOMAIN incoming : incoming'[i] = incoming[i]
         /\ Waiting' = Waiting \cup {e.id}
<1>1. incoming \in Seq(Received)
  BY DEF ExchangeTyped
<1>2. /\ incoming' \in Seq(Received)
      /\ Len(incoming') = Len(incoming) + 1
      /\ DOMAIN incoming = 1..Len(incoming) /\ DOMAIN incoming' = 1..Len(incoming')
      /\ Len(incoming) \in Nat
      /\ incoming'[Len(incoming) + 1] = e
      /\ \A i \in DOMAIN incoming : incoming'[i] = incoming[i]
  BY <1>1
<1>3. Waiting' = Waiting \cup {e.id}
  <2>1. \A id \in Waiting' : id \in Waiting \cup {e.id}
    BY <1>2 DEF Waiting
  <2>2. \A id \in Waiting : id \in Waiting'
    BY <1>2 DEF Waiting
  <2>3. e.id \in Waiting'
    BY <1>2 DEF Waiting
  <2> QED
    BY <2>1, <2>2, <2>3
<1> QED
  BY <1>2, <1>3

LEMMA Shortened ==
  ASSUME ExchangeTyped, incoming # <<>>, incoming' = Tail(incoming)
  PROVE  /\ incoming' \in Seq(Received)
         /\ Head(incoming) = incoming[1] /\ 1 \in DOMAIN incoming
         /\ \A i \in DOMAIN incoming' : /\ i + 1 \in DOMAIN incoming /\ i \in Nat \ {0}
                                        /\ incoming'[i] = incoming[i + 1]
         /\ \A i \in DOMAIN incoming : i # 1 =>
              i - 1 \in DOMAIN incoming' /\ incoming'[i - 1] = incoming[i]
         /\ Waiting = Waiting' \cup {Head(incoming).id}
<1>1. incoming \in Seq(Received) /\ Len(incoming) \in Nat /\ Len(incoming) # 0
  BY DEF ExchangeTyped
<1>2. /\ incoming' \in Seq(Received)
      /\ Head(incoming) = incoming[1] /\ 1 \in DOMAIN incoming
      /\ \A i \in DOMAIN incoming' : /\ i + 1 \in DOMAIN incoming /\ i \in Nat \ {0}
                                     /\ incoming'[i] = incoming[i + 1]
      /\ \A i \in DOMAIN incoming : i # 1 =>
           i - 1 \in DOMAIN incoming' /\ incoming'[i - 1] = incoming[i]
  BY <1>1
<1>3. Waiting = Waiting' \cup {Head(incoming).id}
  <2>1. \A id \in Waiting : id \in Waiting' \cup {Head(incoming).id}
    <3>1. ASSUME NEW i \in DOMAIN incoming
          PROVE  incoming[i].id \in Waiting' \cup {Head(incoming).id}
      <4>1. CASE i = 1
        BY <1>2, <4>1
      <4>2. CASE i # 1
        BY <1>2, <4>2 DEF Waiting
      <4> QED
        BY <4>1, <4>2
    <3> QED
      BY <3>1, Zenon DEF Waiting
  <2>2. \A id \in Waiting' : id \in Waiting
    <3>1. ASSUME NEW i \in DOMAIN incoming'
          PROVE  incoming'[i].id \in Waiting
      BY <1>2 DEF Waiting
    <3> QED
      BY <3>1, Zenon DEF Waiting
  <2>3. Head(incoming).id \in Waiting
    BY <1>2 DEF Waiting
  <2> QED
    BY <2>1, <2>2, <2>3
<1> QED
  BY <1>2, <1>3

-----------------------------------------------------------------------------
(* What the steps write in the exchange of a text.                         *)

WithSent(r, request, step)        == [r EXCEPT !.request = request, !.step = step]
WithAnswer(r, answer)             == [r EXCEPT !.answer = answer, !.step = "ended"]
WithFailure(r, answer, request, disturbed) ==
  [r EXCEPT !.answer = answer, !.step = "ended", !.request = request, !.disturbed = disturbed]
WithReply(r, reply)               == [r EXCEPT !.reply = reply]
WithReset(r)                      == [r EXCEPT !.reply = "reset", !.disturbed = TRUE]
WithSeen(r)                       == [r EXCEPT !.seen = TRUE]
WithRefusal(r)                    == [r EXCEPT !.seen = TRUE, !.reply = "reset", !.disturbed = TRUE]
WithLoss(r)                       == [r EXCEPT !.request = "reset", !.reply = "reset", !.disturbed = TRUE]

Requests == {"none", "whole", "finished", "reset"}

LEMMA SentFields ==
  ASSUME NEW r \in ExchangeRecord, NEW request \in Requests,
         NEW step \in {"finishing", "awaiting"}
  PROVE  LET q == WithSent(r, request, step)
         IN /\ q \in ExchangeRecord /\ q.step = step
            /\ q.peer = r.peer /\ (q.seen <=> r.seen) /\ q.reply = r.reply /\ q.answer = r.answer
  BY DEF WithSent, ExchangeRecord, Requests

LEMMA AnswerFields ==
  ASSUME NEW r \in ExchangeRecord, NEW answer \in {"Delivered", "Rejected"}
  PROVE  LET q == WithAnswer(r, answer)
         IN /\ q \in ExchangeRecord /\ q.step = "ended" /\ q.answer = answer
            /\ q.peer = r.peer /\ (q.seen <=> r.seen) /\ q.reply = r.reply
  BY DEF WithAnswer, ExchangeRecord

LEMMA FailureFields ==
  ASSUME NEW r \in ExchangeRecord, NEW answer \in {"Failed", "TimedOut"},
         NEW request \in Requests, NEW disturbed \in BOOLEAN
  PROVE  LET q == WithFailure(r, answer, request, disturbed)
         IN /\ q \in ExchangeRecord /\ q.step = "ended" /\ q.answer = answer
            /\ q.peer = r.peer /\ (q.seen <=> r.seen) /\ q.reply = r.reply
  BY DEF WithFailure, ExchangeRecord, Requests

LEMMA ReplyFields ==
  ASSUME NEW r \in ExchangeRecord, NEW reply \in {"Accepted", "Rejected", "reset"}
  PROVE  LET q == WithReply(r, reply)
         IN /\ q \in ExchangeRecord /\ q.reply = reply
            /\ q.peer = r.peer /\ (q.seen <=> r.seen) /\ q.step = r.step /\ q.answer = r.answer
  BY DEF WithReply, ExchangeRecord

LEMMA ResetFields ==
  ASSUME NEW r \in ExchangeRecord
  PROVE  LET q == WithReset(r)
         IN /\ q \in ExchangeRecord /\ q.reply = "reset"
            /\ q.peer = r.peer /\ (q.seen <=> r.seen) /\ q.step = r.step /\ q.answer = r.answer
  BY DEF WithReset, ExchangeRecord

LEMMA SeenFields ==
  ASSUME NEW r \in ExchangeRecord
  PROVE  LET q == WithSeen(r)
         IN /\ q \in ExchangeRecord /\ q.seen
            /\ q.peer = r.peer /\ q.step = r.step /\ q.reply = r.reply /\ q.answer = r.answer
  BY DEF WithSeen, ExchangeRecord

LEMMA RefusalFields ==
  ASSUME NEW r \in ExchangeRecord
  PROVE  LET q == WithRefusal(r)
         IN /\ q \in ExchangeRecord /\ q.seen /\ q.reply = "reset"
            /\ q.peer = r.peer /\ q.step = r.step /\ q.answer = r.answer
  BY DEF WithRefusal, ExchangeRecord

LEMMA LossFields ==
  ASSUME NEW r \in ExchangeRecord
  PROVE  LET q == WithLoss(r)
         IN /\ q \in ExchangeRecord /\ q.reply = "reset"
            /\ q.peer = r.peer /\ (q.seen <=> r.seen) /\ q.step = r.step /\ q.answer = r.answer
  BY DEF WithLoss, ExchangeRecord

LEMMA UnbegunFields ==
  /\ Unbegun \in ExchangeRecord
  /\ Unbegun.peer = NoPeer /\ Unbegun.step = "unsent" /\ Unbegun.request = "none"
  /\ ~Unbegun.seen /\ Unbegun.reply = "none" /\ Unbegun.answer = "None"
  BY DEF Unbegun, ExchangeRecord

-----------------------------------------------------------------------------
(* Every step of the exchange is one of the transport.                     *)

LEMMA ExchangeStepIsTransport ==
  ASSUME ExchangeNext
  PROVE  [Next]_transportVars
<1>1. CASE \E p \in Peers, id \in Inbound : FarOpen(p, id)
  BY <1>1 DEF FarOpen
<1>2. CASE \E id \in Inbound : Deliveries(id) \/ FarTimesOut(id)
  BY <1>2 DEF Deliveries, FarWrite, FarFinish, FarRead, FarFails, FarTimesOut
<1>3. CASE \E h \in Handlers : Handling(h) \/ ReadTimesOut(h)
  <2>1. PICK h \in Handlers : ReadMessage(h) \/ Enqueue(h) \/ WriteReceipt(h) \/ ResetStream(h)
    BY <1>3 DEF Handling, Read, ReadFails, Accept, QueueClosed, ReadTimesOut
  <2> QED
    BY <2>1 DEF Next, TransportStep, Streams
<1>4. CASE Accepting
  <2>1. (\E h \in Handlers : OpenStream(h)) \/ UNCHANGED transportVars
    BY <1>4 DEF Accepting, Arrive, Refuse
  <2> QED
    BY <2>1 DEF Next, TransportStep, Streams
<1>5. CASE Besides
  BY <1>5 DEF Besides, Next, TransportStep
<1> QED
  BY <1>1, <1>2, <1>3, <1>4, <1>5 DEF ExchangeNext

\* The exchange with a peer is the transport doing what it may do: all that
\* is proved of Spec holds while texts are exchanged.
THEOREM ExchangeIsTransport == ExchangeSpec => Spec
<1>1. ExchangeInit => Init
  BY DEF ExchangeInit
<1>2. [ExchangeNext]_vars => [Next]_transportVars
  BY ExchangeStepIsTransport DEF vars
<1> QED
  BY <1>1, <1>2, PTL DEF ExchangeSpec, Spec

-----------------------------------------------------------------------------
(* The steps keep the invariant.                                           *)

HandlersKnown == \A h \in Handlers : handler[h].step # "idle" => handler[h].id \in Inbound

\* What a step may do with a text that was begun.
Goes(id) ==
  /\ exchange'[id].peer = exchange[id].peer
  /\ exchange[id].step = "unsent" => exchange'[id] = exchange[id]
  /\ exchange[id].step # "unsent" => exchange'[id].step # "unsent"
  /\ exchange[id].step = "ended" => exchange'[id].step = "ended"
  /\ exchange[id].seen => exchange'[id].seen
  /\ exchange'[id].answer = "Delivered" => exchange[id].answer = "Delivered" \/ exchange[id].step # "ended"

LEMMA MovesKeep ==
  ASSUME ExchangeInv, Inv', Once', HandlersKnown', UNCHANGED <<incoming, taken>>,
         exchange' \in [Inbound -> ExchangeRecord],
         \A id \in Inbound : Goes(id),
         \A id \in Inbound, h \in Handlers :
           handler'[h].step # "idle" /\ handler'[h].id = id => exchange'[id].seen,
         Answered'
  PROVE  ExchangeInv'
<1>1. ExchangeTyped'
  BY DEF ExchangeInv, ExchangeTyped, HandlersKnown
<1>2. Arrived' = Arrived
  BY DEF Arrived, Waiting
<1>3. FirstSeen'
  BY <1>2 DEF ExchangeInv, FirstSeen, Goes, Handled
<1>4. OneByOne'
  BY DEF ExchangeInv, OneByOne, Goes
<1>5. InOrder'
  <2> SUFFICES ASSUME NEW id \in Inbound, NEW later \in Inbound,
                      exchange'[id].peer = exchange'[later].peer, id < later,
                      exchange'[id].answer = "Delivered"
               PROVE  /\ later \in taken => id \in taken
                      /\ \A i, j \in DOMAIN incoming :
                           incoming[i].id = id /\ incoming[j].id = later => i < j
    BY DEF InOrder, Told
  <2>1. exchange[id].peer = exchange[later].peer
    BY DEF Goes
  <2>2. CASE exchange[id].answer = "Delivered"
    BY <2>1, <2>2 DEF ExchangeInv, InOrder, Told
  <2>3. CASE exchange[id].answer # "Delivered"
    <3>1. exchange[later].step = "unsent"
      BY <2>1, <2>3 DEF ExchangeInv, OneByOne, Goes
    <3>2. ~exchange[later].seen
      BY <3>1, UnbegunFields DEF ExchangeInv, FirstSeen
    <3>3. later \notin Arrived
      BY <3>2 DEF ExchangeInv, FirstSeen
    <3>4. later \notin taken /\ \A j \in DOMAIN incoming : incoming[j].id # later
      BY <3>3, WaitingIds DEF Arrived, ExchangeInv
    <3> QED
      BY <3>4
  <2> QED
    BY <2>2, <2>3
<1> QED
  BY <1>1, <1>3, <1>4, <1>5 DEF ExchangeInv

\* One text that was begun is written, and streams only go.
LEMMA OneWritten ==
  ASSUME ExchangeInv, Inv', Once', HandlersKnown', UNCHANGED <<incoming, taken>>,
         \A x \in Inbound : Handled(x)' => Handled(x),
         NEW id \in Inbound, NEW r \in ExchangeRecord,
         exchange' = [exchange EXCEPT ![id] = r],
         exchange[id].step # "unsent", r.step # "unsent",
         r.peer = exchange[id].peer,
         exchange[id].seen => r.seen,
         exchange[id].step = "ended" => r.step = "ended",
         r.answer = "Delivered" => exchange[id].answer = "Delivered" \/ exchange[id].step # "ended",
         r.reply = "Accepted" \/ r.answer = "Delivered" => id \in Arrived,
         r.reply = "Rejected" \/ r.answer = "Rejected" => r.seen /\ ~Handled(id)' /\ id \notin Arrived
  PROVE  ExchangeInv'
<1>1. /\ exchange' \in [Inbound -> ExchangeRecord]
      /\ exchange'[id] = r
      /\ \A x \in Inbound : x # id => exchange'[x] = exchange[x]
  BY DEF ExchangeInv, ExchangeTyped
<1>2. \A x \in Inbound : Goes(x)
  BY <1>1 DEF Goes
<1>3. \A x \in Inbound, h \in Handlers :
        handler'[h].step # "idle" /\ handler'[h].id = x => exchange'[x].seen
  BY <1>1 DEF Handled, ExchangeInv, FirstSeen
<1>4. Arrived' = Arrived
  BY DEF Arrived, Waiting
<1>5. Answered'
  BY <1>1, <1>4 DEF ExchangeInv, Answered, Told
<1> QED
  BY <1>1, <1>2, <1>3, <1>5, MovesKeep

LEMMA Quiet ==
  ASSUME ExchangeInv, UNCHANGED <<handler, incoming, taken>>
  PROVE  /\ Once' /\ HandlersKnown' /\ Arrived' = Arrived
         /\ \A x \in Inbound : Handled(x)' <=> Handled(x)
  BY DEF ExchangeInv, Once, ExchangeTyped, HandlersKnown, Arrived, Waiting, Handled

\* A stream ends.
LEMMA StreamGone ==
  ASSUME ExchangeInv, NEW h \in Handlers, handler[h].step # "idle",
         handler' = [handler EXCEPT ![h] = NoStream], UNCHANGED <<incoming, taken>>
  PROVE  /\ Once' /\ HandlersKnown'
         /\ \A x \in Inbound : Handled(x)' => Handled(x)
         /\ \A x \in Inbound : x = handler[h].id => ~Handled(x)'
<1>1. handler' \in [Handlers -> HandlerRecord] /\ handler'[h].step = "idle"
  <2>1. handler \in [Handlers -> HandlerRecord]
    BY DEF ExchangeInv, Inv, Typed, HandlersTyped, HandlerRecord
  <2> QED
    BY <2>1, NoStreamRecord DEF NoStream
<1>2. \A g \in Handlers : g # h => handler'[g] = handler[g]
  BY DEF ExchangeInv, Inv, Typed, HandlersTyped
<1>3. Arrived' = Arrived /\ Waiting' = Waiting
  BY DEF Arrived, Waiting
<1>4. Once'
  BY <1>1, <1>2, <1>3 DEF ExchangeInv, Once
<1>5. HandlersKnown'
  BY <1>1, <1>2 DEF ExchangeInv, ExchangeTyped, HandlersKnown
<1>6. \A x \in Inbound : Handled(x)' => Handled(x)
  BY <1>1, <1>2 DEF Handled
<1>7. \A x \in Inbound : x = handler[h].id => ~Handled(x)'
  BY <1>1, <1>2 DEF ExchangeInv, Once, Handled
<1> QED
  BY <1>4, <1>5, <1>6, <1>7

\* The peer's delivery.
LEMMA FarWriteKeeps ==
  ASSUME ExchangeInv, Inv', NEW id \in Inbound, FarWrite(id)
  PROVE  ExchangeInv'
<1> DEFINE r == WithSent(exchange[id], "whole", "finishing")
<1>1. /\ exchange[id] \in ExchangeRecord /\ exchange[id].step = "writing"
      /\ UNCHANGED <<handler, incoming, taken>>
      /\ exchange' = [exchange EXCEPT ![id].request = "whole", ![id].step = "finishing"]
  BY DEF ExchangeInv, ExchangeTyped, FarWrite, transportVars
<1>2. exchange' = [exchange EXCEPT ![id] = r]
  BY <1>1, Zenon DEF WithSent
<1>3. /\ r \in ExchangeRecord /\ r.step = "finishing" /\ r.peer = exchange[id].peer
      /\ (r.seen <=> exchange[id].seen) /\ r.reply = exchange[id].reply
      /\ r.answer = exchange[id].answer
  BY <1>1, SentFields DEF Requests
<1> HIDE DEF r
<1> QED
  BY <1>1, <1>2, <1>3, Quiet, OneWritten DEF ExchangeInv, Answered, Told

LEMMA FarFinishKeeps ==
  ASSUME ExchangeInv, Inv', NEW id \in Inbound, FarFinish(id)
  PROVE  ExchangeInv'
<1> DEFINE r == WithSent(exchange[id], "finished", "awaiting")
<1>1. /\ exchange[id] \in ExchangeRecord /\ exchange[id].step = "finishing"
      /\ UNCHANGED <<handler, incoming, taken>>
      /\ exchange' = [exchange EXCEPT ![id].request = "finished", ![id].step = "awaiting"]
  BY DEF ExchangeInv, ExchangeTyped, FarFinish, transportVars
<1>2. exchange' = [exchange EXCEPT ![id] = r]
  BY <1>1, Zenon DEF WithSent
<1>3. /\ r \in ExchangeRecord /\ r.step = "awaiting" /\ r.peer = exchange[id].peer
      /\ (r.seen <=> exchange[id].seen) /\ r.reply = exchange[id].reply
      /\ r.answer = exchange[id].answer
  BY <1>1, SentFields DEF Requests
<1> HIDE DEF r
<1> QED
  BY <1>1, <1>2, <1>3, Quiet, OneWritten DEF ExchangeInv, Answered, Told

LEMMA FarReadKeeps ==
  ASSUME ExchangeInv, Inv', NEW id \in Inbound, FarRead(id)
  PROVE  ExchangeInv'
<1> DEFINE answer == IF exchange[id].reply = "Accepted" THEN "Delivered" ELSE "Rejected"
           r == WithAnswer(exchange[id], answer)
<1>1. /\ exchange[id] \in ExchangeRecord /\ exchange[id].step = "awaiting"
      /\ exchange[id].reply \in {"Accepted", "Rejected"}
      /\ UNCHANGED <<handler, incoming, taken>>
      /\ exchange' = [exchange EXCEPT ![id].answer = answer, ![id].step = "ended"]
  BY DEF ExchangeInv, ExchangeTyped, FarRead, transportVars
<1>2. exchange' = [exchange EXCEPT ![id] = r]
  BY <1>1, Zenon DEF WithAnswer
<1>3. /\ answer \in {"Delivered", "Rejected"}
      /\ answer = "Delivered" => exchange[id].reply = "Accepted"
      /\ answer = "Rejected" => exchange[id].reply = "Rejected"
  BY <1>1
<1> HIDE DEF answer
<1>4. /\ r \in ExchangeRecord /\ r.step = "ended" /\ r.answer = answer
      /\ r.peer = exchange[id].peer
      /\ (r.seen <=> exchange[id].seen) /\ r.reply = exchange[id].reply
  BY <1>1, <1>3, AnswerFields
<1> HIDE DEF r
<1> QED
  BY <1>1, <1>2, <1>3, <1>4, Quiet, OneWritten DEF ExchangeInv, Answered, Told

\* It ends without an answer.
LEMMA FailureKeeps ==
  ASSUME ExchangeInv, Inv', NEW id \in Inbound, Active(id),
         NEW answer \in {"Failed", "TimedOut"}, NEW request \in Requests,
         NEW disturbed \in BOOLEAN,
         exchange' = [exchange EXCEPT ![id] = WithFailure(exchange[id], answer, request, disturbed)],
         UNCHANGED transportVars
  PROVE  ExchangeInv'
<1> DEFINE r == WithFailure(exchange[id], answer, request, disturbed)
<1>1. /\ exchange[id] \in ExchangeRecord /\ exchange[id].step \in {"writing", "finishing", "awaiting"}
      /\ UNCHANGED <<handler, incoming, taken>>
  BY DEF ExchangeInv, ExchangeTyped, Active, transportVars
<1>2. /\ r \in ExchangeRecord /\ r.step = "ended" /\ r.answer = answer
      /\ r.peer = exchange[id].peer
      /\ (r.seen <=> exchange[id].seen) /\ r.reply = exchange[id].reply
  BY <1>1, FailureFields
<1> HIDE DEF r
<1>3. exchange' = [exchange EXCEPT ![id] = r]
  BY DEF r
<1> QED
  BY <1>1, <1>2, <1>3, Quiet, OneWritten DEF ExchangeInv, Answered, Told

LEMMA FarFailsKeeps ==
  ASSUME ExchangeInv, Inv', NEW id \in Inbound, FarFails(id)
  PROVE  ExchangeInv'
<1> DEFINE disturbed == exchange[id].disturbed
<1>1. disturbed \in BOOLEAN /\ exchange[id] \in ExchangeRecord
  BY DEF ExchangeInv, ExchangeTyped, ExchangeRecord
<1>2. exchange' = [exchange EXCEPT ![id] = WithFailure(exchange[id], "Failed", "reset", disturbed)]
  <2>1. exchange' = [exchange EXCEPT ![id] = [exchange[id] EXCEPT
                       !.answer = "Failed", !.step = "ended", !.request = "reset"]]
    BY Zenon DEF FarFails
  <2>2. [exchange[id] EXCEPT !.answer = "Failed", !.step = "ended", !.request = "reset"]
          = WithFailure(exchange[id], "Failed", "reset", disturbed)
    BY <1>1 DEF WithFailure, ExchangeRecord
  <2> QED
    BY <2>1, <2>2
<1>3. Active(id) /\ UNCHANGED transportVars
  BY DEF FarFails
<1> HIDE DEF disturbed
<1> QED
  BY <1>1, <1>2, <1>3, FailureKeeps DEF Requests

LEMMA FarTimesOutKeeps ==
  ASSUME ExchangeInv, Inv', NEW id \in Inbound, FarTimesOut(id)
  PROVE  ExchangeInv'
<1>1. PICK left \in {exchange[id].request, "reset"} :
        exchange' = [exchange EXCEPT ![id].answer = "TimedOut", ![id].step = "ended",
                                     ![id].request = left, ![id].disturbed = TRUE]
  BY DEF FarTimesOut
<1>2. exchange' = [exchange EXCEPT ![id] = WithFailure(exchange[id], "TimedOut", left, TRUE)]
  BY <1>1, Zenon DEF WithFailure
<1>3. left \in Requests
  BY DEF ExchangeInv, ExchangeTyped, ExchangeRecord, Requests
<1>4. Active(id) /\ UNCHANGED transportVars
  BY DEF FarTimesOut
<1> QED
  BY <1>2, <1>3, <1>4, FailureKeeps

\* A new text: the peer has none under way, and every earlier one was begun.
LEMMA FarOpenKeeps ==
  ASSUME ExchangeInv, Inv', NEW p \in Peers, NEW id \in Inbound, FarOpen(p, id)
  PROVE  ExchangeInv'
<1>1. PICK doc \in Documents :
        exchange' = [exchange EXCEPT ![id] = [Unbegun EXCEPT !.peer = p, !.doc = doc, !.step = "writing"]]
  BY DEF FarOpen
<1> DEFINE r == [Unbegun EXCEPT !.peer = p, !.doc = doc, !.step = "writing"]
<1>2. /\ r \in ExchangeRecord /\ r.peer = p /\ r.step = "writing" /\ ~r.seen
      /\ r.reply = "none" /\ r.answer = "None"
  BY DocumentsAssumption DEF Unbegun, ExchangeRecord
<1>3. exchange' = [exchange EXCEPT ![id] = r]
  BY <1>1
<1> HIDE DEF r
<1>4. /\ exchange' \in [Inbound -> ExchangeRecord]
      /\ exchange'[id] = r
      /\ \A x \in Inbound : x # id => exchange'[x] = exchange[x]
  BY <1>2, <1>3 DEF ExchangeInv, ExchangeTyped
<1>5. UNCHANGED <<handler, incoming, taken>>
  BY DEF FarOpen, transportVars
<1>6. /\ Once' /\ HandlersKnown' /\ Arrived' = Arrived
      /\ \A x \in Inbound : Handled(x)' <=> Handled(x)
  BY <1>5, Quiet
<1>7. exchange[id].step = "unsent" /\ exchange[id] = Unbegun
  BY DEF FarOpen, ExchangeInv, FirstSeen
<1>8. ~Handled(id) /\ id \notin Arrived
  BY <1>7, UnbegunFields DEF ExchangeInv, FirstSeen
<1>9. ExchangeTyped'
  BY <1>4, <1>5 DEF ExchangeInv, ExchangeTyped
<1>10. FirstSeen'
  BY <1>2, <1>4, <1>6, <1>8 DEF ExchangeInv, FirstSeen
<1>11. Answered'
  BY <1>2, <1>4, <1>6 DEF ExchangeInv, Answered, Told
<1>12. OneByOne'
  <2>1. \A other \in Inbound : other < id => exchange[other].step # "unsent"
    BY DEF FarOpen
  <2>2. \A other \in Inbound : exchange[other].peer = p => exchange[other].step = "ended"
    BY DEF FarOpen
  <2>3. \A later \in Inbound : id < later => exchange[later].step = "unsent"
    BY <1>7 DEF ExchangeInv, OneByOne
  <2>4. \A x \in Inbound : x \in Nat
    BY DocumentsAssumption
  <2> QED
    BY <1>2, <1>4, <2>1, <2>2, <2>3, <2>4 DEF ExchangeInv, OneByOne
<1>13. InOrder'
  <2> SUFFICES ASSUME NEW first \in Inbound, NEW later \in Inbound,
                      exchange'[first].peer = exchange'[later].peer, first < later,
                      exchange'[first].answer = "Delivered"
               PROVE  /\ later \in taken => first \in taken
                      /\ \A i, j \in DOMAIN incoming :
                           incoming[i].id = first /\ incoming[j].id = later => i < j
    BY <1>5 DEF InOrder, Told
  <2>1. first # id
    BY <1>2, <1>4
  <2>2. CASE later = id
    BY <1>8, <2>2, WaitingIds DEF Arrived, ExchangeInv
  <2>3. CASE later # id
    BY <1>4, <2>1, <2>3 DEF ExchangeInv, InOrder, Told
  <2> QED
    BY <2>2, <2>3
<1> QED
  BY <1>6, <1>9, <1>10, <1>11, <1>12, <1>13 DEF ExchangeInv

\* This side accepts the stream, or has no permit for it.
LEMMA RefuseKeeps ==
  ASSUME ExchangeInv, Inv', NEW id \in Inbound, Refuse(id)
  PROVE  ExchangeInv'
<1> DEFINE r == WithRefusal(exchange[id])
<1>1. /\ exchange[id] \in ExchangeRecord /\ exchange[id].request # "none"
      /\ UNCHANGED <<handler, incoming, taken>>
      /\ exchange' = [exchange EXCEPT ![id].seen = TRUE, ![id].reply = "reset", ![id].disturbed = TRUE]
  BY DEF ExchangeInv, ExchangeTyped, Refuse, transportVars
<1>2. exchange' = [exchange EXCEPT ![id] = r]
  BY <1>1, Zenon DEF WithRefusal
<1>3. /\ r \in ExchangeRecord /\ r.seen /\ r.reply = "reset"
      /\ r.peer = exchange[id].peer /\ r.step = exchange[id].step
      /\ r.answer = exchange[id].answer
  BY <1>1, RefusalFields
<1>4. exchange[id].step # "unsent"
  BY <1>1, UnbegunFields DEF ExchangeInv, FirstSeen
<1> HIDE DEF r
<1>5. /\ Once' /\ HandlersKnown' /\ UNCHANGED <<incoming, taken>>
      /\ \A x \in Inbound : Handled(x)' => Handled(x)
      /\ Handled(id)' => Handled(id)
  BY <1>1, Quiet
<1>6. /\ r.answer = "Delivered" => id \in Arrived
      /\ r.answer = "Rejected" => r.seen /\ ~Handled(id) /\ id \notin Arrived
  BY <1>3 DEF ExchangeInv, Answered, Told
<1> QED
  BY <1>2, <1>3, <1>4, <1>5, <1>6, OneWritten

LEMMA ArriveKeeps ==
  ASSUME ExchangeInv, Inv', NEW h \in Handlers, Arrive(h)
  PROVE  ExchangeInv'
<1>1. PICK s \in Alive, id \in Inbound \ Presented :
        handler' = [handler EXCEPT ![h] = [peer |-> session[s].peer, id |-> id, step |-> "reading"]]
  BY DEF Arrive, OpenStream
<1>2. /\ UNCHANGED <<incoming, taken>>
      /\ handler \in [Handlers -> HandlerRecord] /\ handler[h] = NoStream
  BY DEF Arrive, OpenStream, ExchangeInv, Inv, Typed, HandlersTyped, HandlerRecord
<1>3. /\ handler'[h].id = id /\ handler'[h].step = "reading"
      /\ \A g \in Handlers : g # h => handler'[g] = handler[g]
  BY <1>1, <1>2
<1>4. /\ exchange[id].request # "none" /\ ~exchange[id].seen
      /\ exchange' = [exchange EXCEPT ![id].seen = TRUE]
  BY <1>3 DEF Arrive
<1> DEFINE r == WithSeen(exchange[id])
<1>5. exchange' = [exchange EXCEPT ![id] = r]
  BY <1>4, Zenon DEF WithSeen
<1>6. /\ r \in ExchangeRecord /\ r.seen /\ r.reply = exchange[id].reply
      /\ r.peer = exchange[id].peer /\ r.step = exchange[id].step
      /\ r.answer = exchange[id].answer
  BY SeenFields DEF ExchangeInv, ExchangeTyped
<1> HIDE DEF r
<1>7. /\ exchange' \in [Inbound -> ExchangeRecord]
      /\ exchange'[id] = r
      /\ \A x \in Inbound : x # id => exchange'[x] = exchange[x]
  BY <1>5, <1>6 DEF ExchangeInv, ExchangeTyped
<1>8. exchange[id].step # "unsent"
  BY <1>4, UnbegunFields DEF ExchangeInv, FirstSeen
<1>9. id \notin Arrived /\ \A g \in Handlers : handler[g].id # id
  BY DEF Presented, Arrived
<1>10. Arrived' = Arrived /\ Waiting' = Waiting
  BY <1>2 DEF Arrived, Waiting
<1>11. Once'
  BY <1>2, <1>3, <1>9, <1>10 DEF ExchangeInv, Once
<1>12. HandlersKnown'
  BY <1>3 DEF ExchangeInv, ExchangeTyped, HandlersKnown
<1>13. \A x \in Inbound : Goes(x)
  BY <1>6, <1>7, <1>8 DEF Goes
<1>14. \A x \in Inbound, g \in Handlers :
         handler'[g].step # "idle" /\ handler'[g].id = x => exchange'[x].seen
  BY <1>3, <1>6, <1>7 DEF ExchangeInv, FirstSeen, Handled
<1>15. Answered'
  <2>1. \A x \in Inbound : x # id => (Handled(x)' => Handled(x))
    BY <1>3 DEF Handled
  <2>2. /\ exchange[id].reply \notin {"Accepted", "Rejected"}
        /\ exchange[id].answer \notin {"Delivered", "Rejected"}
    BY <1>4, <1>9 DEF ExchangeInv, Answered, Told
  <2> QED
    BY <1>6, <1>7, <1>10, <2>1, <2>2 DEF ExchangeInv, Answered, Told
<1> QED
  BY <1>2, <1>7, <1>11, <1>12, <1>13, <1>14, <1>15, MovesKeep

\* A stream ends with a reply, or with none.
LEMMA RepliedKeeps ==
  ASSUME ExchangeInv, Inv', NEW h \in Handlers, handler[h].step # "idle",
         handler' = [handler EXCEPT ![h] = NoStream], UNCHANGED <<incoming, taken>>,
         NEW r \in ExchangeRecord, exchange' = [exchange EXCEPT ![handler[h].id] = r],
         r.peer = exchange[handler[h].id].peer, r.step = exchange[handler[h].id].step,
         r.seen <=> exchange[handler[h].id].seen, r.answer = exchange[handler[h].id].answer,
         r.reply = "Accepted" => handler[h].step = "queued",
         r.reply = "Rejected" => handler[h].step = "reading"
  PROVE  ExchangeInv'
<1> DEFINE id == handler[h].id
<1>1. id \in Inbound /\ Handled(id)
  BY DEF ExchangeInv, ExchangeTyped, Handled
<1>2. exchange[id].seen /\ exchange[id].step # "unsent"
  BY <1>1, UnbegunFields DEF ExchangeInv, FirstSeen
<1>3. /\ Once' /\ HandlersKnown'
      /\ \A x \in Inbound : Handled(x)' => Handled(x)
      /\ \A x \in Inbound : x = id => ~Handled(x)'
  BY StreamGone
<1>4. r.reply = "Accepted" => id \in Arrived
  BY DEF ExchangeInv, Once
<1>5. r.reply = "Rejected" => id \notin Arrived
  BY DEF ExchangeInv, Once
<1>6. /\ r.peer = exchange[id].peer /\ r.step = exchange[id].step
      /\ (r.seen <=> exchange[id].seen) /\ r.answer = exchange[id].answer
      /\ exchange' = [exchange EXCEPT ![id] = r]
  OBVIOUS
<1>7. r.answer # "Rejected" /\ (r.answer = "Delivered" => id \in Arrived)
  BY <1>1, <1>6 DEF ExchangeInv, Answered, Told
<1> HIDE DEF id
<1>8. PICK x \in Inbound : x = id
  BY <1>1
<1>9. /\ exchange[x].seen /\ exchange[x].step # "unsent" /\ ~Handled(x)'
      /\ exchange' = [exchange EXCEPT ![x] = r]
      /\ r.peer = exchange[x].peer /\ r.step = exchange[x].step
      /\ r.seen /\ r.answer = exchange[x].answer
      /\ r.reply = "Accepted" \/ r.answer = "Delivered" => x \in Arrived
      /\ r.reply = "Rejected" => x \notin Arrived
      /\ r.answer # "Rejected"
  BY <1>2, <1>3, <1>4, <1>5, <1>6, <1>7, <1>8
<1>10. /\ Once' /\ HandlersKnown' /\ UNCHANGED <<incoming, taken>>
       /\ \A y \in Inbound : Handled(y)' => Handled(y)
  BY <1>3
<1> QED
  <2>1. /\ r.peer = exchange[x].peer
        /\ exchange[x].seen => r.seen
        /\ exchange[x].step # "unsent" /\ r.step # "unsent"
        /\ exchange[x].step = "ended" => r.step = "ended"
        /\ r.answer = "Delivered" => exchange[x].answer = "Delivered" \/ exchange[x].step # "ended"
        /\ r.reply = "Accepted" \/ r.answer = "Delivered" => x \in Arrived
    BY <1>9
  <2>2. r.reply = "Rejected" \/ r.answer = "Rejected" => r.seen /\ ~Handled(x)' /\ x \notin Arrived
    BY <1>9
  <2>3. exchange' = [exchange EXCEPT ![x] = r]
    BY <1>9
  <2> QED
    BY <1>10, <2>1, <2>2, <2>3, OneWritten

LEMMA RepliesKeep ==
  ASSUME ExchangeInv, Inv', NEW h \in Handlers, handler[h].step # "idle",
         handler' = [handler EXCEPT ![h] = NoStream], UNCHANGED <<incoming, taken>>,
         NEW reply \in {"Accepted", "Rejected", "reset"}, Replied(handler[h].id, reply),
         reply = "Accepted" => handler[h].step = "queued",
         reply = "Rejected" => handler[h].step = "reading"
  PROVE  ExchangeInv'
<1> DEFINE id == handler[h].id
           given == IF exchange[id].reply = "reset" THEN exchange[id].reply ELSE reply
           r == WithReply(exchange[id], given)
<1>1. /\ given \in {"Accepted", "Rejected", "reset"}
      /\ given = "Accepted" => reply = "Accepted"
      /\ given = "Rejected" => reply = "Rejected"
  OBVIOUS
<1>2. exchange' = [exchange EXCEPT ![id] = r]
  BY Zenon DEF Replied, WithReply
<1>3. id \in Inbound /\ exchange[id] \in ExchangeRecord
  BY DEF ExchangeInv, ExchangeTyped
<1> HIDE DEF given
<1>4. /\ r \in ExchangeRecord /\ r.reply = given
      /\ r.peer = exchange[id].peer /\ (r.seen <=> exchange[id].seen)
      /\ r.step = exchange[id].step /\ r.answer = exchange[id].answer
  BY <1>1, <1>3, ReplyFields
<1> HIDE DEF r
<1> QED
  BY <1>1, <1>2, <1>4, RepliedKeeps

LEMMA DisturbedKeeps ==
  ASSUME ExchangeInv, Inv', NEW h \in Handlers, handler[h].step # "idle",
         handler' = [handler EXCEPT ![h] = NoStream], UNCHANGED <<incoming, taken>>,
         Disturb(handler[h].id)
  PROVE  ExchangeInv'
<1> DEFINE id == handler[h].id
           r == WithReset(exchange[id])
<1>1. exchange' = [exchange EXCEPT ![id] = r]
  BY Zenon DEF Disturb, WithReset
<1>2. id \in Inbound /\ exchange[id] \in ExchangeRecord
  BY DEF ExchangeInv, ExchangeTyped
<1>3. /\ r \in ExchangeRecord /\ r.reply = "reset"
      /\ r.peer = exchange[id].peer /\ (r.seen <=> exchange[id].seen)
      /\ r.step = exchange[id].step /\ r.answer = exchange[id].answer
  BY <1>2, ResetFields
<1> HIDE DEF r
<1> QED
  BY <1>1, <1>3, RepliedKeeps

\* A stream goes on without its text being put anywhere.
LEMMA ReadKeeps ==
  ASSUME ExchangeInv, Inv', NEW h \in Handlers, Read(h)
  PROVE  ExchangeInv'
<1>1. /\ handler[h].step = "reading" /\ UNCHANGED <<incoming, taken>>
      /\ handler \in [Handlers -> HandlerRecord]
  BY DEF Read, ReadMessage, ExchangeInv, Inv, Typed, HandlersTyped, HandlerRecord
<1>2. CASE handler[h].peer \notin allowlist
  <2>1. handler' = [handler EXCEPT ![h] = NoStream]
    BY <1>2, Zenon DEF Read, ReadMessage
  <2>2. Replied(handler[h].id, "Rejected")
    BY <1>2 DEF Read
  <2> QED
    BY <1>1, <2>1, <2>2, RepliesKeep
<1>3. CASE handler[h].peer \in allowlist
  <2> DEFINE q == [handler[h] EXCEPT !.step = "waiting"]
  <2>1. handler' = [handler EXCEPT ![h] = q]
    BY <1>3, Zenon DEF Read, ReadMessage
  <2>2. q.step = "waiting" /\ q.id = handler[h].id
    BY <1>1 DEF HandlerRecord
  <2> HIDE DEF q
  <2>3. /\ handler'[h].step = "waiting" /\ handler'[h].id = handler[h].id
        /\ \A g \in Handlers : g # h => handler'[g] = handler[g]
    BY <1>1, <2>1, <2>2
  <2>4. UNCHANGED exchange
    BY <1>3 DEF Read
  <2>5. Arrived' = Arrived /\ Waiting' = Waiting
    BY <1>1 DEF Arrived, Waiting
  <2>6. Once'
    BY <1>1, <2>3, <2>5 DEF ExchangeInv, Once
  <2>7. HandlersKnown'
    BY <1>1, <2>3 DEF ExchangeInv, ExchangeTyped, HandlersKnown
  <2>8. \A x \in Inbound, g \in Handlers :
          handler'[g].step # "idle" /\ handler'[g].id = x
            => handler[g].step # "idle" /\ handler[g].id = x
    BY <1>1, <2>3
  <2>9. \A x \in Inbound : Handled(x)' => Handled(x)
    BY <2>8 DEF Handled
  <2>10. Answered'
    BY <2>4, <2>5, <2>9 DEF ExchangeInv, Answered, Told
  <2>11. \A x \in Inbound : Goes(x)
    BY <2>4 DEF Goes
  <2>12. \A x \in Inbound, g \in Handlers :
           handler'[g].step # "idle" /\ handler'[g].id = x => exchange'[x].seen
    BY <2>4, <2>8 DEF ExchangeInv, FirstSeen, Handled
  <2>13. exchange' \in [Inbound -> ExchangeRecord]
    BY <2>4 DEF ExchangeInv, ExchangeTyped
  <2> QED
    BY <1>1, <2>6, <2>7, <2>10, <2>11, <2>12, <2>13, MovesKeep
<1> QED
  BY <1>2, <1>3

LEMMA ResetKeeps ==
  ASSUME ExchangeInv, Inv', NEW h \in Handlers, ReadFails(h) \/ ReadTimesOut(h) \/ QueueClosed(h)
  PROVE  ExchangeInv'
<1>1. /\ handler[h].step # "idle" /\ handler' = [handler EXCEPT ![h] = NoStream]
      /\ UNCHANGED <<incoming, taken>>
  BY DEF ReadFails, ReadTimesOut, QueueClosed, ResetStream
<1>2. Replied(handler[h].id, "reset") \/ Disturb(handler[h].id)
  BY DEF ReadFails, ReadTimesOut, QueueClosed
<1> QED
  BY <1>1, <1>2, RepliesKeep, DisturbedKeeps

LEMMA AcceptKeeps ==
  ASSUME ExchangeInv, Inv', NEW h \in Handlers, Accept(h)
  PROVE  ExchangeInv'
<1>1. /\ handler[h].step = "queued" /\ handler' = [handler EXCEPT ![h] = NoStream]
      /\ UNCHANGED <<incoming, taken>>
      /\ Replied(handler[h].id, "Accepted")
  BY DEF Accept, WriteReceipt
<1> QED
  BY <1>1, RepliesKeep

\* The text is put at the end of the queue.
LEMMA EnqueuedKeeps ==
  ASSUME ExchangeInv, Inv', NEW h \in Handlers, Enqueue(h), UNCHANGED exchange
  PROVE  ExchangeInv'
<1> DEFINE q == [handler[h] EXCEPT !.step = "queued"]
           e == [peer |-> handler[h].peer, id |-> handler[h].id]
<1>1. /\ handler[h].step = "waiting" /\ handler \in [Handlers -> HandlerRecord]
      /\ incoming' = Append(incoming, e) /\ UNCHANGED taken
  BY DEF Enqueue, ExchangeInv, Inv, Typed, HandlersTyped, HandlerRecord
<1>2. handler[h].id \in Inbound /\ handler[h].peer \in Peers \cup {NoPeer}
  BY <1>1 DEF ExchangeInv, ExchangeTyped, HandlerRecord
<1>3. PICK id \in Inbound : id = handler[h].id
  BY <1>2
<1>4. e \in Received /\ e.id = id
  BY <1>2, <1>3 DEF Received
<1>5. handler' = [handler EXCEPT ![h] = q]
  BY Zenon DEF Enqueue
<1>6. q.step = "queued" /\ q.id = id
  BY <1>1, <1>3 DEF HandlerRecord
<1> HIDE DEF q, e
<1>7. /\ handler'[h].step = "queued" /\ handler'[h].id = id
      /\ \A g \in Handlers : g # h => handler'[g] = handler[g]
  BY <1>1, <1>5, <1>6
<1>8. /\ incoming' \in Seq(Received)
      /\ Len(incoming') = Len(incoming) + 1 /\ Len(incoming) \in Nat
      /\ DOMAIN incoming = 1..Len(incoming) /\ DOMAIN incoming' = 1..Len(incoming')
      /\ incoming'[Len(incoming) + 1].id = id
      /\ \A i \in DOMAIN incoming : incoming'[i] = incoming[i]
      /\ Waiting' = Waiting \cup {id}
  BY <1>1, <1>4, Appended DEF ExchangeInv
<1>9. Arrived' = Arrived \cup {id}
  BY <1>1, <1>8 DEF Arrived
<1>10. id \notin Arrived /\ Handled(id)
  BY <1>1, <1>3 DEF ExchangeInv, Once, Handled
<1>11. id \notin Waiting /\ id \notin taken
  BY <1>10 DEF Arrived
<1>12. \A i \in DOMAIN incoming : incoming[i].id # id
  BY <1>11, WaitingIds DEF ExchangeInv
<1>13. ExchangeTyped'
  BY <1>1, <1>7, <1>8 DEF ExchangeInv, ExchangeTyped
<1>14. Once'
  <2>1. \A f, g \in Handlers :
          handler'[f].step # "idle" /\ handler'[g].step # "idle" /\ handler'[f].id = handler'[g].id => f = g
    BY <1>1, <1>3, <1>7 DEF ExchangeInv, Once
  <2>2. \A g \in Handlers : handler'[g].step \in {"reading", "waiting"} => handler'[g].id \notin Arrived'
    <3> SUFFICES ASSUME NEW g \in Handlers, handler'[g].step \in {"reading", "waiting"}
                 PROVE  handler'[g].id \notin Arrived'
      OBVIOUS
    <3>1. g # h /\ handler'[g] = handler[g]
      BY <1>7
    <3>2. handler[g].id # id /\ handler[g].id \notin Arrived
      BY <1>1, <1>3, <3>1 DEF ExchangeInv, Once
    <3> QED
      BY <1>9, <3>1, <3>2
  <2>3. \A g \in Handlers : handler'[g].step = "queued" => handler'[g].id \in Arrived'
    BY <1>7, <1>9 DEF ExchangeInv, Once
  <2>4. \A i, j \in DOMAIN incoming' : incoming'[i].id = incoming'[j].id => i = j
    BY <1>8, <1>12 DEF ExchangeInv, Once
  <2>5. Waiting' \cap taken' = {}
    BY <1>1, <1>8, <1>11 DEF ExchangeInv, Once
  <2> QED
    BY <2>1, <2>2, <2>3, <2>4, <2>5 DEF Once
<1>15. \A x \in Inbound : Handled(x)' => Handled(x)
  BY <1>1, <1>3, <1>7 DEF Handled
<1>16. FirstSeen'
  BY <1>9, <1>10, <1>15 DEF ExchangeInv, FirstSeen
<1>17. Answered'
  BY <1>9, <1>10, <1>15 DEF ExchangeInv, Answered, Told
<1>18. OneByOne'
  BY DEF ExchangeInv, OneByOne
<1>19. InOrder'
  <2> SUFFICES ASSUME NEW first \in Inbound, NEW later \in Inbound,
                      exchange[first].peer = exchange[later].peer, first < later,
                      exchange[first].answer = "Delivered"
               PROVE  /\ later \in taken => first \in taken
                      /\ \A i, j \in DOMAIN incoming' :
                           incoming'[i].id = first /\ incoming'[j].id = later => i < j
    BY <1>1 DEF InOrder, Told
  <2>1. /\ later \in taken => first \in taken
        /\ \A i, j \in DOMAIN incoming : incoming[i].id = first /\ incoming[j].id = later => i < j
    BY DEF ExchangeInv, InOrder, Told
  <2>2. first # id
    BY <1>10 DEF ExchangeInv, Answered, Told
  <2>3. \A i \in DOMAIN incoming' : i \in DOMAIN incoming \/ i = Len(incoming) + 1
    BY <1>8
  <2> QED
    BY <1>8, <2>1, <2>2, <2>3
<1> QED
  BY <1>13, <1>14, <1>16, <1>17, <1>18, <1>19 DEF ExchangeInv

\* The runtime takes the first text of the queue.
LEMMA ReceiveKeeps ==
  ASSUME ExchangeInv, Inv', Receive, UNCHANGED exchange
  PROVE  ExchangeInv'
<1>1. incoming # <<>> /\ incoming' = Tail(incoming) /\ UNCHANGED handler
  BY DEF Receive
<1> DEFINE id == Head(incoming).id
<1>2. taken' = taken \cup {id}
  BY DEF Receive
<1>3. /\ incoming' \in Seq(Received)
      /\ id = incoming[1].id /\ 1 \in DOMAIN incoming
      /\ \A i \in DOMAIN incoming' : /\ i + 1 \in DOMAIN incoming /\ i \in Nat \ {0}
                                     /\ incoming'[i] = incoming[i + 1]
      /\ Waiting = Waiting' \cup {id}
  BY <1>1, Shortened DEF ExchangeInv
<1>4. \A i \in DOMAIN incoming : i = 1 \/ (i - 1 \in DOMAIN incoming' /\ incoming'[i - 1] = incoming[i])
  BY <1>1, Shortened DEF ExchangeInv
<1>5. id \in Inbound
  BY <1>3, WaitingIds DEF ExchangeInv
<1> HIDE DEF id
<1>6. Arrived' = Arrived
  BY <1>2, <1>3 DEF Arrived
<1>7. ExchangeTyped'
  BY <1>1, <1>2, <1>3, <1>5 DEF ExchangeInv, ExchangeTyped
<1>8. \A i \in DOMAIN incoming' : incoming'[i].id # id
  <2> SUFFICES ASSUME NEW i \in DOMAIN incoming', incoming'[i].id = id
               PROVE  FALSE
    OBVIOUS
  <2>1. i + 1 \in DOMAIN incoming /\ i \in Nat \ {0} /\ incoming[i + 1].id = incoming[1].id
    BY <1>3
  <2>2. i + 1 = 1
    BY <1>3, <2>1 DEF ExchangeInv, Once
  <2> QED
    BY <2>1, <2>2
<1>9. Waiting' = Waiting \ {id}
  <2>1. id \notin Waiting'
    BY <1>7, <1>8, Zenon DEF Waiting
  <2> QED
    BY <1>3, <2>1
<1>10. Once'
  <2>1. \A i, j \in DOMAIN incoming' : incoming'[i].id = incoming'[j].id => i = j
    <3> SUFFICES ASSUME NEW i \in DOMAIN incoming', NEW j \in DOMAIN incoming',
                        incoming'[i].id = incoming'[j].id
                 PROVE  i = j
      OBVIOUS
    <3>1. /\ i + 1 \in DOMAIN incoming /\ j + 1 \in DOMAIN incoming /\ i \in Nat /\ j \in Nat
          /\ incoming[i + 1].id = incoming[j + 1].id
      BY <1>3
    <3>2. i + 1 = j + 1
      BY <3>1 DEF ExchangeInv, Once
    <3> QED
      BY <3>1, <3>2
  <2>2. Waiting' \cap taken' = {}
    BY <1>2, <1>9 DEF ExchangeInv, Once
  <2> QED
    BY <1>1, <1>6, <2>1, <2>2 DEF ExchangeInv, Once
<1>11. \A x \in Inbound : Handled(x)' <=> Handled(x)
  BY <1>1 DEF Handled
<1>12. FirstSeen' /\ Answered' /\ OneByOne'
  BY <1>6, <1>11 DEF ExchangeInv, FirstSeen, Answered, OneByOne, Told
<1>13. InOrder'
  <2> SUFFICES ASSUME NEW first \in Inbound, NEW later \in Inbound,
                      exchange[first].peer = exchange[later].peer, first < later,
                      exchange[first].answer = "Delivered"
               PROVE  /\ later \in taken' => first \in taken'
                      /\ \A i, j \in DOMAIN incoming' :
                           incoming'[i].id = first /\ incoming'[j].id = later => i < j
    BY DEF InOrder, Told
  <2>1. /\ later \in taken => first \in taken
        /\ \A i, j \in DOMAIN incoming : incoming[i].id = first /\ incoming[j].id = later => i < j
    BY DEF ExchangeInv, InOrder, Told
  <2>2. first \in taken \cup Waiting
    BY DEF ExchangeInv, Answered, Told, Arrived
  <2>3. later = id => first \in taken
    <3> SUFFICES ASSUME later = id, first \in Waiting
                 PROVE  FALSE
      BY <2>2
    <3>1. PICK i \in DOMAIN incoming : incoming[i].id = first
      BY WaitingIds DEF ExchangeInv
    <3>2. i < 1
      BY <1>3, <2>1, <3>1
    <3>3. DOMAIN incoming \in SUBSET Nat /\ 0 \notin DOMAIN incoming
      BY DEF ExchangeInv, ExchangeTyped
    <3> QED
      BY <3>2, <3>3
  <2>4. later \in taken' => first \in taken'
    BY <1>2, <2>1, <2>3
  <2>5. ASSUME NEW i \in DOMAIN incoming', NEW j \in DOMAIN incoming',
               incoming'[i].id = first, incoming'[j].id = later
        PROVE  i < j
    <3>1. /\ i + 1 \in DOMAIN incoming /\ j + 1 \in DOMAIN incoming /\ i \in Nat /\ j \in Nat
          /\ incoming[i + 1].id = first /\ incoming[j + 1].id = later
      BY <1>3, <2>5
    <3>2. i + 1 < j + 1
      BY <2>1, <3>1
    <3> QED
      BY <3>1, <3>2
  <2> QED
    BY <2>4, <2>5
<1> QED
  BY <1>7, <1>10, <1>12, <1>13 DEF ExchangeInv

\* Whatever else the transport does, a text only loses its stream by it.
LEMMA BesidesKeeps ==
  ASSUME ExchangeInv, Inv', Besides
  PROVE  ExchangeInv'
<1>1. exchange' = [id \in Inbound |->
        IF exchange[id].step # "unsent" /\ Lost(exchange[id].peer)
        THEN WithLoss(exchange[id]) ELSE exchange[id]]
  BY Zenon DEF Besides, WithLoss
<1>2. CASE Receive
  <2>1. session' = session
    BY <1>2 DEF Receive
  <2>2. \A p : ~Lost(p)
    BY <2>1 DEF Lost, Connected
  <2>3. exchange' = exchange
    BY <1>1, <2>2 DEF ExchangeInv, ExchangeTyped
  <2> QED
    BY <1>2, <2>3, ReceiveKeeps
<1>3. CASE UNCHANGED <<handler, incoming, taken>>
  <2>1. \A x \in Inbound : exchange[x] \in ExchangeRecord
    BY DEF ExchangeInv, ExchangeTyped
  <2>2. \A x \in Inbound :
          /\ exchange'[x] \in ExchangeRecord
          /\ exchange[x].step = "unsent" => exchange'[x] = exchange[x]
          /\ exchange'[x].peer = exchange[x].peer /\ exchange'[x].step = exchange[x].step
          /\ exchange'[x].answer = exchange[x].answer
          /\ exchange'[x].seen <=> exchange[x].seen
          /\ exchange'[x].reply \in {"Accepted", "Rejected"} => exchange'[x].reply = exchange[x].reply
    <3> SUFFICES ASSUME NEW x \in Inbound
                 PROVE  /\ exchange'[x] \in ExchangeRecord
                        /\ exchange[x].step = "unsent" => exchange'[x] = exchange[x]
                        /\ exchange'[x].peer = exchange[x].peer /\ exchange'[x].step = exchange[x].step
                        /\ exchange'[x].answer = exchange[x].answer
                        /\ exchange'[x].seen <=> exchange[x].seen
                        /\ exchange'[x].reply \in {"Accepted", "Rejected"}
                             => exchange'[x].reply = exchange[x].reply
      OBVIOUS
    <3>1. CASE exchange'[x] = exchange[x]
      BY <2>1, <3>1
    <3>2. CASE exchange'[x] = WithLoss(exchange[x]) /\ exchange[x].step # "unsent"
      BY <2>1, <3>2, LossFields
    <3> QED
      BY <1>1, <3>1, <3>2
  <2>3. exchange' \in [Inbound -> ExchangeRecord]
    BY <1>1, <2>2
  <2>4. /\ Once' /\ HandlersKnown' /\ Arrived' = Arrived
        /\ \A x \in Inbound : Handled(x)' <=> Handled(x)
    BY <1>3, Quiet
  <2>5. \A x \in Inbound : Goes(x)
    BY <2>2 DEF Goes
  <2>6. Answered'
    BY <2>2, <2>4 DEF ExchangeInv, Answered, Told
  <2>7. \A x \in Inbound, h \in Handlers :
          handler'[h].step # "idle" /\ handler'[h].id = x => exchange'[x].seen
    BY <1>3, <2>2 DEF ExchangeInv, FirstSeen, Handled
  <2> QED
    BY <1>3, <2>3, <2>4, <2>5, <2>6, <2>7, MovesKeep
<1>4. Receive \/ UNCHANGED <<handler, incoming, taken>>
  <2>1. CASE Actors
    BY <2>1 DEF Actors, BeginDial, StartDial, DialSucceeds, DialFails, ConnectionLost, PathChanged,
       StopSession, EndSession
  <2>2. CASE Acceptors
    BY <2>2 DEF Acceptors, Incoming, DropConnection, Authorise, AttachInbound
  <2>3. CASE Calls
    BY <2>3 DEF Calls, TakeRemoved, EnsureOutbound, Replaced, Closed
  <2>4. CASE Client
    BY <2>4 DEF Client, ReplaceContacts, Send, CloseTransport
  <2> QED
    BY <2>1, <2>2, <2>3, <2>4 DEF Besides
<1> QED
  BY <1>2, <1>3, <1>4

-----------------------------------------------------------------------------
(* The specification.                                                      *)

LEMMA ExchangeInitInv == ExchangeInit => ExchangeInv
<1> SUFFICES ASSUME ExchangeInit
             PROVE  ExchangeInv
  OBVIOUS
<1>1. Inv
  BY InitInv DEF ExchangeInit
<1>2. /\ handler = [h \in Handlers |-> NoStream] /\ incoming = <<>> /\ taken = {}
      /\ exchange = [id \in Inbound |-> Unbegun]
  BY DEF ExchangeInit, Init, Started
<1>3. \A h \in Handlers : handler[h].step = "idle"
  BY <1>2 DEF NoStream
<1>4. ExchangeTyped
  BY <1>2, <1>3, UnbegunFields DEF ExchangeTyped
<1>5. DOMAIN incoming = {}
  BY <1>2
<1>6. Waiting = {} /\ Arrived = {}
  BY <1>2, <1>5 DEF Waiting, Arrived
<1>7. Once
  BY <1>2, <1>3, <1>5, <1>6 DEF Once
<1>8. \A id \in Inbound : ~Handled(id)
  BY <1>3 DEF Handled
<1>9. FirstSeen /\ Answered /\ OneByOne /\ InOrder
  BY <1>2, <1>6, <1>8, UnbegunFields DEF FirstSeen, Answered, OneByOne, InOrder, Told
<1> QED
  BY <1>1, <1>4, <1>7, <1>9 DEF ExchangeInv

LEMMA ExchangeNextKeeps ==
  ASSUME ExchangeInv, [ExchangeNext]_vars
  PROVE  ExchangeInv'
<1>1. CASE UNCHANGED vars
  <2>1. UNCHANGED <<transportVars, exchange>>
    BY <1>1 DEF vars
  <2>2. Inv'
    BY <2>1, NextKeeps DEF ExchangeInv
  <2>3. UNCHANGED <<handler, incoming, taken>>
    BY <2>1 DEF transportVars
  <2>4. /\ Once' /\ HandlersKnown' /\ Arrived' = Arrived
        /\ \A x \in Inbound : Handled(x)' <=> Handled(x)
    BY <2>3, Quiet
  <2>5. ExchangeTyped' /\ FirstSeen' /\ Answered' /\ OneByOne' /\ InOrder'
    BY <2>1, <2>3, <2>4 DEF ExchangeInv, ExchangeTyped, FirstSeen, Answered, OneByOne, InOrder, Told
  <2> QED
    BY <2>2, <2>4, <2>5 DEF ExchangeInv
<1>2. CASE ExchangeNext
  <2>1. Inv'
    BY <1>2, ExchangeStepIsTransport, NextKeeps DEF ExchangeInv
  <2>2. CASE \E p \in Peers, id \in Inbound : FarOpen(p, id)
    BY <2>1, <2>2, FarOpenKeeps
  <2>3. CASE \E id \in Inbound : Deliveries(id) \/ FarTimesOut(id)
    BY <2>1, <2>3, FarWriteKeeps, FarFinishKeeps, FarReadKeeps, FarFailsKeeps, FarTimesOutKeeps
       DEF Deliveries
  <2>4. CASE \E h \in Handlers : Handling(h) \/ ReadTimesOut(h)
    BY <2>1, <2>4, ReadKeeps, ResetKeeps, EnqueuedKeeps, AcceptKeeps DEF Handling
  <2>5. CASE Accepting
    BY <2>1, <2>5, ArriveKeeps, RefuseKeeps DEF Accepting
  <2>6. CASE Besides
    BY <2>1, <2>6, BesidesKeeps
  <2> QED
    BY <1>2, <2>2, <2>3, <2>4, <2>5, <2>6 DEF ExchangeNext
<1> QED
  BY <1>1, <1>2

\* What a peer is told of its texts is true, and what it was told was
\* delivered is taken in the order it sent it: for every number of peers,
\* texts and streams, with the contacts, the connections and the deadlines
\* changing in between (handle_inbound_stream, run_outbound_stream).
THEOREM AnswersTrue == ExchangeSpec => []AnswersAreTrue
<1>1. ExchangeInv => AnswersAreTrue
  <2> SUFFICES ASSUME ExchangeInv
               PROVE  AnswersAreTrue
    OBVIOUS
  <2>1. \A id \in Inbound : /\ Told(id, "Delivered") => id \in taken \cup Waiting
                            /\ Told(id, "Rejected") => id \notin taken \cup Waiting
    BY DEF ExchangeInv, Answered, Arrived
  <2> QED
    BY <2>1 DEF ExchangeInv, InOrder, AnswersAreTrue
<1>2. ExchangeInv /\ [ExchangeNext]_vars => ExchangeInv'
  BY ExchangeNextKeeps
<1> QED
  BY <1>1, <1>2, ExchangeInitInv, PTL DEF ExchangeSpec
=============================================================================
