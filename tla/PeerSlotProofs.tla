--------------------------- MODULE PeerSlotProofs ---------------------------
(***************************************************************************)
(* The slots of PeerSession: their stream counters, the connections that   *)
(* drain, the handler permits, and when a connection is given up or shown  *)
(* as lost, for every number of connections, streams and permits.          *)
(***************************************************************************)
EXTENDS PeerSessionProofs

-----------------------------------------------------------------------------
(* The inductive invariant.                                                *)

\* The control messages that hand a connection to the actor.
Announces == {"Attach", "DialFinished"}

\* After the end there are no slots and nothing waits to be handled.
EndedEmpty == ~alive => Slots = {} /\ control = <<>>

\* A connection that is not in a slot is not counted for.
OffSlots == \A c \in Conns \ Slots : handlers[c] = 0 /\ outbound[c] = 0

\* Nothing uses a connection before the actor has taken it, and one that does
\* not exist has not been taken.
FreshUnused ==
  \A c \in Conns :
    /\ monitor[c] = "none" => /\ c \notin Slots
                              /\ running[c] = 0
                              /\ accepting[c] = "none"
                              /\ \A m \in Messages : via[m] # c
    /\ conn[c] = "none" => monitor[c] = "none"

\* What a control message says of its connection.
Sound(note) ==
  /\ note.kind \in Announces /\ note.conn # NoConn =>
       conn[note.conn] # "none" /\ monitor[note.conn] = "none"
  /\ note.kind \notin Announces /\ note.conn # NoConn => monitor[note.conn] # "none"
  /\ note.kind = "ConnectionClosed" => conn[note.conn] = "closed"

\* Every message in the channel is true, and hands over a connection once.
NotesSound ==
  /\ \A i \in 1 .. Len(control) : Sound(control[i])
  /\ \A i, j \in 1 .. Len(control) :
       /\ control[i].kind \in Announces /\ control[j].kind \in Announces
       /\ control[i].conn = control[j].conn /\ control[i].conn # NoConn
       => i = j

\* A session dials at most once, and its dial opens at most one connection.
DialedOnce ==
  /\ dialing => dialAttempted
  /\ dialer = "none" <=> ~dialAttempted
  /\ dialer # "done" => conn[OutConn] = "none"

\* A stream task is aborted only when its slot is gone.
TaskOfSlot ==
  \A m \in Messages : task[m] = "aborted" => via[m] \notin Slots

\* The outgoing streams on a connection.
Flying(c) == {m \in Messages : via[m] = c /\ task[m] \in InFlight}

\* What SlotAccounting says of one connection.
Counted(c) ==
  /\ handlers[c] = running[c] + Queued("InboundFinished", c)
  /\ outbound[c] = Queued("OutboundFinished", c) + Cardinality(Flying(c))

\* A slot is counted right only because nothing of its connection was under way
\* when it was filled, and nothing of it is left behind only because every
\* message about it is true.
SlotInv ==
  /\ EndedEmpty
  /\ OffSlots
  /\ FreshUnused
  /\ NotesSound
  /\ DialedOnce
  /\ TaskOfSlot
  /\ \A c \in Slots : Counted(c)
  /\ NoIdleConnection

\* What the steps are taken from.
FullInv == HandInv /\ SlotInv

-----------------------------------------------------------------------------
(* Counting the messages of a kind.                                        *)

\* How many elements of s are in P.
Count(s, P) == Cardinality({i \in DOMAIN s : s[i] \in P})

\* The control messages of a kind about a connection.
About(kind, c) == {note \in ControlMessage : note.kind = kind /\ note.conn = c}

\* A count is a natural number.
LEMMA CountType ==
  ASSUME NEW T, NEW s \in Seq(T), NEW P
  PROVE  /\ IsFiniteSet({i \in DOMAIN s : s[i] \in P})
         /\ Count(s, P) \in Nat
<1>1. IsFiniteSet(1 .. Len(s)) /\ DOMAIN s = 1 .. Len(s)
  BY FS_Interval
<1> QED
  BY <1>1, FS_Subset, FS_CardinalityType DEF Count

\* A new last element counts if it is in P.
LEMMA CountAppended ==
  ASSUME NEW T, NEW s \in Seq(T), NEW e \in T, NEW P
  PROVE  Count(s \o <<e>>, P) = Count(s, P) + (IF e \in P THEN 1 ELSE 0)
<1> DEFINE t == s \o <<e>>
           A == {i \in DOMAIN s : s[i] \in P}
           B == {i \in DOMAIN t : t[i] \in P}
<1>1. /\ Len(s) \in Nat /\ DOMAIN s = 1 .. Len(s) /\ DOMAIN t = 1 .. Len(s) + 1
      /\ \A i \in 1 .. Len(s) : t[i] = s[i]
      /\ t[Len(s) + 1] = e
  OBVIOUS
<1>2. IsFiniteSet(A) /\ Cardinality(A) \in Nat
  BY CountType DEF Count
<1>3. Len(s) + 1 \notin A
  BY <1>1
<1>0. Count(s, P) = Cardinality(A) /\ Count(t, P) = Cardinality(B)
  BY DEF Count
<1>4. CASE e \in P
  <2>1. B = A \cup {Len(s) + 1}
    BY <1>1, <1>4
  <2> HIDE DEF A, B
  <2> QED
    BY <1>0, <1>2, <1>3, <1>4, <2>1, FS_AddElement
<1>5. CASE e \notin P
  <2>1. B = A
    BY <1>1, <1>5
  <2> HIDE DEF A, B
  <2> QED
    BY <1>0, <1>2, <1>5, <2>1
<1> QED
  BY <1>4, <1>5

\* The head no longer counts once it is taken.
LEMMA CountTaken ==
  ASSUME NEW T, NEW s \in Seq(T), s # <<>>, NEW P
  PROVE  Count(s, P) = Count(Tail(s), P) + (IF Head(s) \in P THEN 1 ELSE 0)
<1> DEFINE t == Tail(s)
           A == {i \in DOMAIN s : s[i] \in P}
           B == {i \in DOMAIN t : t[i] \in P}
           f == [i \in B |-> i + 1]
<1>1. /\ Len(s) \in Nat \ {0} /\ DOMAIN s = 1 .. Len(s)
      /\ t \in Seq(T) /\ DOMAIN t = 1 .. Len(s) - 1
      /\ \A i \in 1 .. Len(s) - 1 : t[i] = s[i + 1]
      /\ s[1] = Head(s)
  BY HeadTailProperties, EmptySeq, LenProperties
<1>2. IsFiniteSet(A) /\ Cardinality(A) \in Nat
  BY CountType DEF Count
<1>3. IsFiniteSet(B) /\ Cardinality(B) \in Nat
  BY <1>1, CountType DEF Count
<1>4. f \in Bijection(B, A \ {1})
  <2>1. \A i \in B : i \in 1 .. Len(s) - 1 /\ t[i] \in P
    BY <1>1
  <2>2. f \in [B -> A \ {1}]
    <3> SUFFICES ASSUME NEW i \in B PROVE i + 1 \in A \ {1}
      OBVIOUS
    <3>1. i \in 1 .. Len(s) - 1 /\ s[i + 1] \in P
      BY <1>1, <2>1
    <3>2. i + 1 \in 1 .. Len(s) /\ i + 1 # 1
      BY <1>1, <3>1
    <3> QED
      BY <1>1, <3>1, <3>2
  <2>3. \A i, j \in B : f[i] = f[j] => i = j
    BY <1>1, <2>1
  <2>4. ASSUME NEW k \in A \ {1} PROVE \E i \in B : f[i] = k
    <3>1. k - 1 \in 1 .. Len(s) - 1 /\ (k - 1) + 1 = k
      BY <1>1
    <3>2. k - 1 \in B
      BY <1>1, <3>1
    <3> QED
      BY <3>1, <3>2
  <2> QED
    BY <2>2, <2>3, <2>4 DEF Bijection, Injection, Surjection, IsInjective
<1>5. Cardinality(A \ {1}) = Cardinality(B)
  BY <1>3, <1>4, FS_Bijection DEF ExistsBijection
<1>6. 1 \in A <=> Head(s) \in P
  BY <1>1
<1>7. Count(s, P) = Cardinality(A) /\ Count(t, P) = Cardinality(B)
  BY DEF Count
<1> HIDE DEF A, B, f
<1>8. Cardinality(A \ {1}) = IF 1 \in A THEN Cardinality(A) - 1 ELSE Cardinality(A)
  BY <1>2, FS_RemoveElement
<1> QED
  BY <1>2, <1>3, <1>5, <1>6, <1>7, <1>8

\* The counts of PeerSession are of this form.
LEMMA CountOfKind ==
  ASSUME NEW s \in Seq(ControlMessage)
  PROVE  /\ \A kind, c :
              Cardinality({i \in DOMAIN s : s[i].kind = kind /\ s[i].conn = c})
                = Count(s, About(kind, c))
         /\ Cardinality({i \in DOMAIN s : s[i].kind = "InboundStream"})
              = Count(s, {note \in ControlMessage : note.kind = "InboundStream"})
<1>1. \A i \in DOMAIN s : s[i] \in ControlMessage
  BY ElementOfSeq
<1>2. ASSUME NEW kind, NEW c
      PROVE  {i \in DOMAIN s : s[i].kind = kind /\ s[i].conn = c}
               = {i \in DOMAIN s : s[i] \in About(kind, c)}
  BY <1>1 DEF About
<1>3. {i \in DOMAIN s : s[i].kind = "InboundStream"}
        = {i \in DOMAIN s :
             s[i] \in {note \in ControlMessage : note.kind = "InboundStream"}}
  BY <1>1
<1>4. ASSUME NEW kind, NEW c
      PROVE  Cardinality({i \in DOMAIN s : s[i].kind = kind /\ s[i].conn = c})
               = Count(s, About(kind, c))
  BY <1>2 DEF Count
<1>5. Cardinality({i \in DOMAIN s : s[i].kind = "InboundStream"})
        = Count(s, {note \in ControlMessage : note.kind = "InboundStream"})
  BY <1>3 DEF Count
<1> QED
  BY <1>4, <1>5

\* They are natural numbers.
LEMMA QueuedType ==
  ASSUME ChannelTypeOK, NEW kind, NEW c
  PROVE  Queued(kind, c) \in Nat
<1>1. control \in Seq(ControlMessage)
  BY DEF ChannelTypeOK
<1>2. Queued(kind, c) = Count(control, About(kind, c))
  BY <1>1, CountOfKind DEF Queued
<1> QED
  BY <1>1, <1>2, CountType

\* Sending a control message counts it,
LEMMA PostCounts ==
  ASSUME ChannelTypeOK, NEW note \in ControlMessage, alive, Post(<<note>>)
  PROVE  /\ \A kind, c :
              /\ Queued(kind, c) \in Nat
              /\ Queued(kind, c)' = Queued(kind, c)
                   + (IF note.kind = kind /\ note.conn = c THEN 1 ELSE 0)
         /\ InboundStreamsQueued \in Nat
         /\ InboundStreamsQueued' = InboundStreamsQueued
              + (IF note.kind = "InboundStream" THEN 1 ELSE 0)
<1> DEFINE Streams == {n \in ControlMessage : n.kind = "InboundStream"}
<1>1. /\ control \in Seq(ControlMessage)
      /\ control' = control \o <<note>> /\ control' \in Seq(ControlMessage)
  BY DEF Post, ChannelTypeOK
<1>2. /\ \A kind, c : /\ Queued(kind, c) = Count(control, About(kind, c))
                      /\ Queued(kind, c)' = Count(control', About(kind, c))
      /\ InboundStreamsQueued = Count(control, Streams)
      /\ InboundStreamsQueued' = Count(control', Streams)
  BY <1>1, CountOfKind DEF Queued, InboundStreamsQueued
<1>3. ASSUME NEW P
      PROVE  /\ Count(control, P) \in Nat
             /\ Count(control', P) = Count(control, P) + (IF note \in P THEN 1 ELSE 0)
  BY <1>1, CountType, CountAppended
<1>4. /\ note \in Streams <=> note.kind = "InboundStream"
      /\ \A kind, c : note \in About(kind, c) <=> note.kind = kind /\ note.conn = c
  BY DEF About
<1> HIDE DEF Streams
<1> QED
  BY <1>2, <1>3, <1>4

\* and handling one no longer does.
LEMMA ReceiveCounts ==
  ASSUME ChannelTypeOK, control # <<>>, control' = Tail(control),
         NEW note, note = Head(control)
  PROVE  /\ \A kind, c :
              /\ Queued(kind, c)' \in Nat
              /\ Queued(kind, c) = Queued(kind, c)'
                   + (IF note.kind = kind /\ note.conn = c THEN 1 ELSE 0)
         /\ InboundStreamsQueued' \in Nat
         /\ InboundStreamsQueued = InboundStreamsQueued'
              + (IF note.kind = "InboundStream" THEN 1 ELSE 0)
<1> DEFINE Streams == {n \in ControlMessage : n.kind = "InboundStream"}
<1>1. /\ control \in Seq(ControlMessage) /\ control' \in Seq(ControlMessage)
      /\ note \in ControlMessage
  BY HeadTailProperties DEF ChannelTypeOK
<1>2. /\ \A kind, c : /\ Queued(kind, c) = Count(control, About(kind, c))
                      /\ Queued(kind, c)' = Count(control', About(kind, c))
      /\ InboundStreamsQueued = Count(control, Streams)
      /\ InboundStreamsQueued' = Count(control', Streams)
  BY <1>1, CountOfKind DEF Queued, InboundStreamsQueued
<1>3. ASSUME NEW P
      PROVE  /\ Count(control', P) \in Nat
             /\ Count(control, P) = Count(control', P) + (IF note \in P THEN 1 ELSE 0)
  BY <1>1, CountType, CountTaken
<1>4. /\ note \in Streams <=> note.kind = "InboundStream"
      /\ \A kind, c : note \in About(kind, c) <=> note.kind = kind /\ note.conn = c
  BY <1>1 DEF About
<1> HIDE DEF Streams
<1> QED
  BY <1>2, <1>3, <1>4

\* Counts depend on the channel alone.
LEMMA SameCounts ==
  ASSUME control' = control
  PROVE  /\ \A kind, c : Queued(kind, c)' = Queued(kind, c)
         /\ InboundStreamsQueued' = InboundStreamsQueued
  BY DEF Queued, InboundStreamsQueued

-----------------------------------------------------------------------------
(* The messages of the control channel stay true.                          *)

\* A connection comes and goes, and is taken once.
Grows(c) ==
  /\ conn[c] # "none" => conn'[c] # "none"
  /\ conn[c] = "closed" => conn'[c] = "closed"
  /\ monitor'[c] = "none" <=> monitor[c] = "none"

Growing == \A c \in Conns : Grows(c)

\* A true message stays true.
LEMMA SoundKept ==
  ASSUME NEW note \in ControlMessage, Sound(note),
         note.conn \in Conns => Grows(note.conn)
  PROVE  Sound(note)'
<1>1. /\ note.conn \in Conns \cup {NoConn}
      /\ note.kind = "ConnectionClosed" => note.conn \in Conns
  BY ControlConn
<1> QED
  BY <1>1 DEF Grows, Sound

\* Nothing is sent.
LEMMA QuietSound ==
  ASSUME ChannelTypeOK, NotesSound, Growing, control' = control
  PROVE  NotesSound'
<1>1. ASSUME NEW i \in 1 .. Len(control), NEW note, note = control[i]
      PROVE  Sound(note)'
  BY <1>1, SoundKept, ElementOfSeq DEF ChannelTypeOK, NotesSound, Growing, Grows
<1>2. \A i \in 1 .. Len(control)' : Sound(control[i])'
  BY <1>1 DEF Sound
<1> QED
  BY <1>2 DEF NotesSound

\* What is sent is true; a connection is announced when it comes into being.
LEMMA PostSound ==
  ASSUME ChannelTypeOK, NotesSound, Growing, NEW note \in ControlMessage,
         Post(<<note>>), alive => Sound(note)',
         note.kind \in Announces /\ note.conn # NoConn => conn[note.conn] = "none"
  PROVE  NotesSound'
<1>1. CASE ~alive
  BY <1>1, QuietSound DEF Post
<1>2. CASE alive
  <2>1. /\ Len(control) \in Nat /\ Len(control') = Len(control) + 1
        /\ \A i \in 1 .. Len(control) : /\ control'[i] = control[i]
                                        /\ control[i] \in ControlMessage
        /\ control'[Len(control) + 1] = note
    BY <1>2, ElementOfSeq, LenProperties DEF Post, ChannelTypeOK
  <2>2. ASSUME NEW i \in 1 .. Len(control), NEW old, old = control[i]
        PROVE  Sound(old)'
    BY <2>1, <2>2, SoundKept DEF NotesSound, Growing, Grows
  <2>3. ASSUME NEW i \in 1 .. Len(control')
        PROVE  Sound(control[i])'
    <3>1. CASE i = Len(control) + 1
      BY <1>2, <2>1, <3>1 DEF Sound
    <3>2. CASE i # Len(control) + 1
      <4>1. i \in 1 .. Len(control)
        BY <2>1, <3>2
      <4> QED
        BY <2>1, <2>2, <4>1 DEF Sound
    <3> QED
      BY <3>1, <3>2
  <2>4. \A k \in 1 .. Len(control) :
           control[k].kind \in Announces /\ control[k].conn # NoConn
             => conn[control[k].conn] # "none"
    BY DEF NotesSound, Sound
  <2>5. ASSUME NEW i \in 1 .. Len(control'), NEW j \in 1 .. Len(control'),
               control'[i].kind \in Announces, control'[j].kind \in Announces,
               control'[i].conn = control'[j].conn, control'[i].conn # NoConn
        PROVE  i = j
    <3>1. CASE i \in 1 .. Len(control) /\ j \in 1 .. Len(control)
      BY <2>1, <2>5, <3>1 DEF NotesSound
    <3>2. CASE i = Len(control) + 1 /\ j \in 1 .. Len(control)
      BY <2>1, <2>4, <2>5, <3>2
    <3>3. CASE i \in 1 .. Len(control) /\ j = Len(control) + 1
      BY <2>1, <2>4, <2>5, <3>3
    <3> QED
      BY <2>1, <3>1, <3>2, <3>3
  <2> QED
    BY <2>3, <2>5 DEF NotesSound
<1> QED
  BY <1>1, <1>2

\* A message is handled.
LEMMA ReceiveSound ==
  ASSUME ChannelTypeOK, NotesSound, control # <<>>, control' = Tail(control),
         \A i \in 2 .. Len(control) :
            control[i].conn \in Conns => Grows(control[i].conn)
  PROVE  NotesSound'
<1>1. /\ Len(control) \in Nat /\ Len(control') = Len(control) - 1
      /\ \A i \in 1 .. Len(control') : control'[i] = control[i + 1]
      /\ \A i \in 1 .. Len(control) : control[i] \in ControlMessage
  BY HeadTailProperties, ElementOfSeq, LenProperties DEF ChannelTypeOK
<1>2. ASSUME NEW i \in 2 .. Len(control), NEW old, old = control[i]
      PROVE  Sound(old)'
  <2>1. i \in 1 .. Len(control)
    BY <1>1
  <2> QED
    BY <1>1, <1>2, <2>1, SoundKept DEF NotesSound
<1>3. ASSUME NEW i \in 1 .. Len(control')
      PROVE  i + 1 \in 1 .. Len(control) /\ Sound(control[i])'
  <2>1. i + 1 \in 2 .. Len(control)
    BY <1>1
  <2> QED
    BY <1>1, <1>2, <2>1 DEF Sound
<1>4. ASSUME NEW i \in 1 .. Len(control'), NEW j \in 1 .. Len(control'),
             control'[i].kind \in Announces, control'[j].kind \in Announces,
             control'[i].conn = control'[j].conn, control'[i].conn # NoConn
      PROVE  i = j
  <2>1. i + 1 = j + 1
    BY <1>1, <1>3, <1>4 DEF NotesSound
  <2> QED
    BY <1>1, <2>1
<1> QED
  BY <1>3, <1>4 DEF NotesSound

\* What the message being handled says is true; if it hands over a connection, no
\* other message names that connection.
LEMMA HeadSound ==
  ASSUME ChannelTypeOK, NotesSound, control # <<>>,
         NEW note, note = Head(control)
  PROVE  /\ note \in ControlMessage /\ Sound(note)
         /\ note.kind \in Announces /\ note.conn # NoConn =>
              \A i \in 2 .. Len(control) : control[i].conn # note.conn
<1>1. /\ Len(control) \in Nat \ {0} /\ note = control[1]
      /\ \A i \in 1 .. Len(control) : control[i] \in ControlMessage
  BY HeadTailProperties, ElementOfSeq, LenProperties, EmptySeq DEF ChannelTypeOK
<1>2. Sound(note)
  BY <1>1 DEF NotesSound
<1>3. ASSUME note.kind \in Announces, note.conn # NoConn,
             NEW i \in 2 .. Len(control), control[i].conn = note.conn
      PROVE  FALSE
  <2>1. i \in 1 .. Len(control) /\ i # 1 /\ 1 \in 1 .. Len(control)
    BY <1>1
  <2>2. Sound(control[i])
    BY <2>1 DEF NotesSound
  <2>3. control[i].kind \in Announces
    BY <1>2, <1>3, <2>2 DEF Sound
  <2> QED
    BY <1>1, <1>3, <2>1, <2>3 DEF NotesSound
<1> QED
  BY <1>1, <1>2, <1>3

-----------------------------------------------------------------------------
(* The permits of the stream handlers.                                     *)

\* The handlers can be counted, which the number of permits alone does not say.
PermitsInv == PermitsAccounted /\ IsFiniteSet(RunningHandlers)

\* The members of RunningHandlers.
LEMMA HandlerNumbers ==
  ASSUME NEW x
  PROVE  x \in RunningHandlers <=> \E d \in Conns : \E i \in 1 .. running[d] : x = <<d, i>>
  BY DEF RunningHandlers

\* A handler that starts is counted,
LEMMA HandlerStarts ==
  ASSUME NetTypeOK, IsFiniteSet(RunningHandlers), NEW c \in Conns,
         running' = [running EXCEPT ![c] = @ + 1]
  PROVE  /\ IsFiniteSet(RunningHandlers')
         /\ Cardinality(RunningHandlers') = Cardinality(RunningHandlers) + 1
<1> DEFINE x == <<c, running[c] + 1>>
<1>1. /\ running[c] \in Nat /\ running'[c] = running[c] + 1
      /\ \A d \in Conns : running[d] \in Nat /\ (d # c => running'[d] = running[d])
  BY DEF NetTypeOK
<1>2. x \notin RunningHandlers
  BY <1>1, HandlerNumbers
<1>3. RunningHandlers' = RunningHandlers \cup {x}
  <2>1. ASSUME NEW y \in RunningHandlers'
        PROVE  y \in RunningHandlers \cup {x}
    <3>1. PICK d \in Conns : \E i \in 1 .. running'[d] : y = <<d, i>>
      BY <2>1 DEF RunningHandlers
    <3>2. PICK i \in 1 .. running'[d] : y = <<d, i>>
      BY <3>1
    <3>3. CASE d = c /\ i = running[c] + 1
      BY <3>2, <3>3
    <3>4. CASE ~(d = c /\ i = running[c] + 1)
      <4>1. i \in 1 .. running[d]
        BY <1>1, <3>4
      <4> QED
        BY <3>2, <4>1, HandlerNumbers
    <3> QED
      BY <3>3, <3>4
  <2>2. ASSUME NEW y \in RunningHandlers \cup {x}
        PROVE  y \in RunningHandlers'
    <3>1. ASSUME NEW d \in Conns, NEW i \in 1 .. running'[d], y = <<d, i>>
          PROVE  y \in RunningHandlers'
      BY <3>1 DEF RunningHandlers
    <3>2. CASE y = x
      <4>1. running[c] + 1 \in 1 .. running'[c]
        BY <1>1
      <4> QED
        BY <3>1, <3>2, <4>1
    <3>3. CASE y # x
      <4>1. PICK d \in Conns : \E i \in 1 .. running[d] : y = <<d, i>>
        BY <2>2, <3>3, HandlerNumbers
      <4>2. PICK i \in 1 .. running[d] : y = <<d, i>>
        BY <4>1
      <4>3. i \in 1 .. running'[d]
        BY <1>1
      <4> QED
        BY <3>1, <4>2, <4>3
    <3> QED
      BY <3>2, <3>3
  <2> QED
    BY <2>1, <2>2
<1> HIDE DEF x
<1> QED
  BY <1>2, <1>3, FS_AddElement

\* and one that ends no longer is.
LEMMA HandlerEnds ==
  ASSUME NetTypeOK, IsFiniteSet(RunningHandlers), NEW c \in Conns,
         running[c] > 0, running' = [running EXCEPT ![c] = @ - 1]
  PROVE  /\ IsFiniteSet(RunningHandlers')
         /\ Cardinality(RunningHandlers') = Cardinality(RunningHandlers) - 1
<1> DEFINE x == <<c, running[c]>>
<1>1. /\ running[c] \in Nat /\ running'[c] = running[c] - 1
      /\ \A d \in Conns : running[d] \in Nat /\ (d # c => running'[d] = running[d])
  BY DEF NetTypeOK
<1>2. x \in RunningHandlers
  <2>1. running[c] \in 1 .. running[c]
    BY <1>1
  <2> QED
    BY <2>1, HandlerNumbers
<1>3. RunningHandlers' = RunningHandlers \ {x}
  <2>1. ASSUME NEW y \in RunningHandlers'
        PROVE  y \in RunningHandlers \ {x}
    <3>1. PICK d \in Conns : \E i \in 1 .. running'[d] : y = <<d, i>>
      BY <2>1 DEF RunningHandlers
    <3>2. PICK i \in 1 .. running'[d] : y = <<d, i>>
      BY <3>1
    <3>3. i \in 1 .. running[d] /\ ~(d = c /\ i = running[c])
      BY <1>1
    <3> QED
      BY <3>2, <3>3, HandlerNumbers
  <2>2. ASSUME NEW y \in RunningHandlers \ {x}
        PROVE  y \in RunningHandlers'
    <3>1. PICK d \in Conns : \E i \in 1 .. running[d] : y = <<d, i>>
      BY <2>2, HandlerNumbers
    <3>2. PICK i \in 1 .. running[d] : y = <<d, i>>
      BY <3>1
    <3>3. i \in 1 .. running'[d]
      BY <1>1, <2>2, <3>2
    <3> QED
      BY <3>2, <3>3 DEF RunningHandlers
  <2> QED
    BY <2>1, <2>2
<1> HIDE DEF x
<1> QED
  BY <1>2, <1>3, FS_RemoveElement

\* No handler runs and nothing waits when the session is spawned.
LEMMA InitPermits == Init => PermitsInv
<1> SUFFICES ASSUME Init PROVE PermitsInv
  OBVIOUS
<1>1. RunningHandlers = {}
  BY DEF Init, RunningHandlers
<1>2. {i \in DOMAIN control : control[i].kind = "InboundStream"} = {}
  BY DEF Init
<1> QED
  BY <1>1, <1>2, FS_EmptySet, SessionAssumption
  DEF Init, PermitsInv, PermitsAccounted, InboundStreamsQueued

\* Only four kinds of steps move a permit.
LEMMA PermitsStill ==
  ASSUME TypedAccounting, PermitsInv, UNCHANGED <<permits, running>>,
         \/ control' = control
         \/ \E note \in ControlMessage :
               note.kind # "InboundStream" /\ Post(<<note>>)
         \/ /\ control # <<>> /\ control' = Tail(control)
            /\ Head(control).kind # "InboundStream"
  PROVE  PermitsInv'
<1>1. RunningHandlers' = RunningHandlers
  BY DEF RunningHandlers
<1>2. InboundStreamsQueued' = InboundStreamsQueued
  <2>1. CASE control' = control
    BY <2>1, SameCounts
  <2>2. ASSUME NEW note \in ControlMessage, note.kind # "InboundStream",
               Post(<<note>>)
        PROVE  InboundStreamsQueued' = InboundStreamsQueued
    <3>1. CASE alive
      BY <2>2, <3>1, PostCounts DEF TypedAccounting, TypeOK
    <3>2. CASE ~alive
      BY <2>2, <3>2, SameCounts DEF Post
    <3> QED
      BY <3>1, <3>2
  <2>3. CASE /\ control # <<>> /\ control' = Tail(control)
             /\ Head(control).kind # "InboundStream"
    BY <2>3, ReceiveCounts DEF TypedAccounting, TypeOK
  <2> QED
    BY <2>1, <2>2, <2>3
<1> QED
  BY <1>1, <1>2 DEF PermitsInv, PermitsAccounted

\* The steps that do.
LEMMA PermitsMove ==
  ASSUME TypedAccounting, PermitsInv,
         \/ \E c \in Conns : StreamTaken(c) \/ HandlerFinishes(c)
         \/ HandleInboundStream \/ HandleShutdown
  PROVE  PermitsInv'
<1> USE DEF TypedAccounting, TypeOK
<1>0. /\ Cardinality(RunningHandlers) \in Nat /\ InboundStreamsQueued \in Nat
      /\ permits \in Nat /\ MaxHandlers \in Nat
      /\ permits + InboundStreamsQueued + Cardinality(RunningHandlers) = MaxHandlers
      /\ IsFiniteSet(RunningHandlers)
      /\ ChannelTypeOK /\ NetTypeOK
  BY FS_CardinalityType, QueuedStreamsType, SessionAssumption
  DEF PermitsInv, PermitsAccounted, NetTypeOK
<1>1. ASSUME NEW c \in Conns, StreamTaken(c) PROVE PermitsInv'
  <2>0. UNCHANGED running
    BY <1>1 DEF StreamTaken
  <2>1. RunningHandlers' = RunningHandlers
    BY <2>0 DEF RunningHandlers
  <2>2. CASE permits > 0 /\ alive
    <3>1. permits' = permits - 1 /\ Post(<<Note("InboundStream", c)>>)
      BY <1>1, <2>2 DEF StreamTaken
    <3>2. InboundStreamsQueued' = InboundStreamsQueued + 1
      BY <1>0, <2>2, <3>1, NoteType, PostCounts DEF Note
    <3> QED
      BY <1>0, <2>1, <3>1, <3>2 DEF PermitsInv, PermitsAccounted
  <2>3. CASE ~(permits > 0 /\ alive)
    BY <1>1, <2>3, PermitsStill DEF StreamTaken
  <2> QED
    BY <2>2, <2>3
<1>2. ASSUME NEW c \in Conns, HandlerFinishes(c) PROVE PermitsInv'
  <2>1. /\ running[c] > 0 /\ running' = [running EXCEPT ![c] = @ - 1]
        /\ permits' = permits + 1 /\ Post(<<Note("InboundFinished", c)>>)
    BY <1>2 DEF HandlerFinishes
  <2>2. InboundStreamsQueued' = InboundStreamsQueued
    <3>1. CASE alive
      BY <1>0, <2>1, <3>1, NoteType, PostCounts DEF Note
    <3>2. CASE ~alive
      BY <2>1, <3>2, SameCounts DEF Post
    <3> QED
      BY <3>1, <3>2
  <2>3. /\ IsFiniteSet(RunningHandlers')
        /\ Cardinality(RunningHandlers') = Cardinality(RunningHandlers) - 1
    BY <1>0, <2>1, HandlerEnds
  <2> QED
    BY <1>0, <2>1, <2>2, <2>3 DEF PermitsInv, PermitsAccounted
<1>3. CASE HandleInboundStream
  <2> DEFINE c == Head(control).conn
  <2>1. /\ control # <<>> /\ control' = Tail(control)
        /\ Head(control).kind = "InboundStream"
    BY <1>3 DEF HandleInboundStream, Receive
  <2>2. InboundStreamsQueued = InboundStreamsQueued' + 1 /\ InboundStreamsQueued' \in Nat
    BY <1>0, <2>1, ReceiveCounts
  <2>3. c \in Conns
    BY <1>0, <2>1, ReceiveType, ControlConn, HeadTailProperties DEF ChannelTypeOK
  <2> HIDE DEF c
  <2>4. CASE running' = [running EXCEPT ![c] = @ + 1] /\ UNCHANGED permits
    <3>1. /\ IsFiniteSet(RunningHandlers')
          /\ Cardinality(RunningHandlers') = Cardinality(RunningHandlers) + 1
      BY <1>0, <2>3, <2>4, HandlerStarts
    <3> QED
      BY <1>0, <2>2, <2>4, <3>1 DEF PermitsInv, PermitsAccounted
  <2>5. CASE permits' = permits + 1 /\ UNCHANGED running
    <3>1. RunningHandlers' = RunningHandlers
      BY <2>5 DEF RunningHandlers
    <3> QED
      BY <1>0, <2>2, <2>5, <3>1 DEF PermitsInv, PermitsAccounted
  <2> QED
    BY <1>3, <2>4, <2>5 DEF HandleInboundStream, c
<1>4. CASE HandleShutdown
  <2>1. /\ permits' = permits + InboundStreamsQueued /\ control' = <<>>
        /\ UNCHANGED running
    BY <1>4 DEF HandleShutdown
  <2>2. RunningHandlers' = RunningHandlers
    BY <2>1 DEF RunningHandlers
  <2>3. InboundStreamsQueued' = 0
    <3>1. {i \in DOMAIN control' : control'[i].kind = "InboundStream"} = {}
      BY <2>1
    <3> QED
      BY <3>1, FS_EmptySet DEF InboundStreamsQueued
  <2> QED
    BY <1>0, <2>1, <2>2, <2>3 DEF PermitsInv, PermitsAccounted
<1> QED
  BY <1>1, <1>2, <1>3, <1>4


\* Every step keeps the permits accounted for.
LEMMA PermitsStep ==
  ASSUME TypedAccounting, PermitsInv, [Next]_vars
  PROVE  PermitsInv'
<1> DEFINE Quiet == \E note \in ControlMessage :
                       note.kind # "InboundStream" /\ Post(<<note>>)
           Handled == /\ control # <<>> /\ control' = Tail(control)
                      /\ Head(control).kind # "InboundStream"
<1>1. ASSUME NEW kind \in {"Attach", "ConnectionClosed", "DialFinished",
                           "InboundFinished", "Shutdown", "StartOutboundDial"},
             NEW c \in Conns \cup {NoConn},
             c = NoConn => kind \in {"DialFinished", "Shutdown", "StartOutboundDial"},
             c # NoConn => kind \notin {"Shutdown", "StartOutboundDial"},
             Post(<<Note(kind, c)>>)
      PROVE  Quiet
  <2>1. Note(kind, c) \in ControlMessage /\ Note(kind, c).kind # "InboundStream"
    BY <1>1 DEF Note, ControlMessage
  <2> QED
    BY <1>1, <2>1
<1>2. ASSUME NEW m \in Messages, Post(<<OutboundFinished(m)>>)
      PROVE  Quiet
  <2>1. /\ OutboundFinished(m) \in ControlMessage
        /\ OutboundFinished(m).kind # "InboundStream"
    BY DEF OutboundFinished, ControlMessage, TypedAccounting, TypeOK, TaskTypeOK
  <2> QED
    BY <1>2, <2>1
<1>3. ASSUME UNCHANGED <<permits, running>>, control' = control \/ Quiet \/ Handled
      PROVE  PermitsInv'
  BY <1>3, PermitsStill
<1> HIDE DEF Quiet
<1>4. CASE Client \/ DeadlinePasses
  <2>1. CASE SendText \/ RemoveContact \/ DeadlinePasses
    BY <1>3, <2>1 DEF SendText, RemoveContact, DeadlinePasses, chanVars, netVars
  <2>2. CASE RequestShutdown
    BY <1>1, <1>3, <2>2 DEF RequestShutdown, netVars
  <2>3. CASE RequestOutboundDial
    BY <1>1, <1>3, <2>3 DEF RequestOutboundDial, netVars
  <2> QED
    BY <1>4, <2>1, <2>2, <2>3 DEF Client
<1>5. CASE Deadline \/ OutboundTask \/ \E m \in Messages : StreamAnswers(m)
  <2>1. ASSUME NEW m \in Messages, TaskReports(m) PROVE PermitsInv'
    BY <1>2, <1>3, <2>1 DEF TaskReports, netVars
  <2>2. ASSUME NEW m \in Messages, \/ DeadlineFires(m) \/ DeadlineResolves(m)
                                   \/ StreamAnswers(m) \/ StreamTimesOut(m)
                                   \/ TaskResolves(m)
        PROVE  PermitsInv'
    BY <1>3, <2>2 DEF DeadlineFires, DeadlineResolves, StreamAnswers,
       StreamTimesOut, StreamReturns, TaskResolves, chanVars, netVars
  <2> QED
    BY <1>5, <2>1, <2>2 DEF Deadline, OutboundTask
<1>6. CASE DialEnds
  <2>1. OutConn \in Conns
    BY DEF Conns
  <2>2. CASE DialSucceeds
    BY <1>1, <1>3, <2>1, <2>2, SessionAssumption DEF DialSucceeds
  <2>3. CASE DialFails
    BY <1>1, <1>3, <2>3 DEF DialFails, netVars
  <2> QED
    BY <1>6, <2>2, <2>3 DEF DialEnds
<1>7. CASE Watchers \/ Handlers
  <2>1. ASSUME NEW c \in Conns, MonitorReports(c) PROVE PermitsInv'
    BY <1>1, <1>3, <2>1, SessionAssumption DEF MonitorReports
  <2> QED
    BY <1>7, <2>1, PermitsMove DEF Watchers, Handlers
<1>8. ASSUME NEW c \in Conns, InboundArrives(c) \/ ConnectionLost(c) \/ StreamArrives(c)
      PROVE  PermitsInv'
  <2>1. CASE InboundArrives(c)
    BY <1>1, <1>3, <2>1, SessionAssumption DEF InboundArrives
  <2>2. CASE ConnectionLost(c) \/ StreamArrives(c)
    BY <1>3, <2>2 DEF ConnectionLost, StreamArrives, chanVars
  <2> QED
    BY <1>8, <2>1, <2>2
<1>9. CASE StartNext \/ ReceiveDelivery \/ HandleAcceptLoopStopped
  BY <1>3, <1>9 DEF StartNext, ReceiveDelivery, HandleAcceptLoopStopped, chanVars,
     netVars
<1>10. CASE HandleInboundStream \/ HandleShutdown
  BY <1>10, PermitsMove
<1>11. CASE \/ HandleAttach \/ HandleDialFinished \/ HandleStartOutboundDial
            \/ HandleConnectionClosed \/ HandleInboundFinished
            \/ HandleOutboundFinished
  BY <1>3, <1>11 DEF HandleAttach, HandleDialFinished, HandleStartOutboundDial,
     HandleConnectionClosed, HandleInboundFinished, HandleOutboundFinished,
     Receive, netVars
<1>12. CASE UNCHANGED vars
  BY <1>3, <1>12 DEF vars, chanVars, netVars
<1> QED
  BY <1>4, <1>5, <1>6, <1>7, <1>8, <1>9, <1>10, <1>11, <1>12
  DEF Next, Actor, HandleControl, Peer, Conns

\* No permit of the handler budget is ever lost or given out twice, whatever
\* connections end, drain or are rejected while streams and handlers hold them.
THEOREM PermitsKept == Spec => []PermitsAccounted
<1>1. TypedAccounting /\ PermitsInv /\ [Next]_vars => PermitsInv'
  BY PermitsStep
<1>2. PermitsInv => PermitsAccounted
  BY DEF PermitsInv
<1> QED
  BY InitTyped, InitPermits, StepTyped, <1>1, <1>2, PTL DEF Spec


-----------------------------------------------------------------------------
(* Steps that leave the slots alone.                                       *)

\* The reports that wait for the actor to count a stream down stay the same.
SameReports ==
  \A c \in Conns :
    /\ Queued("InboundFinished", c)' = Queued("InboundFinished", c)
    /\ Queued("OutboundFinished", c)' = Queued("OutboundFinished", c)

\* What happens to connections before the actor has taken them is nothing to the
\* slots.
Outside ==
  /\ UNCHANGED <<alive, slotVars, running, via>>
  /\ Growing
  /\ \A c \in Conns :
       /\ monitor[c] = "none" /\ accepting[c] = "none" => accepting'[c] = "none"
       /\ conn'[c] = "open" /\ monitor[c] # "none" => conn[c] = "open"

\* The tasks of outgoing streams do not end.
SameFlights ==
  \A m \in Messages :
    /\ task'[m] \in InFlight <=> task[m] \in InFlight
    /\ task'[m] = "aborted" => task[m] = "aborted"

\* The streams on a connection are a finite set.
LEMMA FlyingFinite ==
  ASSUME SessionAssumption, NEW c
  PROVE  IsFiniteSet(Flying(c)) /\ Cardinality(Flying(c)) \in Nat
<1>1. IsFiniteSet(Messages)
  BY FS_Interval DEF Messages
<1> QED
  BY <1>1, FS_Subset, FS_CardinalityType DEF Flying

\* A slot is a connection.
LEMMA SlotsAreConns ==
  ASSUME TypedAccounting
  PROVE  Slots \subseteq Conns /\ NoConn \notin Slots
  BY SessionAssumption DEF TypedAccounting, TypeOK, SlotTypeOK, Slots

\* Then everything but the messages and the dial stays as it was.
LEMMA OutsideSlots ==
  ASSUME TypedAccounting, SlotInv, Outside, SameFlights, SameReports,
         EndedEmpty', NotesSound', DialedOnce'
  PROVE  SlotInv'
<1> USE DEF SlotInv
<1>0. Slots' = Slots /\ UNCHANGED <<alive, primary, draining, handlers, outbound>>
  BY DEF Outside, slotVars, Slots
<1>1. OffSlots'
  BY <1>0 DEF OffSlots
<1>2. FreshUnused'
  BY <1>0 DEF FreshUnused, Outside, Growing, Grows
<1>3. TaskOfSlot'
  BY <1>0 DEF TaskOfSlot, Outside, SameFlights
<1>4. ASSUME NEW c \in Slots PROVE Counted(c)'
  <2>0. c \in Conns
    BY SlotsAreConns
  <2>1. Flying(c)' = Flying(c)
    BY DEF Flying, Outside, SameFlights
  <2> QED
    BY <1>0, <1>4, <2>0, <2>1 DEF Counted, Outside, SameReports
<1>5. NoIdleConnection'
  <2>1. \A c \in draining : c # primary /\ Busy(c)'
    BY <1>0 DEF NoIdleConnection, Busy
  <2> QED
    BY <1>0, <2>1 DEF NoIdleConnection, Outside, Growing, Grows
<1> QED
  BY <1>0, <1>1, <1>2, <1>3, <1>4, <1>5

\* What the tasks outside the actor send about themselves.
LEMMA PostOutside ==
  ASSUME TypedAccounting, SlotInv, Outside, NEW note \in ControlMessage,
         Post(<<note>>), alive => Sound(note)',
         note.kind \in Announces /\ note.conn # NoConn => conn[note.conn] = "none",
         note.kind \notin {"InboundFinished", "OutboundFinished"}
  PROVE  EndedEmpty' /\ NotesSound' /\ SameReports
<1>1. ChannelTypeOK
  BY DEF TypedAccounting, TypeOK
<1>2. NotesSound'
  BY <1>1, PostSound DEF SlotInv, Outside
<1>3. SameReports
  <2>1. CASE alive
    BY <1>1, <2>1, PostCounts DEF SameReports
  <2>2. CASE ~alive
    BY <2>2, SameCounts DEF SameReports, Post
  <2> QED
    BY <2>1, <2>2
<1>4. EndedEmpty'
  BY DEF SlotInv, EndedEmpty, Outside, Post, slotVars, Slots
<1> QED
  BY <1>2, <1>3, <1>4

\* Nothing is sent.
LEMMA QuietOutside ==
  ASSUME TypedAccounting, SlotInv, Outside, control' = control
  PROVE  EndedEmpty' /\ NotesSound' /\ SameReports
<1>1. NotesSound'
  BY QuietSound DEF SlotInv, Outside, TypedAccounting, TypeOK
<1>2. EndedEmpty'
  BY DEF SlotInv, EndedEmpty, Outside, slotVars, Slots
<1> QED
  BY <1>1, <1>2, SameCounts DEF SameReports

\* A step that leaves connections and tasks alone.
LEMMA Apart ==
  ASSUME UNCHANGED <<alive, slotVars, netVars, via, task>>
  PROVE  Outside /\ SameFlights
  BY DEF Outside, SameFlights, Growing, Grows, netVars

\* The dial stays as it is when its variables and its connection do.
LEMMA DialStill ==
  ASSUME DialedOnce, UNCHANGED dialVars, conn'[OutConn] = conn[OutConn]
  PROVE  DialedOnce'
  BY DEF DialedOnce, dialVars

\* The client and the clock.
LEMMA ClientSlots ==
  ASSUME TypedAccounting, SlotInv, Client \/ DeadlinePasses
  PROVE  SlotInv'
<1>1. UNCHANGED <<alive, slotVars, netVars, taskVars, dialVars>>
  BY DEF Client, SendText, RemoveContact, RequestShutdown, RequestOutboundDial,
     DeadlinePasses
<1>2. Outside /\ SameFlights
  BY <1>1, Apart DEF taskVars
<1>3. DialedOnce'
  BY <1>1, DialStill DEF SlotInv, netVars
<1>4. EndedEmpty' /\ NotesSound' /\ SameReports
  <2>1. CASE control' = control
    BY <1>2, <2>1, QuietOutside
  <2>2. ASSUME NEW kind \in {"Shutdown", "StartOutboundDial"},
               Post(<<Note(kind, NoConn)>>)
        PROVE  EndedEmpty' /\ NotesSound' /\ SameReports
    <3> DEFINE note == Note(kind, NoConn)
    <3>1. /\ note \in ControlMessage /\ note.conn = NoConn
          /\ note.kind \notin {"InboundFinished", "OutboundFinished",
                               "ConnectionClosed"}
      BY DEF Note, ControlMessage
    <3>2. Sound(note)'
      BY <3>1 DEF Sound
    <3> HIDE DEF note
    <3> QED
      BY <1>2, <2>2, <3>1, <3>2, PostOutside DEF note
  <2> QED
    BY <2>1, <2>2 DEF Client, SendText, RemoveContact, RequestShutdown,
       RequestOutboundDial, DeadlinePasses, chanVars
<1> QED
  BY <1>2, <1>3, <1>4, OutsideSlots

\* Deadline tasks and the stream tasks, until they report.
LEMMA SettlingSlots ==
  ASSUME TypedAccounting, SlotInv, NEW m \in Messages,
         \/ DeadlineFires(m) \/ DeadlineResolves(m)
         \/ StreamAnswers(m) \/ StreamTimesOut(m) \/ TaskResolves(m)
  PROVE  SlotInv'
<1>1. /\ UNCHANGED <<alive, slotVars, netVars, via, dialVars, control>>
      /\ \/ UNCHANGED task
         \/ /\ task[m] \in {"streaming", "settling"}
            /\ \E s \in {"reporting", "settling"} : task' = [task EXCEPT ![m] = s]
  BY DEF DeadlineFires, DeadlineResolves, StreamAnswers, StreamTimesOut,
     StreamReturns, TaskResolves, taskVars, chanVars
<1>2. Outside
  BY <1>1 DEF Outside, Growing, Grows, netVars
<1>3. SameFlights
  BY <1>1 DEF SameFlights, InFlight, TypedAccounting, TypeOK, TaskTypeOK
<1>4. DialedOnce'
  BY <1>1, DialStill DEF SlotInv, netVars
<1> QED
  BY <1>1, <1>2, <1>3, <1>4, QuietOutside, OutsideSlots


\* The dial.
LEMMA DialSlots ==
  ASSUME TypedAccounting, SlotInv, DialEnds
  PROVE  SlotInv'
<1>0. /\ OutConn \in Conns /\ OutConn # NoConn
      /\ conn \in [Conns -> {"none", "open", "closed"}]
  BY SessionAssumption DEF Conns, TypedAccounting, TypeOK, NetTypeOK
<1>1. /\ dialer = "running" /\ dialer' = "done"
      /\ UNCHANGED <<alive, slotVars, running, via, task, monitor, accepting, dialing,
                     dialAttempted>>
      /\ \A c \in Conns : c # OutConn => conn'[c] = conn[c]
      /\ conn'[OutConn] = conn[OutConn] \/ conn'[OutConn] # "none"
  BY <1>0 DEF DialEnds, DialSucceeds, DialFails, taskVars, netVars
<1>2. conn[OutConn] = "none" /\ monitor[OutConn] = "none" /\ dialAttempted
  BY <1>0, <1>1 DEF SlotInv, DialedOnce, FreshUnused
<1>3. Outside /\ SameFlights
  BY <1>0, <1>1, <1>2 DEF Outside, Growing, Grows, SameFlights
<1>4. DialedOnce'
  BY <1>1, <1>2 DEF DialedOnce
<1>5. EndedEmpty' /\ NotesSound' /\ SameReports
  <2>1. PICK c \in {OutConn, NoConn} : /\ Post(<<Note("DialFinished", c)>>)
                                       /\ c = OutConn => conn'[OutConn] # "none"
    BY <1>0 DEF DialEnds, DialSucceeds, DialFails, netVars
  <2> DEFINE note == Note("DialFinished", c)
  <2>2. /\ note \in ControlMessage /\ note.conn = c /\ note.kind = "DialFinished"
        /\ note.kind \in Announces
    BY <1>0, NoteType DEF Note, Announces
  <2> HIDE DEF note
  <2>3. alive => Sound(note)'
    BY <1>0, <1>1, <1>2, <2>1, <2>2 DEF Sound, note
  <2>4. note.conn # NoConn => conn[note.conn] = "none"
    BY <1>2, <2>1, <2>2
  <2> QED
    BY <1>3, <2>1, <2>2, <2>3, <2>4, PostOutside DEF note
<1> QED
  BY <1>3, <1>4, <1>5, OutsideSlots

\* Connections that arrive or are lost, and the monitors and accept loops of
\* those the session has.
LEMMA NetworkSlots ==
  ASSUME TypedAccounting, SlotInv, NEW c \in Conns,
         \/ c \in InConns /\ InboundArrives(c)
         \/ ConnectionLost(c) \/ MonitorReports(c)
         \/ StreamArrives(c) \/ StreamTaken(c)
  PROVE  SlotInv'
<1>0. /\ OutConn \in Conns /\ OutConn \notin InConns /\ c # NoConn
      /\ conn \in [Conns -> {"none", "open", "closed"}]
      /\ monitor \in [Conns -> {"none", "watching", "reported"}]
      /\ accepting \in [Conns -> {"none", "starting", "polling", "taking"}]
  BY SessionAssumption DEF Conns, TypedAccounting, TypeOK, NetTypeOK
<1>1. /\ UNCHANGED <<alive, slotVars, running, via, task, dialVars>>
      /\ \A d \in Conns : d # c => UNCHANGED <<conn[d], monitor[d], accepting[d]>>
  BY <1>0 DEF InboundArrives, ConnectionLost, MonitorReports, StreamArrives,
     StreamTaken, taskVars
<1>2. SameFlights
  BY <1>1 DEF SameFlights
<1>3. CASE c \in InConns /\ InboundArrives(c)
  <2>1. /\ conn[c] = "none" /\ conn'[c] = "open" /\ UNCHANGED <<monitor, accepting>>
        /\ Post(<<Note("Attach", c)>>)
    BY <1>0, <1>3 DEF InboundArrives
  <2>2. monitor[c] = "none"
    BY <2>1 DEF SlotInv, FreshUnused
  <2>3. Outside
    BY <1>1, <2>1, <2>2 DEF Outside, Growing, Grows
  <2>4. DialedOnce'
    BY <1>0, <1>1, <1>3, DialStill DEF SlotInv
  <2> DEFINE note == Note("Attach", c)
  <2>5. note \in ControlMessage /\ note.conn = c /\ note.kind = "Attach"
    BY NoteType DEF Note
  <2> HIDE DEF note
  <2>6. Sound(note)'
    BY <2>1, <2>2, <2>5 DEF Sound, Announces
  <2>7. EndedEmpty' /\ NotesSound' /\ SameReports
    BY <2>1, <2>3, <2>5, <2>6, PostOutside DEF note
  <2> QED
    BY <1>2, <2>3, <2>4, <2>7, OutsideSlots
<1>4. CASE ConnectionLost(c)
  <2>1. /\ conn[c] = "open" /\ conn'[c] = "closed"
        /\ UNCHANGED <<monitor, accepting, control>>
    BY <1>0, <1>4 DEF ConnectionLost, chanVars
  <2>2. Outside
    BY <1>1, <2>1 DEF Outside, Growing, Grows
  <2>3. DialedOnce'
    BY <1>0, <1>1, <2>1 DEF SlotInv, DialedOnce, dialVars
  <2> QED
    BY <1>2, <2>1, <2>2, <2>3, QuietOutside, OutsideSlots
<1>5. CASE MonitorReports(c)
  <2>1. /\ monitor[c] = "watching" /\ monitor'[c] = "reported" /\ conn[c] = "closed"
        /\ UNCHANGED <<conn, accepting>> /\ Post(<<Note("ConnectionClosed", c)>>)
    BY <1>0, <1>5 DEF MonitorReports
  <2>2. Outside
    BY <1>1, <2>1 DEF Outside, Growing, Grows
  <2>3. DialedOnce'
    BY <1>1, <2>1, DialStill DEF SlotInv
  <2> DEFINE note == Note("ConnectionClosed", c)
  <2>4. note \in ControlMessage /\ note.conn = c /\ note.kind = "ConnectionClosed"
    BY NoteType DEF Note
  <2> HIDE DEF note
  <2>5. Sound(note)'
    BY <2>1, <2>4 DEF Sound, Announces
  <2>6. EndedEmpty' /\ NotesSound' /\ SameReports
    BY <2>1, <2>2, <2>4, <2>5, PostOutside DEF note, Announces
  <2> QED
    BY <1>2, <2>2, <2>3, <2>6, OutsideSlots
<1>6. CASE StreamArrives(c)
  <2>1. accepting[c] # "none" /\ UNCHANGED <<conn, monitor, control>>
    BY <1>6 DEF StreamArrives, SlotInv, FreshUnused, Slots, chanVars
  <2>2. Outside
    BY <1>1, <2>1 DEF Outside, Growing, Grows
  <2>3. DialedOnce'
    BY <1>1, <2>1, DialStill DEF SlotInv
  <2> QED
    BY <1>2, <2>1, <2>2, <2>3, QuietOutside, OutsideSlots
<1>7. CASE StreamTaken(c)
  <2>1. accepting[c] = "taking" /\ UNCHANGED <<conn, monitor>>
    BY <1>7 DEF StreamTaken
  <2>2. monitor[c] # "none"
    BY <2>1 DEF SlotInv, FreshUnused
  <2>3. Outside
    BY <1>1, <2>1 DEF Outside, Growing, Grows
  <2>4. DialedOnce'
    BY <1>1, <2>1, DialStill DEF SlotInv
  <2>5. EndedEmpty' /\ NotesSound' /\ SameReports
    <3>1. CASE Post(<<Note("InboundStream", c)>>)
      <4> DEFINE note == Note("InboundStream", c)
      <4>1. note \in ControlMessage /\ note.conn = c /\ note.kind = "InboundStream"
        BY NoteType DEF Note
      <4> HIDE DEF note
      <4>2. Sound(note)'
        BY <2>1, <2>2, <4>1 DEF Sound, Announces
      <4> QED
        BY <2>3, <3>1, <4>1, <4>2, PostOutside DEF note, Announces
    <3>2. CASE control' = control
      BY <2>3, <3>2, QuietOutside
    <3> QED
      BY <1>7, <3>1, <3>2 DEF StreamTaken
  <2> QED
    BY <1>2, <2>3, <2>4, <2>5, OutsideSlots
<1> QED
  BY <1>3, <1>4, <1>5, <1>6, <1>7


\* A stream that ends: what its task reports, and the count that keeps.
LEMMA ReportSlots ==
  ASSUME TypedAccounting, SlotInv, NEW note \in ControlMessage, Post(<<note>>),
         note.kind \in {"InboundFinished", "OutboundFinished"},
         note.conn \in Conns => monitor[note.conn] # "none",
         UNCHANGED <<alive, slotVars, conn, monitor, accepting, via, dialVars>>,
         \A c \in Conns : running[c] = 0 => running'[c] = 0,
         TaskOfSlot', alive => \A c \in Slots : Counted(c)'
  PROVE  SlotInv'
<1> USE DEF SlotInv
<1>0. /\ Slots' = Slots
      /\ UNCHANGED <<primary, draining, handlers, outbound>>
  BY DEF slotVars, Slots
<1>1. NotesSound'
  <2>1. Sound(note)'
    <3>1. note.conn \in Conns \cup {NoConn} /\ note.kind # "ConnectionClosed"
      BY ControlConn
    <3> QED
      BY <3>1 DEF Sound, Announces
  <2> QED
    BY <2>1, PostSound DEF Growing, Grows, Announces, TypedAccounting, TypeOK
<1>2. EndedEmpty' /\ OffSlots' /\ FreshUnused' /\ NoIdleConnection'
  <2>1. EndedEmpty'
    BY <1>0 DEF EndedEmpty, Post
  <2>2. OffSlots'
    BY <1>0 DEF OffSlots
  <2>3. FreshUnused'
    BY <1>0 DEF FreshUnused
  <2>4. \A c : Busy(c)' <=> Busy(c)
    BY <1>0 DEF Busy
  <2>5. NoIdleConnection'
    BY <1>0, <2>4 DEF NoIdleConnection
  <2> QED
    BY <2>1, <2>2, <2>3, <2>5
<1>3. DialedOnce'
  BY DialStill
<1>4. \A c \in Slots : Counted(c)'
  BY DEF EndedEmpty
<1> QED
  BY <1>0, <1>1, <1>2, <1>3, <1>4

\* A handler tells the actor that it is done.
LEMMA HandlerSlots ==
  ASSUME TypedAccounting, SlotInv, NEW c \in Conns, HandlerFinishes(c)
  PROVE  SlotInv'
<1> DEFINE note == Note("InboundFinished", c)
<1>1. /\ running[c] > 0 /\ Post(<<note>>)
      /\ running' = [running EXCEPT ![c] = @ - 1]
      /\ UNCHANGED <<alive, slotVars, conn, monitor, accepting, via, task, dialVars>>
  BY DEF HandlerFinishes, taskVars
<1>2. /\ note \in ControlMessage /\ note.conn = c /\ note.kind = "InboundFinished"
  BY NoteType DEF Note
<1> HIDE DEF note
<1>3. /\ running[c] \in Nat /\ running'[c] = running[c] - 1
      /\ \A d \in Conns : d # c => running'[d] = running[d]
      /\ ChannelTypeOK
      /\ \A d \in Conns : running[d] \in Nat /\ handlers[d] \in Nat
  BY <1>1 DEF TypedAccounting, TypeOK, NetTypeOK, SlotTypeOK
<1>4. monitor[c] # "none"
  BY <1>1, <1>3 DEF SlotInv, FreshUnused
<1>5. TaskOfSlot'
  BY <1>1 DEF SlotInv, TaskOfSlot, Slots, slotVars
<1>6. ASSUME alive, NEW d \in Slots PROVE Counted(d)'
  <2>1. d \in Conns
    BY SlotsAreConns
  <2>2. /\ Queued("InboundFinished", d) \in Nat
        /\ Queued("InboundFinished", d)'
             = Queued("InboundFinished", d) + (IF d = c THEN 1 ELSE 0)
        /\ Queued("OutboundFinished", d)' = Queued("OutboundFinished", d)
    <3>1. /\ Queued("InboundFinished", d) \in Nat
          /\ Queued("InboundFinished", d)' = Queued("InboundFinished", d)
               + (IF note.kind = "InboundFinished" /\ note.conn = d THEN 1 ELSE 0)
      BY <1>1, <1>2, <1>3, <1>6, PostCounts
    <3>2. /\ Queued("OutboundFinished", d) \in Nat
          /\ Queued("OutboundFinished", d)' = Queued("OutboundFinished", d)
               + (IF note.kind = "OutboundFinished" /\ note.conn = d THEN 1 ELSE 0)
      BY <1>1, <1>2, <1>3, <1>6, PostCounts
    <3> QED
      BY <1>2, <3>1, <3>2
  <2>3. Flying(d)' = Flying(d)
    BY <1>1 DEF Flying
  <2>4. Counted(d) /\ UNCHANGED <<handlers, outbound>>
    BY <1>1 DEF SlotInv, slotVars
  <2> QED
    BY <1>1, <1>3, <2>1, <2>2, <2>3, <2>4 DEF Counted
<1>7. \A d \in Conns : running[d] = 0 => running'[d] = 0
  BY <1>1, <1>3
<1> QED
  BY <1>1, <1>2, <1>4, <1>5, <1>6, <1>7, ReportSlots

\* A stream task tells the actor that it is done, also one that was aborted.
LEMMA TaskSlots ==
  ASSUME TypedAccounting, SlotInv, NEW m \in Messages, TaskReports(m)
  PROVE  SlotInv'
<1> DEFINE note == OutboundFinished(m)
           c == via[m]
<1>1. /\ task[m] \in {"reporting", "aborted"} /\ Post(<<note>>)
      /\ task' = [task EXCEPT ![m] = "ended"]
      /\ UNCHANGED <<alive, slotVars, conn, monitor, accepting, running, via, dialVars>>
  BY DEF TaskReports, netVars
<1>2. /\ c \in Conns \cup {NoConn}
      /\ c \in Conns => monitor[c] # "none"
      /\ task[m] = "aborted" => c \notin Slots
  BY <1>1 DEF SlotInv, TaskOfSlot, FreshUnused, TypedAccounting, TypeOK, TaskTypeOK
<1>3. /\ note \in ControlMessage /\ note.conn = c /\ note.kind = "OutboundFinished"
  BY <1>2 DEF OutboundFinished, ControlMessage
<1>4. /\ ChannelTypeOK /\ task \in [Messages -> InFlight \cup {"none", "aborted", "ended"}]
  BY DEF TypedAccounting, TypeOK, TaskTypeOK
<1>5. /\ task'[m] = "ended" /\ \A k \in Messages : k # m => task'[k] = task[k]
      /\ UNCHANGED via
  BY <1>1, <1>4
<1> HIDE DEF note
<1>6. TaskOfSlot'
  BY <1>1, <1>5, <1>2 DEF SlotInv, TaskOfSlot, Slots, slotVars
<1>7. ASSUME alive, NEW d \in Slots PROVE Counted(d)'
  <2>1. d \in Conns
    BY SlotsAreConns
  <2>2. /\ Queued("InboundFinished", d)' = Queued("InboundFinished", d)
        /\ Queued("OutboundFinished", d) \in Nat
        /\ Queued("OutboundFinished", d)'
             = Queued("OutboundFinished", d) + (IF d = c THEN 1 ELSE 0)
    <3>1. /\ Queued("InboundFinished", d) \in Nat
          /\ Queued("InboundFinished", d)' = Queued("InboundFinished", d)
               + (IF note.kind = "InboundFinished" /\ note.conn = d THEN 1 ELSE 0)
      BY <1>1, <1>3, <1>4, <1>7, PostCounts
    <3>2. /\ Queued("OutboundFinished", d) \in Nat
          /\ Queued("OutboundFinished", d)' = Queued("OutboundFinished", d)
               + (IF note.kind = "OutboundFinished" /\ note.conn = d THEN 1 ELSE 0)
      BY <1>1, <1>3, <1>4, <1>7, PostCounts
    <3> QED
      BY <1>3, <3>1, <3>2
  <2>3. Cardinality(Flying(d)) \in Nat /\ IsFiniteSet(Flying(d))
    BY FlyingFinite, SessionAssumption
  <2>4. Cardinality(Flying(d)') = Cardinality(Flying(d)) - (IF d = c THEN 1 ELSE 0)
    <3>1. CASE d = c
      <4>1. task[m] = "reporting" /\ m \in Flying(d)
        BY <1>1, <1>2, <1>7, <3>1 DEF Flying, InFlight
      <4>2. Flying(d)' = Flying(d) \ {m}
        BY <1>5, <3>1 DEF Flying, InFlight
      <4> QED
        BY <2>3, <3>1, <4>1, <4>2, FS_RemoveElement
    <3>2. CASE d # c
      <4>1. Flying(d)' = Flying(d)
        BY <1>5, <3>2 DEF Flying
      <4> QED
        BY <2>3, <3>2, <4>1
    <3> QED
      BY <3>1, <3>2
  <2>5. Counted(d) /\ UNCHANGED <<handlers, outbound, running>>
    BY <1>1 DEF SlotInv, slotVars
  <2> HIDE DEF c
  <2> QED
    BY <2>2, <2>3, <2>4, <2>5 DEF Counted
<1> QED
  BY <1>1, <1>2, <1>3, <1>6, <1>7, ReportSlots


-----------------------------------------------------------------------------
(* Steps of the actor.                                                     *)

\* A new stream is counted on the primary connection.
LEMMA SpawnSlots ==
  ASSUME FullInv, StartNext, NEW m \in Messages, task[m] = "none",
         primary # NoConn, SpawnActiveDelivery(m)
  PROVE  SlotInv'
<1> USE DEF SlotInv
<1>0. TypedAccounting /\ SlotInv
  BY DEF FullInv, HandInv
<1>1. /\ via' = [via EXCEPT ![m] = primary]
      /\ task' = [task EXCEPT ![m] = "streaming"]
      /\ outbound' = [outbound EXCEPT ![primary] = @ + 1]
      /\ UNCHANGED <<primary, draining, handlers, control, alive, dialVars, conn,
                     monitor, accepting, running>>
  BY DEF SpawnActiveDelivery, StartNext, netVars
<1>2. /\ via \in [Messages -> Conns \cup {NoConn}]
      /\ task \in [Messages -> InFlight \cup {"none", "aborted", "ended"}]
      /\ outbound \in [Conns -> Nat] /\ handlers \in [Conns -> Nat]
      /\ ChannelTypeOK
  BY <1>0 DEF TypedAccounting, TypeOK, TaskTypeOK, SlotTypeOK
<1>3. /\ via'[m] = primary /\ task'[m] = "streaming"
      /\ \A k \in Messages : k # m => via'[k] = via[k] /\ task'[k] = task[k]
      /\ outbound'[primary] = outbound[primary] + 1
      /\ \A c \in Conns : c # primary => outbound'[c] = outbound[c]
      /\ Slots' = Slots /\ primary \in Slots /\ primary \in Conns
      /\ monitor[primary] # "none"
  <2>1. primary \in Slots /\ Slots' = Slots
    BY <1>1 DEF Slots
  <2>2. primary \in Conns
    BY <1>0, <2>1, SlotsAreConns
  <2>3. monitor[primary] # "none"
    BY <2>1, <2>2, <1>0 DEF FreshUnused
  <2> QED
    BY <1>1, <1>2, <2>1, <2>2, <2>3
<1>4. EndedEmpty' /\ OffSlots'
  BY <1>0, <1>1, <1>3 DEF EndedEmpty, OffSlots
<1>5. FreshUnused'
  BY <1>0, <1>1, <1>3 DEF FreshUnused
<1>6. NotesSound'
  BY <1>0, <1>1, <1>2, QuietSound DEF Growing, Grows
<1>7. DialedOnce'
  BY <1>0, <1>1, DialStill
<1>8. TaskOfSlot'
  BY <1>0, <1>1, <1>3 DEF TaskOfSlot
<1>9. ASSUME NEW c \in Slots PROVE Counted(c)'
  <2>1. c \in Conns /\ Counted(c)
    BY <1>0, SlotsAreConns
  <2>2. /\ Queued("InboundFinished", c)' = Queued("InboundFinished", c)
        /\ Queued("OutboundFinished", c)' = Queued("OutboundFinished", c)
    BY <1>1, SameCounts
  <2>3. IsFiniteSet(Flying(c)) /\ Cardinality(Flying(c)) \in Nat
    BY FlyingFinite, SessionAssumption
  <2>4. CASE c = primary
    <3>1. Flying(c)' = Flying(c) \cup {m} /\ m \notin Flying(c)
      BY <1>3, <2>4 DEF Flying, InFlight
    <3>2. Cardinality(Flying(c)') = Cardinality(Flying(c)) + 1
      BY <2>3, <3>1, FS_AddElement
    <3>3. Queued("OutboundFinished", c) \in Nat
      BY <1>2, QueuedType
    <3> QED
      BY <1>1, <1>2, <1>3, <2>1, <2>2, <2>3, <2>4, <3>2, <3>3 DEF Counted
  <2>5. CASE c # primary
    <3>1. Flying(c)' = Flying(c)
      BY <1>3, <2>5 DEF Flying, InFlight
    <3> QED
      BY <1>1, <1>3, <2>1, <2>2, <2>5, <3>1 DEF Counted
  <2> QED
    BY <2>4, <2>5
<1>10. NoIdleConnection'
  <2>1. ASSUME NEW c \in draining PROVE c # primary /\ Busy(c)'
    <3>1. c \in Conns /\ c # primary /\ Busy(c)
      BY <1>0, SlotsAreConns DEF NoIdleConnection, Slots
    <3> QED
      BY <1>1, <1>3, <3>1 DEF Busy
  <2> QED
    BY <1>0, <1>1, <1>3, <2>1 DEF NoIdleConnection
<1> QED
  BY <1>3, <1>4, <1>5, <1>6, <1>7, <1>8, <1>9, <1>10

\* Deliveries that are received, skipped, refused or sent.
LEMMA DeliverySlots ==
  ASSUME FullInv, StartNext \/ ReceiveDelivery
  PROVE  SlotInv'
<1>0. TypedAccounting /\ SlotInv /\ HandInv
  BY DEF FullInv, HandInv
<1>1. ASSUME UNCHANGED <<alive, slotVars, netVars, via, task, dialVars, control>>
      PROVE  SlotInv'
  <2>1. Outside /\ SameFlights
    BY <1>1, Apart
  <2>2. DialedOnce'
    BY <1>0, <1>1, DialStill DEF SlotInv, netVars
  <2> QED
    BY <1>0, <1>1, <2>1, <2>2, QuietOutside, OutsideSlots
<1>2. CASE ReceiveDelivery
  BY <1>1, <1>2 DEF ReceiveDelivery, taskVars
<1>3. CASE StartNext
  <2> DEFINE m == Head(queue)
  <2>1. CASE UNCHANGED <<slotVars, taskVars>>
    BY <1>1, <1>3, <2>1 DEF StartNext, taskVars
  <2>2. CASE Refusal(m) = "none" /\ SpawnActiveDelivery(m)
    <3>1. m = Taken + 1 /\ m \in Messages
      BY <1>0, <1>3, HeadIsNext
    <3>2. task[m] = "none"
      <4>1. Taken \in Nat
        BY <1>0, <1>3, HeadIsNext
      <4> HIDE DEF m
      <4>2. m > Taken
        BY <3>1, <4>1
      <4> QED
        BY <1>0, <3>1, <4>2 DEF HandInv, DeliveriesInHand, TakenInOrder
    <3>3. primary # NoConn
      BY <2>2 DEF Refusal
    <3> QED
      BY <1>3, <2>2, <3>1, <3>2, <3>3, SpawnSlots
  <2> QED
    BY <1>3, <2>1, <2>2 DEF StartNext
<1> QED
  BY <1>2, <1>3


\* What the actor knows when it handles a message.
LEMMA Handling ==
  ASSUME TypedAccounting, SlotInv, NEW kind, Receive(kind), control' = Tail(control),
         NEW note, note = Head(control)
  PROVE  /\ alive /\ control # <<>> /\ note.kind = kind
         /\ note \in ControlMessage /\ Sound(note)
         /\ note.conn \in Conns \cup {NoConn}
         /\ note.kind \notin {"InboundFinished", "OutboundFinished"} => SameReports
<1>1. ChannelTypeOK /\ NotesSound /\ alive /\ control # <<>> /\ note.kind = kind
  BY DEF TypedAccounting, TypeOK, SlotInv, Receive, AtSelect
<1>2. note \in ControlMessage /\ Sound(note)
  BY <1>1, HeadSound
<1>3. ASSUME note.kind \notin {"InboundFinished", "OutboundFinished"}
      PROVE  SameReports
  <2>1. ASSUME NEW k \in {"InboundFinished", "OutboundFinished"}, NEW c
        PROVE  Queued(k, c)' = Queued(k, c)
    <3>1. /\ Queued(k, c)' \in Nat
          /\ Queued(k, c) = Queued(k, c)'
               + (IF note.kind = k /\ note.conn = c THEN 1 ELSE 0)
      BY <1>1, ReceiveCounts
    <3> QED
      BY <1>3, <3>1
  <2> QED
    BY <2>1 DEF SameReports
<1> QED
  BY <1>1, <1>2, <1>3, ControlConn

\* attach_connection: which slots there are afterwards.
LEMMA AttachedSlots ==
  ASSUME TypedAccounting, SlotInv, NEW c \in Conns, c \notin Slots, ~Busy(c),
         AttachConnection(c), UNCHANGED <<handlers, outbound>>
  PROVE  /\ Slots' \subseteq Slots \cup {c}
         /\ \A d \in Slots \ Slots' : ~Busy(d) /\ conn'[d] = "closed"
         /\ c \in Slots' \/ conn'[c] = "closed"
         /\ \A d \in Conns : \/ conn'[d] = conn[d]
                             \/ d \in Slots \cup {c} /\ conn'[d] = "closed"
         /\ \A d \in draining' : d # primary' /\ Busy(d)
         /\ monitor' = [monitor EXCEPT ![c] = "watching"]
         /\ \A d \in Conns : d # c => accepting'[d] = accepting[d]
<1>1. /\ draining \subseteq Conns /\ primary \in Conns \cup {NoConn} /\ c # NoConn
      /\ \A d \in draining : d # primary /\ Busy(d)
      /\ accepting \in [Conns -> {"none", "starting", "polling", "taking"}]
  BY SessionAssumption
  DEF TypedAccounting, TypeOK, SlotTypeOK, NetTypeOK, SlotInv, NoIdleConnection
<1>2. CASE primary = NoConn \/ (Preferred(c) /\ ~Preferred(primary))
  <2> DEFINE old == {primary} \ {NoConn}
             busy == {d \in old : Busy(d)}
  <2>1. /\ primary' = c /\ draining' = draining \cup busy
        /\ conn' = Close(old \ busy)
        /\ monitor' = [monitor EXCEPT ![c] = "watching"]
        /\ accepting' = [accepting EXCEPT ![c] = "polling"]
    BY <1>2 DEF AttachConnection
  <2>2. Slots' = draining \cup busy \cup {c} /\ old \subseteq Slots
    BY <1>1, <2>1 DEF Slots
  <2>3. \A d \in Conns : conn'[d] = IF d \in old \ busy THEN "closed" ELSE conn[d]
    BY <2>1 DEF Close
  <2>4. \A d \in Slots : d \in draining \cup old
    BY DEF Slots
  <2>5. \A d \in draining \cup busy : d # c /\ Busy(d)
    BY <1>1, <2>2 DEF Slots
  <2>6. Slots' \subseteq Slots \cup {c} /\ c \in Slots'
    BY <2>2 DEF Slots
  <2>7. \A d \in Slots \ Slots' : d \in Conns /\ d \in old \ busy /\ ~Busy(d)
    BY <1>1, <2>2, <2>4
  <2>8. \A d \in Slots \ Slots' : ~Busy(d) /\ conn'[d] = "closed"
    BY <2>3, <2>7
  <2>9. \A d \in Conns : \/ conn'[d] = conn[d]
                         \/ d \in Slots \cup {c} /\ conn'[d] = "closed"
    BY <2>2, <2>3
  <2>10. /\ \A d \in draining' : d # primary' /\ Busy(d)
         /\ \A d \in Conns : d # c => accepting'[d] = accepting[d]
    BY <1>1, <2>1, <2>5
  <2> HIDE DEF old, busy
  <2> QED
    BY <2>1, <2>6, <2>8, <2>9, <2>10
<1>3. CASE ~(primary = NoConn \/ (Preferred(c) /\ ~Preferred(primary)))
  <2>1. {d \in {c} : Busy(d)} = {} /\ {c} \ {NoConn} = {c}
    BY <1>1
  <2>2. /\ primary' = primary /\ draining' = draining /\ conn' = Close({c})
        /\ monitor' = [monitor EXCEPT ![c] = "watching"]
        /\ accepting' = [accepting EXCEPT ![c] = "starting"]
    BY <1>3, <2>1 DEF AttachConnection
  <2> QED
    BY <1>1, <2>2 DEF Slots, Close
<1> QED
  BY <1>2, <1>3


\* A connection is taken: its counters start at nothing, and the slot that has to
\* give way keeps its own while it drains.
LEMMA AttachSlots ==
  ASSUME TypedAccounting, SlotInv, NEW kind \in Announces, Receive(kind),
         control' = Tail(control), NEW c \in Conns, Head(control).conn = c,
         AttachConnection(c),
         UNCHANGED <<alive, handlers, outbound, running, via, task, dialAttempted,
                     dialer>>,
         dialing' => dialing
  PROVE  SlotInv'
<1> USE DEF SlotInv
<1> DEFINE note == Head(control)
<1>0. /\ c # NoConn /\ OutConn \in Conns
      /\ monitor \in [Conns -> {"none", "watching", "reported"}]
      /\ ChannelTypeOK
  BY SessionAssumption DEF Conns, TypedAccounting, TypeOK, NetTypeOK
<1>1. /\ alive /\ control # <<>> /\ note.kind \in Announces /\ note.conn = c
      /\ Sound(note) /\ SameReports
  BY Handling DEF Announces
<1>2. \A i \in 2 .. Len(control) : control[i].conn # c
  BY <1>0, <1>1, HeadSound
<1>3. /\ conn[c] # "none" /\ monitor[c] = "none" /\ c \notin Slots
      /\ running[c] = 0 /\ handlers[c] = 0 /\ outbound[c] = 0 /\ ~Busy(c)
      /\ \A m \in Messages : via[m] # c
  <2>1. conn[c] # "none" /\ monitor[c] = "none"
    BY <1>0, <1>1 DEF Sound
  <2>2. c \notin Slots /\ running[c] = 0 /\ \A m \in Messages : via[m] # c
    BY <2>1 DEF FreshUnused
  <2>3. handlers[c] = 0 /\ outbound[c] = 0
    BY <2>2 DEF OffSlots
  <2> QED
    BY <2>1, <2>2, <2>3 DEF Busy
<1> HIDE DEF note
<1>4. /\ Slots' \subseteq Slots \cup {c}
      /\ \A d \in Slots \ Slots' : ~Busy(d) /\ conn'[d] = "closed"
      /\ c \in Slots' \/ conn'[c] = "closed"
      /\ \A d \in Conns : \/ conn'[d] = conn[d]
                          \/ d \in Slots \cup {c} /\ conn'[d] = "closed"
      /\ \A d \in draining' : d # primary' /\ Busy(d)
      /\ monitor' = [monitor EXCEPT ![c] = "watching"]
      /\ \A d \in Conns : d # c => accepting'[d] = accepting[d]
  BY <1>3, AttachedSlots
<1>5. monitor'[c] = "watching" /\ \A d \in Conns : d # c => monitor'[d] = monitor[d]
  BY <1>0, <1>4
<1>6. /\ \A d \in Slots : monitor[d] # "none" /\ conn[d] # "none" /\ d \in Conns
      /\ handlers \in [Conns -> Nat] /\ outbound \in [Conns -> Nat]
  BY SlotsAreConns DEF FreshUnused, TypedAccounting, TypeOK, SlotTypeOK
<1>7. EndedEmpty'
  BY <1>1 DEF EndedEmpty
<1>8. OffSlots'
  <2> SUFFICES ASSUME NEW d \in Conns, d \notin Slots'
               PROVE  handlers[d] = 0 /\ outbound[d] = 0
    BY DEF OffSlots
  <2>1. CASE d \in Slots
    BY <1>4, <1>6, <2>1 DEF Busy
  <2>2. CASE d \notin Slots
    BY <2>2 DEF OffSlots
  <2> QED
    BY <2>1, <2>2
<1>9. FreshUnused'
  <2> SUFFICES ASSUME NEW d \in Conns
               PROVE  /\ monitor'[d] = "none" => /\ d \notin Slots'
                                                 /\ running[d] = 0
                                                 /\ accepting'[d] = "none"
                                                 /\ \A m \in Messages : via[m] # d
                      /\ conn'[d] = "none" => monitor'[d] = "none"
    BY DEF FreshUnused
  <2>1. CASE d = c
    BY <1>3, <1>4, <1>5, <2>1
  <2>2. CASE d # c
    BY <1>4, <1>5, <1>6, <2>2 DEF FreshUnused
  <2> QED
    BY <2>1, <2>2
<1>10. NotesSound'
  <2>1. \A d \in Conns : d # c => Grows(d)
    BY <1>4, <1>5, <1>6 DEF Grows
  <2> QED
    BY <1>0, <1>1, <1>2, <2>1, ReceiveSound
<1>11. DialedOnce'
  <2>1. conn[OutConn] = "none" => conn'[OutConn] = "none"
    BY <1>0, <1>3, <1>4, <1>6
  <2> QED
    BY <2>1 DEF DialedOnce
<1>12. TaskOfSlot'
  BY <1>3, <1>4 DEF TaskOfSlot
<1>13. ASSUME NEW d \in Slots' PROVE Counted(d)'
  <2>1. d \in Conns /\ Flying(d)' = Flying(d)
    BY <1>4, <1>6 DEF Flying
  <2>2. /\ Queued("InboundFinished", d)' = Queued("InboundFinished", d)
        /\ Queued("OutboundFinished", d)' = Queued("OutboundFinished", d)
    BY <1>1, <2>1 DEF SameReports
  <2>3. CASE d = c
    <3>1. Flying(d) = {}
      BY <1>3, <2>3 DEF Flying
    <3>2. ASSUME NEW k
          PROVE  Queued(k, c)' = 0
      <4>1. \A i \in DOMAIN control' : control'[i].conn # c
        <5>1. /\ DOMAIN control' = 1 .. Len(control) - 1
              /\ \A i \in 1 .. Len(control) - 1 : control'[i] = control[i + 1]
              /\ Len(control) \in Nat \ {0}
          BY <1>0, <1>1, HeadTailProperties, LenProperties, EmptySeq DEF ChannelTypeOK
        <5> QED
          BY <1>2, <5>1
      <4>2. {i \in DOMAIN control' : control'[i].kind = k /\ control'[i].conn = c} = {}
        BY <4>1
      <4> QED
        BY <4>2, FS_EmptySet DEF Queued
    <3>3. Cardinality(Flying(d)') = 0
      BY <2>1, <3>1, FS_EmptySet
    <3> QED
      BY <1>3, <2>3, <3>2, <3>3 DEF Counted
  <2>4. CASE d # c
    <3>1. Counted(d)
      BY <1>4, <2>4
    <3> QED
      BY <2>1, <2>2, <3>1 DEF Counted
  <2> QED
    BY <2>3, <2>4
<1>14. NoIdleConnection'
  <2>1. \A d : Busy(d)' <=> Busy(d)
    BY DEF Busy
  <2>2. ASSUME NEW d \in Conns, monitor'[d] # "none", conn'[d] = "open"
        PROVE  d \in Slots'
    <3>1. CASE d = c
      BY <1>4, <2>2, <3>1
    <3>2. CASE d # c
      BY <1>1, <1>4, <1>5, <2>2, <3>2 DEF NoIdleConnection
    <3> QED
      BY <3>1, <3>2
  <2> QED
    BY <1>4, <2>1, <2>2 DEF NoIdleConnection
<1> QED
  BY <1>7, <1>8, <1>9, <1>10, <1>11, <1>12, <1>13, <1>14


\* A dial that failed and a request to dial are nothing to the slots.
LEMMA DialNoteSlots ==
  ASSUME TypedAccounting, SlotInv, NEW kind \in {"DialFinished", "StartOutboundDial"},
         Receive(kind), control' = Tail(control), DialedOnce',
         UNCHANGED <<alive, slotVars, via, task, netVars>>
  PROVE  SlotInv'
<1>1. Outside /\ SameFlights
  BY Apart
<1>2. alive /\ control # <<>> /\ SameReports
  BY Handling
<1>3. NotesSound'
  BY <1>1, <1>2, ReceiveSound DEF Outside, Growing, SlotInv, TypedAccounting, TypeOK
<1>4. EndedEmpty'
  BY <1>2 DEF EndedEmpty
<1> QED
  BY <1>1, <1>2, <1>3, <1>4, OutsideSlots

\* close_draining_finished: which slots there are afterwards.
LEMMA DrainedSlots ==
  ASSUME TypedAccounting, SlotInv, CloseDrainingFinished, UNCHANGED primary,
         handlers' \in [Conns -> Nat], outbound' \in [Conns -> Nat]
  PROVE  /\ Slots' \subseteq Slots
         /\ \A d \in Slots \ Slots' :
               handlers'[d] = 0 /\ outbound'[d] = 0 /\ conn'[d] = "closed"
         /\ \A d \in Conns : \/ conn'[d] = conn[d]
                             \/ d \in Slots /\ conn'[d] = "closed"
         /\ \A d \in draining' : d # primary' /\ Busy(d)'
<1> DEFINE idle == {d \in draining : handlers'[d] = 0 /\ outbound'[d] = 0}
<1>1. /\ draining \subseteq Conns /\ idle \subseteq Slots
      /\ \A d \in draining : d # primary
  BY DEF TypedAccounting, TypeOK, SlotTypeOK, SlotInv, NoIdleConnection, Slots
<1>2. draining' = draining \ idle /\ conn' = Close(idle)
  BY DEF CloseDrainingFinished
<1>3. \A d \in Conns : conn'[d] = IF d \in idle THEN "closed" ELSE conn[d]
  BY <1>2 DEF Close
<1>4. Slots' \subseteq Slots /\ \A d \in Slots \ Slots' : d \in idle /\ d \in Conns
  BY <1>1, <1>2 DEF Slots
<1>5. \A d \in draining' : d \in Conns /\ d # primary /\ (handlers'[d] # 0 \/ outbound'[d] # 0)
  BY <1>1, <1>2
<1>6. \A d \in draining' : Busy(d)'
  BY <1>5 DEF Busy
<1>7. \A d \in Slots \ Slots' :
        handlers'[d] = 0 /\ outbound'[d] = 0 /\ conn'[d] = "closed"
  BY <1>3, <1>4
<1>8. \A d \in Conns : \/ conn'[d] = conn[d]
                       \/ d \in Slots /\ conn'[d] = "closed"
  BY <1>1, <1>3
<1> HIDE DEF idle
<1> QED
  BY <1>4, <1>5, <1>6, <1>7, <1>8

\* A step of the actor that at most takes slots away.
LEMMA ShrinkSlots ==
  ASSUME TypedAccounting, SlotInv, alive, alive',
         UNCHANGED <<via, monitor, accepting, dialVars>>,
         control' = control \/ (control # <<>> /\ control' = Tail(control)),
         Slots' \subseteq Slots,
         \A d \in Slots \ Slots' : conn'[d] = "closed",
         \A d \in Conns : \/ conn'[d] = conn[d]
                          \/ d \in Slots /\ conn'[d] = "closed",
         \A d \in Conns : monitor[d] = "none" => running'[d] = 0,
         OffSlots', TaskOfSlot',
         \A d \in Slots' : Counted(d)',
         \A d \in draining' : d # primary' /\ Busy(d)'
  PROVE  SlotInv'
<1> USE DEF SlotInv
<1>1. \A d \in Slots : monitor[d] # "none" /\ conn[d] # "none" /\ d \in Conns
  BY SlotsAreConns DEF FreshUnused
<1>2. Growing
  BY <1>1 DEF Growing, Grows
<1>3. NotesSound'
  <2>1. CASE control' = control
    BY <1>2, <2>1, QuietSound DEF TypedAccounting, TypeOK
  <2>2. CASE control # <<>> /\ control' = Tail(control)
    BY <1>2, <2>2, ReceiveSound DEF Growing, TypedAccounting, TypeOK
  <2> QED
    BY <2>1, <2>2
<1>4. EndedEmpty'
  BY DEF EndedEmpty
<1>5. FreshUnused'
  BY <1>1, <1>2 DEF FreshUnused, Growing, Grows
<1>6. DialedOnce'
  <2>1. OutConn \in Conns
    BY DEF Conns
  <2> QED
    BY <1>1, <2>1 DEF DialedOnce, dialVars
<1>7. NoIdleConnection'
  <2>1. ASSUME NEW d \in Conns, monitor'[d] # "none", conn'[d] = "open"
        PROVE  d \in Slots'
    BY <2>1 DEF NoIdleConnection
  <2> QED
    BY <2>1 DEF NoIdleConnection
<1> QED
  BY <1>3, <1>4, <1>5, <1>6, <1>7

\* The stop of an accept loop has the idle slots looked for.
LEMMA AcceptLoopSlots ==
  ASSUME TypedAccounting, SlotInv, HandleAcceptLoopStopped
  PROVE  SlotInv'
<1>1. /\ alive /\ alive' = alive /\ control' = control
      /\ UNCHANGED <<via, task, monitor, accepting, running, dialVars, handlers, outbound, primary>>
      /\ CloseDrainingFinished
  BY DEF HandleAcceptLoopStopped, AtSelect, taskVars, chanVars
<1>2. handlers' \in [Conns -> Nat] /\ outbound' \in [Conns -> Nat]
  BY <1>1 DEF TypedAccounting, TypeOK, SlotTypeOK
<1>3. /\ Slots' \subseteq Slots
      /\ \A d \in Slots \ Slots' :
            handlers'[d] = 0 /\ outbound'[d] = 0 /\ conn'[d] = "closed"
      /\ \A d \in Conns : \/ conn'[d] = conn[d]
                          \/ d \in Slots /\ conn'[d] = "closed"
      /\ \A d \in draining' : d # primary' /\ Busy(d)'
  BY <1>1, <1>2, DrainedSlots
<1>4. OffSlots'
  BY <1>1, <1>3 DEF SlotInv, OffSlots
<1>5. TaskOfSlot'
  BY <1>1, <1>3 DEF SlotInv, TaskOfSlot
<1>6. ASSUME NEW d \in Slots' PROVE Counted(d)'
  <2>1. Counted(d) /\ Flying(d)' = Flying(d)
    BY <1>1, <1>3 DEF SlotInv, Flying
  <2> QED
    BY <1>1, <2>1, SameCounts DEF Counted
<1>7. \A d \in Conns : monitor[d] = "none" => running'[d] = 0
  BY <1>1 DEF SlotInv, FreshUnused
<1> QED
  BY <1>1, <1>3, <1>4, <1>5, <1>6, <1>7, ShrinkSlots


\* A report counts its stream down, whether or not the slot is kept.
LEMMA InboundFinishedCounts ==
  ASSUME TypedAccounting, SlotInv, HandleInboundFinished
  PROVE  /\ handlers' \in [Conns -> Nat] /\ outbound' = outbound
         /\ \A d \in Slots : Counted(d)'
         /\ \A d \in Conns \ Slots : handlers'[d] = 0 /\ outbound'[d] = 0
<1> DEFINE note == Head(control)
           c == note.conn
<1>1. /\ Receive("InboundFinished") /\ control' = Tail(control)
      /\ handlers' = Decrement(handlers, c) /\ outbound' = outbound
      /\ UNCHANGED <<running, via, task>>
  BY DEF HandleInboundFinished, taskVars
<1>2. /\ handlers \in [Conns -> Nat] /\ running \in [Conns -> Nat]
      /\ ChannelTypeOK
  BY DEF TypedAccounting, TypeOK, SlotTypeOK, NetTypeOK
<1>3. /\ control # <<>> /\ note.kind = "InboundFinished"
  BY <1>1, Handling
<1>4. handlers' \in [Conns -> Nat]
  BY <1>1, <1>2, DecrementType
<1>5. \A d \in Conns : handlers'[d] = IF d = c /\ c \in Slots /\ handlers[d] > 0
                                      THEN handlers[d] - 1 ELSE handlers[d]
  BY <1>1 DEF Decrement
<1> HIDE DEF note
<1>6. ASSUME NEW d \in Slots PROVE Counted(d)'
  <2>1. d \in Conns /\ Counted(d) /\ running[d] \in Nat /\ handlers[d] \in Nat
    BY <1>2, SlotsAreConns DEF SlotInv
  <2>2. Flying(d)' = Flying(d)
    BY <1>1 DEF Flying
  <2>3. /\ Queued("InboundFinished", d)' \in Nat
        /\ Queued("InboundFinished", d)
             = Queued("InboundFinished", d)' + (IF d = c THEN 1 ELSE 0)
        /\ Queued("OutboundFinished", d)' = Queued("OutboundFinished", d)
    <3>1. /\ Queued("InboundFinished", d)' \in Nat
          /\ Queued("InboundFinished", d) = Queued("InboundFinished", d)'
               + (IF note.kind = "InboundFinished" /\ note.conn = d THEN 1 ELSE 0)
      BY <1>1, <1>2, <1>3, ReceiveCounts DEF note
    <3>2. /\ Queued("OutboundFinished", d)' \in Nat
          /\ Queued("OutboundFinished", d) = Queued("OutboundFinished", d)'
               + (IF note.kind = "OutboundFinished" /\ note.conn = d THEN 1 ELSE 0)
      BY <1>1, <1>2, <1>3, ReceiveCounts DEF note
    <3> QED
      BY <1>3, <3>1, <3>2
  <2> HIDE DEF c
  <2>4. handlers'[d] = running[d] + Queued("InboundFinished", d)'
    BY <1>5, <2>1, <2>3 DEF Counted
  <2> QED
    BY <1>1, <2>1, <2>2, <2>3, <2>4 DEF Counted
<1>7. \A d \in Conns \ Slots : handlers'[d] = 0 /\ outbound'[d] = 0
  BY <1>1, <1>5 DEF SlotInv, OffSlots
<1> QED
  BY <1>1, <1>4, <1>6, <1>7

LEMMA OutboundFinishedCounts ==
  ASSUME TypedAccounting, SlotInv, HandleOutboundFinished
  PROVE  /\ outbound' \in [Conns -> Nat] /\ handlers' = handlers
         /\ \A d \in Slots : Counted(d)'
         /\ \A d \in Conns \ Slots : handlers'[d] = 0 /\ outbound'[d] = 0
<1> DEFINE note == Head(control)
           c == note.conn
<1>1. /\ Receive("OutboundFinished") /\ control' = Tail(control)
      /\ outbound' = Decrement(outbound, c) /\ handlers' = handlers
      /\ UNCHANGED <<running, via, task>>
  BY DEF HandleOutboundFinished, taskVars
<1>2. /\ outbound \in [Conns -> Nat] /\ ChannelTypeOK
  BY DEF TypedAccounting, TypeOK, SlotTypeOK
<1>3. /\ control # <<>> /\ note.kind = "OutboundFinished"
  BY <1>1, Handling
<1>4. outbound' \in [Conns -> Nat]
  BY <1>1, <1>2, DecrementType
<1>5. \A d \in Conns : outbound'[d] = IF d = c /\ c \in Slots /\ outbound[d] > 0
                                      THEN outbound[d] - 1 ELSE outbound[d]
  BY <1>1 DEF Decrement
<1> HIDE DEF note
<1>6. ASSUME NEW d \in Slots PROVE Counted(d)'
  <2>1. /\ d \in Conns /\ Counted(d) /\ outbound[d] \in Nat
        /\ Cardinality(Flying(d)) \in Nat
    BY <1>2, SlotsAreConns, FlyingFinite, SessionAssumption DEF SlotInv
  <2>2. Flying(d)' = Flying(d)
    BY <1>1 DEF Flying
  <2>3. /\ Queued("OutboundFinished", d)' \in Nat
        /\ Queued("OutboundFinished", d)
             = Queued("OutboundFinished", d)' + (IF d = c THEN 1 ELSE 0)
        /\ Queued("InboundFinished", d)' = Queued("InboundFinished", d)
    <3>1. /\ Queued("InboundFinished", d)' \in Nat
          /\ Queued("InboundFinished", d) = Queued("InboundFinished", d)'
               + (IF note.kind = "InboundFinished" /\ note.conn = d THEN 1 ELSE 0)
      BY <1>1, <1>2, <1>3, ReceiveCounts DEF note
    <3>2. /\ Queued("OutboundFinished", d)' \in Nat
          /\ Queued("OutboundFinished", d) = Queued("OutboundFinished", d)'
               + (IF note.kind = "OutboundFinished" /\ note.conn = d THEN 1 ELSE 0)
      BY <1>1, <1>2, <1>3, ReceiveCounts DEF note
    <3> QED
      BY <1>3, <3>1, <3>2
  <2> HIDE DEF c
  <2>4. outbound'[d] = Queued("OutboundFinished", d)' + Cardinality(Flying(d))
    BY <1>5, <2>1, <2>3 DEF Counted
  <2> QED
    BY <1>1, <2>1, <2>2, <2>3, <2>4 DEF Counted
<1>7. \A d \in Conns \ Slots : handlers'[d] = 0 /\ outbound'[d] = 0
  BY <1>1, <1>5 DEF SlotInv, OffSlots
<1> QED
  BY <1>1, <1>4, <1>6, <1>7

\* After a report the slots that finished draining are closed.
LEMMA FinishedSlots ==
  ASSUME TypedAccounting, SlotInv, HandleInboundFinished \/ HandleOutboundFinished
  PROVE  SlotInv'
<1>1. /\ control' = Tail(control) /\ CloseDrainingFinished /\ alive /\ alive' = alive
      /\ control # <<>>
      /\ UNCHANGED <<via, task, monitor, accepting, running, dialVars, primary>>
  BY DEF HandleInboundFinished, HandleOutboundFinished, Receive, AtSelect, taskVars
<1>2. /\ handlers' \in [Conns -> Nat] /\ outbound' \in [Conns -> Nat]
      /\ \A d \in Slots : Counted(d)'
      /\ \A d \in Conns \ Slots : handlers'[d] = 0 /\ outbound'[d] = 0
  BY InboundFinishedCounts, OutboundFinishedCounts
  DEF TypedAccounting, TypeOK, SlotTypeOK
<1>3. /\ Slots' \subseteq Slots
      /\ \A d \in Slots \ Slots' :
            handlers'[d] = 0 /\ outbound'[d] = 0 /\ conn'[d] = "closed"
      /\ \A d \in Conns : \/ conn'[d] = conn[d]
                          \/ d \in Slots /\ conn'[d] = "closed"
      /\ \A d \in draining' : d # primary' /\ Busy(d)'
  BY <1>1, <1>2, DrainedSlots
<1>4. OffSlots'
  BY <1>2, <1>3 DEF OffSlots
<1>5. TaskOfSlot'
  BY <1>1, <1>3 DEF SlotInv, TaskOfSlot
<1>6. \A d \in Slots' : Counted(d)'
  BY <1>2, <1>3
<1>7. \A d \in Conns : monitor[d] = "none" => running'[d] = 0
  BY <1>1 DEF SlotInv, FreshUnused
<1> QED
  BY <1>1, <1>3, <1>4, <1>5, <1>6, <1>7, ShrinkSlots


\* A stream of a slot gets its handler, and is counted on the slot.
LEMMA StreamSlots ==
  ASSUME TypedAccounting, SlotInv, HandleInboundStream
  PROVE  SlotInv'
<1> DEFINE c == Head(control).conn
<1>1. /\ Receive("InboundStream") /\ control' = Tail(control) /\ alive' = alive
      /\ UNCHANGED <<via, task, monitor, accepting, conn, dialVars, primary, draining,
                     outbound>>
  BY DEF HandleInboundStream, taskVars
<1>2. \/ /\ c \in Slots /\ handlers' = [handlers EXCEPT ![c] = @ + 1]
         /\ running' = [running EXCEPT ![c] = @ + 1]
      \/ UNCHANGED <<handlers, running>>
  BY DEF HandleInboundStream
<1>3. alive /\ control # <<>> /\ SameReports
  BY <1>1, Handling
<1> HIDE DEF c
<1>4. /\ handlers \in [Conns -> Nat] /\ running \in [Conns -> Nat] /\ ChannelTypeOK
      /\ Slots' = Slots /\ Slots \subseteq Conns
  BY <1>1, SlotsAreConns DEF TypedAccounting, TypeOK, SlotTypeOK, NetTypeOK, Slots
<1>5. /\ \A d \in Conns : \/ UNCHANGED <<handlers[d], running[d]>>
                          \/ /\ d \in Slots /\ handlers'[d] = handlers[d] + 1
                             /\ running'[d] = running[d] + 1
  BY <1>2, <1>4
<1>6. ASSUME NEW d \in Slots PROVE Counted(d)'
  <2>1. d \in Conns /\ Counted(d) /\ Flying(d)' = Flying(d)
    BY <1>1, <1>4 DEF SlotInv, Flying
  <2>2. /\ Queued("InboundFinished", d)' = Queued("InboundFinished", d)
        /\ Queued("OutboundFinished", d)' = Queued("OutboundFinished", d)
    BY <1>3, <2>1 DEF SameReports
  <2>3. /\ Queued("InboundFinished", d) \in Nat
        /\ handlers[d] \in Nat /\ running[d] \in Nat
    BY <1>4, <2>1, QueuedType
  <2>4. handlers'[d] = running'[d] + Queued("InboundFinished", d)
    BY <1>5, <2>1, <2>3 DEF Counted
  <2> QED
    BY <1>1, <2>1, <2>2, <2>4 DEF Counted
<1>7. \A d \in draining' : d # primary' /\ Busy(d)'
  <2> SUFFICES ASSUME NEW d \in draining PROVE d # primary /\ Busy(d)'
    BY <1>1
  <2>1. d \in Conns /\ Busy(d) /\ d # primary
    BY <1>4 DEF SlotInv, NoIdleConnection, Slots
  <2> QED
    BY <1>1, <1>4, <1>5, <2>1 DEF Busy
<1>8. OffSlots' /\ TaskOfSlot'
  BY <1>1, <1>4, <1>5 DEF SlotInv, OffSlots, TaskOfSlot
<1>9. \A d \in Conns : monitor[d] = "none" => running'[d] = 0
  BY <1>5 DEF SlotInv, FreshUnused
<1> QED
  BY <1>1, <1>3, <1>4, <1>6, <1>7, <1>8, <1>9, ShrinkSlots

\* The slot of a connection that ended goes, and the stream on it with it.
LEMMA ClosedSlots ==
  ASSUME TypedAccounting, SlotInv, HandleConnectionClosed
  PROVE  SlotInv'
<1> DEFINE note == Head(control)
           c == note.conn
           removed == {c} \cap Slots
<1>1. /\ Receive("ConnectionClosed") /\ control' = Tail(control) /\ alive' = alive
      /\ primary' = (IF c = primary THEN NoConn ELSE primary)
      /\ draining' = draining \ removed
      /\ handlers' = Forget(handlers, removed)
      /\ outbound' = Forget(outbound, removed)
      /\ UNCHANGED <<via, conn, monitor, accepting, running, dialVars>>
  BY DEF HandleConnectionClosed, netVars
<1>2. \/ UNCHANGED task
      \/ removed # {} /\ via[active] = c /\ Abort(active)
  BY DEF HandleConnectionClosed
<1>3. /\ alive /\ control # <<>> /\ SameReports
      /\ note \in ControlMessage /\ note.kind = "ConnectionClosed" /\ Sound(note)
  BY <1>1, Handling
<1>4. c \in Conns /\ c # NoConn /\ conn[c] = "closed"
  BY <1>3, ControlConn, SessionAssumption DEF Sound
<1> HIDE DEF note, c
<1>5. /\ Slots' = Slots \ {c} /\ Slots \subseteq Conns
      /\ \A d \in Conns : /\ handlers'[d] = IF d \in removed THEN 0 ELSE handlers[d]
                          /\ outbound'[d] = IF d \in removed THEN 0 ELSE outbound[d]
  BY <1>1, <1>4, SlotsAreConns DEF Slots, Forget
<1>6. \A m \in Messages : \/ task'[m] = task[m]
                          \/ removed # {} /\ via[m] = c /\ task'[m] = "aborted"
  BY <1>2 DEF Abort, TypedAccounting, TypeOK, TaskTypeOK
<1>7. ASSUME NEW d \in Slots' PROVE Counted(d)'
  <2>1. d \in Conns /\ d # c /\ Counted(d)
    BY <1>5 DEF SlotInv
  <2>2. Flying(d)' = Flying(d)
    BY <1>1, <1>6, <2>1 DEF Flying
  <2> QED
    BY <1>1, <1>3, <1>5, <2>1, <2>2 DEF Counted, SameReports
<1>8. \A d \in draining' : d # primary' /\ Busy(d)'
  <2> SUFFICES ASSUME NEW d \in draining, d # c
               PROVE  d # primary' /\ Busy(d)'
    BY <1>1 DEF Slots
  <2>1. d \in Conns /\ Busy(d) /\ d # primary /\ d # NoConn
    BY <1>5, SessionAssumption DEF SlotInv, NoIdleConnection, Slots
  <2> QED
    BY <1>1, <1>5, <2>1 DEF Busy
<1>9. OffSlots'
  BY <1>5 DEF SlotInv, OffSlots
<1>10. TaskOfSlot'
  BY <1>1, <1>5, <1>6 DEF SlotInv, TaskOfSlot
<1>11. \A d \in Conns : monitor[d] = "none" => running'[d] = 0
  BY <1>1 DEF SlotInv, FreshUnused
<1> HIDE DEF removed
<1> QED
  BY <1>1, <1>3, <1>4, <1>5, <1>7, <1>8, <1>9, <1>10, <1>11, ShrinkSlots

\* The end of the session closes what it was given, taken or not.
LEMMA ShutdownSlots ==
  ASSUME TypedAccounting, SlotInv, HandleShutdown
  PROVE  SlotInv'
<1> USE DEF SlotInv
<1> DEFINE given == Slots \cup {c \in Conns : \E kind \in {"Attach", "DialFinished"} :
                                  Note(kind, c) \in ToSet(control)}
<1>1. /\ alive' = FALSE /\ control' = <<>> /\ primary' = NoConn /\ draining' = {}
      /\ handlers' = Forget(handlers, Slots) /\ outbound' = Forget(outbound, Slots)
      /\ conn' = Close(given) /\ dialing' = FALSE
      /\ UNCHANGED <<via, monitor, accepting, running, dialAttempted, dialer>>
  BY DEF HandleShutdown
<1>2. Slots' = {}
  BY <1>1 DEF Slots
<1>3. \A c \in given : c \in Conns /\ conn[c] # "none"
  <2>1. ASSUME NEW c \in Slots PROVE c \in Conns /\ conn[c] # "none"
    BY SlotsAreConns DEF FreshUnused
  <2>2. ASSUME NEW c \in Conns, NEW kind \in {"Attach", "DialFinished"},
               Note(kind, c) \in ToSet(control)
        PROVE  conn[c] # "none"
    <3>1. PICK i \in 1 .. Len(control) : control[i] = Note(kind, c)
      BY <2>2, LenProperties DEF ToSet, TypedAccounting, TypeOK, ChannelTypeOK
    <3>2. Sound(Note(kind, c))
      BY <3>1 DEF NotesSound
    <3>3. Note(kind, c).kind = kind /\ Note(kind, c).conn = c /\ c # NoConn
      BY SessionAssumption DEF Note
    <3> QED
      BY <3>2, <3>3 DEF Sound, Announces
  <2> QED
    BY <2>1, <2>2
<1>4. \A c \in Conns : \/ conn'[c] = conn[c]
                       \/ conn'[c] = "closed" /\ conn[c] # "none"
  BY <1>1, <1>3 DEF Close
<1> HIDE DEF given
<1>5. EndedEmpty' /\ NotesSound'
  BY <1>1, <1>2 DEF EndedEmpty, NotesSound
<1>6. OffSlots'
  BY <1>1, <1>2 DEF OffSlots, Forget
<1>7. FreshUnused'
  BY <1>1, <1>2, <1>4 DEF FreshUnused
<1>8. DialedOnce'
  <2>1. OutConn \in Conns
    BY DEF Conns
  <2> QED
    BY <1>1, <1>4, <2>1 DEF DialedOnce
<1>9. TaskOfSlot' /\ NoIdleConnection'
  BY <1>1, <1>2 DEF TaskOfSlot, NoIdleConnection
<1> QED
  BY <1>2, <1>5, <1>6, <1>7, <1>8, <1>9


-----------------------------------------------------------------------------
(* The invariant.                                                          *)

\* Nothing is in a slot, in the channel or on its way when a session is spawned.
LEMMA InitSlots == Init => SlotInv
<1> SUFFICES ASSUME Init PROVE SlotInv
  OBVIOUS
<1>1. Slots = {} /\ draining = {}
  BY DEF Init, Slots
<1>2. EndedEmpty /\ OffSlots /\ TaskOfSlot
  BY <1>1 DEF Init, EndedEmpty, OffSlots, TaskOfSlot
<1>3. FreshUnused
  BY <1>1, SessionAssumption DEF Init, FreshUnused
<1>4. NotesSound
  BY DEF Init, NotesSound
<1>5. DialedOnce
  <2>1. OutConn \in Conns
    BY DEF Conns
  <2> QED
    BY <2>1 DEF Init, DialedOnce
<1>6. NoIdleConnection
  BY <1>1 DEF Init, NoIdleConnection
<1> QED
  BY <1>1, <1>2, <1>3, <1>4, <1>5, <1>6 DEF SlotInv

\* Connections that are handed over, and the dial's failures.
LEMMA HandedSlots ==
  ASSUME TypedAccounting, SlotInv,
         HandleAttach \/ HandleDialFinished \/ HandleStartOutboundDial
  PROVE  SlotInv'
<1>1. CASE HandleAttach
  <2>1. Receive("Attach") /\ control' = Tail(control)
    BY <1>1 DEF HandleAttach
  <2>2. Head(control).conn \in Conns
    BY <2>1, Handling, ControlConn
  <2>3. "Attach" \in Announces
    BY DEF Announces
  <2> QED
    BY <1>1, <2>1, <2>2, <2>3, AttachSlots DEF HandleAttach, dialVars, taskVars
<1>2. CASE HandleDialFinished
  <2>1. Receive("DialFinished") /\ control' = Tail(control) /\ dialing' = FALSE
    BY <1>2 DEF HandleDialFinished
  <2>2. Head(control).conn \in Conns \cup {NoConn}
    BY <2>1, Handling
  <2>3. CASE Head(control).conn # NoConn /\ AttachConnection(Head(control).conn)
    <3>1. "DialFinished" \in Announces
      BY DEF Announces
    <3> QED
      BY <1>2, <2>1, <2>2, <2>3, <3>1, AttachSlots DEF HandleDialFinished, taskVars
  <2>4. CASE UNCHANGED <<primary, draining, conn, monitor, accepting>>
    <3>1. UNCHANGED <<alive, slotVars, via, task, netVars, dialAttempted, dialer>>
      BY <1>2, <2>4 DEF HandleDialFinished, slotVars, netVars, taskVars
    <3>2. DialedOnce'
      BY <2>1, <3>1 DEF SlotInv, DialedOnce, netVars
    <3> QED
      BY <2>1, <3>1, <3>2, DialNoteSlots
  <2> QED
    BY <1>2, <2>3, <2>4 DEF HandleDialFinished
<1>3. CASE HandleStartOutboundDial
  <2>1. /\ Receive("StartOutboundDial") /\ control' = Tail(control)
        /\ UNCHANGED <<alive, slotVars, via, task, netVars>>
    BY <1>3 DEF HandleStartOutboundDial, taskVars
  <2>2. DialedOnce'
    <3>1. CASE UNCHANGED dialVars
      BY <2>1, <3>1, DialStill DEF SlotInv, netVars
    <3>2. CASE /\ ~(dialing \/ dialAttempted) /\ dialAttempted' = TRUE
               /\ dialing' = TRUE /\ dialer' = "running"
      BY <2>1, <3>2 DEF SlotInv, DialedOnce, netVars
    <3> QED
      BY <1>3, <3>1, <3>2 DEF HandleStartOutboundDial, BeginDial
  <2> QED
    BY <2>1, <2>2, DialNoteSlots
<1> QED
  BY <1>1, <1>2, <1>3

\* Every step keeps the slots right.
LEMMA StepSlots ==
  ASSUME FullInv, [Next]_vars
  PROVE  SlotInv'
<1>0. TypedAccounting /\ SlotInv
  BY DEF FullInv, HandInv
<1>1. CASE UNCHANGED vars
  <2>1. /\ UNCHANGED <<alive, slotVars, netVars, via, task>>
        /\ UNCHANGED dialVars /\ control' = control
    BY <1>1 DEF vars, chanVars, taskVars
  <2>2. Outside /\ SameFlights
    BY <2>1, Apart
  <2>3. DialedOnce'
    BY <1>0, <2>1, DialStill DEF SlotInv, netVars
  <2> QED
    BY <1>0, <2>1, <2>2, <2>3, QuietOutside, OutsideSlots
<1>2. CASE StartNext \/ ReceiveDelivery
  BY <1>2, DeliverySlots
<1>3. CASE HandleControl
  BY <1>0, <1>3, HandedSlots, ClosedSlots, AcceptLoopSlots, StreamSlots,
     FinishedSlots, ShutdownSlots
  DEF HandleControl
<1>4. CASE Client \/ DeadlinePasses
  BY <1>0, <1>4, ClientSlots
<1>5. CASE Deadline \/ OutboundTask
  BY <1>0, <1>5, SettlingSlots, TaskSlots DEF Deadline, OutboundTask
<1>6. CASE DialEnds
  BY <1>0, <1>6, DialSlots
<1>7. CASE Watchers \/ Handlers
  BY <1>0, <1>7, NetworkSlots, HandlerSlots DEF Watchers, Handlers
<1>8. CASE Peer
  BY <1>0, <1>8, SettlingSlots, NetworkSlots DEF Peer, Conns
<1> QED
  BY <1>1, <1>2, <1>3, <1>4, <1>5, <1>6, <1>7, <1>8 DEF Next, Actor

\* FullInv is inductive, so it holds in every reachable state.
LEMMA FullInvariant == Spec => []FullInv
<1>1. Init => FullInv
  BY InitTyped, InitInHand, InitSlots DEF FullInv, HandInv
<1>2. FullInv /\ [Next]_vars => FullInv'
  BY StepTyped, StepInHand, StepSlots DEF FullInv, HandInv
<1> QED
  BY <1>1, <1>2, PTL DEF Spec

\* The counters of a slot are exactly what runs on its connection and what has
\* ended and was not told yet, whatever reports cross with the slot's end.
THEOREM SlotsCounted == Spec => []SlotAccounting
<1>1. FullInv => SlotAccounting
  BY DEF FullInv, SlotInv, SlotAccounting, Counted, Flying
<1> QED
  BY <1>1, FullInvariant, PTL

\* A connection that was replaced is kept only while something runs on it, and
\* none is left open without a slot.
THEOREM NothingIdle == Spec => []NoIdleConnection
<1>1. FullInv => NoIdleConnection
  BY DEF FullInv, SlotInv
<1> QED
  BY <1>1, FullInvariant, PTL


-----------------------------------------------------------------------------
(* What the contact is shown.                                              *)

\* Closing is the state of a session that has ended.
NeverClosing == alive => state # "Closing"

\* Only finish_shutdown sets it.
LEMMA StepClosing ==
  ASSUME NeverClosing, [Next]_vars
  PROVE  NeverClosing'
<1>1. CASE UNCHANGED <<alive, stateVars>>
  BY <1>1 DEF NeverClosing, stateVars
<1>2. ASSUME NEW s \in {"Disconnected", "Connecting", "Connected"}, SetState(s)
      PROVE  NeverClosing'
  BY <1>2 DEF NeverClosing, SetState
<1>3. CASE HandleShutdown
  BY <1>3 DEF HandleShutdown, NeverClosing
<1>4. CASE HandleAttach \/ HandleDialFinished
  BY <1>1, <1>2, <1>4 DEF HandleAttach, HandleDialFinished, AttachConnection,
     DialFailed
<1>5. CASE HandleStartOutboundDial
  BY <1>1, <1>2, <1>5 DEF HandleStartOutboundDial, BeginDial
<1>6. CASE HandleConnectionClosed
  BY <1>1, <1>2, <1>6 DEF HandleConnectionClosed, PrimaryLost
<1>7. CASE \/ HandleAcceptLoopStopped \/ HandleInboundStream
           \/ HandleInboundFinished \/ HandleOutboundFinished
           \/ StartNext \/ ReceiveDelivery
  BY <1>1, <1>7 DEF HandleAcceptLoopStopped, HandleInboundStream,
     HandleInboundFinished, HandleOutboundFinished, StartNext, ReceiveDelivery
<1>8. CASE Client \/ DeadlinePasses \/ DialEnds
  BY <1>1, <1>8 DEF Client, SendText, RemoveContact, RequestShutdown,
     RequestOutboundDial, DeadlinePasses, DialEnds, DialSucceeds, DialFails
<1>9. CASE Deadline \/ OutboundTask \/ Watchers \/ Handlers \/ Peer
  BY <1>1, <1>9 DEF Deadline, DeadlineFires, DeadlineResolves, OutboundTask,
     StreamTimesOut, StreamAnswers, StreamReturns, TaskResolves, TaskReports,
     Watchers, MonitorReports, StreamTaken, Handlers, HandlerFinishes, Peer,
     InboundArrives, ConnectionLost, StreamArrives
<1>10. CASE UNCHANGED vars
  BY <1>1, <1>10 DEF vars
<1> QED
  BY <1>3, <1>4, <1>5, <1>6, <1>7, <1>8, <1>9, <1>10
  DEF Next, Actor, HandleControl

\* What ConnectedUntilLost says of a step.
LostOnlyThen ==
  published = "Connected" /\ published' = "NotConnected" => conn[primary] = "closed"

\* The end of another connection, and a dial that fails late, do not show.
LEMMA StepShown ==
  ASSUME FullInv, StateMatchesPrimary, NeverClosing, [Next]_vars
  PROVE  LostOnlyThen
<1>0. TypedAccounting /\ SlotInv
  BY DEF FullInv, HandInv
<1>1. CASE UNCHANGED published
  BY <1>1 DEF LostOnlyThen
<1>2. ASSUME NEW s \in {"Connecting", "Connected"}, SetState(s)
      PROVE  LostOnlyThen
  BY <1>2 DEF LostOnlyThen, SetState, External
<1>3. CASE HandleShutdown
  BY <1>1, <1>3 DEF HandleShutdown, SetState, External
<1>4. CASE HandleAttach
  BY <1>1, <1>2, <1>4 DEF HandleAttach, AttachConnection, stateVars
<1>5. CASE HandleDialFinished
  <2>1. CASE AttachConnection(Head(control).conn)
    BY <1>1, <1>2, <2>1 DEF AttachConnection, stateVars
  <2>2. CASE DialFailed
    <3>1. CASE primary = NoConn
      <4>1. alive
        BY <1>5 DEF HandleDialFinished, Receive, AtSelect
      <4>2. published # "Connected"
        BY <3>1, <4>1 DEF StateMatchesPrimary, NeverClosing, External
      <4> QED
        BY <4>2 DEF LostOnlyThen
    <3>2. CASE primary # NoConn
      BY <1>1, <2>2, <3>2 DEF DialFailed, stateVars
    <3> QED
      BY <3>1, <3>2
  <2> QED
    BY <1>5, <2>1, <2>2 DEF HandleDialFinished
<1>6. CASE HandleStartOutboundDial
  BY <1>1, <1>2, <1>6 DEF HandleStartOutboundDial, BeginDial, stateVars
<1>7. CASE HandleConnectionClosed
  <2> DEFINE note == Head(control)
  <2>1. Receive("ConnectionClosed") /\ control' = Tail(control) /\ PrimaryLost(note.conn)
    BY <1>7 DEF HandleConnectionClosed
  <2>2. note.kind = "ConnectionClosed" /\ Sound(note)
    BY <1>0, <2>1, Handling
  <2>3. CASE note.conn = primary
    BY <2>2, <2>3 DEF Sound, LostOnlyThen
  <2>4. CASE note.conn # primary
    BY <1>1, <2>1, <2>4 DEF PrimaryLost, stateVars
  <2> QED
    BY <2>3, <2>4
<1>8. CASE \/ HandleAcceptLoopStopped \/ HandleInboundStream
           \/ HandleInboundFinished \/ HandleOutboundFinished
           \/ StartNext \/ ReceiveDelivery
  BY <1>1, <1>8 DEF HandleAcceptLoopStopped, HandleInboundStream, stateVars,
     HandleInboundFinished, HandleOutboundFinished, StartNext, ReceiveDelivery
<1>9. CASE Client \/ DeadlinePasses \/ DialEnds
  BY <1>1, <1>9 DEF Client, SendText, RemoveContact, RequestShutdown, stateVars,
     RequestOutboundDial, DeadlinePasses, DialEnds, DialSucceeds, DialFails
<1>10. CASE Deadline \/ OutboundTask \/ Watchers \/ Handlers \/ Peer
  BY <1>1, <1>10 DEF Deadline, DeadlineFires, DeadlineResolves, OutboundTask,
     StreamTimesOut, StreamAnswers, StreamReturns, TaskResolves, TaskReports,
     Watchers, MonitorReports, StreamTaken, Handlers, HandlerFinishes, Peer,
     InboundArrives, ConnectionLost, StreamArrives, stateVars
<1>11. CASE UNCHANGED vars
  BY <1>1, <1>11 DEF vars, stateVars
<1> QED
  BY <1>3, <1>4, <1>5, <1>6, <1>7, <1>8, <1>9, <1>10, <1>11
  DEF Next, Actor, HandleControl

\* A contact is shown as not connected only after its primary connection ended:
\* neither the end of a connection that drains nor a failed dial shows.
THEOREM ShownUntilLost == Spec => ConnectedUntilLost
<1>1. Init => StateMatchesPrimary /\ NeverClosing
  BY SessionAssumption DEF Init, StateMatchesPrimary, External, NeverClosing
<1>2. FullInv /\ StateMatchesPrimary /\ [Next]_vars => StateMatchesPrimary'
  BY StateStep DEF FullInv, HandInv
<1>3. NeverClosing /\ [Next]_vars => NeverClosing'
  BY StepClosing
<1>4. FullInv /\ StateMatchesPrimary /\ NeverClosing /\ [Next]_vars
        => [LostOnlyThen]_vars
  BY StepShown
<1> QED
  BY <1>1, <1>2, <1>3, <1>4, FullInvariant, PTL
  DEF Spec, ConnectedUntilLost, LostOnlyThen

-----------------------------------------------------------------------------
(* Which connections are given up.                                         *)

\* Nothing runs on c, in either direction.
Unused(c) ==
  /\ running[c] = 0
  /\ \A m \in Messages : via[m] = c => task[m] # "streaming"

\* A slot whose counters are nothing is unused.
LEMMA CountedUnused ==
  ASSUME TypedAccounting, NEW c \in Conns, Counted(c),
         handlers[c] = 0, outbound[c] = 0
  PROVE  Unused(c)
<1>1. /\ running[c] \in Nat /\ Queued("InboundFinished", c) \in Nat
      /\ Queued("OutboundFinished", c) \in Nat
      /\ IsFiniteSet(Flying(c)) /\ Cardinality(Flying(c)) \in Nat
  BY QueuedType, FlyingFinite, SessionAssumption
  DEF TypedAccounting, TypeOK, NetTypeOK, ChannelTypeOK
<1>2. running[c] = 0 /\ Cardinality(Flying(c)) = 0
  BY <1>1 DEF Counted
<1>3. Flying(c) = {}
  BY <1>1, <1>2, FS_EmptySet
<1> QED
  BY <1>2, <1>3 DEF Unused, Flying, InFlight

\* What RetiredOnlyIdle says of a step.
RetiredUnused ==
  \A c \in Slots : alive' /\ conn[c] = "open" /\ c \notin Slots' => Unused(c)

\* Only attach_connection and close_draining_finished give up a connection that
\* is open, and both look at its counters first.
LEMMA StepRetired ==
  ASSUME FullInv, [Next]_vars
  PROVE  RetiredUnused
<1>0. TypedAccounting /\ SlotInv /\ TypedAccounting'
  BY StepTyped DEF FullInv, HandInv
<1>1. CASE UNCHANGED <<primary, draining>>
  BY <1>1 DEF RetiredUnused, Slots
<1>2. CASE HandleAttach \/ HandleDialFinished
  <2> DEFINE c == Head(control).conn
  <2>1. /\ control' = Tail(control) /\ UNCHANGED <<handlers, outbound>>
        /\ \E kind \in Announces : Receive(kind)
    BY <1>2 DEF HandleAttach, HandleDialFinished, Announces
  <2>2. PICK kind \in Announces : Receive(kind)
    BY <2>1
  <2>3. alive /\ control # <<>> /\ c \in Conns \cup {NoConn} /\ Sound(Head(control))
        /\ Head(control).kind = kind
    BY <1>0, <2>1, <2>2, Handling
  <2>4. CASE UNCHANGED <<primary, draining>>
    BY <1>1, <2>4
  <2>5. CASE c # NoConn /\ AttachConnection(c)
    <3>1. c \in Conns /\ monitor[c] = "none"
      BY <2>3, <2>5 DEF Sound
    <3>2. c \notin Slots /\ ~Busy(c)
      BY <1>0, <3>1 DEF SlotInv, FreshUnused, OffSlots, Busy
    <3>3. \A d \in Slots \ Slots' : ~Busy(d)
      BY <1>0, <2>1, <2>5, <3>1, <3>2, AttachedSlots
    <3>4. ASSUME NEW d \in Slots, d \notin Slots' PROVE Unused(d)
      <4>1. d \in Conns /\ Counted(d) /\ handlers[d] \in Nat /\ outbound[d] \in Nat
        BY <1>0, SlotsAreConns DEF SlotInv, TypedAccounting, TypeOK, SlotTypeOK
      <4>2. handlers[d] = 0 /\ outbound[d] = 0
        BY <3>3, <3>4, <4>1 DEF Busy
      <4> QED
        BY <1>0, <4>1, <4>2, CountedUnused
    <3> QED
      BY <3>4 DEF RetiredUnused
  <2>6. CASE HandleAttach
    <3>1. c # NoConn
      <4>1. c \in Conns
        BY <1>0, <2>6, ReceiveType, ControlConn
        DEF HandleAttach, Receive, TypedAccounting, TypeOK
      <4> QED
        BY <4>1, SessionAssumption
    <3> QED
      BY <2>5, <2>6, <3>1 DEF HandleAttach
  <2> QED
    BY <1>2, <2>4, <2>5, <2>6 DEF HandleDialFinished
<1>3. CASE HandleAcceptLoopStopped
  <2>1. /\ CloseDrainingFinished /\ UNCHANGED <<primary, handlers, outbound>>
        /\ handlers' \in [Conns -> Nat] /\ outbound' \in [Conns -> Nat]
    BY <1>0, <1>3 DEF HandleAcceptLoopStopped, TypedAccounting, TypeOK, SlotTypeOK
  <2>2. \A d \in Slots \ Slots' : handlers[d] = 0 /\ outbound[d] = 0
    BY <1>0, <2>1, DrainedSlots
  <2>3. ASSUME NEW d \in Slots, d \notin Slots' PROVE Unused(d)
    <3>1. d \in Conns /\ Counted(d)
      BY <1>0, SlotsAreConns DEF SlotInv
    <3> QED
      BY <1>0, <2>2, <2>3, <3>1, CountedUnused
  <2> QED
    BY <2>3 DEF RetiredUnused
<1>4. CASE HandleInboundFinished \/ HandleOutboundFinished
  <2>1. /\ CloseDrainingFinished /\ UNCHANGED <<primary, running, via, task>>
    BY <1>4 DEF HandleInboundFinished, HandleOutboundFinished, taskVars
  <2>2. /\ handlers' \in [Conns -> Nat] /\ outbound' \in [Conns -> Nat]
        /\ \A d \in Slots : Counted(d)'
    BY <1>0, <1>4, InboundFinishedCounts, OutboundFinishedCounts
    DEF TypedAccounting, TypeOK, SlotTypeOK
  <2>3. \A d \in Slots \ Slots' : handlers'[d] = 0 /\ outbound'[d] = 0
    BY <1>0, <2>1, <2>2, DrainedSlots
  <2>4. ASSUME NEW d \in Slots, d \notin Slots' PROVE Unused(d)
    <3>1. d \in Conns /\ Counted(d)' /\ handlers'[d] = 0 /\ outbound'[d] = 0
      BY <1>0, <2>2, <2>3, <2>4, SlotsAreConns
    <3>2. Flying(d)' = Flying(d) /\ running' = running
      BY <2>1 DEF Flying
    <3>3. /\ running[d] \in Nat /\ Queued("InboundFinished", d)' \in Nat
          /\ Queued("OutboundFinished", d)' \in Nat
          /\ IsFiniteSet(Flying(d)) /\ Cardinality(Flying(d)) \in Nat
      <4>1. Receive("InboundFinished") \/ Receive("OutboundFinished")
        BY <1>4 DEF HandleInboundFinished, HandleOutboundFinished
      <4>2. control # <<>> /\ control' = Tail(control)
        BY <1>4 DEF HandleInboundFinished, HandleOutboundFinished, Receive
      <4> QED
        BY <1>0, <3>1, <4>2, ReceiveCounts, FlyingFinite, SessionAssumption
        DEF TypedAccounting, TypeOK, NetTypeOK
    <3>4. running[d] = 0 /\ Cardinality(Flying(d)) = 0
      BY <3>1, <3>2, <3>3 DEF Counted
    <3>5. Flying(d) = {}
      BY <3>3, <3>4, FS_EmptySet
    <3> QED
      BY <3>4, <3>5 DEF Unused, Flying, InFlight
  <2> QED
    BY <2>4 DEF RetiredUnused
<1>5. CASE HandleConnectionClosed
  <2> DEFINE note == Head(control)
  <2>1. /\ Receive("ConnectionClosed") /\ control' = Tail(control)
        /\ primary' = (IF note.conn = primary THEN NoConn ELSE primary)
        /\ draining' = draining \ ({note.conn} \cap Slots)
    BY <1>5 DEF HandleConnectionClosed
  <2>2. note.kind = "ConnectionClosed" /\ Sound(note)
    BY <1>0, <2>1, Handling
  <2>3. conn[note.conn] = "closed"
    BY <2>2 DEF Sound
  <2>4. \A d \in Slots : d \in Slots' \/ d = note.conn
    BY <2>1 DEF Slots
  <2> QED
    BY <2>3, <2>4 DEF RetiredUnused
<1>6. CASE HandleShutdown
  BY <1>6 DEF HandleShutdown, RetiredUnused
<1>7. CASE \/ HandleStartOutboundDial \/ HandleInboundStream
           \/ StartNext \/ ReceiveDelivery
  BY <1>1, <1>7 DEF HandleStartOutboundDial, HandleInboundStream, slotVars,
     StartNext, SpawnActiveDelivery, ReceiveDelivery
<1>8. CASE Client \/ DeadlinePasses \/ DialEnds
  BY <1>1, <1>8 DEF Client, SendText, RemoveContact, RequestShutdown, slotVars,
     RequestOutboundDial, DeadlinePasses, DialEnds, DialSucceeds, DialFails
<1>9. CASE Deadline \/ OutboundTask \/ Watchers \/ Handlers \/ Peer
  BY <1>1, <1>9 DEF Deadline, DeadlineFires, DeadlineResolves, OutboundTask,
     StreamTimesOut, StreamAnswers, StreamReturns, TaskResolves, TaskReports,
     Watchers, MonitorReports, StreamTaken, Handlers, HandlerFinishes, Peer,
     InboundArrives, ConnectionLost, StreamArrives, slotVars
<1>10. CASE UNCHANGED vars
  BY <1>1, <1>10 DEF vars, slotVars
<1> QED
  BY <1>2, <1>3, <1>4, <1>5, <1>6, <1>7, <1>8, <1>9, <1>10
  DEF Next, Actor, HandleControl

\* A running session gives up an open connection only when no stream runs on it:
\* a connection that is replaced never takes a message with it.
THEOREM RetiredIdle == Spec => RetiredOnlyIdle
<1>1. FullInv /\ [Next]_vars => [RetiredUnused]_vars
  BY StepRetired
<1> QED
  BY <1>1, FullInvariant, PTL DEF Spec, RetiredOnlyIdle, RetiredUnused, Unused


=============================================================================
