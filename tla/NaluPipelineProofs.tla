-------------------------- MODULE NaluPipelineProofs --------------------------
(***************************************************************************)
(* The ledger, the order of pictures and what the decoder starts with, for *)
(* streams of any length, queues and codec pools of any size, and decoders *)
(* that fail as often as they like.                                        *)
(***************************************************************************)
EXTENDS NaluPipeline, SequenceTheorems, TLAPS

\* What waits to be pushed or popped is a NALU: inHand tells a popped one from
\* Nothing.
RealNalus(s) == \A i \in DOMAIN s : s[i].kind # "nothing"

OnlyNalus ==
  /\ cachedSps.kind = "sps" /\ cachedPps.kind = "pps"
  /\ RealNalus(queue) /\ RealNalus(todo)

\* m comes before n in the stream, unless one of them is not a frame.
Earlier(m, n) == IsFrame(m) /\ IsFrame(n) => m.id < n.id

Increasing(s)  == \A i, j \in DOMAIN s : i < j => Earlier(s[i], s[j])
Precedes(s, t) == \A i \in DOMAIN s, j \in DOMAIN t : Earlier(s[i], t[j])
Before(s, n)   == \A i \in DOMAIN s : Earlier(s[i], n)
After(n, s)    == \A i \in DOMAIN s : Earlier(n, s[i])

Seen(n, last) == IsFrame(n) => n.id <= last
AllSeen(s, last) == \A i \in DOMAIN s : Seen(s[i], last)

\* A frame in the decoder is older than the one in hand, that one older than
\* those in the queue, those older than what handleNalu is about to push, and
\* all these not newer than the last NALU of the stream.
InStreamOrder ==
  /\ Increasing(delivered) /\ Before(delivered, inHand)
  /\ Precedes(delivered, queue) /\ Precedes(delivered, todo)
  /\ After(inHand, queue) /\ After(inHand, todo)
  /\ Increasing(queue) /\ Precedes(queue, todo) /\ Increasing(todo)
  /\ AllSeen(delivered, handled) /\ Seen(inHand, handled)
  /\ AllSeen(queue, handled) /\ AllSeen(todo, handled)

IInv == Ledger /\ OnlyNalus /\ InStreamOrder

-----------------------------------------------------------------------------
(* Sequences that grow at the end and shrink at the front *)

LEMMA AppendFacts ==
  ASSUME NEW S, NEW s \in Seq(S), NEW x \in S
  PROVE  /\ Append(s, x) \in Seq(S)
         /\ Len(Append(s, x)) = Len(s) + 1
         /\ DOMAIN Append(s, x) = DOMAIN s \cup {Len(s) + 1}
         /\ \A i \in DOMAIN s : Append(s, x)[i] = s[i] /\ i < Len(s) + 1
         /\ Append(s, x)[Len(s) + 1] = x
  OBVIOUS

LEMMA TailFacts ==
  ASSUME NEW S, NEW s \in Seq(S), s # <<>>
  PROVE  /\ Tail(s) \in Seq(S) /\ Len(Tail(s)) = Len(s) - 1
         /\ Head(s) \in S /\ Head(s) = s[1] /\ 1 \in DOMAIN s
         /\ \A i \in DOMAIN Tail(s) : i + 1 \in DOMAIN s /\ Tail(s)[i] = s[i + 1]
         /\ \A i \in DOMAIN Tail(s) : i \in Nat /\ 1 < i + 1
  OBVIOUS

\* A newer frame at the end keeps every order.
LEMMA OrderOfAppend ==
  ASSUME NEW S, NEW s \in Seq(S), NEW n \in S, NEW last
  PROVE  LET a == Append(s, n) IN
         /\ Increasing(s) /\ Before(s, n) => Increasing(a)
         /\ \A t : Precedes(t, s) /\ Before(t, n) => Precedes(t, a)
         /\ \A t : Precedes(s, t) /\ After(n, t) => Precedes(a, t)
         /\ \A m : Before(s, m) /\ Earlier(n, m) => Before(a, m)
         /\ \A m : After(m, s) /\ Earlier(m, n) => After(m, a)
         /\ AllSeen(s, last) /\ Seen(n, last) => AllSeen(a, last)
         /\ RealNalus(s) /\ n.kind # "nothing" => RealNalus(a)
  <1> DEFINE a == Append(s, n)
  <1>1. /\ DOMAIN a = DOMAIN s \cup {Len(s) + 1}
        /\ \A i \in DOMAIN s : a[i] = s[i] /\ i < Len(s) + 1
        /\ a[Len(s) + 1] = n
    BY AppendFacts
  <1>2. \A i \in DOMAIN s : i \in Nat /\ Len(s) \in Nat
    OBVIOUS
  <1> HIDE DEF a
  <1>3. Increasing(s) /\ Before(s, n) => Increasing(a)
    BY <1>1, <1>2 DEF Increasing, Before
  <1>4. /\ \A t : Precedes(t, s) /\ Before(t, n) => Precedes(t, a)
        /\ \A t : Precedes(s, t) /\ After(n, t) => Precedes(a, t)
    BY <1>1 DEF Precedes, Before, After
  <1>5. /\ \A m : Before(s, m) /\ Earlier(n, m) => Before(a, m)
        /\ \A m : After(m, s) /\ Earlier(m, n) => After(m, a)
    BY <1>1 DEF Before, After
  <1>6. /\ AllSeen(s, last) /\ Seen(n, last) => AllSeen(a, last)
        /\ RealNalus(s) /\ n.kind # "nothing" => RealNalus(a)
    BY <1>1 DEF AllSeen, RealNalus
  <1> QED
    BY <1>3, <1>4, <1>5, <1>6 DEF a

\* Taking the first one away keeps every order, and it precedes the others.
LEMMA OrderOfTail ==
  ASSUME NEW S, NEW s \in Seq(S), s # <<>>, NEW last
  PROVE  /\ Increasing(s) => Increasing(Tail(s)) /\ After(Head(s), Tail(s))
         /\ \A t : Precedes(t, s) => Precedes(t, Tail(s)) /\ Before(t, Head(s))
         /\ \A t : Precedes(s, t) => Precedes(Tail(s), t) /\ After(Head(s), t)
         /\ \A m : Before(s, m) => Before(Tail(s), m) /\ Earlier(Head(s), m)
         /\ \A m : After(m, s) => After(m, Tail(s)) /\ Earlier(m, Head(s))
         /\ AllSeen(s, last) => AllSeen(Tail(s), last) /\ Seen(Head(s), last)
         /\ RealNalus(s) => RealNalus(Tail(s)) /\ Head(s).kind # "nothing"
  <1> DEFINE u == Tail(s)
             h == Head(s)
  <1>1. /\ h = s[1] /\ 1 \in DOMAIN s
        /\ \A i \in DOMAIN u : i + 1 \in DOMAIN s /\ u[i] = s[i + 1] /\ i \in Nat /\ 1 < i + 1
    BY TailFacts
  <1> HIDE DEF u, h
  <1>2. Increasing(s) => Increasing(u) /\ After(h, u)
    <2>1. ASSUME Increasing(s), NEW i \in DOMAIN u, NEW j \in DOMAIN u, i < j
          PROVE  Earlier(u[i], u[j])
      <3>1. i + 1 < j + 1
        BY <1>1, <2>1
      <3> QED
        BY <1>1, <2>1, <3>1 DEF Increasing
    <2>2. Increasing(s) => After(h, u)
      BY <1>1 DEF Increasing, After
    <2> QED
      BY <2>1, <2>2 DEF Increasing
  <1>3. /\ \A t : Precedes(t, s) => Precedes(t, u) /\ Before(t, h)
        /\ \A t : Precedes(s, t) => Precedes(u, t) /\ After(h, t)
    BY <1>1 DEF Precedes, Before, After
  <1>4. /\ \A m : Before(s, m) => Before(u, m) /\ Earlier(h, m)
        /\ \A m : After(m, s) => After(m, u) /\ Earlier(m, h)
    BY <1>1 DEF Before, After
  <1>5. /\ AllSeen(s, last) => AllSeen(u, last) /\ Seen(h, last)
        /\ RealNalus(s) => RealNalus(u) /\ h.kind # "nothing"
    BY <1>1 DEF AllSeen, RealNalus
  <1> QED
    BY <1>2, <1>3, <1>4, <1>5 DEF u, h

-----------------------------------------------------------------------------
(* NALUs *)

LEMMA NaluTypes ==
  /\ Nothing \in NaluType
  /\ \A kind \in Kinds, id, g \in 0 .. MaxNalus : Nalu(kind, id, g) \in NaluType
  /\ \A n \in NaluType, g \in 0 .. MaxNalus : [n EXCEPT !.gop = g] \in NaluType
  /\ \A n \in NaluType : n.id \in 0 .. MaxNalus
  BY BoundsAreNat DEF NaluType, Nothing, Nalu, Kinds

\* Parameter sets and Nothing are no frames: they may go anywhere.
LEMMA NotFrames ==
  /\ ~ IsFrame(Nothing)
  /\ \A n : n.kind \in {"sps", "pps"} => ~ IsFrame(n)
  /\ \A n : IsConfig(n) => ~ IsFrame(n) /\ n # Nothing
  /\ \A m, n : ~ IsFrame(m) \/ ~ IsFrame(n) => Earlier(m, n)
  /\ \A n, last : ~ IsFrame(n) => Seen(n, last)
  BY DEF IsFrame, IsConfig, Nothing, Earlier, Seen

\* The stream goes on.
LEMMA ArrivesTypes ==
  ASSUME TypeOK, NEW kind, Arrives(kind)
  PROVE  /\ kind \in Kinds /\ handled' \in 1 .. MaxNalus /\ gop' \in 0 .. handled'
         /\ handled' = handled + 1 /\ handled \in Nat
         /\ todo = <<>>
  BY FedAreKinds, BoundsAreNat DEF TypeOK, Arrives

LEMMA EnqueueTypes ==
  ASSUME TypeOK, NEW n \in NaluType, Enqueue(n)
  PROVE  /\ queue' \in Seq(NaluType) /\ Len(queue') <= QueueRoom
         /\ framesDropped' \in Nat /\ offered' \in Nat
  <1>1. queue \in Seq(NaluType) /\ Len(queue) <= QueueRoom
        /\ framesDropped \in Nat /\ offered \in Nat /\ QueueRoom \in Nat
    BY PoolsArePositive DEF TypeOK
  <1>2. /\ Append(queue, n) \in Seq(NaluType)
        /\ Len(Append(queue, n)) = Len(queue) + 1
    BY <1>1, AppendFacts
  <1> QED
    BY <1>1, <1>2 DEF Enqueue

LEMMA FeederTypes ==
  ASSUME TypeOK, HandleNalu
  PROVE  TypeOK'
  <1> USE DEF TypeOK, codec
  <1>1. CASE HandleParameterSet
    <2>1. handled' \in 1 .. MaxNalus /\ gop' \in 0 .. handled'
      BY <1>1, ArrivesTypes DEF HandleParameterSet
    <2>2. cachedSps' \in NaluType /\ cachedPps' \in NaluType
      <3>1. handled' \in 0 .. MaxNalus /\ 0 \in 0 .. MaxNalus
        BY <2>1, BoundsAreNat
      <3>2. Nalu("sps", handled', 0) \in NaluType /\ Nalu("pps", handled', 0) \in NaluType
        BY <3>1, NaluTypes DEF Kinds
      <3> QED
        BY <1>1, <3>2 DEF HandleParameterSet
    <2> QED
      BY <1>1, <2>1, <2>2 DEF HandleParameterSet
  <1>2. CASE HandleSei
    BY <1>2, ArrivesTypes DEF HandleSei
  <1>3. CASE HandleIdr
    <2>1. handled' \in 1 .. MaxNalus /\ gop' \in 0 .. handled'
      BY <1>3, ArrivesTypes DEF HandleIdr
    <2>2. \/ todo' = <<>>
          \/ todo' = << [cachedSps EXCEPT !.gop = handled'],
                        [cachedPps EXCEPT !.gop = handled'],
                        Nalu("idr", handled', handled') >>
      BY <1>3 DEF HandleIdr, Arrives
    <2>3. todo' \in Seq(NaluType) /\ Len(todo') <= kIdrBatch
      <3>1. /\ [cachedSps EXCEPT !.gop = handled'] \in NaluType
            /\ [cachedPps EXCEPT !.gop = handled'] \in NaluType
            /\ Nalu("idr", handled', handled') \in NaluType
        BY <2>1, NaluTypes DEF Kinds
      <3>2. ASSUME NEW a \in NaluType, NEW b \in NaluType, NEW c \in NaluType
            PROVE  <<a, b, c>> \in Seq(NaluType) /\ Len(<<a, b, c>>) <= kIdrBatch
        BY DEF kIdrBatch
      <3>3. <<>> \in Seq(NaluType) /\ Len(<<>>) <= kIdrBatch
        BY DEF kIdrBatch
      <3> QED
        BY <2>2, <3>1, <3>2, <3>3, Zenon
    <2>4. framesDropped' \in Nat /\ offered' \in Nat /\ queue' = queue
      BY <1>3 DEF HandleIdr, Drop
    <2> QED
      BY <1>3, <2>1, <2>3, <2>4 DEF HandleIdr
  <1>4. CASE EnqueueBatch
    <2>1. /\ Head(todo) \in NaluType
          /\ todo' \in Seq(NaluType) /\ Len(todo') <= kIdrBatch
      BY <1>4, TailFacts DEF EnqueueBatch, kIdrBatch
    <2>2. /\ queue' \in Seq(NaluType) /\ Len(queue') <= QueueRoom
          /\ framesDropped' \in Nat /\ offered' \in Nat
      BY <1>4, <2>1, EnqueueTypes DEF EnqueueBatch
    <2>3. configured' \in BOOLEAN
      BY <1>4 DEF EnqueueBatch
    <2> QED
      BY <1>4, <2>1, <2>2, <2>3 DEF EnqueueBatch
  <1>5. CASE HandleOther
    <2>1. PICK kind : /\ Arrives(kind)
                      /\ IF configured THEN Enqueue(Nalu(kind, handled', gop')) ELSE Drop
      BY <1>5 DEF HandleOther
    <2>2. kind \in Kinds /\ handled' \in 1 .. MaxNalus /\ gop' \in 0 .. handled'
      BY <2>1, ArrivesTypes
    <2>3. Nalu(kind, handled', gop') \in NaluType
      <3>1. handled' \in 0 .. MaxNalus /\ gop' \in 0 .. MaxNalus
        BY <2>2, BoundsAreNat
      <3> QED
        BY <2>2, <3>1, NaluTypes
    <2>4. /\ queue' \in Seq(NaluType) /\ Len(queue') <= QueueRoom
          /\ framesDropped' \in Nat /\ offered' \in Nat
      BY <2>1, <2>3, EnqueueTypes DEF Drop
    <2> QED
      BY <1>5, <2>2, <2>4 DEF HandleOther
  <1> QED
    BY <1>1, <1>2, <1>3, <1>4, <1>5 DEF HandleNalu

LEMMA DecoderTypes ==
  ASSUME TypeOK, InputLoop \/ Decode \/ OutputLoop
  PROVE  TypeOK'
  <1> USE PoolsArePositive, BoundsAreNat DEF TypeOK, feeder, codec
  <1>1. CASE InputPop
    BY <1>1, TailFacts DEF InputPop
  <1>2. CASE InputTryAgain
    <2>1. queue' \in Seq(NaluType) /\ Len(queue') <= QueueRoom
      <3>1. /\ Append(queue, inHand) \in Seq(NaluType)
            /\ Len(Append(queue, inHand)) = Len(queue) + 1
        BY AppendFacts
      <3>2. \/ queue' = Append(queue, inHand) /\ Len(queue) < QueueRoom
            \/ queue' = queue
        BY <1>2 DEF InputTryAgain
      <3>3. CASE queue' = queue
        BY <3>3
      <3>4. CASE queue' = Append(queue, inHand) /\ Len(queue) < QueueRoom
        <4>1. Len(queue) + 1 <= QueueRoom
          BY <3>4
        <4> QED
          BY <3>1, <3>4, <4>1
      <3> QED
        BY <3>2, <3>3, <3>4
    <2>2. framesDropped' \in Nat /\ lost' \in Nat
      BY <1>2 DEF InputTryAgain
    <2> QED
      BY <1>2, <2>1, <2>2, NaluTypes DEF InputTryAgain
  <1>3. CASE InputError
    <2>1. failures' \in 0 .. MaxFailures /\ lost' \in Nat /\ troubled' \in BOOLEAN
      BY <1>3 DEF InputError, Fails
    <2> QED
      BY <1>3, <2>1, NaluTypes DEF InputError
  <1>4. CASE InputTooBig
    <2>1. failures' \in 0 .. MaxFailures /\ framesDropped' \in Nat /\ troubled' \in BOOLEAN
      BY <1>4 DEF InputTooBig, Fails
    <2>2. codecIn' \in Seq(NaluType) /\ Len(codecIn') <= InputBuffers
      BY <1>4, NaluTypes, AppendFacts DEF InputTooBig
    <2> QED
      BY <1>4, <2>1, <2>2, NaluTypes DEF InputTooBig
  <1>5. CASE InputDeliver
    <2>1. /\ codecIn' \in Seq(NaluType) /\ Len(codecIn') <= InputBuffers
          /\ delivered' \in Seq(NaluType)
      BY <1>5, AppendFacts DEF InputDeliver
    <2> QED
      BY <1>5, <2>1, NaluTypes DEF InputDeliver
  <1>6. CASE Decode
    <2>1. /\ codecIn' \in Seq(NaluType) /\ Len(codecIn') <= InputBuffers
          /\ Head(codecIn) \in NaluType
      BY <1>6, TailFacts DEF Decode
    <2>2. /\ codecOut' \in Seq(0 .. MaxNalus) /\ Len(codecOut') <= OutputBuffers
          /\ failures' \in 0 .. MaxFailures
      <3>1. Head(codecIn).id \in 0 .. MaxNalus /\ 0 \in 0 .. MaxNalus
        <4>1. 0 \in 0 .. MaxNalus
          OBVIOUS
        <4> QED
          BY <2>1, <4>1, NaluTypes, Zenon
      <3>2. ASSUME NEW out \in 0 .. MaxNalus, Len(codecOut) < OutputBuffers
            PROVE  /\ Append(codecOut, out) \in Seq(0 .. MaxNalus)
                   /\ Len(Append(codecOut, out)) <= OutputBuffers
        BY <3>2, AppendFacts
      <3>3. \/ UNCHANGED codecOut
            \/ /\ Len(codecOut) < OutputBuffers
               /\ \E out \in 0 .. MaxNalus : codecOut' = Append(codecOut, out)
        BY <1>6, <3>1 DEF Decode
      <3>4. failures' \in 0 .. MaxFailures
        BY <1>6 DEF Decode, Fails
      <3> QED
        BY <3>2, <3>3, <3>4
    <2> QED
      BY <1>6, <2>1, <2>2 DEF Decode
  <1>7. CASE OutputLoop
    BY <1>7, TailFacts DEF OutputLoop
  <1> QED
    BY <1>1, <1>2, <1>3, <1>4, <1>5, <1>6, <1>7 DEF InputLoop

-----------------------------------------------------------------------------
(* The equation of the ledger *)

LEMMA Counters ==
  TypeOK => /\ Len(queue) \in Nat /\ Len(delivered) \in Nat
            /\ framesDropped \in Nat /\ lost \in Nat /\ offered \in Nat
  BY DEF TypeOK

InHandCount == IF inHand = Nothing THEN 0 ELSE 1

\* One NALU more is offered, and it is in the queue or counted as dropped.
CountedOnce ==
  /\ offered' = offered + 1
  /\ \/ Len(queue') = Len(queue) + 1 /\ framesDropped' = framesDropped
     \/ Len(queue') = Len(queue) /\ framesDropped' = framesDropped + 1

LEMMA EnqueueCounts ==
  ASSUME TypeOK, NEW n \in NaluType, Enqueue(n)
  PROVE  CountedOnce
  <1>1. queue \in Seq(NaluType) /\ framesDropped \in Nat /\ offered \in Nat
    BY DEF TypeOK
  <1>2. Len(Append(queue, n)) = Len(queue) + 1
    BY <1>1, AppendFacts
  <1> QED
    BY <1>1, <1>2 DEF Enqueue, CountedOnce

LEMMA CountStep ==
  ASSUME IInv, TypeOK', [Next]_vars
  PROVE  Ledger'
  <1> DEFINE Sum == Len(queue) + InHandCount + Len(delivered) + framesDropped + lost
  <1>1. /\ Len(queue) \in Nat /\ Len(delivered) \in Nat /\ InHandCount \in Nat
        /\ framesDropped \in Nat /\ lost \in Nat /\ offered \in Nat
    <2>1. TypeOK
      BY DEF IInv, Ledger
    <2>2. InHandCount \in Nat
      BY DEF InHandCount
    <2> QED
      BY <2>1, <2>2, Counters
  <1>0. Sum = offered
    BY DEF IInv, Ledger, InHandCount
  <1>2. /\ Len(queue') \in Nat /\ Len(delivered') \in Nat /\ InHandCount' \in Nat
        /\ framesDropped' \in Nat /\ lost' \in Nat /\ offered' \in Nat
    BY DEF TypeOK, InHandCount
  <1>3. inHand # Nothing => InHandCount = 1
    BY DEF InHandCount
  <1>4. inHand' = Nothing => InHandCount' = 0
    BY DEF InHandCount
  <1>5. inHand' = inHand => InHandCount' = InHandCount
    BY DEF InHandCount
  <1> SUFFICES Sum' = offered'
    BY DEF Ledger, InHandCount
  <1>6. CASE HandleParameterSet \/ HandleSei \/ HandleIdr
    BY <1>0, <1>1, <1>5, <1>6 DEF HandleParameterSet, HandleSei, HandleIdr, Drop
  <1>7. CASE EnqueueBatch
    <2>1. Head(todo) \in NaluType
      BY <1>7, TailFacts DEF EnqueueBatch, IInv, Ledger, TypeOK
    <2>2. CountedOnce
      BY <1>7, <2>1, EnqueueCounts DEF EnqueueBatch, IInv, Ledger
    <2> QED
      <3>1. inHand' = inHand /\ Len(delivered') = Len(delivered) /\ lost' = lost
        BY <1>7 DEF EnqueueBatch
      <3> QED
        BY <1>0, <1>1, <1>2, <1>5, <2>2, <3>1 DEF CountedOnce
  <1>8. CASE HandleOther
    <2>1. PICK kind : /\ Arrives(kind)
                      /\ IF configured THEN Enqueue(Nalu(kind, handled', gop')) ELSE Drop
      BY <1>8 DEF HandleOther
    <2>2. kind \in Kinds /\ handled' \in 0 .. MaxNalus /\ gop' \in 0 .. MaxNalus
      BY <2>1, BoundsAreNat, ArrivesTypes DEF IInv, Ledger
    <2>3. Nalu(kind, handled', gop') \in NaluType
      BY <2>2, NaluTypes
    <2>4. CountedOnce
      BY <1>1, <2>1, <2>3, EnqueueCounts DEF Drop, CountedOnce, IInv, Ledger
    <2> QED
      <3>1. inHand' = inHand /\ Len(delivered') = Len(delivered) /\ lost' = lost
        BY <1>8 DEF HandleOther
      <3> QED
        BY <1>0, <1>1, <1>2, <1>5, <2>4, <3>1 DEF CountedOnce
  <1>9. CASE InputPop
    <2>1. Len(queue') = Len(queue) - 1 /\ inHand' = Head(queue)
      BY <1>9, TailFacts DEF InputPop, IInv, Ledger, TypeOK
    <2>2. inHand' # Nothing
      <3>1. Head(queue).kind # "nothing"
        BY <1>9, OrderOfTail DEF InputPop, IInv, Ledger, TypeOK, OnlyNalus
      <3> QED
        BY <2>1, <3>1 DEF Nothing
    <2>3. InHandCount = 0 /\ InHandCount' = 1
      BY <1>9, <2>2 DEF InHandCount, InputPop
    <2> QED
      BY <1>0, <1>1, <1>9, <2>1, <2>3 DEF InputPop
  <1>10. CASE InputTryAgain
    <2>1. queue' = Append(queue, inHand) => Len(queue') = Len(queue) + 1
      BY AppendFacts DEF IInv, Ledger, TypeOK
    <2> QED
      BY <1>0, <1>1, <1>3, <1>4, <1>10, <2>1 DEF InputTryAgain
  <1>11. CASE InputError \/ InputTooBig
    BY <1>0, <1>1, <1>3, <1>4, <1>11 DEF InputError, InputTooBig
  <1>12. CASE InputDeliver
    <2>1. Len(delivered') = Len(delivered) + 1
      BY <1>12, AppendFacts DEF InputDeliver, IInv, Ledger, TypeOK
    <2> QED
      BY <1>0, <1>1, <1>3, <1>4, <1>12, <2>1 DEF InputDeliver
  <1>13. CASE Decode \/ OutputLoop \/ UNCHANGED vars
    BY <1>0, <1>1, <1>5, <1>13 DEF Decode, OutputLoop, vars
  <1> QED
    BY <1>6, <1>7, <1>8, <1>9, <1>10, <1>11, <1>12, <1>13 DEF Next, HandleNalu, InputLoop

-----------------------------------------------------------------------------
(* The order of the pictures *)

LEMMA EnqueueOrder ==
  ASSUME TypeOK, NEW n \in NaluType, Enqueue(n), n.kind # "nothing",
         NEW last, Seen(n, last), Before(queue, n), Increasing(queue),
         AllSeen(queue, last), RealNalus(queue)
  PROVE  /\ Increasing(queue') /\ AllSeen(queue', last) /\ RealNalus(queue')
         /\ \A t : Precedes(t, queue) /\ Before(t, n) => Precedes(t, queue')
         /\ \A t : Precedes(queue, t) /\ After(n, t) => Precedes(queue', t)
         /\ \A m : After(m, queue) /\ Earlier(m, n) => After(m, queue')
  <1>1. queue \in Seq(NaluType)
    BY DEF TypeOK
  <1>2. CASE queue' = Append(queue, n)
    BY <1>1, <1>2, OrderOfAppend, Zenon
  <1>3. CASE queue' = queue
    BY <1>3, Zenon
  <1> QED
    BY <1>2, <1>3 DEF Enqueue

LEMMA SeenLater ==
  ASSUME NEW last \in Nat
  PROVE  /\ \A n \in NaluType : Seen(n, last) => Seen(n, last + 1)
         /\ \A s \in Seq(NaluType) : AllSeen(s, last) => AllSeen(s, last + 1)
  <1>1. ASSUME NEW n \in NaluType, Seen(n, last) PROVE Seen(n, last + 1)
    <2>1. n.id \in Nat
      BY BoundsAreNat DEF NaluType
    <2> QED
      BY <1>1, <2>1 DEF Seen
  <1>2. \A s \in Seq(NaluType) : \A i \in DOMAIN s : s[i] \in NaluType
    OBVIOUS
  <1> QED
    BY <1>1, <1>2, Zenon DEF AllSeen

\* What has been seen precedes the next NALU of the stream.
LEMMA SeenIsEarlier ==
  ASSUME NEW last \in Nat, NEW new, new.id = last + 1
  PROVE  /\ \A n \in NaluType : Seen(n, last) => Earlier(n, new)
         /\ \A s \in Seq(NaluType) : AllSeen(s, last) => Before(s, new)
  <1>1. ASSUME NEW n \in NaluType, Seen(n, last) PROVE Earlier(n, new)
    <2>1. n.id \in Nat
      BY BoundsAreNat DEF NaluType
    <2> QED
      BY <1>1, <2>1 DEF Seen, Earlier
  <1>2. \A s \in Seq(NaluType) : \A i \in DOMAIN s : s[i] \in NaluType
    OBVIOUS
  <1> QED
    BY <1>1, <1>2, Zenon DEF AllSeen, Before

\* The batch of an IDR: only its last NALU is a frame.
LEMMA BatchOrder ==
  ASSUME NEW a, NEW b, NEW c, a.kind = "sps", b.kind = "pps", c.kind = "idr",
         NEW last, Seen(c, last)
  PROVE  LET batch == <<a, b, c>> IN
         /\ RealNalus(batch) /\ Increasing(batch) /\ AllSeen(batch, last)
         /\ \A s : Before(s, c) => Precedes(s, batch)
         /\ \A m : Earlier(m, c) => After(m, batch)
  <1> DEFINE batch == <<a, b, c>>
  <1>1. ~ IsFrame(a) /\ ~ IsFrame(b)
    BY DEF IsFrame
  <1>2. /\ DOMAIN batch = 1 .. 3 /\ batch[1] = a /\ batch[2] = b /\ batch[3] = c
        /\ \A i \in 1 .. 3 : i = 1 \/ i = 2 \/ i = 3
        /\ \A j \in 1 .. 3 : ~ (3 < j)
    OBVIOUS
  <1> HIDE DEF batch
  <1>3. RealNalus(batch)
    BY <1>2 DEF RealNalus
  <1>4. Increasing(batch)
    BY <1>1, <1>2 DEF Increasing, Earlier
  <1>5. AllSeen(batch, last)
    BY <1>1, <1>2 DEF AllSeen, Seen
  <1>6. /\ \A s : Before(s, c) => Precedes(s, batch)
        /\ \A m : Earlier(m, c) => After(m, batch)
    BY <1>1, <1>2 DEF Before, Precedes, After, Earlier
  <1> QED
    BY <1>3, <1>4, <1>5, <1>6 DEF batch

LEMMA OrderStep ==
  ASSUME IInv, TypeOK', [Next]_vars
  PROVE  (OnlyNalus /\ InStreamOrder)'
  <1>1. TypeOK /\ OnlyNalus /\ InStreamOrder
    BY DEF IInv, Ledger
  <1>2. /\ queue \in Seq(NaluType) /\ todo \in Seq(NaluType) /\ inHand \in NaluType
        /\ delivered \in Seq(NaluType) /\ handled \in Nat
    BY <1>1, BoundsAreNat DEF TypeOK
  <1>3. ASSUME handled' = handled + 1
        PROVE  /\ AllSeen(delivered, handled') /\ Seen(inHand, handled')
               /\ AllSeen(queue, handled') /\ AllSeen(todo, handled')
    BY <1>1, <1>2, <1>3, SeenLater, Zenon DEF InStreamOrder
  <1>4. CASE HandleParameterSet \/ HandleSei
    <2>1. /\ handled' = handled + 1
          /\ UNCHANGED <<inHand, delivered, queue, todo>>
      BY <1>4 DEF HandleParameterSet, HandleSei, Arrives
    <2>2. cachedSps'.kind = "sps" /\ cachedPps'.kind = "pps"
      BY <1>1, <1>4 DEF HandleParameterSet, HandleSei, OnlyNalus, Nalu
    <2> QED
      BY <1>1, <1>3, <2>1, <2>2, Zenon DEF OnlyNalus, InStreamOrder
  <1>5. CASE HandleIdr
    <2>1. /\ handled' = handled + 1 /\ todo = <<>>
          /\ UNCHANGED <<inHand, delivered, queue, cachedSps, cachedPps>>
      BY <1>5 DEF HandleIdr, Arrives, Drop
    <2>2. CASE todo' = todo
      BY <1>1, <1>3, <2>1, <2>2, Zenon DEF OnlyNalus, InStreamOrder
    <2>3. CASE todo' = << [cachedSps EXCEPT !.gop = handled'],
                          [cachedPps EXCEPT !.gop = handled'],
                          Nalu("idr", handled', handled') >>
      <3> DEFINE a == [cachedSps EXCEPT !.gop = handled']
                 b == [cachedPps EXCEPT !.gop = handled']
                 c == Nalu("idr", handled', handled')
      <3>1. a.kind = "sps" /\ b.kind = "pps" /\ c.kind = "idr" /\ c.id = handled'
        <4>1. cachedSps.kind = "sps" /\ cachedPps.kind = "pps"
          BY <1>1 DEF OnlyNalus
        <4>2. cachedSps \in NaluType /\ cachedPps \in NaluType
          BY <1>1 DEF TypeOK
        <4> QED
          BY <4>1, <4>2 DEF Nalu, NaluType
      <3>2. Seen(c, handled')
        BY <1>2, <2>1, <3>1 DEF Seen
      <3> HIDE DEF a, b, c
      <3>3. Before(queue, c) /\ Before(delivered, c) /\ Earlier(inHand, c)
        BY <1>1, <1>2, <2>1, <3>1, SeenIsEarlier DEF InStreamOrder
      <3>4. /\ RealNalus(<<a, b, c>>) /\ Increasing(<<a, b, c>>)
            /\ AllSeen(<<a, b, c>>, handled')
            /\ Precedes(queue, <<a, b, c>>) /\ Precedes(delivered, <<a, b, c>>)
            /\ After(inHand, <<a, b, c>>)
        BY <3>1, <3>2, <3>3, BatchOrder, Zenon
      <3>5. todo' = <<a, b, c>>
        BY <2>3 DEF a, b, c
      <3> QED
        BY <1>1, <1>3, <2>1, <3>4, <3>5, Zenon DEF OnlyNalus, InStreamOrder
    <2> QED
      BY <1>5, <2>2, <2>3 DEF HandleIdr
  <1>6. CASE EnqueueBatch
    <2>1. /\ Enqueue(Head(todo)) /\ todo' = Tail(todo) /\ todo # <<>>
          /\ UNCHANGED <<handled, inHand, delivered, cachedSps, cachedPps>>
      BY <1>6 DEF EnqueueBatch
    <2>2. Head(todo) \in NaluType
      BY <1>2, <2>1, TailFacts
    <2>3. /\ Head(todo).kind # "nothing" /\ RealNalus(Tail(todo))
          /\ Seen(Head(todo), handled) /\ AllSeen(Tail(todo), handled)
          /\ Before(queue, Head(todo)) /\ Precedes(queue, Tail(todo))
          /\ Before(delivered, Head(todo)) /\ Precedes(delivered, Tail(todo))
          /\ Increasing(Tail(todo)) /\ After(Head(todo), Tail(todo))
          /\ Earlier(inHand, Head(todo)) /\ After(inHand, Tail(todo))
      BY <1>1, <1>2, <2>1, OrderOfTail, Zenon DEF OnlyNalus, InStreamOrder
    <2>4. /\ Increasing(queue') /\ AllSeen(queue', handled) /\ RealNalus(queue')
          /\ Precedes(delivered, queue') /\ Precedes(queue', Tail(todo))
          /\ After(inHand, queue')
      BY <1>1, <2>1, <2>2, <2>3, EnqueueOrder, Zenon DEF OnlyNalus, InStreamOrder
    <2> QED
      BY <1>1, <2>1, <2>3, <2>4, Zenon DEF OnlyNalus, InStreamOrder
  <1>7. CASE HandleOther
    <2>1. PICK kind : /\ Arrives(kind)
                      /\ IF configured THEN Enqueue(Nalu(kind, handled', gop')) ELSE Drop
      BY <1>7 DEF HandleOther
    <2> DEFINE n == Nalu(kind, handled', gop')
    <2>2. /\ handled' = handled + 1 /\ todo = <<>>
          /\ UNCHANGED <<inHand, delivered, todo, cachedSps, cachedPps>>
      BY <1>7, <2>1 DEF HandleOther, Arrives
    <2>3. CASE Drop
      BY <1>1, <1>3, <2>2, <2>3, Zenon DEF Drop, OnlyNalus, InStreamOrder
    <2>4. CASE Enqueue(n)
      <3>1. kind \in Kinds /\ handled' \in 0 .. MaxNalus /\ gop' \in 0 .. MaxNalus
        BY <1>1, <2>1, BoundsAreNat, ArrivesTypes
      <3>2. n \in NaluType
        BY <3>1, NaluTypes
      <3>3. n.id = handled' /\ n.kind # "nothing"
        BY <3>1 DEF Nalu, Kinds
      <3>4. Seen(n, handled')
        BY <1>2, <2>2, <3>3 DEF Seen
      <3> HIDE DEF n
      <3>5. Before(queue, n) /\ Before(delivered, n) /\ Earlier(inHand, n)
        BY <1>1, <1>2, <2>2, <3>3, SeenIsEarlier DEF InStreamOrder
      <3>6. After(n, todo)
        BY <2>2 DEF After
      <3>7. /\ Increasing(queue') /\ AllSeen(queue', handled') /\ RealNalus(queue')
            /\ Precedes(delivered, queue') /\ Precedes(queue', todo)
            /\ After(inHand, queue')
        BY <1>1, <1>3, <2>2, <2>4, <3>2, <3>3, <3>4, <3>5, <3>6, EnqueueOrder, Zenon
           DEF OnlyNalus, InStreamOrder
      <3> QED
        BY <1>1, <1>3, <2>2, <3>7, Zenon DEF OnlyNalus, InStreamOrder
    <2> QED
      BY <2>1, <2>3, <2>4
  <1>8. CASE InputPop
    <2>1. /\ inHand' = Head(queue) /\ queue' = Tail(queue) /\ queue # <<>>
          /\ UNCHANGED <<handled, todo, delivered, cachedSps, cachedPps>>
      BY <1>8 DEF InputPop, feeder
    <2>2. /\ RealNalus(Tail(queue))
          /\ Increasing(Tail(queue)) /\ After(Head(queue), Tail(queue))
          /\ Precedes(Tail(queue), todo) /\ After(Head(queue), todo)
          /\ Precedes(delivered, Tail(queue)) /\ Before(delivered, Head(queue))
          /\ Seen(Head(queue), handled) /\ AllSeen(Tail(queue), handled)
      BY <1>1, <1>2, <2>1, OrderOfTail, Zenon DEF OnlyNalus, InStreamOrder
    <2> QED
      BY <1>1, <2>1, <2>2, Zenon DEF OnlyNalus, InStreamOrder
  <1>9. CASE InputTryAgain
    <2>1. /\ inHand' = Nothing
          /\ UNCHANGED <<handled, todo, delivered, cachedSps, cachedPps>>
      BY <1>9 DEF InputTryAgain, feeder
    <2>2. /\ Before(delivered, Nothing) /\ After(Nothing, todo) /\ Seen(Nothing, handled)
          /\ \A s : After(Nothing, s)
      BY NotFrames, Zenon DEF Before, After
    <2>3. CASE queue' = queue
      BY <1>1, <2>1, <2>2, <2>3, Zenon DEF OnlyNalus, InStreamOrder
    <2>4. CASE IsConfig(inHand) /\ queue' = Append(queue, inHand)
      <3>1. inHand.kind # "nothing"
        BY <2>4 DEF IsConfig
      <3>2. Before(queue, inHand)
        BY <2>4, NotFrames, Zenon DEF Before
      <3>3. /\ Increasing(queue') /\ AllSeen(queue', handled) /\ RealNalus(queue')
            /\ Precedes(delivered, queue') /\ Precedes(queue', todo)
        BY <1>1, <1>2, <2>4, <3>1, <3>2, OrderOfAppend, Zenon
           DEF OnlyNalus, InStreamOrder
      <3> QED
        BY <1>1, <2>1, <2>2, <3>3, Zenon DEF OnlyNalus, InStreamOrder
    <2> QED
      BY <1>9, <2>3, <2>4 DEF InputTryAgain
  <1>10. CASE InputDeliver
    <2>1. /\ delivered' = Append(delivered, inHand) /\ inHand' = Nothing
          /\ UNCHANGED <<handled, todo, queue, cachedSps, cachedPps>>
      BY <1>10 DEF InputDeliver, feeder
    <2>2. /\ Increasing(delivered') /\ AllSeen(delivered', handled)
          /\ Precedes(delivered', queue) /\ Precedes(delivered', todo)
      BY <1>1, <1>2, <2>1, OrderOfAppend, Zenon DEF InStreamOrder
    <2>3. /\ Before(delivered', Nothing) /\ After(Nothing, queue)
          /\ After(Nothing, todo) /\ Seen(Nothing, handled)
      BY NotFrames, Zenon DEF Before, After
    <2> QED
      BY <1>1, <2>1, <2>2, <2>3, Zenon DEF OnlyNalus, InStreamOrder
  <1>11. CASE InputError \/ InputTooBig
    <2>1. /\ inHand' = Nothing
          /\ UNCHANGED <<handled, todo, queue, delivered, cachedSps, cachedPps>>
      BY <1>11 DEF InputError, InputTooBig, feeder
    <2>2. /\ Before(delivered, Nothing) /\ After(Nothing, queue)
          /\ After(Nothing, todo) /\ Seen(Nothing, handled)
      BY NotFrames, Zenon DEF Before, After
    <2> QED
      BY <1>1, <2>1, <2>2, Zenon DEF OnlyNalus, InStreamOrder
  <1>12. CASE Decode \/ OutputLoop \/ UNCHANGED vars
    <2>1. UNCHANGED <<handled, todo, queue, inHand, delivered, cachedSps, cachedPps>>
      BY <1>12 DEF Decode, OutputLoop, vars, feeder
    <2> QED
      BY <1>1, <2>1, Zenon DEF OnlyNalus, InStreamOrder
  <1> QED
    BY <1>4, <1>5, <1>6, <1>7, <1>8, <1>9, <1>10, <1>11, <1>12
       DEF Next, HandleNalu, InputLoop

-----------------------------------------------------------------------------

LEMMA PipelineInit == Init => IInv
  <1> SUFFICES ASSUME Init PROVE IInv
    OBVIOUS
  <1>1. TypeOK
    <2>1. /\ 0 \in 0 .. MaxNalus /\ failures \in 0 .. MaxFailures
          /\ handled \in 0 .. MaxNalus /\ gop \in 0 .. handled
      BY BoundsAreNat DEF Init
    <2>2. cachedSps \in NaluType /\ cachedPps \in NaluType /\ inHand \in NaluType
      BY <2>1, NaluTypes DEF Init, Empty, Kinds
    <2>3. configured \in BOOLEAN /\ troubled \in BOOLEAN
      BY DEF Init
    <2> QED
      BY <2>1, <2>2, <2>3, PoolsArePositive DEF Init, TypeOK, kIdrBatch
  <1>2. Ledger
    BY <1>1 DEF Ledger, Init
  <1>3. OnlyNalus /\ InStreamOrder
    <2>1. ~ IsFrame(inHand)
      BY NotFrames DEF Init
    <2>2. todo = <<>> /\ queue = <<>> /\ delivered = <<>>
      BY DEF Init
    <2>3. cachedSps.kind = "sps" /\ cachedPps.kind = "pps"
      BY DEF Init, Empty, Nalu
    <2> QED
      BY <2>1, <2>2, <2>3 DEF OnlyNalus, InStreamOrder, RealNalus, Increasing,
         Precedes, Before, After, AllSeen, Seen
  <1> QED
    BY <1>2, <1>3 DEF IInv

LEMMA PipelineStep == IInv /\ [Next]_vars => IInv'
  <1> SUFFICES ASSUME IInv, [Next]_vars PROVE IInv'
    OBVIOUS
  <1>1. CASE UNCHANGED vars
    BY <1>1 DEF vars, feeder, codec, IInv, Ledger, TypeOK, OnlyNalus, RealNalus,
       InStreamOrder, Increasing, Precedes, Before, After, AllSeen
  <1>2. CASE Next
    <2>1. TypeOK'
      BY <1>2, FeederTypes, DecoderTypes DEF IInv, Ledger, Next
    <2> QED
      BY <2>1, CountStep, OrderStep DEF IInv
  <1> QED
    BY <1>1, <1>2

\* The inductive invariant of handleNalu, inputLoop and outputLoop
\* (LiveVideoEngine.cpp:160-327).
THEOREM PipelineInvariance == Spec => []IInv
  BY PipelineInit, PipelineStep, PTL DEF Spec

\* Every NALU offered to the queue is accounted for, whatever the decoder does
\* (LiveVideoEngine.cpp:160-294).
THEOREM LedgerBalances == Spec => []Ledger
  <1>1. IInv => Ledger
    BY DEF IInv
  <1> QED
    BY <1>1, PipelineInvariance, PTL

\* Pictures reach the decoder in the order of the stream and at most once,
\* although parameter sets go round the queue (LiveVideoEngine.cpp:230-291).
THEOREM PicturesStayInOrder == Spec => []FramesInOrder
  <1>1. IInv => FramesInOrder
    BY DEF IInv, InStreamOrder, Increasing, Earlier, FramesInOrder
  <1> QED
    BY <1>1, PipelineInvariance, PTL

-----------------------------------------------------------------------------
(* What the decoder starts with. Read as one sequence, what it has got, what *)
(* inputLoop holds, what waits in the queue and what handleNalu is about to  *)
(* push only grows at its end while the decoder always has an input buffer:  *)
(* an order that holds in it holds in what is delivered.                     *)

Held == IF inHand = Nothing THEN <<>> ELSE <<inHand>>

Flow == delivered \o Held \o queue \o todo

HasIdr(s) == \E j \in DOMAIN s : s[j].kind = "idr"

HasSet(s, kind, g) == \E j \in DOMAIN s : s[j].kind = kind /\ s[j].gop = g

\* What DecodableFromStart says of delivered.
Startable(s) ==
  \A i \in DOMAIN s :
    /\ s[i].kind = "slice" => \E j \in 1 .. i - 1 : s[j].kind = "idr"
    /\ s[i].kind = "idr" =>
         \A kind \in {"sps", "pps"} :
           \E j \in 1 .. i - 1 : s[j].kind = kind /\ s[j].gop = s[i].gop

\* codec_configured_ is only set behind an IDR, and the room tested before a
\* batch is there until its last NALU is pushed. An HEVC stream never gets
\* beyond codec_configured_.
FlowInv ==
  /\ Mime # "video/avc" => ~ configured /\ todo = <<>>
  /\ ~ troubled =>
       /\ Startable(Flow)
       /\ configured \/ todo # <<>> => HasIdr(Flow)
       /\ todo # <<>> => Len(queue) + Len(todo) <= QueueRoom

\* One NALU more at the end.
LEMMA StartableAppend ==
  ASSUME NEW S, NEW s \in Seq(S), NEW n \in S
  PROVE  /\ /\ Startable(s)
            /\ n.kind = "slice" => HasIdr(s)
            /\ n.kind = "idr" => \A kind \in {"sps", "pps"} : HasSet(s, kind, n.gop)
            => Startable(Append(s, n))
         /\ HasIdr(s) \/ n.kind = "idr" => HasIdr(Append(s, n))
         /\ \A kind, g : HasSet(s, kind, g) \/ (n.kind = kind /\ n.gop = g)
                           => HasSet(Append(s, n), kind, g)
  <1> DEFINE a == Append(s, n)
  <1>1. /\ DOMAIN s = 1 .. Len(s) /\ DOMAIN a = 1 .. Len(s) + 1 /\ Len(s) \in Nat
        /\ \A i \in 1 .. Len(s) : a[i] = s[i]
        /\ a[Len(s) + 1] = n
    BY AppendProperties, LenProperties
  <1> HIDE DEF a
  <1>2. ASSUME Startable(s), n.kind = "slice" => HasIdr(s),
               n.kind = "idr" => \A kind \in {"sps", "pps"} : HasSet(s, kind, n.gop)
        PROVE  Startable(a)
    <2>1. ASSUME NEW i \in 1 .. Len(s)
          PROVE  /\ a[i].kind = "slice" => \E j \in 1 .. i - 1 : a[j].kind = "idr"
                 /\ a[i].kind = "idr" =>
                      \A kind \in {"sps", "pps"} :
                        \E j \in 1 .. i - 1 : a[j].kind = kind /\ a[j].gop = a[i].gop
      <3>1. a[i] = s[i] /\ \A j \in 1 .. i - 1 : a[j] = s[j]
        BY <1>1, <2>1
      <3> QED
        BY <1>1, <1>2, <3>1 DEF Startable
    <2>2. LET i == Len(s) + 1 IN
          /\ a[i].kind = "slice" => \E j \in 1 .. i - 1 : a[j].kind = "idr"
          /\ a[i].kind = "idr" =>
               \A kind \in {"sps", "pps"} :
                 \E j \in 1 .. i - 1 : a[j].kind = kind /\ a[j].gop = a[i].gop
      <3>1. (Len(s) + 1) - 1 = Len(s)
        BY <1>1
      <3> QED
        BY <1>1, <1>2, <3>1 DEF HasIdr, HasSet
    <2>3. \A i \in DOMAIN a : i \in 1 .. Len(s) \/ i = Len(s) + 1
      BY <1>1
    <2> QED
      BY <2>1, <2>2, <2>3 DEF Startable
  <1>3. \A i \in 1 .. Len(s) : i \in 1 .. Len(s) + 1
    BY <1>1
  <1>4. Len(s) + 1 \in 1 .. Len(s) + 1
    BY <1>1
  <1>5. HasIdr(s) \/ n.kind = "idr" => HasIdr(a)
    BY <1>1, <1>3, <1>4 DEF HasIdr
  <1>6. \A kind, g : HasSet(s, kind, g) \/ (n.kind = kind /\ n.gop = g) => HasSet(a, kind, g)
    BY <1>1, <1>3, <1>4 DEF HasSet
  <1> QED
    BY <1>2, <1>5, <1>6 DEF a

\* What comes first can be started with what comes first.
LEMMA StartablePrefix ==
  ASSUME NEW S, NEW s \in Seq(S), NEW t \in Seq(S), Startable(s \o t)
  PROVE  Startable(s)
  <1> DEFINE c == s \o t
  <1>1. /\ DOMAIN s = 1 .. Len(s) /\ Len(s) \in Nat /\ Len(t) \in Nat
        /\ DOMAIN c = 1 .. Len(c) /\ Len(c) = Len(s) + Len(t)
    BY ConcatProperties, LenProperties
  <1>2. \A i \in 1 .. Len(s) : i \in DOMAIN c /\ c[i] = s[i]
    BY <1>1, ConcatProperties
  <1>3. Startable(c)
    OBVIOUS
  <1> HIDE DEF c
  <1> SUFFICES ASSUME NEW i \in 1 .. Len(s)
               PROVE  /\ s[i].kind = "slice" => \E j \in 1 .. i - 1 : s[j].kind = "idr"
                      /\ s[i].kind = "idr" =>
                           \A kind \in {"sps", "pps"} :
                             \E j \in 1 .. i - 1 : s[j].kind = kind /\ s[j].gop = s[i].gop
    BY <1>1 DEF Startable
  <1>4. c[i] = s[i] /\ i \in DOMAIN c /\ \A j \in 1 .. i - 1 : c[j] = s[j]
    BY <1>1, <1>2
  <1> QED
    BY <1>3, <1>4 DEF Startable

\* Regrouping the four parts of Flow
LEMMA FlowParts ==
  ASSUME NEW S, NEW d \in Seq(S), NEW h \in Seq(S), NEW q \in Seq(S), NEW t \in Seq(S)
  PROVE  /\ ((d \o h) \o q) \o t \in Seq(S)
         /\ ((d \o h) \o q) \o t = d \o ((h \o q) \o t)
         /\ ((d \o h) \o q) \o t = (d \o h) \o (q \o t)
         /\ ((d \o h) \o q) \o t = (d \o (h \o q)) \o t
         /\ (h \o q) \o t \in Seq(S)
  <1>1. /\ h \o q \in Seq(S) /\ q \o t \in Seq(S) /\ d \o h \in Seq(S)
        /\ (d \o h) \o q \in Seq(S) /\ (h \o q) \o t \in Seq(S)
        /\ ((d \o h) \o q) \o t \in Seq(S)
    BY ConcatProperties
  <1>2. (d \o h) \o q = d \o (h \o q)
    OBVIOUS
  <1>3. \A u, v, w \in Seq(S) : (u \o v) \o w = u \o (v \o w)
    OBVIOUS
  <1>4. (d \o (h \o q)) \o t = d \o ((h \o q) \o t)
    <2> DEFINE hq == h \o q
    <2> HIDE DEF hq
    <2>1. hq \in Seq(S)
      BY <1>1 DEF hq
    <2>2. (d \o hq) \o t = d \o (hq \o t)
      BY <2>1, <1>3, Zenon
    <2> QED
      BY <2>2, Zenon DEF hq
  <1>5. ((d \o h) \o q) \o t = (d \o h) \o (q \o t)
    <2> DEFINE dh == d \o h
    <2> HIDE DEF dh
    <2>1. dh \in Seq(S)
      BY <1>1 DEF dh
    <2>2. (dh \o q) \o t = dh \o (q \o t)
      BY <2>1, <1>3, Zenon
    <2> QED
      BY <2>2, Zenon DEF dh
  <1> QED
    BY <1>1, <1>2, <1>4, <1>5, Zenon

LEMMA OneThenRest ==
  ASSUME NEW S, NEW s \in Seq(S), s # <<>>
  PROVE  <<Head(s)>> \in Seq(S) /\ <<Head(s)>> \o Tail(s) = s
  <1>1. /\ Head(s) = s[1] /\ Head(s) \in S /\ Tail(s) \in Seq(S) /\ Len(s) \in Nat
        /\ Len(Tail(s)) = Len(s) - 1 /\ \A i \in 1 .. Len(Tail(s)) : Tail(s)[i] = s[i + 1]
    BY HeadTailProperties
  <1>2. <<Head(s)>> \in Seq(S) /\ Len(<<Head(s)>>) = 1 /\ <<Head(s)>>[1] = s[1]
    BY <1>1
  <1> DEFINE c == <<Head(s)>> \o Tail(s)
  <1>3. /\ c \in Seq(S) /\ Len(c) = Len(s)
        /\ \A i \in 1 .. Len(s) :
             c[i] = IF i <= 1 THEN <<Head(s)>>[i] ELSE Tail(s)[i - 1]
    <2> DEFINE h == <<Head(s)>>
               u == Tail(s)
    <2>1. h \in Seq(S) /\ u \in Seq(S) /\ Len(h) = 1 /\ Len(u) = Len(s) - 1
      BY <1>1, <1>2
    <2> HIDE DEF h, u
    <2>2. /\ h \o u \in Seq(S) /\ Len(h \o u) = Len(h) + Len(u)
          /\ \A i \in 1 .. Len(h) + Len(u) :
               (h \o u)[i] = IF i <= Len(h) THEN h[i] ELSE u[i - Len(h)]
      BY <2>1, ConcatProperties
    <2>3. Len(h) + Len(u) = Len(s)
      BY <1>1, <2>1
    <2>4. /\ h \o u \in Seq(S) /\ Len(h \o u) = Len(s)
          /\ \A i \in 1 .. Len(s) : (h \o u)[i] = IF i <= 1 THEN h[i] ELSE u[i - 1]
      BY <2>1, <2>2, <2>3
    <2> QED
      BY <2>4 DEF h, u
  <1> HIDE DEF c
  <1>4. ASSUME NEW i \in 1 .. Len(s) PROVE c[i] = s[i]
    <2>1. CASE i = 1
      BY <1>2, <1>3, <2>1
    <2>2. CASE i # 1
      <3>1. i - 1 \in 1 .. Len(Tail(s)) /\ ~ (i <= 1) /\ (i - 1) + 1 = i
        BY <1>1, <2>2
      <3> QED
        BY <1>1, <1>3, <3>1
    <2> QED
      BY <2>1, <2>2
  <1>5. c = s
    BY <1>3, <1>4, SeqEqual
  <1> QED
    BY <1>2, <1>5 DEF c

LEMMA ThreeAppends ==
  ASSUME NEW s \in Seq(NaluType), NEW a \in NaluType, NEW b \in NaluType,
         NEW c \in NaluType
  PROVE  Append(Append(Append(s, a), b), c) = s \o <<a, b, c>>
  <1> DEFINE s1 == Append(s, a)
             s2 == Append(s1, b)
             s3 == Append(s2, c)
             t == s \o <<a, b, c>>
  <1>1. /\ s1 \in Seq(NaluType) /\ Len(s1) = Len(s) + 1 /\ Len(s) \in Nat
        /\ \A i \in 1 .. Len(s) : s1[i] = s[i]
        /\ s1[Len(s) + 1] = a
    BY AppendProperties, LenProperties
  <1> HIDE DEF s1
  <1>2. /\ s2 \in Seq(NaluType) /\ Len(s2) = Len(s) + 2
        /\ \A i \in 1 .. Len(s) : s2[i] = s[i]
        /\ s2[Len(s) + 1] = a /\ s2[Len(s) + 2] = b
    BY <1>1, AppendProperties
  <1> HIDE DEF s2
  <1>3. /\ s3 \in Seq(NaluType) /\ Len(s3) = Len(s) + 3
        /\ \A i \in 1 .. Len(s) : s3[i] = s[i]
        /\ s3[Len(s) + 1] = a /\ s3[Len(s) + 2] = b /\ s3[Len(s) + 3] = c
    BY <1>1, <1>2, AppendProperties
  <1> HIDE DEF s3
  <1>4. /\ t \in Seq(NaluType) /\ Len(t) = Len(s) + 3
        /\ \A i \in 1 .. Len(s) : t[i] = s[i]
        /\ t[Len(s) + 1] = a /\ t[Len(s) + 2] = b /\ t[Len(s) + 3] = c
    <2>1. <<a, b, c>> \in Seq(NaluType) /\ Len(<<a, b, c>>) = 3
      OBVIOUS
    <2> QED
      BY <1>1, <2>1, ConcatProperties
  <1> HIDE DEF t
  <1>5. \A i \in 1 .. Len(s3) :
          i \in 1 .. Len(s) \/ i = Len(s) + 1 \/ i = Len(s) + 2 \/ i = Len(s) + 3
    BY <1>1, <1>3
  <1>6. s3 = t
    BY <1>3, <1>4, <1>5, SeqEqual
  <1> QED
    BY <1>6 DEF s1, s2, s3, t

LEMMA FlowTypes ==
  ASSUME TypeOK
  PROVE  /\ delivered \in Seq(NaluType) /\ Held \in Seq(NaluType)
         /\ queue \in Seq(NaluType) /\ todo \in Seq(NaluType)
         /\ Flow \in Seq(NaluType)
         /\ Len(queue) \in Nat /\ Len(todo) \in Nat /\ QueueRoom \in Nat
  <1>1. /\ delivered \in Seq(NaluType) /\ queue \in Seq(NaluType)
        /\ todo \in Seq(NaluType) /\ inHand \in NaluType
        /\ QueueRoom \in Nat
    BY PoolsArePositive DEF TypeOK
  <1>2. Held \in Seq(NaluType)
    BY <1>1 DEF Held
  <1> QED
    BY <1>1, <1>2, FlowParts DEF Flow

\* A NALU enqueued with nothing left to push comes last.
LEMMA FlowOfAppend ==
  ASSUME TypeOK, NEW n \in NaluType, todo = <<>>, todo' = <<>>,
         queue' = Append(queue, n), UNCHANGED <<inHand, delivered>>
  PROVE  Flow' = Append(Flow, n)
  <1> DEFINE dh == delivered \o Held
             one == <<n>>
  <1>1. /\ dh \in Seq(NaluType) /\ queue \in Seq(NaluType) /\ one \in Seq(NaluType)
        /\ dh \o queue \in Seq(NaluType)
        /\ queue \o one \in Seq(NaluType)
    BY FlowTypes, ConcatProperties
  <1>2. queue' = queue \o one
    BY FlowTypes, AppendIsConcat
  <1>3. Held' = Held
    BY DEF Held
  <1> HIDE DEF dh, one
  <1>4. (dh \o queue) \o one = dh \o (queue \o one)
    BY <1>1, ConcatAssociative
  <1>5. /\ (dh \o queue) \o <<>> = dh \o queue
        /\ (dh \o (queue \o one)) \o <<>> = dh \o (queue \o one)
    BY <1>1, ConcatEmptySeq, ConcatProperties
  <1>6. Flow = dh \o queue /\ Flow' = dh \o (queue \o one)
    BY <1>2, <1>3, <1>5 DEF Flow, dh
  <1>7. Append(Flow, n) = Flow \o one
    BY FlowTypes, AppendIsConcat DEF one
  <1> QED
    BY <1>4, <1>6, <1>7

\* inputLoop taking a NALU, or handing it on, moves the border between two
\* parts; so does a push of the batch.
LEMMA FlowOfMove ==
  ASSUME TypeOK, TypeOK',
         \/ InputPop /\ Head(queue) # Nothing
         \/ InputDeliver
         \/ EnqueueBatch /\ queue' = Append(queue, Head(todo))
  PROVE  Flow' = Flow
  <1>1. CASE InputPop /\ Head(queue) # Nothing
    <2> DEFINE one == <<Head(queue)>>
               rest == Tail(queue)
    <2>1. /\ Held = <<>> /\ Held' = one /\ queue' = rest
          /\ delivered' = delivered /\ todo' = todo
      BY <1>1 DEF InputPop, Held, feeder
    <2>2. /\ one \in Seq(NaluType) /\ rest \in Seq(NaluType) /\ one \o rest = queue
      BY <1>1, FlowTypes, OneThenRest, TailFacts DEF InputPop
    <2> HIDE DEF one, rest
    <2>3. Flow' = (delivered \o (one \o rest)) \o todo
      <3>1. Flow' = ((delivered \o one) \o rest) \o todo
        BY <2>1 DEF Flow
      <3>2. delivered \in Seq(NaluType) /\ todo \in Seq(NaluType)
        BY FlowTypes
      <3>3. ((delivered \o one) \o rest) \o todo = (delivered \o (one \o rest)) \o todo
        <4>1. one \in Seq(NaluType) /\ rest \in Seq(NaluType)
          BY <2>2
        <4>2. (delivered \o one) \o rest = delivered \o (one \o rest)
          BY <3>2, <4>1
        <4> QED
          BY <4>2
      <3> QED
        BY <3>1, <3>3, Zenon
    <2>4. Flow = (delivered \o queue) \o todo
      BY <2>1, FlowTypes, ConcatEmptySeq DEF Flow
    <2> QED
      BY <2>2, <2>3, <2>4
  <1>2. CASE InputDeliver
    <2> DEFINE one == <<inHand>>
    <2>1. /\ Held = one /\ Held' = <<>> /\ delivered' = Append(delivered, inHand)
          /\ queue' = queue /\ todo' = todo
      BY <1>2 DEF InputDeliver, Held, feeder
    <2>2. inHand \in NaluType
      BY DEF TypeOK
    <2>3. delivered' = delivered \o one
      BY <2>1, <2>2, FlowTypes, AppendIsConcat
    <2> HIDE DEF one
    <2>4. (delivered \o one) \o <<>> = delivered \o one
      BY <2>1, FlowTypes, ConcatProperties, ConcatEmptySeq
    <2>5. Flow' = ((delivered \o one) \o queue) \o todo
      BY <2>1, <2>3, <2>4 DEF Flow
    <2> QED
      BY <2>1, <2>5 DEF Flow
  <1>3. CASE EnqueueBatch /\ queue' = Append(queue, Head(todo))
    <2> DEFINE one == <<Head(todo)>>
               rest == Tail(todo)
               dh == delivered \o Held
    <2>1. /\ todo # <<>> /\ todo' = rest /\ delivered' = delivered /\ Held' = Held
      BY <1>3 DEF EnqueueBatch, Held
    <2>2. /\ one \in Seq(NaluType) /\ rest \in Seq(NaluType) /\ one \o rest = todo
          /\ Head(todo) \in NaluType
      BY <2>1, FlowTypes, OneThenRest, TailFacts
    <2>3. queue' = queue \o one
      BY <1>3, <2>2, FlowTypes, AppendIsConcat
    <2>4. dh \in Seq(NaluType)
      BY FlowTypes, ConcatProperties
    <2> HIDE DEF one, rest, dh
    <2>5. Flow' = (dh \o (queue \o one)) \o rest
      BY <2>1, <2>3 DEF Flow, dh
    <2>6. /\ ((dh \o queue) \o one) \o rest = (dh \o queue) \o (one \o rest)
          /\ ((dh \o queue) \o one) \o rest = (dh \o (queue \o one)) \o rest
      <3>1. queue \in Seq(NaluType)
        BY FlowTypes
      <3>2. (dh \o queue) \o one = dh \o (queue \o one)
        BY <2>2, <2>4, <3>1
      <3> DEFINE dhq == dh \o queue
      <3>3. dhq \in Seq(NaluType)
        BY <2>4, <3>1, ConcatProperties
      <3> HIDE DEF dhq
      <3>4. one \in Seq(NaluType) /\ rest \in Seq(NaluType)
        BY <2>2
      <3>5. (dhq \o one) \o rest = dhq \o (one \o rest)
        BY <3>3, <3>4
      <3> QED
        BY <3>2, <3>5 DEF dhq
    <2>7. Flow = (dh \o queue) \o todo
      BY DEF Flow, dh
    <2> QED
      BY <2>2, <2>5, <2>6, <2>7
  <1> QED
    BY <1>1, <1>2, <1>3

LEMMA FlowStep ==
  ASSUME IInv, IInv', FlowInv, [Next]_vars
  PROVE  FlowInv'
  <1> USE DEF feeder, codec
  <1>1. TypeOK /\ TypeOK' /\ OnlyNalus
    BY DEF IInv, Ledger
  <1>2. /\ Flow \in Seq(NaluType) /\ queue \in Seq(NaluType) /\ todo \in Seq(NaluType)
        /\ Len(queue) \in Nat /\ Len(todo) \in Nat /\ QueueRoom \in Nat
    BY <1>1, FlowTypes
  <1>3. ASSUME Mime # "video/avc" PROVE ~ configured' /\ todo' = <<>>
    <2>1. ~ configured /\ todo = <<>>
      BY <1>3 DEF FlowInv
    <2> QED
      BY <1>3, <2>1 DEF Next, HandleNalu, HandleParameterSet, HandleSei, HandleIdr,
         EnqueueBatch, HandleOther, InputLoop, InputPop, InputTryAgain, InputError,
         InputTooBig, InputDeliver, Decode, OutputLoop, vars
  <1> SUFFICES ASSUME ~ troubled'
               PROVE  /\ Startable(Flow')
                      /\ configured' \/ todo' # <<>> => HasIdr(Flow')
                      /\ todo' # <<>> => Len(queue') + Len(todo') <= QueueRoom
    BY <1>3 DEF FlowInv, Startable, HasIdr
  <1>4. /\ ~ troubled
        /\ HandleNalu \/ InputPop \/ InputDeliver \/ Decode \/ OutputLoop \/ UNCHANGED vars
    BY DEF Next, HandleNalu, HandleParameterSet, HandleSei, HandleIdr,
       EnqueueBatch, HandleOther, InputLoop, InputPop, InputTryAgain, InputError,
       InputTooBig, InputDeliver, Decode, OutputLoop, vars
  <1>5. /\ Startable(Flow)
        /\ configured \/ todo # <<>> => HasIdr(Flow)
        /\ todo # <<>> => Len(queue) + Len(todo) <= QueueRoom
    BY <1>4 DEF FlowInv
  <1>6. CASE /\ UNCHANGED <<delivered, inHand, queue, todo, configured>>
    BY <1>5, <1>6 DEF Flow, Held
  <1>7. CASE HandleParameterSet \/ HandleSei \/ Decode \/ OutputLoop \/ UNCHANGED vars
    BY <1>6, <1>7 DEF HandleParameterSet, HandleSei, Decode, OutputLoop, vars
  <1>8. CASE HandleIdr
    <2> DEFINE a == [cachedSps EXCEPT !.gop = handled']
               b == [cachedPps EXCEPT !.gop = handled']
               c == Nalu("idr", handled', handled')
    <2>1. /\ UNCHANGED <<delivered, inHand, queue, configured>> /\ todo = <<>>
          /\ \/ todo' = todo
             \/ todo' = <<a, b, c>> /\ QueueRoom - Len(queue) >= 3
      BY <1>8 DEF HandleIdr, Arrives, Drop, kIdrBatch
    <2>2. CASE todo' = todo
      BY <1>6, <2>1, <2>2
    <2>3. CASE todo' = <<a, b, c>> /\ QueueRoom - Len(queue) >= 3
      <3>1. /\ a \in NaluType /\ b \in NaluType /\ c \in NaluType
        <4>1. handled' \in 0 .. MaxNalus /\ cachedSps \in NaluType /\ cachedPps \in NaluType
          BY <1>1 DEF TypeOK
        <4> QED
          BY <4>1, NaluTypes DEF Kinds
      <3>2. /\ a.kind = "sps" /\ a.gop = handled' /\ b.kind = "pps" /\ b.gop = handled'
            /\ c.kind = "idr" /\ c.gop = handled'
        <4>1. cachedSps.kind = "sps" /\ cachedPps.kind = "pps"
          BY <1>1 DEF OnlyNalus
        <4>2. cachedSps \in NaluType /\ cachedPps \in NaluType
          BY <1>1 DEF TypeOK
        <4> QED
          BY <4>1, <4>2 DEF Nalu, NaluType
      <3> HIDE DEF a, b, c
      <3> DEFINE f1 == Append(Flow, a)
                 f2 == Append(f1, b)
                 f3 == Append(f2, c)
      <3>3. /\ f1 \in Seq(NaluType) /\ Startable(f1) /\ HasSet(f1, "sps", handled')
        BY <1>2, <1>5, <3>1, <3>2, StartableAppend, AppendProperties
      <3> HIDE DEF f1
      <3>4. /\ f2 \in Seq(NaluType) /\ Startable(f2)
            /\ HasSet(f2, "sps", handled') /\ HasSet(f2, "pps", handled')
        BY <3>1, <3>2, <3>3, StartableAppend, AppendProperties
      <3> HIDE DEF f2
      <3>5. Startable(f3) /\ HasIdr(f3)
        BY <3>1, <3>2, <3>4, StartableAppend
      <3> HIDE DEF f3
      <3>6. Flow' = f3
        <4> DEFINE dhq == (delivered \o Held) \o queue
        <4>2. Flow = dhq \o <<>> /\ Flow' = dhq \o <<a, b, c>>
          BY <2>1, <2>3 DEF Flow, Held
        <4>3. dhq \in Seq(NaluType)
          BY <1>1, FlowTypes, ConcatProperties
        <4> HIDE DEF dhq
        <4>4. Flow = dhq
          BY <4>2, <4>3, ConcatEmptySeq
        <4>5. f3 = Flow \o <<a, b, c>>
          <5>1. Append(Append(Append(Flow, a), b), c) = Flow \o <<a, b, c>>
            BY <1>2, <3>1, ThreeAppends
          <5>2. f3 = Append(Append(Append(Flow, a), b), c)
            BY DEF f1, f2, f3
          <5> QED
            BY <5>1, <5>2
        <4> QED
          BY <4>2, <4>4, <4>5
      <3>7. Len(todo') = 3 /\ todo' # <<>>
        BY <2>3
      <3> QED
        BY <1>2, <2>1, <2>3, <3>5, <3>6, <3>7
    <2> QED
      BY <2>1, <2>2, <2>3
  <1>9. CASE EnqueueBatch
    <2>1. /\ todo # <<>> /\ todo' = Tail(todo) /\ Len(todo') = Len(todo) - 1
          /\ Len(queue) + Len(todo) <= QueueRoom /\ Len(todo) >= 1 /\ HasIdr(Flow)
      BY <1>2, <1>5, <1>9, TailFacts DEF EnqueueBatch
    <2>2. queue' = Append(queue, Head(todo)) /\ Len(queue') = Len(queue) + 1
      BY <1>2, <1>9, <2>1 DEF EnqueueBatch, Enqueue
    <2>3. Flow' = Flow
      BY <1>1, <1>9, <2>2, FlowOfMove
    <2> QED
      BY <1>2, <1>5, <2>1, <2>2, <2>3
  <1>10. CASE HandleOther
    <2>1. PICK kind : /\ kind \in IF Mime = "video/avc" THEN {"slice", "other"} ELSE Kinds
                      /\ Arrives(kind)
                      /\ IF configured THEN Enqueue(Nalu(kind, handled', gop')) ELSE Drop
      BY <1>10 DEF HandleOther
    <2>2. UNCHANGED <<delivered, inHand, todo, configured>> /\ todo = <<>>
      BY <1>10, <2>1 DEF HandleOther, Arrives
    <2>3. CASE queue' = queue
      BY <1>6, <2>2, <2>3
    <2>4. CASE queue' # queue
      <3> DEFINE n == Nalu(kind, handled', gop')
      <3>1. configured /\ queue' = Append(queue, n)
        BY <2>1, <2>4 DEF Enqueue, Drop
      <3>2. kind \in {"slice", "other"}
        BY <2>1, <3>1 DEF FlowInv
      <3>3. n \in NaluType /\ n.kind = kind
        <4>1. kind \in Kinds /\ handled' \in 0 .. MaxNalus /\ gop' \in 0 .. MaxNalus
          BY <1>1, <2>1, BoundsAreNat, ArrivesTypes
        <4> QED
          BY <4>1, NaluTypes DEF Nalu
      <3> HIDE DEF n
      <3>4. Flow' = Append(Flow, n)
        BY <1>1, <2>2, <3>1, <3>3, FlowOfAppend
      <3>5. HasIdr(Flow)
        BY <1>5, <3>1
      <3>6. Startable(Append(Flow, n)) /\ HasIdr(Append(Flow, n))
        BY <1>2, <1>5, <3>2, <3>3, <3>5, StartableAppend
      <3> QED
        BY <2>2, <3>4, <3>6
    <2> QED
      BY <2>3, <2>4
  <1>11. CASE InputPop
    <2>1. Head(queue) # Nothing
      BY <1>1, <1>2, <1>11, TailFacts DEF InputPop, OnlyNalus, RealNalus, Nothing
    <2>2. Flow' = Flow
      BY <1>1, <1>11, <2>1, FlowOfMove
    <2>3. Len(queue') = Len(queue) - 1 /\ UNCHANGED <<todo, configured>>
      BY <1>2, <1>11, TailFacts DEF InputPop
    <2> QED
      BY <1>2, <1>5, <2>2, <2>3
  <1>12. CASE InputDeliver
    <2>1. Flow' = Flow
      BY <1>1, <1>12, FlowOfMove
    <2> QED
      BY <1>5, <1>12, <2>1 DEF InputDeliver
  <1> QED
    BY <1>4, <1>7, <1>8, <1>9, <1>10, <1>11, <1>12 DEF HandleNalu

\* As long as the decoder always has an input buffer, no picture reaches it
\* before the first IDR and no IDR before the SPS and PPS queued with it,
\* however full the queue gets: the room for the three is tested once, before
\* the first push (LiveVideoEngine.cpp:160-221).
THEOREM StartsWithKeyFrame == Spec => []DecodableFromStart
  <1>1. Init => FlowInv
    <2> SUFFICES ASSUME Init PROVE FlowInv
      OBVIOUS
    <2>1. Flow = <<>> /\ ~ configured /\ todo = <<>>
      BY DEF Init, Flow, Held
    <2> QED
      BY <2>1 DEF FlowInv, Startable
  <1>2. IInv /\ FlowInv /\ IInv' /\ [Next]_vars => FlowInv'
    BY FlowStep
  <1>3. IInv /\ FlowInv => DecodableFromStart
    <2> SUFFICES ASSUME IInv, FlowInv, ~ troubled PROVE Startable(delivered)
      BY DEF DecodableFromStart, Startable
    <2>1. /\ delivered \in Seq(NaluType) /\ Held \in Seq(NaluType)
          /\ queue \in Seq(NaluType) /\ todo \in Seq(NaluType)
      BY FlowTypes DEF IInv, Ledger
    <2>2. Flow = delivered \o ((Held \o queue) \o todo)
      <3> DEFINE dh == delivered \o Held
                 hq == Held \o queue
      <3>1. dh \in Seq(NaluType) /\ hq \in Seq(NaluType)
        BY <2>1, ConcatProperties
      <3>2. dh \o queue = delivered \o hq
        BY <2>1
      <3> HIDE DEF dh, hq
      <3>3. (delivered \o hq) \o todo = delivered \o (hq \o todo)
        BY <2>1, <3>1
      <3> QED
        BY <3>2, <3>3 DEF Flow, dh, hq
    <2>3. (Held \o queue) \o todo \in Seq(NaluType)
      BY <2>1, FlowParts
    <2>4. Startable(delivered \o ((Held \o queue) \o todo))
      BY <2>2 DEF FlowInv
    <2> QED
      BY <2>1, <2>3, <2>4, StartablePrefix
  <1> QED
    BY <1>1, <1>2, <1>3, PipelineInvariance, PTL DEF Spec
==============================================================================
