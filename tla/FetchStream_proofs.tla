------------------------- MODULE FetchStream_proofs -------------------------
(***************************************************************************)
(* Proofs about FetchStream for every number of sources, every io and      *)
(* every channel depth, with and without panics and abandonment.           *)
(***************************************************************************)
EXTENDS FetchStream, FiniteSetTheorems, SequenceTheorems, TLAPS

Distinct(q) == \A i, j \in DOMAIN q : q[i] = q[j] => i = j

(* Sending appends one element and keeps the channel free of duplicates.   *)
LEMMA AppendElems ==
  ASSUME NEW S, NEW q \in Seq(S), NEW x \in S
  PROVE  /\ Append(q, x) \in Seq(S)
         /\ Len(Append(q, x)) = Len(q) + 1
         /\ Elems(Append(q, x)) = Elems(q) \cup {x}
         /\ Distinct(q) /\ x \notin Elems(q) => Distinct(Append(q, x))
  BY AppendProperties, LenProperties DEF Elems, Distinct

(* Receiving removes the head, and with no duplicates removes it for good. *)
LEMMA TailElems ==
  ASSUME NEW S, NEW q \in Seq(S), q # <<>>
  PROVE  /\ Tail(q) \in Seq(S)
         /\ Len(Tail(q)) = Len(q) - 1
         /\ Head(q) \in Elems(q)
         /\ Elems(q) = Elems(Tail(q)) \cup {Head(q)}
         /\ Distinct(q) => Distinct(Tail(q)) /\ Head(q) \notin Elems(Tail(q))
<1>1. /\ Len(q) \in Nat \ {0} /\ DOMAIN q = 1 .. Len(q)
      /\ Head(q) = q[1]
      /\ Tail(q) \in Seq(S) /\ Len(Tail(q)) = Len(q) - 1
      /\ DOMAIN Tail(q) = 1 .. Len(q) - 1
      /\ \A i \in 1 .. Len(q) - 1 : Tail(q)[i] = q[i + 1]
  BY HeadTailProperties, LenProperties, EmptySeq
<1>2. \A i \in 1 .. Len(q) : i = 1 \/ i - 1 \in 1 .. Len(q) - 1
  BY <1>1
<1>3. Elems(q) \subseteq Elems(Tail(q)) \cup {Head(q)}
  <2>1. ASSUME NEW i \in 1 .. Len(q)
        PROVE  q[i] \in Elems(Tail(q)) \cup {Head(q)}
    <3>1. CASE i = 1
      BY <3>1, <1>1
    <3>2. CASE i # 1
      <4>1. i - 1 \in DOMAIN Tail(q) /\ q[i] = Tail(q)[i - 1]
        BY <3>2, <1>1, <1>2
      <4> QED BY <4>1 DEF Elems
    <3> QED BY <3>1, <3>2
  <2> QED BY <1>1, <2>1 DEF Elems
<1>4. Elems(Tail(q)) \cup {Head(q)} \subseteq Elems(q)
  BY <1>1 DEF Elems
<1>5. ASSUME Distinct(q)
      PROVE  Distinct(Tail(q)) /\ Head(q) \notin Elems(Tail(q))
  BY <1>1, <1>5 DEF Elems, Distinct
<1> QED BY <1>1, <1>3, <1>4, <1>5 DEF Elems

LEMMA EmptyElems == Elems(<<>>) = {} /\ Distinct(<<>>)
  BY DEF Elems, Distinct

(* Sets of sources are finite, and a smaller one has no more elements.     *)
LEMMA SourcesFinite ==
  ASSUME NEW T \in SUBSET Src
  PROVE  /\ IsFiniteSet(T) /\ Cardinality(T) \in Nat
         /\ \A U \in SUBSET T : IsFiniteSet(U) /\ Cardinality(U) <= Cardinality(T)
         /\ \A x \in Src \ T : Cardinality(T \cup {x}) = Cardinality(T) + 1
<1>1. IsFiniteSet(Src)
  BY FS_Interval, StreamAssumption DEF Src
<1>2. IsFiniteSet(T)
  BY <1>1, FS_Subset
<1>3. \A U \in SUBSET T : IsFiniteSet(U) /\ Cardinality(U) <= Cardinality(T)
  BY <1>2, FS_Subset
<1>4. \A x \in Src \ T : Cardinality(T \cup {x}) = Cardinality(T) + 1
  BY <1>2, FS_AddElement
<1> QED BY <1>2, <1>3, <1>4, FS_CardinalityType

-----------------------------------------------------------------------------
LEMMA InitInv == StreamInit => StreamInv
<1> SUFFICES ASSUME StreamInit PROVE StreamInv
  OBVIOUS
<1> USE DEF StreamInit
<1>1. chan \in Seq(Src) /\ Len(chan) = 0 /\ Sent = {} /\ DOMAIN chan = {}
  BY EmptyElems DEF Sent
<1>2. StreamTypeOK
  BY <1>1 DEF StreamTypeOK
<1>3. Conservation
  BY <1>1 DEF Conservation
<1>4. Backpressure
  BY <1>1, FS_EmptySet, StreamAssumption DEF Backpressure, Slots
<1>5. StoppedClean /\ EosFinal /\ ResultsKnown /\ NullMeansDrainedOrPanicked
  BY <1>1 DEF StoppedClean, EosFinal, ResultsKnown, NullMeansDrainedOrPanicked
<1> QED BY <1>2, <1>3, <1>4, <1>5 DEF StreamInv

(* io bounds the futures alive: a step that adds none keeps the bound.     *)
LEMMA FewerSlots ==
  ASSUME StreamTypeOK, Cardinality(Slots) <= Io, Slots' \subseteq Slots
  PROVE  Cardinality(Slots') <= Io
<1>1. Slots \in SUBSET Src
  BY DEF StreamTypeOK, Slots
<1>2. Cardinality(Slots) \in Nat /\ Cardinality(Slots') <= Cardinality(Slots)
      /\ Cardinality(Slots') \in Nat
  <2>1. Slots' \in SUBSET Src
    BY <1>1
  <2> QED BY <1>1, <2>1, SourcesFinite
<1> QED BY <1>2, StreamAssumption

LEMMA PullInv ==
  ASSUME StreamInv, NEW s \in Src, Pull(s)
  PROVE  StreamInv'
<1> USE DEF StreamInv, Pull
<1>1. StreamTypeOK'
  BY DEF StreamTypeOK
<1>2. Conservation'
  BY DEF Conservation, Sent, Elems
<1>3. Backpressure'
  <2>1. Slots \in SUBSET Src /\ s \notin Slots /\ Slots' = Slots \cup {s}
    BY DEF StreamTypeOK, Conservation, Slots
  <2>2. Cardinality(Slots) \in Nat /\ Cardinality(Slots') = Cardinality(Slots) + 1
    BY <2>1, SourcesFinite
  <2> QED BY <2>2, StreamAssumption DEF Backpressure
<1>4. StoppedClean'
  BY DEF StoppedClean
<1>5. EosFinal' /\ ResultsKnown' /\ NullMeansDrainedOrPanicked'
  BY DEF EosFinal, ResultsKnown, NullMeansDrainedOrPanicked, Sent, Elems
<1> QED BY <1>1, <1>2, <1>3, <1>4, <1>5

LEMMA FinishInv ==
  ASSUME StreamInv, NEW s \in Src, NEW r \in {"ok", "err"}, Finish(s, r)
  PROVE  StreamInv'
<1> USE DEF StreamInv, Finish
<1>1. StreamTypeOK'
  BY DEF StreamTypeOK
<1>2. Conservation'
  BY DEF Conservation, Sent, Elems
<1>3. Backpressure'
  <2>1. Slots' \subseteq Slots
    BY DEF Slots
  <2> QED BY <2>1, FewerSlots DEF Backpressure
<1>4. StoppedClean'
  BY DEF StoppedClean, Slots
<1>5. ResultsKnown'
  BY DEF ResultsKnown, StreamTypeOK, Sent, Elems
<1>6. EosFinal' /\ NullMeansDrainedOrPanicked'
  BY DEF EosFinal, NullMeansDrainedOrPanicked
<1> QED BY <1>1, <1>2, <1>3, <1>4, <1>5, <1>6

LEMMA SendInv ==
  ASSUME StreamInv, NEW s \in Src, Send(s)
  PROVE  StreamInv'
<1> USE DEF StreamInv, Send
<1>1. /\ chan' \in Seq(Src) /\ Len(chan') = Len(chan) + 1
      /\ Sent' = Sent \cup {s} /\ Distinct(chan')
  <2>1. chan \in Seq(Src) /\ Distinct(chan) /\ s \notin Elems(chan)
    BY DEF StreamTypeOK, Conservation, Distinct, Sent
  <2> QED BY <2>1, AppendElems DEF Sent
<1>2. StreamTypeOK'
  BY <1>1 DEF StreamTypeOK
<1>3. Conservation'
  <2>1. \A i, j \in DOMAIN chan' : chan'[i] = chan'[j] => i = j
    BY <1>1 DEF Distinct
  <2>2. s \in parked /\ parked' = parked \ {s}
        /\ UNCHANGED <<idx, todo, fetching, taken, lost>>
    OBVIOUS
  <2> QED BY <1>1, <2>1, <2>2 DEF Conservation
<1>4. Backpressure'
  <2>1. Slots' \subseteq Slots
    BY DEF Slots
  <2>2. Len(chan') <= Buf
    BY <1>1, LenProperties, StreamAssumption DEF StreamTypeOK
  <2> QED BY <2>1, <2>2, FewerSlots DEF Backpressure
<1>5. StoppedClean' /\ EosFinal' /\ NullMeansDrainedOrPanicked'
  BY DEF StoppedClean, EosFinal, NullMeansDrainedOrPanicked
<1>6. ResultsKnown'
  BY <1>1 DEF ResultsKnown
<1> QED BY <1>2, <1>3, <1>4, <1>5, <1>6

LEMMA SendClosedInv ==
  ASSUME StreamInv, NEW s \in Src, SendClosed(s)
  PROVE  StreamInv'
<1> USE DEF StreamInv, SendClosed
<1>1. StreamTypeOK'
  BY DEF StreamTypeOK
<1>2. Conservation'
  BY DEF Conservation, Sent, Elems
<1>3. Backpressure'
  <2>1. Slots' \subseteq Slots
    BY DEF Slots
  <2> QED BY <2>1, FewerSlots DEF Backpressure
<1>4. StoppedClean' /\ EosFinal' /\ NullMeansDrainedOrPanicked'
  BY DEF StoppedClean, EosFinal, NullMeansDrainedOrPanicked
<1>5. ResultsKnown'
  BY DEF ResultsKnown, Sent, Elems
<1> QED BY <1>1, <1>2, <1>3, <1>4, <1>5

(* A driver that stops early loses everything it has not sent.             *)
LEMMA DropFuturesInv ==
  ASSUME StreamInv, DropFutures, driver = "running",
         \/ driver' = "panicked"
         \/ driver' = "aborted" /\ sess = "dropped",
         UNCHANGED <<idx, result, chan, taken, sess, eos>>
  PROVE  StreamInv'
<1> USE DEF StreamInv, DropFutures
<1>1. StreamTypeOK'
  BY DEF StreamTypeOK
<1>2. Conservation'
  BY DEF Conservation, Sent, Elems
<1>3. Backpressure'
  <2>1. Slots' \subseteq Slots
    BY DEF Slots
  <2> QED BY <2>1, FewerSlots DEF Backpressure
<1>4. StoppedClean'
  BY DEF StoppedClean, Slots
<1>5. EosFinal' /\ NullMeansDrainedOrPanicked'
  BY DEF EosFinal, NullMeansDrainedOrPanicked
<1>6. ResultsKnown'
  BY DEF ResultsKnown, Sent, Elems
<1> QED BY <1>1, <1>2, <1>3, <1>4, <1>5, <1>6

LEMMA DriverEndInv ==
  ASSUME StreamInv, DriverEnd
  PROVE  StreamInv'
<1> USE DEF StreamInv, DriverEnd
<1>1. StreamTypeOK' /\ Conservation'
  BY DEF StreamTypeOK, Conservation, Sent, Elems
<1>2. Backpressure'
  BY DEF Backpressure, Slots
<1>3. StoppedClean'
  BY DEF StoppedClean, Slots
<1>4. EosFinal' /\ NullMeansDrainedOrPanicked'
  BY DEF EosFinal, NullMeansDrainedOrPanicked
<1>5. ResultsKnown'
  BY DEF ResultsKnown, Sent, Elems
<1> QED BY <1>1, <1>2, <1>3, <1>4, <1>5

LEMMA TakeInv ==
  ASSUME StreamInv, Take
  PROVE  StreamInv'
<1> USE DEF StreamInv, Take
<1> DEFINE h == Head(chan)
<1>1. /\ chan' \in Seq(Src) /\ Len(chan') = Len(chan) - 1
      /\ h \in Sent /\ Sent = Sent' \cup {h} /\ h \notin Sent' /\ Distinct(chan')
  <2>1. chan \in Seq(Src) /\ Distinct(chan) /\ chan # <<>>
    BY DEF StreamTypeOK, Conservation, Distinct
  <2> QED BY <2>1, TailElems DEF Sent
<1>2. h \in Src /\ taken' = taken \cup {h}
      /\ UNCHANGED <<idx, todo, fetching, parked, result, lost, driver, sess, eos>>
  BY <1>1, HeadTailProperties DEF StreamTypeOK
<1> HIDE DEF h
<1>3. StreamTypeOK'
  BY <1>1, <1>2 DEF StreamTypeOK
<1>4. Conservation'
  <2>1. \A i, j \in DOMAIN chan' : chan'[i] = chan'[j] => i = j
    BY <1>1 DEF Distinct
  <2> QED BY <1>1, <1>2, <2>1 DEF Conservation
<1>5. Backpressure'
  <2>1. Slots' = Slots
    BY <1>2 DEF Slots
  <2>2. Len(chan') <= Buf
    BY <1>1, LenProperties, StreamAssumption DEF StreamTypeOK, Backpressure
  <2> QED BY <1>2, <2>1, <2>2 DEF Backpressure
<1>6. StoppedClean' /\ EosFinal' /\ NullMeansDrainedOrPanicked'
  BY <1>2 DEF StoppedClean, EosFinal, NullMeansDrainedOrPanicked, Slots
<1>7. ResultsKnown'
  BY <1>1, <1>2 DEF ResultsKnown
<1> QED BY <1>3, <1>4, <1>5, <1>6, <1>7

LEMMA TakeNullInv ==
  ASSUME StreamInv, TakeNull
  PROVE  StreamInv'
<1> USE DEF StreamInv, TakeNull
<1>1. StreamTypeOK' /\ Conservation' /\ Backpressure'
  BY DEF StreamTypeOK, Conservation, Backpressure, Slots, Sent, Elems
<1>2. StoppedClean' /\ EosFinal'
  BY DEF StoppedClean, EosFinal, Slots
<1>3. ResultsKnown'
  BY DEF ResultsKnown, Sent, Elems
<1>4. NullMeansDrainedOrPanicked'
  <2>1. CASE driver = "panicked"
    BY <2>1 DEF NullMeansDrainedOrPanicked
  <2>2. CASE driver # "panicked"
    <3>1. todo = {} /\ fetching = {} /\ parked = {} /\ lost = {}
      BY <2>2 DEF StoppedClean, Slots
    <3>2. Sent = {}
      BY EmptyElems DEF Sent
    <3> QED BY <3>1, <3>2 DEF Conservation, NullMeansDrainedOrPanicked
  <2> QED BY <2>1, <2>2
<1> QED BY <1>1, <1>2, <1>3, <1>4

LEMMA DropSessionInv ==
  ASSUME StreamInv, DropSession
  PROVE  StreamInv'
<1> USE DEF StreamInv, DropSession
<1>1. chan' \in Seq(Src) /\ Len(chan') = 0 /\ Sent' = {} /\ DOMAIN chan' = {}
  BY EmptyElems DEF Sent
<1>2. Sent \subseteq Src
  BY LenProperties DEF StreamTypeOK, Conservation, Sent
<1>3. StreamTypeOK'
  BY <1>1, <1>2 DEF StreamTypeOK
<1>4. Conservation'
  BY <1>1 DEF Conservation
<1>5. Backpressure'
  BY <1>1, StreamAssumption DEF Backpressure, Slots
<1>6. StoppedClean' /\ EosFinal' /\ NullMeansDrainedOrPanicked'
  BY DEF StoppedClean, EosFinal, NullMeansDrainedOrPanicked, Slots
<1>7. ResultsKnown'
  BY <1>1 DEF ResultsKnown
<1> QED BY <1>3, <1>4, <1>5, <1>6, <1>7

LEMMA StepInv ==
  ASSUME StreamInv, [StreamNext]_streamVars
  PROVE  StreamInv'
<1>1. CASE \E s \in Src : Pull(s)
  BY <1>1, PullInv
<1>2. CASE \E s \in Src, r \in {"ok", "err"} : Finish(s, r)
  BY <1>2, FinishInv
<1>3. CASE \E s \in Src : Send(s)
  BY <1>3, SendInv
<1>4. CASE \E s \in Src : SendClosed(s)
  BY <1>4, SendClosedInv
<1>5. CASE \E s \in Src : Panic(s)
  BY <1>5, DropFuturesInv DEF Panic
<1>6. CASE DriverEnd
  BY <1>6, DriverEndInv
<1>7. CASE Abort
  BY <1>7, DropFuturesInv DEF Abort
<1>8. CASE Take
  BY <1>8, TakeInv
<1>9. CASE TakeNull
  BY <1>9, TakeNullInv
<1>10. CASE DropSession
  BY <1>10, DropSessionInv
<1>11. CASE UNCHANGED streamVars
  BY <1>11 DEF streamVars, StreamInv, StreamTypeOK, Conservation, Backpressure,
     StoppedClean, EosFinal, ResultsKnown, NullMeansDrainedOrPanicked, Slots, Sent, Elems
<1> QED
  BY <1>1, <1>2, <1>3, <1>4, <1>5, <1>6, <1>7, <1>8, <1>9, <1>10, <1>11
  DEF StreamNext, DriverNext

(* The session keeps its inductive invariant, from which the theorems      *)
(* below read off the properties the runs check.                           *)
THEOREM StreamInvariant == StreamSpec => []StreamInv
<1>1. StreamInit => StreamInv
  BY InitInv
<1>2. StreamInv /\ [StreamNext]_streamVars => StreamInv'
  BY StepInv
<1> QED BY <1>1, <1>2, PTL DEF StreamSpec

-----------------------------------------------------------------------------
(* The states of the session are well typed.                               *)
THEOREM StreamTyped == StreamSpec => []StreamTypeOK
<1>1. StreamInv => StreamTypeOK
  BY DEF StreamInv
<1> QED BY <1>1, StreamInvariant, PTL

(* No window is lost, duplicated or in two places at once, for any number  *)
(* of sources and any interleaving of fetches, sends, panic and drop.      *)
THEOREM StreamConserves == StreamSpec => []Conservation
<1>1. StreamInv => Conservation
  BY DEF StreamInv
<1> QED BY <1>1, StreamInvariant, PTL

(* Started fetches not yet taken by R stay within io futures and the depth *)
(* of the channel, for every io and every depth.                           *)
THEOREM StreamBackpressure == StreamSpec => []Backpressure
<1>1. StreamInv => Backpressure
  BY DEF StreamInv
<1> QED BY <1>1, StreamInvariant, PTL

(* NULL means drained, unless the driver panicked.                         *)
THEOREM StreamNull == StreamSpec => []NullMeansDrainedOrPanicked
<1>1. StreamInv => NullMeansDrainedOrPanicked
  BY DEF StreamInv
<1> QED BY <1>1, StreamInvariant, PTL

(* The session implements StreamPromise: exactly-once delivery in some     *)
(* order, and an end of stream only after everything was delivered.        *)
THEOREM StreamKeepsPromise == StreamSpec => PromiseKept
<1> USE DEF Promise!promiseVars
<1>1. StreamInit => Promise!PromiseInit
  BY DEF StreamInit, Promise!PromiseInit
<1>2. ASSUME StreamInv, StreamInv', [StreamNext]_streamVars
      PROVE  [Promise!PromiseNext]_Promise!promiseVars
  <2>1. CASE Take
    <3>1. Head(chan) \in idx \ taken
      <4>1. chan \in Seq(Src) /\ chan # <<>>
        BY <1>2, <2>1 DEF StreamInv, StreamTypeOK, Take
      <4>2. Head(chan) \in Sent
        BY <4>1, TailElems DEF Sent
      <4> QED BY <1>2, <4>2 DEF StreamInv, Conservation
    <3>2. Promise!Deliver
      BY <2>1, <3>1 DEF Take, Promise!Deliver
    <3> QED BY <3>2 DEF Promise!PromiseNext
  <2>2. CASE TakeNull
    <3>1. CASE driver = "panicked"
      BY <2>2, <3>1 DEF TakeNull
    <3>2. CASE driver # "panicked"
      <4>1. taken = idx
        BY <1>2, <2>2, <3>2 DEF StreamInv, NullMeansDrainedOrPanicked, TakeNull
      <4>2. Promise!Close
        BY <2>2, <3>2, <4>1 DEF TakeNull, Promise!Close
      <4> QED BY <4>2 DEF Promise!PromiseNext
    <3> QED BY <3>1, <3>2
  <2>3. CASE DriverNext
    <3>1. driver = "running" /\ UNCHANGED <<idx, taken, eos>>
      BY <2>3 DEF DriverNext, Pull, Finish, Send, SendClosed, Panic, DriverEnd, Abort
    <3>2. ~eos
      BY <1>2, <3>1 DEF StreamInv, EosFinal
    <3> QED BY <3>1, <3>2
  <2>4. CASE DropSession
    BY <2>4 DEF DropSession
  <2>5. CASE UNCHANGED streamVars
    BY <2>5 DEF streamVars
  <2> QED BY <1>2, <2>1, <2>2, <2>3, <2>4, <2>5 DEF StreamNext
<1> QED
  BY <1>1, <1>2, StreamInvariant, PTL DEF StreamSpec, PromiseKept, Promise!PromiseSpec

=============================================================================
