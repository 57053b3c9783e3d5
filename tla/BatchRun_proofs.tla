-------------------------- MODULE BatchRun_proofs --------------------------
(***************************************************************************)
(* Proofs about BatchRun for every set of groups, every mode (stacked or   *)
(* not, inline or daemons) and every size of the fetch pool.               *)
(***************************************************************************)
EXTENDS BatchRun, FetchStream_proofs

LEMMA UnitSets == Src \subseteq Unit /\ Groups \subseteq Unit /\ Outputs \subseteq Unit
  BY StreamAssumption, BatchAssumption DEF Src, Groups, Unit, Outputs

-----------------------------------------------------------------------------
(***************************************************************************)
(* The composition: every step of ck_batch is a step of the session's      *)
(* protocol or leaves the session alone.                                   *)
(***************************************************************************)
LEMMA StepOfStream == [BatchNext]_vars => [StreamNext]_streamVars
<1> SUFFICES ASSUME [BatchNext]_vars PROVE [StreamNext]_streamVars
  OBVIOUS
<1>1. CASE Driver
  BY <1>1 DEF Driver, StreamNext
<1>2. CASE ReceiveError \/ ReceiveFlat \/ ReceiveStacked
  BY <1>2 DEF ReceiveError, ReceiveFlat, ReceiveStacked, StreamNext
<1>3. CASE EndDrain
  BY <1>3 DEF EndDrain, StreamNext
<1>4. CASE Forget
  BY <1>4 DEF Forget, StreamNext
<1>5. CASE WarpDone \/ WarpRaises \/ DaemonLeaves \/ Collect \/ UNCHANGED vars
  BY <1>5 DEF WarpDone, WarpRaises, DaemonLeaves, Collect, vars
<1>6. CASE \E u \in Unit : DaemonStart(u)
  BY <1>6 DEF DaemonStart
<1>7. CASE \E u \in Unit, how \in {"done", "error", "lost"} : DaemonEnd(u, how)
  BY <1>7 DEF DaemonEnd
<1> QED BY <1>1, <1>2, <1>3, <1>4, <1>5, <1>6, <1>7 DEF BatchNext

(* ck_batch uses its session by the rules: everything proved of a session  *)
(* under any consumer holds under this one.                                *)
THEOREM BatchUsesStream == BatchSpec => StreamSpec
<1>1. BatchInit => StreamInit
  BY DEF BatchInit
<1> QED BY <1>1, StepOfStream, PTL DEF BatchSpec, StreamSpec

-----------------------------------------------------------------------------
LEMMA BatchInitInv == BatchInit => BatchInv
<1> SUFFICES ASSUME BatchInit PROVE BatchInv
  OBVIOUS
<1> USE DEF BatchInit
<1>1. StreamInv /\ taken = {}
  BY InitInv DEF StreamInit
<1>2. /\ \A g \in Groups : acc[g] = <<>>
      /\ \A u \in Unit : work[u] = <<>> /\ status[u] = "none"
  OBVIOUS
<1>3. BatchTypeOK
  <2>1. acc \in [Groups -> Seq(Src)] /\ work \in [Unit -> Seq(Src)]
    BY EmptySeq
  <2>2. /\ have \in [Groups -> Nat]
        /\ status \in [Unit -> {"none", "queued", "running", "done", "error", "lost"}]
        /\ ret \in [Unit -> {"unset", "path", "NA", "message"}]
        /\ daemons \in 0 .. NDaemons
    BY BatchAssumption
  <2> QED BY <1>1, <2>1, <2>2 DEF BatchTypeOK, StreamInv
<1>4. OutcomeKnown /\ AccOpen /\ StackCompleteInBandOrder /\ StatusMatches /\ ThreadOK
  BY <1>1, <1>2, UnitSets
  DEF OutcomeKnown, AccOpen, StackCompleteInBandOrder, StatusMatches, ThreadOK
<1>5. AccumulatorsExact
  <2>1. \A g : Landed(g) = {}
    BY <1>1 DEF Landed
  <2>2. \A g \in Groups : have[g] = Cardinality(Landed(g))
    BY <2>1, FS_EmptySet
  <2> QED BY <1>1, <1>2, <2>1, <2>2, EmptyElems, UnitSets DEF AccumulatorsExact
<1> QED BY <1>1, <1>3, <1>4, <1>5 DEF BatchInv

(* A step that leaves R's books alone keeps what they say.                 *)
LEMMA BooksKept ==
  ASSUME BatchInv,
         UNCHANGED <<idx, taken, stack, have, acc, failed, work>>,
         \A s \in taken : result'[s] = result[s]
  PROVE  OutcomeKnown' /\ AccumulatorsExact' /\ AccOpen' /\ StackCompleteInBandOrder'
<1> USE DEF BatchInv
<1>1. \A g : Landed(g)' = Landed(g) /\ Members(g)' = Members(g)
  BY DEF Landed, Members
<1>2. OutcomeKnown'
  BY DEF OutcomeKnown
<1>3. AccumulatorsExact'
  BY <1>1 DEF AccumulatorsExact
<1>4. AccOpen'
  BY <1>1 DEF AccOpen, need
<1>5. StackCompleteInBandOrder'
  BY <1>1 DEF StackCompleteInBandOrder
<1> QED BY <1>2, <1>3, <1>4, <1>5

LEMMA DriverKeeps ==
  ASSUME BatchInv, StreamInv', Driver
  PROVE  BatchInv'
<1>1. UNCHANGED batchOnlyVars /\ UNCHANGED <<idx, taken, eos>>
  BY DEF Driver, DriverNext, Pull, Finish, Send, SendClosed, Panic, DriverEnd, Abort
<1>2. \A s \in taken : result'[s] = result[s]
  <2>1. ASSUME NEW s \in Src, NEW r \in {"ok", "err"}, Finish(s, r)
        PROVE  \A x \in taken : result'[x] = result[x]
    <3>1. s \notin taken /\ taken \subseteq Src
      BY <2>1 DEF BatchInv, StreamInv, StreamTypeOK, Conservation, Finish
    <3> QED BY <2>1, <3>1 DEF Finish, BatchInv, StreamInv, StreamTypeOK
  <2> QED
    BY <2>1 DEF Driver, DriverNext, Pull, Send, SendClosed, Panic, DriverEnd, Abort
<1>3. OutcomeKnown' /\ AccumulatorsExact' /\ AccOpen' /\ StackCompleteInBandOrder'
  BY <1>1, <1>2, BooksKept DEF batchOnlyVars
<1>4. BatchTypeOK' /\ StatusMatches'
  BY <1>1 DEF batchOnlyVars, BatchInv, BatchTypeOK, StatusMatches, StreamInv
<1>5. ThreadOK'
  BY <1>1 DEF batchOnlyVars, BatchInv, ThreadOK, Collect1, Outputs
<1> QED BY <1>3, <1>4, <1>5 DEF BatchInv

LEMMA ForgetKeeps ==
  ASSUME BatchInv, StreamInv', Forget
  PROVE  BatchInv'
<1>1. UNCHANGED batchOnlyVars /\ UNCHANGED <<idx, taken, eos, result>>
  BY DEF Forget, DropSession
<1>2. OutcomeKnown' /\ AccumulatorsExact' /\ AccOpen' /\ StackCompleteInBandOrder'
  BY <1>1, BooksKept DEF batchOnlyVars
<1>3. BatchTypeOK' /\ StatusMatches'
  BY <1>1 DEF batchOnlyVars, BatchInv, BatchTypeOK, StatusMatches, StreamInv
<1>4. ThreadOK'
  BY <1>1 DEF batchOnlyVars, BatchInv, ThreadOK, Collect1, Outputs
<1> QED BY <1>2, <1>3, <1>4 DEF BatchInv

LEMMA EndDrainKeeps ==
  ASSUME BatchInv, StreamInv', EndDrain
  PROVE  BatchInv'
<1>1. UNCHANGED <<stack, usePar, have, acc, failed, work, status, daemons, unit, ret>>
      /\ UNCHANGED <<idx, taken, result>> /\ eos'
      /\ rpc' = "collect" /\ warned' = (failed # {})
  BY DEF EndDrain, TakeNull
<1>2. OutcomeKnown' /\ AccumulatorsExact' /\ AccOpen' /\ StackCompleteInBandOrder'
  BY <1>1, BooksKept
<1>3. BatchTypeOK' /\ StatusMatches'
  BY <1>1 DEF BatchInv, BatchTypeOK, StatusMatches, StreamInv
<1>4. ThreadOK'
  BY <1>1 DEF ThreadOK
<1> QED BY <1>2, <1>3, <1>4 DEF BatchInv

(* A step of an assembly, inline or by a daemon, moves one status on.      *)
LEMMA AssemblyKeeps ==
  ASSUME BatchInv, StreamInv',
         NEW u \in Unit, NEW x \in {"done", "error", "lost", "running"},
         work[u] # <<>>, rpc # "returned",
         status' = [status EXCEPT ![u] = x],
         rpc' \in {rpc, "take", "raised"}, unit' \in {unit, 0},
         rpc' = "warp" => rpc = "warp" /\ unit' = unit, daemons' \in 0 .. NDaemons,
         UNCHANGED <<streamVars, stack, usePar, have, acc, failed, work, warned, ret>>
  PROVE  BatchInv'
<1>1. OutcomeKnown' /\ AccumulatorsExact' /\ AccOpen' /\ StackCompleteInBandOrder'
  BY BooksKept DEF streamVars
<1>2. BatchTypeOK'
  BY DEF BatchInv, BatchTypeOK, StreamInv
<1>3. StatusMatches'
  BY DEF BatchInv, StatusMatches, BatchTypeOK
<1>4. ThreadOK'
  <2>1. rpc' = "warp" => unit' \in Unit /\ work'[unit'] # <<>>
    BY DEF BatchInv, ThreadOK
  <2>2. rpc' \in {"collect", "returned"} => eos' /\ (warned' <=> failed' # {})
    BY DEF BatchInv, ThreadOK, streamVars
  <2>3. rpc' # "returned"
    OBVIOUS
  <2> QED BY <2>1, <2>2, <2>3 DEF ThreadOK
<1> QED BY <1>1, <1>2, <1>3, <1>4 DEF BatchInv

LEMMA WarpKeeps ==
  ASSUME BatchInv, StreamInv', WarpDone \/ WarpRaises
  PROVE  BatchInv'
<1>1. unit \in Unit /\ work[unit] # <<>> /\ daemons' \in 0 .. NDaemons
  BY DEF BatchInv, BatchTypeOK, ThreadOK, WarpDone, WarpRaises
<1>2. CASE WarpDone
  BY <1>1, <1>2, AssemblyKeeps DEF WarpDone
<1>3. CASE WarpRaises
  BY <1>1, <1>3, AssemblyKeeps DEF WarpRaises
<1> QED BY <1>2, <1>3

(* The tasks that run are finitely many, and none only when none runs.     *)
LEMMA RunningCount ==
  /\ IsFiniteSet(Running) /\ Cardinality(Running) \in Nat
  /\ Running # {} => Cardinality(Running) >= 1
<1>1. IsFiniteSet(Unit)
  BY StreamAssumption, BatchAssumption, FS_Interval DEF Unit
<1>2. IsFiniteSet(Running)
  BY <1>1, FS_Subset DEF Running
<1>3. Cardinality(Running) \in Nat
  BY <1>2, FS_CardinalityType
<1>4. Running # {} => Cardinality(Running) # 0
  BY <1>2, FS_EmptySet
<1> QED BY <1>2, <1>3, <1>4

LEMMA DaemonKeeps ==
  ASSUME BatchInv, PoolOK, StreamInv', NEW u \in Unit, NEW how \in {"done", "error", "lost"},
         DaemonStart(u) \/ DaemonEnd(u, how)
  PROVE  BatchInv'
<1>1. status[u] \in {"queued", "running"}
  BY DEF DaemonStart, DaemonEnd
<1>2. work[u] # <<>> /\ rpc # "returned"
  BY <1>1 DEF BatchInv, StatusMatches, ThreadOK
<1>3. UNCHANGED <<rpc, unit>>
      /\ UNCHANGED <<streamVars, stack, usePar, have, acc, failed, work, warned, ret>>
  BY DEF DaemonStart, DaemonEnd
<1>4. CASE DaemonStart(u)
  <2>1. status' = [status EXCEPT ![u] = "running"] /\ daemons' \in 0 .. NDaemons
    BY <1>4 DEF DaemonStart, BatchInv, BatchTypeOK
  <2> QED BY <1>2, <1>3, <2>1, AssemblyKeeps
<1>5. CASE DaemonEnd(u, how)
  <2>1. status' = [status EXCEPT ![u] = how]
    BY <1>5 DEF DaemonEnd
  <2>2. u \in Running /\ Cardinality(Running) <= daemons
    BY <1>5 DEF DaemonEnd, PoolOK, Running
  <2>3. daemons' \in 0 .. NDaemons
    BY <1>5, <2>2, RunningCount, BatchAssumption DEF DaemonEnd, BatchInv, BatchTypeOK
  <2> QED BY <1>2, <1>3, <2>1, <2>3, AssemblyKeeps
<1> QED BY <1>4, <1>5

(* An idle daemon that leaves changes nothing but the pool.                *)
LEMMA LeaveKeeps ==
  ASSUME BatchInv, StreamInv', DaemonLeaves
  PROVE  BatchInv'
<1>1. UNCHANGED <<streamVars, stack, usePar, have, acc, failed, work, status, rpc, unit, warned, ret>>
      /\ daemons' = daemons - 1 /\ Cardinality(Running) < daemons
  BY DEF DaemonLeaves
<1>2. OutcomeKnown' /\ AccumulatorsExact' /\ AccOpen' /\ StackCompleteInBandOrder'
  BY <1>1, BooksKept DEF streamVars
<1>3. daemons' \in 0 .. NDaemons
  BY <1>1, RunningCount, BatchAssumption DEF BatchInv, BatchTypeOK
<1>4. BatchTypeOK' /\ StatusMatches'
  BY <1>1, <1>3 DEF BatchInv, BatchTypeOK, StatusMatches, StreamInv
<1>5. ThreadOK'
  BY <1>1 DEF BatchInv, ThreadOK, Collect1, Outputs, streamVars
<1> QED BY <1>2, <1>4, <1>5 DEF BatchInv

LEMMA CollectKeeps ==
  ASSUME BatchInv, StreamInv', Collect
  PROVE  BatchInv'
<1>1. UNCHANGED <<streamVars, stack, usePar, have, acc, failed, work, status, daemons, unit, warned>>
      /\ rpc' = "returned" /\ rpc = "collect"
      /\ ret' = [u \in Unit |-> IF u \in Outputs THEN Collect1(u) ELSE "unset"]
      /\ \A u \in Unit : status[u] \notin {"queued", "running"}
  BY DEF Collect
<1>2. OutcomeKnown' /\ AccumulatorsExact' /\ AccOpen' /\ StackCompleteInBandOrder'
  BY <1>1, BooksKept DEF streamVars
<1>3. BatchTypeOK'
  BY <1>1 DEF BatchInv, BatchTypeOK, StreamInv, Collect1
<1>4. StatusMatches'
  BY <1>1 DEF BatchInv, StatusMatches
<1>5. ThreadOK'
  BY <1>1 DEF BatchInv, ThreadOK, Outputs, Collect1, streamVars
<1> QED BY <1>2, <1>3, <1>4, <1>5 DEF BatchInv

-----------------------------------------------------------------------------
(* A sequence without elements is empty.                                   *)
LEMMA NoElems ==
  ASSUME NEW S, NEW q \in Seq(S), Elems(q) = {}
  PROVE  q = <<>>
<1>1. Len(q) \in Nat /\ DOMAIN q = 1 .. Len(q)
  BY LenProperties
<1>2. ASSUME Len(q) # 0 PROVE FALSE
  <2>1. 1 \in DOMAIN q
    BY <1>1, <1>2
  <2> QED BY <2>1 DEF Elems
<1> QED BY <1>1, <1>2, EmptySeq

(***************************************************************************)
(* Receiving.                                                              *)
(***************************************************************************)

(* The window at the head of the channel is new to R.                      *)
LEMMA HeadIsNew ==
  ASSUME BatchInv, Take
  PROVE  /\ Head(chan) \in Src /\ Head(chan) \in idx /\ Head(chan) \notin taken
         /\ taken' = taken \cup {Head(chan)}
         /\ UNCHANGED <<idx, result, driver, eos>>
<1>1. chan \in Seq(Src) /\ chan # <<>>
  BY DEF BatchInv, StreamInv, StreamTypeOK, Take
<1>2. Head(chan) \in Src /\ Head(chan) \in Sent
  BY <1>1, HeadTailProperties, TailElems DEF Sent
<1> QED BY <1>2 DEF BatchInv, StreamInv, Conservation, Take

(* The books of a group, as sets of sources.                               *)
LEMMA GroupSets ==
  ASSUME BatchInv, NEW g
  PROVE  /\ Landed(g) \in SUBSET Src /\ Members(g) \in SUBSET Src
         /\ Landed(g) \subseteq Members(g)
         /\ Landed(g) \subseteq taken
         /\ IsFiniteSet(Landed(g)) /\ Cardinality(Landed(g)) \in Nat
         /\ IsFiniteSet(Members(g)) /\ Cardinality(Members(g)) \in Nat
<1>1. Landed(g) \in SUBSET Src /\ Members(g) \in SUBSET Src
      /\ Landed(g) \subseteq Members(g) /\ Landed(g) \subseteq taken
  BY DEF Landed, Members, BatchInv, StreamInv, StreamTypeOK, Conservation
<1> QED BY <1>1, SourcesFinite

LEMMA ReceiveErrorKeeps ==
  ASSUME BatchInv, StreamInv', ReceiveError
  PROVE  BatchInv'
<1> DEFINE s == Head(chan)
<1>1. /\ s \in Src /\ s \notin taken /\ taken' = taken \cup {s}
      /\ failed' = failed \cup {s} /\ result[s] = "err" /\ rpc = "take"
      /\ UNCHANGED <<idx, result, driver, eos>>
      /\ UNCHANGED <<stack, usePar, have, acc, work, status, daemons, rpc, unit, warned, ret>>
  BY HeadIsNew DEF ReceiveError
<1> HIDE DEF s
<1> USE DEF BatchInv
<1>2. \A g : Landed(g)' = Landed(g) /\ Members(g)' = Members(g)
  BY <1>1 DEF Landed, Members, AccumulatorsExact
<1>3. OutcomeKnown'
  BY <1>1 DEF OutcomeKnown
<1>4. AccumulatorsExact'
  BY <1>1, <1>2 DEF AccumulatorsExact
<1>5. AccOpen'
  BY <1>1, <1>2 DEF AccOpen, need
<1>6. StackCompleteInBandOrder'
  <2>1. ASSUME stack, NEW g \in Groups, work[g] # <<>>
        PROVE  Members(g) \cap failed' = {}
    <3>1. Members(g) \subseteq taken
      BY <2>1, GroupSets DEF StackCompleteInBandOrder, AccumulatorsExact
    <3> QED BY <1>1, <2>1, <3>1 DEF StackCompleteInBandOrder
  <2> QED BY <1>1, <1>2, <2>1 DEF StackCompleteInBandOrder
<1>7. BatchTypeOK' /\ StatusMatches' /\ ThreadOK'
  BY <1>1 DEF BatchTypeOK, StatusMatches, ThreadOK, StreamInv
<1> QED BY <1>3, <1>4, <1>5, <1>6, <1>7

(* Dispatching an output that has not been dispatched.                     *)
LEMMA DispatchKeeps ==
  ASSUME BatchInv, StreamInv', NEW u \in Unit, NEW q \in Seq(Src), q # <<>>,
         Dispatch(u, q), rpc = "take",
         UNCHANGED <<stack, usePar, failed, daemons, warned, ret>>,
         have' \in [Groups -> Nat], acc' \in [Groups -> Seq(Src)]
  PROVE  BatchTypeOK' /\ StatusMatches' /\ ThreadOK'
<1>1. /\ work' = [work EXCEPT ![u] = q]
      /\ status' \in {[status EXCEPT ![u] = "queued"], [status EXCEPT ![u] = "running"]}
      /\ \/ rpc' = "take" /\ unit' = unit
         \/ rpc' = "warp" /\ unit' = u
  BY DEF Dispatch
<1>2. BatchTypeOK'
  BY <1>1 DEF BatchInv, BatchTypeOK, StreamInv
<1>3. StatusMatches'
  BY <1>1 DEF BatchInv, BatchTypeOK, StatusMatches
<1>4. ThreadOK'
  BY <1>1 DEF BatchInv, BatchTypeOK, ThreadOK
<1> QED BY <1>2, <1>3, <1>4

LEMMA ReceiveFlatKeeps ==
  ASSUME BatchInv, StreamInv', ReceiveFlat
  PROVE  BatchInv' /\ \A u \in Unit : work[u] # <<>> => work'[u] = work[u]
<1> DEFINE s == Head(chan)
<1>1. /\ s \in Src /\ s \notin taken /\ taken' = taken \cup {s}
      /\ result[s] = "ok" /\ rpc = "take" /\ ~stack /\ Dispatch(s, <<s>>)
      /\ UNCHANGED <<idx, result, driver, eos>>
      /\ UNCHANGED <<stack, usePar, have, acc, failed, daemons, warned, ret>>
  BY HeadIsNew DEF ReceiveFlat
<1> HIDE DEF s
<1>2. s \in Unit /\ <<s>> \in Seq(Src) /\ <<s>> # <<>> /\ Elems(<<s>>) = {s}
  BY <1>1, UnitSets DEF Elems
<1>3. work' = [work EXCEPT ![s] = <<s>>] /\ work \in [Unit -> Seq(Src)]
  BY <1>1 DEF Dispatch, BatchInv, BatchTypeOK
<1>4. s \notin failed
  BY <1>1 DEF BatchInv, AccumulatorsExact
<1>5. OutcomeKnown'
  BY <1>1, <1>4 DEF BatchInv, OutcomeKnown
<1>6. AccumulatorsExact'
  <2>1. ASSUME NEW t \in Src
        PROVE  Elems(work'[t]) = {t} \cap (taken' \ failed')
    <3>1. CASE t = s
      BY <3>1, <1>1, <1>2, <1>3, <1>4
    <3>2. CASE t # s
      <4>1. work'[t] = work[t]
        BY <3>2, <1>3, UnitSets
      <4> QED BY <3>2, <4>1, <1>1 DEF BatchInv, AccumulatorsExact
    <3> QED BY <3>1, <3>2
  <2> QED BY <2>1, <1>1 DEF BatchInv, AccumulatorsExact
<1>7. AccOpen' /\ StackCompleteInBandOrder'
  BY <1>1 DEF AccOpen, StackCompleteInBandOrder
<1>8. BatchTypeOK' /\ StatusMatches' /\ ThreadOK'
  BY <1>1, <1>2, DispatchKeeps DEF BatchInv, BatchTypeOK
<1>9. \A u \in Unit : work[u] # <<>> => work'[u] = work[u]
  <2>1. Elems(work[s]) = {}
    BY <1>1 DEF BatchInv, AccumulatorsExact
  <2>2. work[s] = <<>>
    BY <2>1, <1>2, <1>3, NoElems
  <2> QED BY <2>2, <1>3
<1> QED BY <1>5, <1>6, <1>7, <1>8, <1>9 DEF BatchInv

(* Sorting by band keeps the elements and puts them in band order.         *)
LEMMA BandOrder ==
  ASSUME NEW q \in Seq(Src), q # <<>>, NEW p \in InBandOrder(q)
  PROVE  /\ p \in Seq(Src) /\ p # <<>> /\ Elems(p) = Elems(q)
         /\ \A i, j \in DOMAIN p : i < j => BandOf(p[i]) < BandOf(p[j])
<1>1. Len(q) \in Nat /\ Elems(q) \subseteq Src /\ Elems(q) # {}
  <2>1. Len(q) \in Nat /\ DOMAIN q = 1 .. Len(q)
    BY LenProperties
  <2>2. Elems(q) \subseteq Src
    BY <2>1 DEF Elems
  <2> QED BY <2>1, <2>2, NoElems
<1>2. p \in [1 .. Len(q) -> Elems(q)] /\ Elems(p) = Elems(q)
      /\ \A i, j \in 1 .. Len(q) : i < j => BandOf(p[i]) < BandOf(p[j])
  BY DEF InBandOrder
<1>3. p \in Seq(Src)
  <2>1. p \in [1 .. Len(q) -> Src]
    BY <1>1, <1>2
  <2> QED BY <1>1, <2>1, IsASeq
<1>4. p # <<>>
  BY <1>1, <1>2, EmptyElems
<1> QED BY <1>2, <1>3, <1>4

LEMMA ReceiveStackedKeeps ==
  ASSUME BatchInv, StreamInv', ReceiveStacked
  PROVE  BatchInv' /\ \A u \in Unit : work[u] # <<>> => work'[u] = work[u]
<1>s. PICK s \in Src : s = Head(chan)
  BY HeadIsNew DEF ReceiveStacked
<1>g. PICK g \in Groups : g = GroupOf[s]
  BY BatchAssumption
<1>q. PICK q : q = Append(acc[g], s)
  OBVIOUS
<1>1. /\ s \in Src /\ s \in idx /\ s \notin taken /\ taken' = taken \cup {s}
      /\ result[s] = "ok" /\ rpc = "take" /\ stack
      /\ have' = [have EXCEPT ![g] = @ + 1]
      /\ UNCHANGED <<idx, result, driver, eos>>
      /\ UNCHANGED <<stack, usePar, failed, daemons, warned, ret>>
  BY <1>s, <1>g, HeadIsNew DEF ReceiveStacked
<1>2. \/ /\ have[g] + 1 >= need(g)
         /\ \E p \in InBandOrder(q) : Dispatch(g, p)
         /\ acc' = [acc EXCEPT ![g] = <<>>]
      \/ /\ ~(have[g] + 1 >= need(g))
         /\ acc' = [acc EXCEPT ![g] = q]
         /\ UNCHANGED <<work, status, rpc, unit>>
  BY <1>s, <1>g, <1>q DEF ReceiveStacked
<1>3. g \in Groups /\ g \in Unit /\ s \in Members(g)
  BY <1>1, <1>g, UnitSets DEF Members
<1>4. /\ have \in [Groups -> Nat] /\ acc \in [Groups -> Seq(Src)]
      /\ work \in [Unit -> Seq(Src)]
  BY DEF BatchInv, BatchTypeOK
<1>5. s \notin failed /\ failed' = failed
  BY <1>1 DEF BatchInv, AccumulatorsExact
<1>6. /\ Landed(g)' = Landed(g) \cup {s} /\ s \notin Landed(g)
      /\ \A h \in Groups : h # g => Landed(h)' = Landed(h)
      /\ \A h : Members(h)' = Members(h)
      /\ Landed(g)' \subseteq Members(g) \ failed
  <2>1. Landed(g)' = Landed(g) \cup {s} /\ s \notin Landed(g)
    BY <1>1, <1>5, <1>g DEF Landed
  <2>2. \A h \in Groups : h # g => Landed(h)' = Landed(h)
    BY <1>1, <1>5, <1>g DEF Landed
  <2>3. \A h : Members(h)' = Members(h)
    BY <1>1 DEF Members
  <2>4. Landed(g) \subseteq Members(g) /\ Landed(g) \cap failed = {}
    BY GroupSets DEF Landed
  <2> QED BY <1>3, <1>5, <2>1, <2>2, <2>3, <2>4
<1>7. have'[g] = have[g] + 1 /\ have[g] \in Nat
      /\ have'[g] = Cardinality(Landed(g)')
      /\ have[g] = Cardinality(Landed(g))
  <2>1. have[g] = Cardinality(Landed(g)) /\ have[g] \in Nat
    BY <1>1, <1>3, <1>4 DEF BatchInv, AccumulatorsExact
  <2>2. Cardinality(Landed(g)') = Cardinality(Landed(g)) + 1
    <3>1. Landed(g) \in SUBSET Src
      BY GroupSets
    <3> QED BY <3>1, <1>1, <1>6, SourcesFinite
  <2> QED BY <1>1, <1>3, <1>4, <2>1, <2>2
<1>8. work[g] = <<>>
  <2>1. Elems(work[g]) \subseteq taken
    BY <1>1, <1>3, GroupSets DEF BatchInv, AccumulatorsExact
  <2> QED BY <1>1, <1>3, <2>1 DEF BatchInv, StackCompleteInBandOrder
<1>9. q \in Seq(Src) /\ q # <<>> /\ Elems(q) = Landed(g)'
  <2>1. Elems(acc[g]) = Landed(g)
    BY <1>1, <1>3, <1>8, EmptyElems DEF BatchInv, AccumulatorsExact
  <2>2. acc[g] \in Seq(Src)
    BY <1>3, <1>4
  <2> QED BY <1>1, <1>6, <1>q, <2>1, <2>2, AppendElems, AppendProperties
<1>10. OutcomeKnown'
  BY <1>1, <1>5 DEF BatchInv, OutcomeKnown
<1>11. failed' \subseteq taken'
  BY <1>1, <1>5 DEF BatchInv, AccumulatorsExact
<1>12. \A h \in Groups : h # g =>
         /\ have'[h] = have[h] /\ acc'[h] = acc[h] /\ have'[h] = Cardinality(Landed(h)')
  <2> SUFFICES ASSUME NEW h \in Groups, h # g
               PROVE  /\ have'[h] = have[h] /\ acc'[h] = acc[h]
                      /\ have'[h] = Cardinality(Landed(h)')
    OBVIOUS
  <2>1. have'[h] = have[h] /\ acc'[h] = acc[h]
    BY <1>1, <1>2, <1>4
  <2> QED BY <2>1, <1>1, <1>6 DEF BatchInv, AccumulatorsExact
<1>13. CASE /\ have[g] + 1 >= need(g)
            /\ \E p \in InBandOrder(q) : Dispatch(g, p)
            /\ acc' = [acc EXCEPT ![g] = <<>>]
  <2>1. PICK p \in InBandOrder(q) : Dispatch(g, p)
    BY <1>13
  <2>2. p \in Seq(Src) /\ p # <<>> /\ Elems(p) = Landed(g)'
        /\ \A i, j \in DOMAIN p : i < j => BandOf(p[i]) < BandOf(p[j])
    BY <1>9, BandOrder
  <2>3. work' = [work EXCEPT ![g] = p] /\ acc' = [acc EXCEPT ![g] = <<>>]
    BY <1>13, <2>1 DEF Dispatch
  <2>4. Landed(g)' = Members(g)
    <3>1. Members(g) \in SUBSET Src /\ Landed(g)' \subseteq Members(g)
      BY <1>6, GroupSets
    <3>2. IsFiniteSet(Members(g)) /\ Cardinality(Members(g)) \in Nat
      BY GroupSets
    <3>3. Cardinality(Landed(g)') <= Cardinality(Members(g))
      BY <3>1, <3>2, FS_Subset
    <3>4. Cardinality(Landed(g)') = Cardinality(Members(g))
      BY <1>7, <1>13, <3>2, <3>3 DEF need
    <3> QED BY <3>1, <3>2, <3>4, FS_Subset
  <2>5. \A h \in Groups : h # g => work'[h] = work[h]
    BY <2>3, <1>4
  <2>6. work'[g] = p /\ acc'[g] = <<>>
    BY <2>3, <1>3, <1>4
  <2>7. AccumulatorsExact'
    <3> SUFFICES ASSUME NEW h \in Groups
                 PROVE  /\ have'[h] = Cardinality(Landed(h)')
                        /\ Elems(acc'[h]) \cup Elems(work'[h]) = Landed(h)'
                        /\ acc'[h] = <<>> \/ work'[h] = <<>>
      BY <1>1, <1>11 DEF AccumulatorsExact
    <3>1. CASE h = g
      BY <3>1, <1>7, <2>2, <2>6, EmptyElems
    <3>2. CASE h # g
      BY <3>2, <1>1, <1>6, <1>12, <2>5 DEF BatchInv, AccumulatorsExact
    <3> QED BY <3>1, <3>2
  <2>8. AccOpen'
    BY <1>1, <1>6, <1>12, <2>6 DEF BatchInv, AccOpen, need
  <2>9. StackCompleteInBandOrder'
    <3> SUFFICES ASSUME NEW h \in Groups, work'[h] # <<>>
                 PROVE  /\ Elems(work'[h]) = Members(h)
                        /\ Members(h) \cap failed = {}
                        /\ \A i, j \in DOMAIN work'[h] :
                             i < j => BandOf(work'[h][i]) < BandOf(work'[h][j])
      BY <1>5, <1>6 DEF StackCompleteInBandOrder
    <3>1. CASE h = g
      BY <3>1, <1>6, <2>2, <2>4, <2>6
    <3>2. CASE h # g
      BY <3>2, <1>1, <2>5 DEF BatchInv, StackCompleteInBandOrder
    <3> QED BY <3>1, <3>2
  <2>10. BatchTypeOK' /\ StatusMatches' /\ ThreadOK'
    <3>1. have' \in [Groups -> Nat] /\ acc' \in [Groups -> Seq(Src)]
      BY <1>1, <1>3, <1>4, <2>3, EmptySeq
    <3> QED BY <1>1, <1>3, <2>1, <2>2, <3>1, DispatchKeeps
  <2>11. \A u \in Unit : work[u] # <<>> => work'[u] = work[u]
    BY <1>4, <1>8, <2>3
  <2> QED BY <1>10, <2>7, <2>8, <2>9, <2>10, <2>11 DEF BatchInv
<1>14. CASE /\ ~(have[g] + 1 >= need(g))
            /\ acc' = [acc EXCEPT ![g] = q]
            /\ UNCHANGED <<work, status, rpc, unit>>
  <2>1. acc'[g] = q /\ UNCHANGED <<work, status, rpc, unit>>
    BY <1>3, <1>4, <1>14
  <2>2. AccumulatorsExact'
    <3> SUFFICES ASSUME NEW h \in Groups
                 PROVE  /\ have'[h] = Cardinality(Landed(h)')
                        /\ Elems(acc'[h]) \cup Elems(work'[h]) = Landed(h)'
                        /\ acc'[h] = <<>> \/ work'[h] = <<>>
      BY <1>1, <1>11 DEF AccumulatorsExact
    <3>1. CASE h = g
      BY <3>1, <1>7, <1>8, <1>9, <2>1, EmptyElems
    <3>2. CASE h # g
      BY <3>2, <1>1, <1>6, <1>12, <2>1 DEF BatchInv, AccumulatorsExact
    <3> QED BY <3>1, <3>2
  <2>3. AccOpen'
    <3> SUFFICES ASSUME NEW h \in Groups, acc'[h] # <<>>
                 PROVE  have'[h] < Cardinality(Members(h))
      BY <1>6 DEF AccOpen, need
    <3>1. CASE h = g
      <4>1. Cardinality(Members(g)) \in Nat
        BY GroupSets
      <4> QED BY <3>1, <4>1, <1>7, <1>14 DEF need
    <3>2. CASE h # g
      BY <3>2, <1>1, <1>12 DEF BatchInv, AccOpen, need
    <3> QED BY <3>1, <3>2
  <2>4. StackCompleteInBandOrder'
    BY <1>1, <1>5, <1>6, <2>1 DEF BatchInv, StackCompleteInBandOrder
  <2>5. BatchTypeOK' /\ StatusMatches' /\ ThreadOK'
    <3>1. have' \in [Groups -> Nat] /\ acc' \in [Groups -> Seq(Src)]
      BY <1>1, <1>3, <1>4, <1>9, <1>14
    <3> QED
      BY <1>1, <2>1, <3>1 DEF BatchInv, BatchTypeOK, StatusMatches, ThreadOK, StreamInv
  <2> QED BY <1>10, <2>1, <2>2, <2>3, <2>4, <2>5 DEF BatchInv
<1> QED BY <1>2, <1>13, <1>14

-----------------------------------------------------------------------------
LEMMA BatchStepInv ==
  ASSUME BatchInv, PoolOK, [BatchNext]_vars
  PROVE  /\ BatchInv'
         /\ \A u \in Unit : work[u] # <<>> => work'[u] = work[u]
<1>1. StreamInv'
  BY StepOfStream, StepInv DEF BatchInv
<1>2. CASE Driver
  BY <1>1, <1>2, DriverKeeps DEF Driver, batchOnlyVars
<1>3. CASE ReceiveError
  BY <1>1, <1>3, ReceiveErrorKeeps DEF ReceiveError
<1>4. CASE ReceiveFlat
  BY <1>1, <1>4, ReceiveFlatKeeps
<1>5. CASE ReceiveStacked
  BY <1>1, <1>5, ReceiveStackedKeeps
<1>6. CASE EndDrain
  BY <1>1, <1>6, EndDrainKeeps DEF EndDrain
<1>7. CASE WarpDone \/ WarpRaises
  BY <1>1, <1>7, WarpKeeps DEF WarpDone, WarpRaises
<1>8. CASE \E u \in Unit : DaemonStart(u)
  BY <1>1, <1>8, DaemonKeeps DEF DaemonStart
<1>9. CASE \E u \in Unit, how \in {"done", "error", "lost"} : DaemonEnd(u, how)
  BY <1>1, <1>9, DaemonKeeps DEF DaemonEnd
<1>10. CASE Collect
  BY <1>1, <1>10, CollectKeeps DEF Collect
<1>11. CASE Forget
  BY <1>1, <1>11, ForgetKeeps DEF Forget, batchOnlyVars
<1>12. CASE UNCHANGED vars
  <2>1. UNCHANGED batchOnlyVars /\ UNCHANGED streamVars
    BY <1>12 DEF vars
  <2>2. OutcomeKnown' /\ AccumulatorsExact' /\ AccOpen' /\ StackCompleteInBandOrder'
    BY <2>1, BooksKept DEF batchOnlyVars, streamVars
  <2>3. BatchTypeOK' /\ StatusMatches'
    BY <1>1, <2>1 DEF batchOnlyVars, BatchInv, BatchTypeOK, StatusMatches, StreamInv
  <2>4. ThreadOK'
    BY <2>1 DEF batchOnlyVars, streamVars, BatchInv, ThreadOK, Collect1, Outputs
  <2> QED BY <1>1, <2>1, <2>2, <2>3, <2>4 DEF BatchInv, batchOnlyVars
<1>13. CASE DaemonLeaves
  BY <1>1, <1>13, LeaveKeeps DEF DaemonLeaves
<1> QED
  BY <1>2, <1>3, <1>4, <1>5, <1>6, <1>7, <1>8, <1>9, <1>10, <1>11, <1>12, <1>13 DEF BatchNext

(* A daemon takes a task only when it is there and free, so there is       *)
(* always one to lose when a task is lost.                                 *)
LEMMA PoolStep ==
  ASSUME BatchInv, PoolOK, [BatchNext]_vars
  PROVE  PoolOK'
<1>t. /\ status \in [Unit -> {"none", "queued", "running", "done", "error", "lost"}]
      /\ daemons \in Nat
  BY BatchAssumption DEF BatchInv, BatchTypeOK
<1>n. IsFiniteSet(Running) /\ Cardinality(Running) \in Nat
  BY RunningCount
<1>1. ASSUME usePar' = usePar, daemons' = daemons, usePar => Running' \subseteq Running
      PROVE  PoolOK'
  <2>1. usePar => Cardinality(Running') <= Cardinality(Running) /\ Cardinality(Running') \in Nat
    BY <1>n, <1>1, FS_Subset, FS_CardinalityType
  <2> QED BY <1>t, <1>n, <1>1, <2>1 DEF PoolOK
<1>2. CASE Driver \/ Forget \/ ReceiveError \/ EndDrain \/ Collect \/ UNCHANGED vars
  <2>1. UNCHANGED <<usePar, daemons, status>>
    BY <1>2 DEF Driver, Forget, ReceiveError, EndDrain, Collect, vars, batchOnlyVars
  <2> QED BY <1>1, <2>1 DEF Running
<1>3. CASE ReceiveFlat \/ ReceiveStacked
  <2>1. UNCHANGED <<usePar, daemons>> /\ (UNCHANGED status \/ \E u, q : Dispatch(u, q))
    BY <1>3 DEF ReceiveFlat, ReceiveStacked
  <2>2. usePar => \/ UNCHANGED status
                  \/ \E u : status' = [status EXCEPT ![u] = "queued"]
    BY <2>1 DEF Dispatch
  <2>3. usePar => Running' \subseteq Running
    BY <1>t, <2>2 DEF Running
  <2> QED BY <1>1, <2>1, <2>3
<1>4. CASE WarpDone \/ WarpRaises
  <2>1. UNCHANGED <<usePar, daemons>>
        /\ \E x \in {"done", "error"} : status' = [status EXCEPT ![unit] = x]
    BY <1>4 DEF WarpDone, WarpRaises
  <2>2. Running' \subseteq Running
    BY <1>t, <2>1 DEF Running
  <2> QED BY <1>1, <2>1, <2>2
<1>5. CASE \E u \in Unit : DaemonStart(u)
  <2>1. PICK u \in Unit : DaemonStart(u)
    BY <1>5
  <2>2. UNCHANGED <<usePar, daemons>> /\ Cardinality(Running) < daemons
        /\ status' = [status EXCEPT ![u] = "running"]
    BY <2>1 DEF DaemonStart
  <2>3. Running' = Running \cup {u}
    BY <1>t, <2>2 DEF Running
  <2>4. Cardinality(Running') \in {Cardinality(Running), Cardinality(Running) + 1}
    BY <1>n, <2>3, FS_AddElement
  <2> QED BY <1>t, <1>n, <2>2, <2>4 DEF PoolOK
<1>6. CASE \E u \in Unit, how \in {"done", "error", "lost"} : DaemonEnd(u, how)
  <2>1. PICK u \in Unit, how \in {"done", "error", "lost"} : DaemonEnd(u, how)
    BY <1>6
  <2>2. usePar /\ usePar' = usePar /\ daemons' \in {daemons, daemons - 1}
        /\ status[u] = "running" /\ status' = [status EXCEPT ![u] = how]
    BY <2>1 DEF DaemonEnd
  <2>3. u \in Running /\ Running' = Running \ {u}
    BY <1>t, <2>2 DEF Running
  <2>4. Cardinality(Running') = Cardinality(Running) - 1
    BY <1>n, <2>3, FS_RemoveElement
  <2> QED BY <1>t, <1>n, <2>2, <2>4 DEF PoolOK
<1>7. CASE DaemonLeaves
  <2>1. UNCHANGED <<usePar, status>> /\ daemons' = daemons - 1 /\ Cardinality(Running) < daemons
    BY <1>7 DEF DaemonLeaves
  <2>2. Running' = Running
    BY <2>1 DEF Running
  <2> QED BY <1>t, <1>n, <2>1, <2>2 DEF PoolOK
<1> QED
  BY <1>2, <1>3, <1>4, <1>5, <1>6, <1>7 DEF BatchNext

(* ck_batch keeps its inductive invariant in every mode, and never has     *)
(* more tasks running than daemons that are there.                         *)
THEOREM BatchInvariant == BatchSpec => [](BatchInv /\ PoolOK)
<1>1. BatchInit => BatchInv /\ PoolOK
  <2>1. ASSUME BatchInit PROVE Running = {} /\ daemons \in Nat
    BY <2>1, BatchAssumption DEF BatchInit, Running
  <2>2. BatchInit => PoolOK
    BY <2>1, FS_EmptySet DEF PoolOK
  <2> QED BY <2>2, BatchInitInv
<1>2. BatchInv /\ PoolOK /\ [BatchNext]_vars => BatchInv' /\ PoolOK'
  BY BatchStepInv, PoolStep
<1> QED BY <1>1, <1>2, PTL DEF BatchSpec

(* The states of ck_batch are well typed.                                  *)
THEOREM BatchTyped == BatchSpec => []BatchTypeOK
<1>1. BatchInv => BatchTypeOK
  BY DEF BatchInv
<1> QED BY <1>1, BatchInvariant, PTL

(* R's books are exact: no landed window is lost or counted twice.         *)
THEOREM BatchBooksExact == BatchSpec => []AccumulatorsExact
<1>1. BatchInv => AccumulatorsExact
  BY DEF BatchInv
<1> QED BY <1>1, BatchInvariant, PTL

(* A stacked output holds its whole group in band order, for every number  *)
(* of groups and bands and every order of arrival.                         *)
THEOREM BatchStacksComplete == BatchSpec => []StackCompleteInBandOrder
<1>1. BatchInv => StackCompleteInBandOrder
  BY DEF BatchInv
<1> QED BY <1>1, BatchInvariant, PTL

(* When everything was delivered, an output that was not assembled lacks   *)
(* its inputs: none was planned, or the fetch of one failed.               *)
LEMMA UnassembledLacksInputs ==
  ASSUME BatchInv, taken = idx, NEW u \in Outputs, work[u] = <<>>
  PROVE  Inputs(u) = {} \/ Inputs(u) \cap failed # {}
<1> SUFFICES ASSUME Inputs(u) \cap failed = {} PROVE Inputs(u) = {}
  OBVIOUS
<1>1. CASE stack
  <2>1. Inputs(u) = Members(u) /\ u \in Groups
    BY <1>1 DEF Inputs, Outputs
  <2>2. Landed(u) = Members(u)
    BY <2>1 DEF Landed, Members
  <2>3. have[u] = need(u) /\ Elems(acc[u]) = Members(u)
    BY <1>1, <2>1, <2>2, EmptyElems DEF BatchInv, AccumulatorsExact, need
  <2>4. acc[u] = <<>>
    <3>1. Cardinality(Members(u)) \in Nat
      BY GroupSets
    <3> QED BY <1>1, <2>1, <2>3, <3>1 DEF BatchInv, AccOpen, need
  <2> QED BY <2>1, <2>3, <2>4, EmptyElems
<1>2. CASE ~stack
  <2>1. Inputs(u) = idx \cap {u} /\ u \in Src
    BY <1>2 DEF Inputs, Outputs
  <2>2. {u} \cap (taken \ failed) = {}
    BY <1>2, <2>1, EmptyElems DEF BatchInv, AccumulatorsExact
  <2> QED BY <2>1, <2>2
<1> QED BY <1>1, <1>2

(* Every NA ck_batch returns is explained as documented, except after a    *)
(* panic of the driver or the loss of a daemon.                            *)
THEOREM BatchNaExplained == BatchSpec => []NaExplained
<1>1. ASSUME BatchInv PROVE NaExplained
  <2> SUFFICES ASSUME rpc = "returned", NEW u \in Outputs, ret[u] = "NA",
                      driver # "panicked", status[u] # "lost"
               PROVE  NaMeans(u)
    BY DEF NaExplained
  <2>1. u \in Unit
    BY UnitSets
  <2>2. ret[u] = Collect1(u) /\ status[u] \notin {"queued", "running"} /\ eos
        /\ (warned <=> failed # {})
    BY <1>1, <2>1 DEF BatchInv, ThreadOK
  <2>3. status[u] \in {"none", "queued", "running", "done", "error", "lost"}
    BY <1>1, <2>1 DEF BatchInv, BatchTypeOK
  <2>4. status[u] = "none"
    BY <2>2, <2>3 DEF Collect1
  <2>5. work[u] = <<>> /\ taken = idx
    BY <1>1, <2>1, <2>2, <2>4
    DEF BatchInv, StatusMatches, StreamInv, NullMeansDrainedOrPanicked
  <2>6. Inputs(u) = {} \/ Inputs(u) \cap failed # {}
    BY <1>1, <2>5, UnassembledLacksInputs
  <2> QED BY <2>2, <2>6 DEF NaMeans
<1> QED BY <1>1, BatchInvariant, PTL

(* A path ck_batch returns stands for an output with all its inputs.       *)
THEOREM BatchPathsComplete == BatchSpec => []PathMeansComplete
<1>1. ASSUME BatchInv PROVE PathMeansComplete
  <2> SUFFICES ASSUME rpc = "returned", NEW u \in Outputs, ret[u] = "path"
               PROVE  /\ Inputs(u) # {}
                      /\ Elems(work[u]) = Inputs(u)
                      /\ \A s \in Inputs(u) : s \in taken /\ result[s] = "ok"
    BY DEF PathMeansComplete
  <2>1. u \in Unit /\ work[u] # <<>>
    <3>1. u \in Unit
      BY UnitSets
    <3>2. ret[u] = Collect1(u)
      BY <1>1, <3>1 DEF BatchInv, ThreadOK
    <3>3. status[u] # "none"
      BY <3>2 DEF Collect1
    <3> QED BY <1>1, <3>1, <3>3 DEF BatchInv, StatusMatches
  <2>2. Elems(work[u]) # {} /\ Elems(work[u]) \subseteq taken \ failed
    <3>1. work[u] \in Seq(Src)
      BY <1>1, <2>1 DEF BatchInv, BatchTypeOK
    <3>2. Elems(work[u]) # {}
      BY <2>1, <3>1, NoElems
    <3>3. CASE stack
      <4>1. u \in Groups /\ Elems(acc[u]) \cup Elems(work[u]) = Landed(u)
        BY <1>1, <3>3 DEF Outputs, BatchInv, AccumulatorsExact
      <4>2. Landed(u) \subseteq taken \ failed
        BY DEF Landed
      <4> QED BY <3>2, <4>1, <4>2
    <3>4. CASE ~stack
      <4>1. Elems(work[u]) = {u} \cap (taken \ failed)
        BY <1>1, <3>4 DEF Outputs, BatchInv, AccumulatorsExact
      <4> QED BY <3>2, <4>1
    <3> QED BY <3>3, <3>4
  <2>3. Elems(work[u]) = Inputs(u)
    <3>1. CASE stack
      BY <1>1, <2>1, <3>1 DEF Outputs, Inputs, BatchInv, StackCompleteInBandOrder
    <3>2. CASE ~stack
      <4>1. u \in Src /\ Inputs(u) = idx \cap {u}
        BY <3>2 DEF Outputs, Inputs
      <4>2. Elems(work[u]) = {u} \cap (taken \ failed)
        BY <1>1, <3>2, <4>1 DEF BatchInv, AccumulatorsExact
      <4> QED BY <1>1, <2>2, <4>1, <4>2 DEF BatchInv, StreamInv, Conservation
    <3> QED BY <3>1, <3>2
  <2> QED BY <1>1, <2>2, <2>3 DEF BatchInv, OutcomeKnown
<1> QED BY <1>1, BatchInvariant, PTL

-----------------------------------------------------------------------------
(***************************************************************************)
(* The memory bound of the inline, unstacked run.                          *)
(***************************************************************************)

LEMMA InlineFlatInit == BatchInit => InlineFlat
  BY DEF BatchInit, InlineFlat

(* An output of a flat run is made of the one window that has just come.   *)
LEMMA InlineFlatReceives ==
  ASSUME BatchInv, InlineFlat, ReceiveFlat
  PROVE  InlineFlat'
<1> SUFFICES ASSUME ~stack, ~usePar PROVE InlineFlat'
  BY DEF ReceiveFlat, InlineFlat
<1> DEFINE s == Head(chan)
<1>1. UNCHANGED <<stack, usePar, acc>>
      /\ rpc = "take" /\ rpc' = "warp" /\ unit' = s
      /\ work' = [work EXCEPT ![s] = <<s>>]
      /\ status' = [status EXCEPT ![s] = "running"]
  BY DEF ReceiveFlat, Dispatch
<1>2. work \in [Unit -> Seq(Src)] /\ status \in [Unit -> {"none", "queued", "running", "done", "error", "lost"}]
  BY DEF BatchInv, BatchTypeOK
<1>3. \A u \in Unit : work'[u] = IF u = s THEN <<s>> ELSE work[u]
  BY <1>1, <1>2
<1>4. \A u \in Unit : status'[u] = IF u = s THEN "running" ELSE status[u]
  BY <1>1, <1>2
<1>5. Len(<<s>>) <= 1
  OBVIOUS
<1>6. \A u \in Unit : Len(work'[u]) <= 1
  BY <1>3, <1>5 DEF InlineFlat
<1>7. \A u \in Unit : status'[u] \in {"queued", "running"} => rpc' = "warp" /\ u = unit'
  BY <1>1, <1>4 DEF InlineFlat
<1> QED BY <1>1, <1>6, <1>7 DEF InlineFlat

LEMMA InlineFlatStep ==
  ASSUME BatchInv, InlineFlat, [BatchNext]_vars
  PROVE  InlineFlat'
<1>1. CASE Driver \/ Forget \/ UNCHANGED vars
  BY <1>1 DEF Driver, Forget, vars, batchOnlyVars, InlineFlat
<1>2. CASE ReceiveError
  BY <1>2 DEF ReceiveError, InlineFlat
<1>3. CASE ReceiveFlat
  BY <1>3, InlineFlatReceives
<1>4. CASE ReceiveStacked
  BY <1>4 DEF ReceiveStacked, InlineFlat
<1>5. CASE EndDrain
  BY <1>5 DEF EndDrain, InlineFlat
<1>6. CASE WarpDone \/ WarpRaises
  <2>1. status \in [Unit -> {"none", "queued", "running", "done", "error", "lost"}]
    BY DEF BatchInv, BatchTypeOK
  <2>2. UNCHANGED <<stack, usePar, acc, work>>
        /\ (status' = [status EXCEPT ![unit] = "done"] \/ status' = [status EXCEPT ![unit] = "error"])
    BY <1>6 DEF WarpDone, WarpRaises
  <2>3. \A u \in Unit : status'[u] \in {"queued", "running"} => u # unit /\ status'[u] = status[u]
    BY <2>1, <2>2
  <2> QED BY <2>2, <2>3 DEF InlineFlat
<1>7. CASE \E u \in Unit : DaemonStart(u)
  BY <1>7 DEF DaemonStart, InlineFlat
<1>8. CASE \E u \in Unit, how \in {"done", "error", "lost"} : DaemonEnd(u, how)
  BY <1>8 DEF DaemonEnd, InlineFlat
<1>9. CASE Collect
  <2>1. \A u \in Unit : status[u] \notin {"queued", "running"}
    BY <1>9 DEF Collect
  <2>2. UNCHANGED <<stack, usePar, acc, work, status>>
    BY <1>9 DEF Collect
  <2> QED BY <2>1, <2>2 DEF InlineFlat
<1>10. CASE DaemonLeaves
  BY <1>10 DEF DaemonLeaves, InlineFlat
<1> QED BY <1>1, <1>2, <1>3, <1>4, <1>5, <1>6, <1>7, <1>8, <1>9, <1>10 DEF BatchNext

(* A sequence of sources has no more elements than places.                 *)
LEMMA ElemsFinite ==
  ASSUME NEW q \in Seq(Src)
  PROVE  /\ Elems(q) \in SUBSET Src
         /\ Cardinality(Elems(q)) <= Len(q)
<1>1. Elems(q) \in SUBSET Src
  BY DEF Elems
<1>2. IsFiniteSet(1 .. Len(q)) /\ Cardinality(1 .. Len(q)) = Len(q)
  <2>1. Len(q) \in Nat
    OBVIOUS
  <2>2. IsFiniteSet(1 .. Len(q)) /\ Cardinality(1 .. Len(q)) = IF 1 <= Len(q) THEN Len(q) - 1 + 1 ELSE 0
    BY <2>1, FS_Interval
  <2> QED BY <2>1, <2>2
<1> DEFINE at == [i \in 1 .. Len(q) |-> q[i]]
<1>3. at \in Surjection(1 .. Len(q), Elems(q))
  BY DEF Surjection, Elems
<1>4. Cardinality(Elems(q)) <= Cardinality(1 .. Len(q))
  BY <1>2, <1>3, FS_Surjection
<1> QED BY <1>1, <1>2, <1>4

LEMMA UnionBound ==
  ASSUME NEW A \in SUBSET Src, NEW B \in SUBSET Src
  PROVE  Cardinality(A \cup B) <= Cardinality(A) + Cardinality(B)
<1>1. IsFiniteSet(A) /\ IsFiniteSet(B)
  BY SourcesFinite
<1>2. /\ Cardinality(A \cup B) = Cardinality(A) + Cardinality(B) - Cardinality(A \cap B)
  BY <1>1, FS_Union
<1>3. A \cap B \in SUBSET Src
  OBVIOUS
<1>4. /\ Cardinality(A \cap B) \in Nat /\ Cardinality(A) \in Nat /\ Cardinality(B) \in Nat
  BY <1>3, SourcesFinite
<1> QED BY <1>2, <1>4

(* Inline and unstacked, the windows in memory are at most the io fetches, *)
(* those in the channel and the one being assembled.                       *)
THEOREM BatchInlineMemory == BatchSpec => []InlineMemoryBounded
<1>1. BatchInv /\ InlineFlat => InlineMemoryBounded
  <2> SUFFICES ASSUME BatchInv, InlineFlat, ~stack, ~usePar
               PROVE  Cardinality(Held) <= Io + Buf + 1
    BY DEF InlineMemoryBounded
  <2> DEFINE waiting == {s \in parked \cup Sent : result[s] = "ok"}
             inWork == UNION {Elems(work[u]) : u \in {v \in Unit : status[v] \in {"queued", "running"}}}
  <2>1. StreamTypeOK /\ Backpressure
    BY DEF BatchInv, StreamInv
  <2>2. Slots \in SUBSET Src /\ chan \in Seq(Src)
    BY <2>1 DEF StreamTypeOK, Slots
  <2>3. Sent \in SUBSET Src /\ Cardinality(Sent) <= Len(chan)
    BY <2>2, ElemsFinite DEF Sent
  <2>4. inWork \in SUBSET Src /\ Cardinality(inWork) <= 1
    <3>1. CASE \E u \in Unit : status[u] \in {"queued", "running"}
      <4>1. unit \in Unit /\ inWork = Elems(work[unit])
        BY <3>1 DEF InlineFlat
      <4>2. work[unit] \in Seq(Src) /\ Len(work[unit]) <= 1
        BY <4>1 DEF BatchInv, BatchTypeOK, InlineFlat
      <4>3. /\ Elems(work[unit]) \in SUBSET Src
            /\ Cardinality(Elems(work[unit])) <= Len(work[unit])
        BY <4>2, ElemsFinite
      <4>4. Cardinality(Elems(work[unit])) \in Nat /\ Len(work[unit]) \in Nat
        BY <4>2, <4>3, SourcesFinite
      <4>5. Cardinality(Elems(work[unit])) <= 1
        BY <4>2, <4>3, <4>4
      <4> QED BY <4>1, <4>3, <4>5
    <3>2. CASE ~\E u \in Unit : status[u] \in {"queued", "running"}
      <4>1. inWork = {}
        BY <3>2
      <4> QED BY <4>1, FS_EmptySet
    <3> QED BY <3>1, <3>2
  <2>5. Held \subseteq (Slots \cup Sent) \cup inWork
    <3>1. UNION {Elems(acc[g]) : g \in Groups} = {}
      BY EmptyElems DEF InlineFlat
    <3>2. waiting \subseteq Slots \cup Sent
      BY DEF Slots
    <3> QED BY <3>1, <3>2 DEF Held
  <2>6. Slots \cup Sent \in SUBSET Src /\ (Slots \cup Sent) \cup inWork \in SUBSET Src
    BY <2>2, <2>3, <2>4
  <2>7. Cardinality(Held) <= Cardinality((Slots \cup Sent) \cup inWork)
    BY <2>5, <2>6, SourcesFinite
  <2>8. Cardinality((Slots \cup Sent) \cup inWork) <= Cardinality(Slots \cup Sent) + Cardinality(inWork)
    BY <2>4, <2>6, UnionBound
  <2>9. Cardinality(Slots \cup Sent) <= Cardinality(Slots) + Cardinality(Sent)
    BY <2>2, <2>3, UnionBound
  <2>10. Held \in SUBSET Src
    BY <2>5, <2>6
  <2>11. /\ Cardinality(Held) \in Nat /\ Cardinality(inWork) \in Nat
         /\ Cardinality(Slots) \in Nat /\ Cardinality(Sent) \in Nat
    BY <2>2, <2>3, <2>4, <2>10, SourcesFinite
  <2>12. Cardinality(Slots \cup Sent) \in Nat /\ Cardinality((Slots \cup Sent) \cup inWork) \in Nat
    BY <2>6, SourcesFinite
  <2>13. Cardinality(Slots) <= Io /\ Len(chan) <= Buf /\ Len(chan) \in Nat
    BY <2>1, <2>2 DEF Backpressure
  <2> HIDE DEF inWork
  <2> QED
    BY <2>3, <2>4, <2>7, <2>8, <2>9, <2>11, <2>12, <2>13, StreamAssumption
<1> QED
  BY <1>1, InlineFlatInit, InlineFlatStep, BatchInvariant, PTL DEF BatchSpec

-----------------------------------------------------------------------------
(***************************************************************************)
(* The promise of ck_batch.                                                *)
(***************************************************************************)

LEMMA LoopInit == BatchInit => LoopOK
  BY DEF BatchInit, LoopOK

(* The step to an assembly makes an output that was asked for.             *)
LEMMA DispatchLoop ==
  ASSUME BatchInv, LoopOK, rpc = "take", NEW u \in Outputs, NEW q, Dispatch(u, q),
         UNCHANGED <<stack, usePar, warned, ret>>
  PROVE  LoopOK'
<1>1. u \in Unit
  BY UnitSets
<1>2. /\ work \in [Unit -> Seq(Src)]
      /\ status \in [Unit -> {"none", "queued", "running", "done", "error", "lost"}]
  BY DEF BatchInv, BatchTypeOK
<1>3. Outputs' = Outputs
  BY DEF Outputs
<1>4. /\ rpc' \in {"take", "warp"}
      /\ rpc' = "warp" => ~usePar /\ unit' = u /\ status'[u] = "running"
  BY <1>1, <1>2 DEF Dispatch
<1>5. \A v \in Unit : work'[v] # <<>> => v \in Outputs
  BY <1>1, <1>2 DEF Dispatch, LoopOK
<1> QED
  BY <1>3, <1>4, <1>5 DEF LoopOK

LEMMA LoopStep ==
  ASSUME BatchInv, LoopOK, [BatchNext]_vars
  PROVE  LoopOK'
<1>t. /\ status \in [Unit -> {"none", "queued", "running", "done", "error", "lost"}]
      /\ rpc = "warp" => unit \in Unit
  BY DEF BatchInv, BatchTypeOK, ThreadOK
<1>1. CASE Driver \/ Forget \/ UNCHANGED vars
  BY <1>1 DEF Driver, Forget, vars, batchOnlyVars, LoopOK, Outputs
<1>2. CASE ReceiveError
  BY <1>2 DEF ReceiveError, LoopOK, Outputs
<1>3. CASE ReceiveFlat
  <2>1. Head(chan) \in Outputs
    BY <1>3, HeadIsNew DEF ReceiveFlat, Outputs
  <2> QED
    BY <1>3, <2>1, DispatchLoop DEF ReceiveFlat
<1>4. CASE ReceiveStacked
  <2>1. GroupOf[Head(chan)] \in Outputs
    BY <1>4, HeadIsNew, BatchAssumption DEF ReceiveStacked, Outputs
  <2>2. CASE \E p : Dispatch(GroupOf[Head(chan)], p)
    BY <1>4, <2>1, <2>2, DispatchLoop DEF ReceiveStacked
  <2>3. CASE UNCHANGED <<work, status, rpc, unit>>
    BY <1>4, <2>3 DEF ReceiveStacked, LoopOK, Outputs
  <2> QED
    BY <1>4, <2>2, <2>3 DEF ReceiveStacked
<1>5. CASE EndDrain
  BY <1>5 DEF EndDrain, LoopOK, Outputs
<1>6. CASE WarpDone \/ WarpRaises
  BY <1>6 DEF WarpDone, WarpRaises, LoopOK, Outputs
<1>7. CASE \E u \in Unit : DaemonStart(u)
  BY <1>7 DEF DaemonStart, LoopOK, Outputs
<1>8. CASE \E u \in Unit, how \in {"done", "error", "lost"} : DaemonEnd(u, how)
  BY <1>8 DEF DaemonEnd, LoopOK, Outputs
<1>9. CASE Collect
  BY <1>9 DEF Collect, LoopOK, Outputs
<1>10. CASE DaemonLeaves
  BY <1>10 DEF DaemonLeaves, LoopOK, Outputs
<1> QED BY <1>1, <1>2, <1>3, <1>4, <1>5, <1>6, <1>7, <1>8, <1>9, <1>10 DEF BatchNext

(* Within a group, a later band is a later source.                         *)
LEMMA BandsAreSources ==
  ASSUME NEW s \in Src, NEW t \in Src, GroupOf[s] = GroupOf[t], BandOf(s) < BandOf(t)
  PROVE  s < t
<1> DEFINE upto(x) == {r \in Src : GroupOf[r] = GroupOf[x] /\ r <= x}
<1>1. s \in Nat /\ t \in Nat /\ Src \subseteq Nat
  BY StreamAssumption DEF Src
<1>2. ASSUME t <= s PROVE FALSE
  <2>1. upto(t) \subseteq upto(s) /\ upto(s) \in SUBSET Src /\ upto(t) \in SUBSET Src
    <3>1. \A r \in Src : r <= t => r <= s
      BY <1>1, <1>2
    <3> QED
      BY <3>1
  <2>2. /\ Cardinality(upto(t)) <= Cardinality(upto(s))
        /\ Cardinality(upto(t)) \in Nat /\ Cardinality(upto(s)) \in Nat
    BY <2>1, SourcesFinite
  <2>3. BandOf(s) = Cardinality(upto(s)) /\ BandOf(t) = Cardinality(upto(t))
    BY DEF BandOf
  <2> HIDE DEF upto
  <2> QED
    BY <2>2, <2>3
<1> QED
  BY <1>1, <1>2

(* An increasing sequence lists its elements in order.                     *)
LEMMA IncreasingListing ==
  ASSUME NEW p \in Seq(Src), \A i, j \in DOMAIN p : i < j => p[i] < p[j]
  PROVE  p \in Batch!InOrder(Elems(p))
<1>1. Len(p) \in Nat /\ DOMAIN p = 1 .. Len(p) /\ p \in [1 .. Len(p) -> Src]
  BY LenProperties
<1>2. Elems(p) \in SUBSET Src /\ p \in [1 .. Len(p) -> Elems(p)]
  BY <1>1 DEF Elems
<1>3. Src \subseteq Nat
  BY DEF Src
<1>4. ASSUME NEW i \in 1 .. Len(p), NEW j \in 1 .. Len(p), p[i] = p[j]
      PROVE  i = j
  <2>1. p[i] \in Nat
    BY <1>1, <1>3
  <2>2. ~(i < j) /\ ~(j < i)
    BY <1>1, <1>4, <2>1
  <2> QED
    BY <2>2, <1>1
<1>5. ExistsBijection(1 .. Len(p), Elems(p))
  <2>1. p \in Injection(1 .. Len(p), Elems(p))
    BY <1>2, <1>4 DEF Injection, IsInjective
  <2>2. p \in Surjection(1 .. Len(p), Elems(p))
    BY <1>1, <1>2 DEF Surjection, Elems
  <2> QED
    BY <2>1, <2>2 DEF ExistsBijection, Bijection
<1>6. IsFiniteSet(1 .. Len(p)) /\ Cardinality(1 .. Len(p)) = Len(p)
  <2>1. IsFiniteSet(1 .. Len(p)) /\ Cardinality(1 .. Len(p)) = IF 1 <= Len(p) THEN Len(p) - 1 + 1 ELSE 0
    BY <1>1, FS_Interval
  <2> QED BY <1>1, <2>1
<1>7. Cardinality(Elems(p)) = Len(p)
  BY <1>5, <1>6, FS_Bijection
<1>8. \A s \in Elems(p) : \E i \in DOMAIN p : p[i] = s
  BY DEF Elems
<1>9. p \in [1 .. Cardinality(Elems(p)) -> Elems(p)]
  BY <1>2, <1>7
<1>10. Batch!Cardinality(Elems(p)) = Cardinality(Elems(p))
  BY Zenon DEF Batch!Cardinality, Cardinality
<1> QED
  BY <1>8, <1>9, <1>10, Zenon DEF Batch!InOrder

LEMMA AwaitedIs ==
  /\ stack => \A u : Batch!Awaited(u) = Members(u)
  /\ ~stack => \A u \in Src : idx \in SUBSET Src => Batch!Awaited(u) = idx \cap {u}
  BY DEF Batch!Awaited, Home, Members

LEMMA InitPromised == BatchInit => Batch!OutInit
<1> SUFFICES ASSUME BatchInit PROVE Batch!OutInit
  OBVIOUS
<1>1. Home \in [Src -> Unit]
  <2>1. GroupOf \in [Src -> Unit]
    BY UnitSets, BatchAssumption
  <2>2. [s \in Src |-> s] \in [Src -> Unit]
    BY UnitSets
  <2> QED
    BY <2>1, <2>2 DEF Home
<1>2. idx \in SUBSET Src /\ taken \ failed = {} /\ failed = {} /\ ~(driver = "panicked")
  BY DEF BatchInit, StreamInit
<1>3. Spoiled = {} /\ Files = {} /\ Ended = "no"
  BY DEF BatchInit, Spoiled, Files, Ended
<1>4. work = [u \in Unit |-> <<>>] /\ warned = FALSE
  BY DEF BatchInit
<1> QED
  BY <1>1, <1>2, <1>3, <1>4 DEF Batch!OutInit

(* A window that R takes is one the promise may still answer.              *)
LEMMA HeadAnswerable ==
  ASSUME BatchInv, LoopOK, rpc = "take", Take
  PROVE  Batch!Answerable(Head(chan))
<1>1. Head(chan) \in idx /\ Head(chan) \notin taken /\ failed \subseteq taken
  BY HeadIsNew DEF BatchInv, AccumulatorsExact
<1>2. ~warned /\ Ended = "no"
  BY DEF LoopOK, Ended
<1> QED
  BY <1>1, <1>2 DEF Batch!Answerable

LEMMA ErrorPromised ==
  ASSUME BatchInv, LoopOK, LoopOK', ReceiveError
  PROVE  Batch!Lose(Head(chan))
<1>1. /\ taken' = taken \cup {Head(chan)} /\ failed' = failed \cup {Head(chan)}
      /\ Head(chan) \notin taken /\ rpc = "take"
      /\ UNCHANGED <<idx, driver, stack, work, status, rpc, warned, ret>>
  BY HeadIsNew DEF ReceiveError
<1>2. (taken \ failed)' = taken \ failed
  BY <1>1
<1>3. UNCHANGED <<Home, Spoiled, Files, Ended>>
  BY <1>1 DEF Home, Spoiled, Files, Ended
<1>4. Batch!Answerable(Head(chan))
  BY HeadAnswerable DEF ReceiveError
<1> QED
  BY <1>1, <1>2, <1>3, <1>4 DEF Batch!Lose

(* A window that lands, whether it completes an output or not.             *)
LEMMA LandPromised ==
  ASSUME BatchInv, BatchInv', LoopOK, LoopOK', rpc = "take", Take,
         NEW s, s = Head(chan), NEW u \in Unit, u = Home[s],
         UNCHANGED <<stack, failed, warned, ret>>, rpc' \in {"take", "warp"},
         Spoiled' = Spoiled,
         \/ /\ Batch!Awaited(u) \subseteq (taken \ failed)'
            /\ \E p \in Batch!InOrder(Batch!Awaited(u)) : work' = [work EXCEPT ![u] = p]
         \/ /\ ~(Batch!Awaited(u) \subseteq (taken \ failed)')
            /\ work' = work
  PROVE  Batch!Land(s)
<1>1. /\ taken' = taken \cup {s} /\ s \notin taken
      /\ UNCHANGED <<idx, driver>>
  BY HeadIsNew
<1>2. (taken \ failed)' = (taken \ failed) \cup {s}
  BY <1>1 DEF BatchInv, AccumulatorsExact
<1>3. UNCHANGED <<Home, Files, Ended>>
  BY DEF Home, Files, Ended
<1>4. Batch!Answerable(s)
  BY HeadAnswerable
<1>5. /\ (driver = "panicked")' = (driver = "panicked")
      /\ UNCHANGED <<idx, failed, warned>>
  BY <1>1
<1> QED
  BY <1>2, <1>3, <1>4, <1>5 DEF Batch!Land

(* A new assembly fails no output, and no failed one is started again.     *)
LEMMA DispatchSpoilsNone ==
  ASSUME BatchInv, NEW u \in Unit, work[u] = <<>>, NEW q, Dispatch(u, q)
  PROVE  Spoiled' = Spoiled
<1>1. status \in [Unit -> {"none", "queued", "running", "done", "error", "lost"}]
      /\ status[u] = "none"
  BY DEF BatchInv, BatchTypeOK, StatusMatches
<1>2. \E x \in {"queued", "running"} : status' = [status EXCEPT ![u] = x]
  BY DEF Dispatch
<1> QED
  BY <1>1, <1>2 DEF Spoiled

LEMMA FlatPromised ==
  ASSUME BatchInv, BatchInv', LoopOK, LoopOK', ReceiveFlat
  PROVE  Batch!Land(Head(chan))
<1>s. PICK s \in Src : s = Head(chan)
  BY HeadIsNew DEF ReceiveFlat
<1>1. /\ s \in idx /\ s \notin taken /\ taken' = taken \cup {s} /\ result[s] = "ok"
      /\ rpc = "take" /\ ~stack /\ Dispatch(s, <<s>>) /\ Take /\ idx' = idx
      /\ UNCHANGED <<stack, failed, warned, ret>>
  BY <1>s, HeadIsNew DEF ReceiveFlat
<1>2. s \in Unit /\ Home[s] = s
  BY <1>1, UnitSets DEF Home
<1>3. idx \in SUBSET Src
  BY DEF BatchInv, StreamInv, StreamTypeOK
<1>4. Batch!Awaited(s) = {s}
  BY <1>1, <1>3, AwaitedIs
<1>5. s \in (taken \ failed)'
  BY <1>1 DEF BatchInv, AccumulatorsExact
<1>6. <<s>> \in Batch!InOrder({s})
  <2>1. <<s>> \in Seq(Src) /\ Elems(<<s>>) = {s} /\ DOMAIN <<s>> = {1}
    BY DEF Elems
  <2>2. \A i, j \in DOMAIN <<s>> : i < j => <<s>>[i] < <<s>>[j]
    BY <2>1
  <2> QED
    BY <2>1, <2>2, IncreasingListing
<1>7. work[s] = <<>> /\ work' = [work EXCEPT ![s] = <<s>>]
  <2>1. work[s] \in Seq(Src) /\ Elems(work[s]) = {}
    <3>1. Elems(work[s]) = {s} \cap (taken \ failed)
      BY <1>1 DEF BatchInv, AccumulatorsExact
    <3> QED
      BY <1>1, <1>2, <3>1 DEF BatchInv, BatchTypeOK
  <2> QED
    BY <2>1, <1>1, NoElems DEF Dispatch
<1>8. Spoiled' = Spoiled
  BY <1>1, <1>2, <1>7, DispatchSpoilsNone
<1>9. rpc' \in {"take", "warp"}
  BY <1>1 DEF Dispatch
<1>10. \E p \in Batch!InOrder(Batch!Awaited(s)) : work' = [work EXCEPT ![s] = p]
  BY <1>4, <1>6, <1>7
<1>11. Batch!Awaited(s) \subseteq (taken \ failed)'
  BY <1>4, <1>5
<1> QED
  BY <1>s, <1>1, <1>2, <1>8, <1>9, <1>10, <1>11, LandPromised

LEMMA StackedPromised ==
  ASSUME BatchInv, BatchInv', LoopOK, LoopOK', ReceiveStacked,
         \A v \in Unit : work[v] # <<>> => work'[v] = work[v]
  PROVE  Batch!Land(Head(chan))
<1>s. PICK s \in Src : s = Head(chan)
  BY HeadIsNew DEF ReceiveStacked
<1>g. PICK g \in Groups : g = GroupOf[s]
  BY BatchAssumption
<1>1. /\ s \in idx /\ s \notin taken /\ taken' = taken \cup {s} /\ result[s] = "ok"
      /\ rpc = "take" /\ stack /\ Take /\ idx' = idx
      /\ have' = [have EXCEPT ![g] = @ + 1]
      /\ UNCHANGED <<stack, failed, warned, ret>>
  BY <1>s, <1>g, HeadIsNew DEF ReceiveStacked
<1>2. \/ /\ have[g] + 1 >= need(g)
         /\ \E p : Dispatch(g, p) /\ p # <<>>
      \/ /\ ~(have[g] + 1 >= need(g))
         /\ UNCHANGED <<work, status, rpc>>
  <2>1. Append(acc[g], s) \in Seq(Src) /\ Append(acc[g], s) # <<>>
    <3>1. acc[g] \in Seq(Src)
      BY DEF BatchInv, BatchTypeOK
    <3> QED
      BY <3>1, AppendProperties
  <2>2. \A p \in InBandOrder(Append(acc[g], s)) : p # <<>>
    BY <2>1, BandOrder
  <2> QED
    BY <1>s, <1>g, <2>2 DEF ReceiveStacked
<1>3. g \in Unit /\ Home[s] = g /\ s \in Members(g)
  BY <1>1, <1>g, UnitSets DEF Home, Members
<1>4. Batch!Awaited(g) = Members(g) /\ Members(g)' = Members(g)
  BY <1>1, AwaitedIs DEF Members
<1>5. /\ have'[g] = have[g] + 1 /\ have'[g] = Cardinality(Landed(g)')
      /\ have[g] \in Nat
  BY <1>1 DEF BatchInv, BatchTypeOK, AccumulatorsExact
<1>6. /\ Landed(g)' \subseteq Members(g) /\ IsFiniteSet(Members(g))
      /\ Cardinality(Members(g)) \in Nat
  <2>1. Landed(g)' = {t \in taken' \ failed' : GroupOf[t] = g} /\ taken' \subseteq idx
    BY <1>1 DEF Landed, BatchInv, StreamInv, Conservation
  <2> QED
    BY <2>1, GroupSets DEF Members
<1>7. have[g] + 1 >= need(g) <=> Members(g) \subseteq (taken \ failed)'
  <2>1. ASSUME have[g] + 1 >= need(g) PROVE Members(g) \subseteq (taken \ failed)'
    <3>1. Cardinality(Landed(g)') <= Cardinality(Members(g))
      BY <1>6, FS_Subset
    <3>2. Landed(g)' = Members(g)
      BY <1>5, <1>6, <2>1, <3>1, FS_Subset DEF need
    <3> QED
      BY <3>2 DEF Landed
  <2>2. ASSUME Members(g) \subseteq (taken \ failed)' PROVE have[g] + 1 >= need(g)
    <3>1. Landed(g)' = Members(g)
      BY <1>6, <2>2 DEF Landed, Members
    <3> QED
      BY <1>5, <1>6, <3>1 DEF need
  <2> QED
    BY <2>1, <2>2
<1>8. CASE /\ have[g] + 1 >= need(g)
           /\ \E p : Dispatch(g, p) /\ p # <<>>
  <2>1. PICK p : Dispatch(g, p) /\ p # <<>>
    BY <1>8
  <2>2. work' = [work EXCEPT ![g] = p] /\ work'[g] = p
    BY <2>1, <1>3 DEF Dispatch, BatchInv, BatchTypeOK
  <2>3. work[g] = <<>>
    <3>1. Elems(work[g]) \subseteq taken
      BY <1>1, GroupSets DEF BatchInv, AccumulatorsExact
    <3> QED
      BY <1>1, <1>3, <3>1 DEF BatchInv, StackCompleteInBandOrder
  <2>4. p \in Seq(Src)
    BY <2>2, <1>3 DEF BatchInv, BatchTypeOK
  <2>5. /\ Elems(p) = Members(g)
        /\ \A i, j \in DOMAIN p : i < j => BandOf(p[i]) < BandOf(p[j])
    BY <1>1, <1>4, <2>1, <2>2 DEF BatchInv, StackCompleteInBandOrder
  <2>6. \A i, j \in DOMAIN p : i < j => p[i] < p[j]
    <3> SUFFICES ASSUME NEW i \in DOMAIN p, NEW j \in DOMAIN p, i < j
                 PROVE  p[i] < p[j]
      OBVIOUS
    <3>1. p[i] \in Members(g) /\ p[j] \in Members(g) /\ p[i] \in Src /\ p[j] \in Src
      BY <2>4, <2>5 DEF Elems
    <3>2. GroupOf[p[i]] = GroupOf[p[j]] /\ BandOf(p[i]) < BandOf(p[j])
      BY <2>5, <3>1 DEF Members
    <3> QED
      BY <3>1, <3>2, BandsAreSources
  <2>7. p \in Batch!InOrder(Batch!Awaited(g))
    BY <1>4, <2>4, <2>5, <2>6, IncreasingListing
  <2>8. Batch!Awaited(g) \subseteq (taken \ failed)'
    BY <1>4, <1>7, <1>8
  <2>9. Spoiled' = Spoiled /\ rpc' \in {"take", "warp"}
    BY <1>1, <1>3, <2>1, <2>3, DispatchSpoilsNone DEF Dispatch
  <2> QED
    BY <1>s, <1>1, <1>3, <2>2, <2>7, <2>8, <2>9, LandPromised
<1>9. CASE /\ ~(have[g] + 1 >= need(g))
           /\ UNCHANGED <<work, status, rpc>>
  <2>1. ~(Batch!Awaited(g) \subseteq (taken \ failed)')
    BY <1>4, <1>7, <1>9
  <2>2. Spoiled' = Spoiled /\ rpc' \in {"take", "warp"} /\ work' = work
    BY <1>1, <1>9 DEF Spoiled
  <2> QED
    BY <1>s, <1>1, <1>3, <2>1, <2>2, LandPromised
<1> QED
  BY <1>2, <1>8, <1>9

LEMMA CollectPromised ==
  ASSUME BatchInv, BatchInv', LoopOK, Collect
  PROVE  Batch!Finish
<1>1. /\ rpc = "collect" /\ rpc' = "returned"
      /\ ret' = [u \in Unit |-> IF u \in Outputs THEN Collect1(u) ELSE "unset"]
      /\ \A u \in Unit : status[u] \notin {"queued", "running"}
      /\ UNCHANGED <<idx, driver, taken, stack, failed, work, status, warned>>
  BY DEF Collect, streamVars
<1>2. Ended = "no" /\ Ended' = "returned"
  BY <1>1 DEF Ended
<1>3. eos /\ (warned <=> failed # {})
  BY <1>1 DEF BatchInv, ThreadOK
<1>4. driver = "panicked" \/ (taken \ failed) \cup failed = idx
  BY <1>3 DEF BatchInv, AccumulatorsExact, StreamInv, NullMeansDrainedOrPanicked
<1>5. Files' = {u \in Unit : work[u] # <<>>} \ Spoiled
  <2>1. ASSUME NEW u \in Unit
        PROVE  ret'[u] = "path" <=> work[u] # <<>> /\ u \notin Spoiled
    <3>1. ret'[u] = IF u \in Outputs THEN Collect1(u) ELSE "unset"
      BY <1>1
    <3>2. status[u] \in {"none", "done", "error", "lost"}
      BY <1>1 DEF BatchInv, BatchTypeOK
    <3>3. ret'[u] = "path" <=> u \in Outputs /\ status[u] = "done"
      BY <3>1, <3>2 DEF Collect1
    <3>4. work[u] # <<>> <=> status[u] # "none"
      BY DEF BatchInv, StatusMatches
    <3>5. work[u] # <<>> => u \in Outputs
      BY DEF LoopOK
    <3> QED
      BY <3>2, <3>3, <3>4, <3>5 DEF Spoiled
  <2> QED
    BY <2>1 DEF Files
<1>6. UNCHANGED <<Home, Spoiled>>
  BY <1>1 DEF Home, Spoiled
<1> QED
  BY <1>1, <1>2, <1>3, <1>4, <1>5, <1>6 DEF Batch!Finish

(* An assembly that fails spoils its output and no other.                  *)
LEMMA FailurePromised ==
  ASSUME BatchInv, LoopOK, rpc # "returned", NEW u \in Unit, NEW how \in {"error", "lost"},
         work[u] # <<>>, status' = [status EXCEPT ![u] = how],
         rpc' \in {rpc, "raised"},
         UNCHANGED <<streamVars, stack, failed, work, warned, ret>>
  PROVE  Batch!Spoil(u)
<1>1. status \in [Unit -> {"none", "queued", "running", "done", "error", "lost"}]
  BY DEF BatchInv, BatchTypeOK
<1>2. Spoiled' = Spoiled \cup {u}
  BY <1>1 DEF Spoiled
<1>3. Ended # "returned" /\ Ended' \in {Ended, "raised"}
  BY DEF Ended
<1>4. UNCHANGED <<Home, Files>>
  BY DEF Home, Files
<1>5. /\ UNCHANGED <<idx, failed, work, warned>> /\ (taken \ failed)' = taken \ failed
      /\ (driver = "panicked")' = (driver = "panicked")
  BY DEF streamVars
<1> QED
  BY <1>2, <1>3, <1>4, <1>5 DEF Batch!Spoil

(* Nothing the promise speaks of has changed.                              *)
LEMMA NothingPromised ==
  ASSUME UNCHANGED <<idx, taken, stack, failed, work, warned>>,
         UNCHANGED <<Spoiled, Files, Ended>>,
         (driver = "panicked")' = (driver = "panicked")
  PROVE  UNCHANGED Batch!outVars
<1>1. UNCHANGED Home /\ (taken \ failed)' = taken \ failed
  BY DEF Home
<1> QED
  BY <1>1 DEF Batch!outVars

LEMMA DriverPromised ==
  ASSUME Driver
  PROVE  Batch!Cut \/ UNCHANGED Batch!outVars
<1>1. UNCHANGED <<idx, taken, stack, failed, work, warned, status, ret, rpc>>
  BY DEF Driver, batchOnlyVars, DriverNext, Pull, Finish, Send, SendClosed, Panic, DriverEnd, Abort
<1>2. driver' = "panicked" \/ (driver = "running" /\ driver' # "panicked")
  BY DEF Driver, DriverNext, Pull, Finish, Send, SendClosed, Panic, DriverEnd, Abort
<1>3. UNCHANGED <<Home, Spoiled, Files, Ended>> /\ (taken \ failed)' = taken \ failed
  BY <1>1 DEF Home, Spoiled, Files, Ended
<1>4. CASE driver' = "panicked"
  BY <1>1, <1>3, <1>4 DEF Batch!Cut
<1>5. CASE driver = "running" /\ driver' # "panicked"
  <2>1. (driver = "panicked")' = (driver = "panicked")
    BY <1>5
  <2> QED
    BY <1>1, <1>3, <2>1, NothingPromised
<1> QED
  BY <1>2, <1>4, <1>5

LEMMA StepPromised ==
  ASSUME BatchInv, BatchInv', LoopOK, LoopOK', [BatchNext]_vars
  PROVE  [Batch!OutNext]_Batch!outVars
<1>1. CASE Driver
  BY <1>1, DriverPromised DEF Batch!OutNext
<1>2. CASE ReceiveError
  <2>1. Head(chan) \in Src
    BY <1>2, HeadIsNew DEF ReceiveError
  <2> QED
    BY <1>2, <2>1, ErrorPromised DEF Batch!OutNext
<1>3. CASE ReceiveFlat \/ ReceiveStacked
  <2>1. Head(chan) \in Src
    BY <1>3, HeadIsNew DEF ReceiveFlat, ReceiveStacked
  <2>2. \A v \in Unit : work[v] # <<>> => work'[v] = work[v]
    BY <1>3, ReceiveFlatKeeps, ReceiveStackedKeeps DEF BatchInv
  <2>3. Batch!Land(Head(chan))
    BY <1>3, <2>2, FlatPromised, StackedPromised
  <2> QED
    BY <2>1, <2>3 DEF Batch!OutNext
<1>4. CASE EndDrain
  <2>1. /\ UNCHANGED <<idx, taken, driver, stack, failed, work, status, ret>>
        /\ rpc = "take" /\ rpc' = "collect" /\ warned' = (failed # {}) /\ ~warned
    BY <1>4 DEF EndDrain, TakeNull, LoopOK
  <2>2. UNCHANGED <<Home, Spoiled, Files, Ended>> /\ Ended = "no"
        /\ (taken \ failed)' = taken \ failed
        /\ (driver = "panicked")' = (driver = "panicked")
    BY <2>1 DEF Home, Spoiled, Files, Ended
  <2>3. CASE failed # {}
    <3>1. warned' = TRUE
      BY <2>1, <2>3
    <3>2. Batch!Warn
      BY <2>1, <2>2, <2>3, <3>1 DEF Batch!Warn
    <3> QED
      BY <3>2 DEF Batch!OutNext
  <2>4. CASE failed = {}
    <3>1. warned \in BOOLEAN
      BY DEF BatchInv, BatchTypeOK
    <3>2. warned' = warned
      BY <2>1, <2>4, <3>1
    <3> QED
      BY <2>1, <2>2, <3>2, NothingPromised
  <2> QED
    BY <2>3, <2>4
<1>5. CASE WarpDone
  <2>1. /\ UNCHANGED <<idx, taken, driver, stack, failed, work, warned, ret>>
        /\ rpc = "warp" /\ rpc' = "take" /\ status' = [status EXCEPT ![unit] = "done"]
    BY <1>5 DEF WarpDone, streamVars
  <2>2. status[unit] = "running"
        /\ status \in [Unit -> {"none", "queued", "running", "done", "error", "lost"}]
    BY <2>1 DEF LoopOK, BatchInv, BatchTypeOK
  <2>3. UNCHANGED <<Spoiled, Files, Ended>>
    BY <2>1, <2>2 DEF Spoiled, Files, Ended
  <2> QED
    BY <2>1, <2>3, NothingPromised
<1>6. CASE WarpRaises
  <2>1. unit \in Unit /\ work[unit] # <<>> /\ rpc # "returned"
    BY <1>6 DEF WarpRaises, BatchInv, ThreadOK
  <2>2. Batch!Spoil(unit)
    BY <1>6, <2>1, FailurePromised DEF WarpRaises
  <2> QED
    BY <2>1, <2>2 DEF Batch!OutNext
<1>7. CASE \E u \in Unit : DaemonStart(u)
  <2>1. PICK u \in Unit : DaemonStart(u)
    BY <1>7
  <2>2. /\ UNCHANGED <<idx, taken, driver, stack, failed, work, warned, ret, rpc>>
        /\ status[u] = "queued" /\ status' = [status EXCEPT ![u] = "running"]
    BY <2>1 DEF DaemonStart, streamVars
  <2>3. UNCHANGED <<Spoiled, Files, Ended>>
    BY <2>2 DEF Spoiled, Files, Ended, BatchInv, BatchTypeOK
  <2> QED
    BY <2>2, <2>3, NothingPromised
<1>8. CASE \E u \in Unit, how \in {"done", "error", "lost"} : DaemonEnd(u, how)
  <2>1. PICK u \in Unit, how \in {"done", "error", "lost"} : DaemonEnd(u, how)
    BY <1>8
  <2>2. /\ UNCHANGED <<streamVars, stack, failed, work, warned, ret, rpc>>
        /\ status[u] = "running" /\ status' = [status EXCEPT ![u] = how]
    BY <2>1 DEF DaemonEnd
  <2>3. CASE how = "done"
    <3>1. UNCHANGED <<Spoiled, Files, Ended>>
      BY <2>2, <2>3 DEF Spoiled, Files, Ended, BatchInv, BatchTypeOK
    <3>2. UNCHANGED <<idx, taken, driver>>
      BY <2>2 DEF streamVars
    <3> QED
      BY <2>2, <3>1, <3>2, NothingPromised
  <2>4. CASE how \in {"error", "lost"}
    <3>1. work[u] # <<>> /\ rpc # "returned"
      BY <2>2 DEF BatchInv, StatusMatches, ThreadOK
    <3>2. Batch!Spoil(u)
      BY <2>2, <2>4, <3>1, FailurePromised
    <3> QED
      BY <3>2 DEF Batch!OutNext
  <2> QED
    BY <2>3, <2>4
<1>9. CASE Collect
  BY <1>9, CollectPromised DEF Batch!OutNext
<1>10. CASE DaemonLeaves \/ Forget \/ UNCHANGED vars
  <2>1. UNCHANGED <<idx, taken, driver, stack, failed, work, warned, status, ret, rpc>>
    BY <1>10 DEF DaemonLeaves, Forget, DropSession, vars, streamVars, batchOnlyVars
  <2>2. UNCHANGED <<Spoiled, Files, Ended>>
    BY <2>1 DEF Spoiled, Files, Ended
  <2> QED
    BY <2>1, <2>2, NothingPromised
<1> QED
  BY <1>1, <1>2, <1>3, <1>4, <1>5, <1>6, <1>7, <1>8, <1>9, <1>10 DEF BatchNext

(* ck_batch keeps its promise for every number of sources, every grouping, *)
(* mode and pool: each output is made once, in source order, from all its  *)
(* windows, when the last one lands, and only such outputs are returned.   *)
THEOREM BatchKeepsPromise == BatchSpec => BatchPromiseKept
<1>1. BatchInit => LoopOK /\ Batch!OutInit
  BY LoopInit, InitPromised
<1>2. BatchInv /\ LoopOK /\ [BatchNext]_vars => LoopOK'
  BY LoopStep
<1>3. BatchInv /\ BatchInv' /\ LoopOK /\ LoopOK' /\ [BatchNext]_vars
        => [Batch!OutNext]_Batch!outVars
  BY StepPromised
<1> QED
  BY <1>1, <1>2, <1>3, BatchInvariant, PTL DEF BatchSpec, BatchPromiseKept, Batch!OutSpec

-----------------------------------------------------------------------------
(***************************************************************************)
(* What is documented of NA and of the paths holds where its exceptions    *)
(* cannot arise: without a panic and without failing daemons.              *)
(***************************************************************************)
Unharmed ==
  /\ ~CanPanic => driver # "panicked"
  /\ ~DaemonsFail => \A u \in Unit :
       /\ status[u] # "lost"
       /\ status[u] = "error" => rpc = "raised"

LEMMA UnharmedStep ==
  ASSUME BatchInv, Unharmed, [BatchNext]_vars
  PROVE  Unharmed'
<1>t. status \in [Unit -> {"none", "queued", "running", "done", "error", "lost"}]
  BY DEF BatchInv, BatchTypeOK
<1>1. ~CanPanic => driver' # "panicked"
  <2>1. [StreamNext]_streamVars
    BY StepOfStream
  <2> QED
    BY <2>1 DEF Unharmed, StreamNext, DriverNext, Pull, Finish, Send, SendClosed, Panic, DriverEnd,
       Abort, Take, TakeNull, DropSession, streamVars
<1> DEFINE sound(x) == \A u \in Unit : status'[u] # "lost" /\ (status'[u] = "error" => x = "raised")
<1> SUFFICES ASSUME ~DaemonsFail PROVE sound(rpc')
  BY <1>1 DEF Unharmed
<1>2. sound(rpc) \/ status' # status
  BY DEF Unharmed
<1>3. CASE Driver \/ Forget \/ ReceiveError \/ UNCHANGED vars
  BY <1>2, <1>3 DEF Driver, Forget, ReceiveError, batchOnlyVars, vars
<1>4. CASE EndDrain \/ Collect
  BY <1>2, <1>4 DEF EndDrain, Collect, Unharmed
<1>5. CASE ReceiveFlat \/ ReceiveStacked
  <2>1. rpc = "take"
    BY <1>5 DEF ReceiveFlat, ReceiveStacked
  <2>2. \/ UNCHANGED status
        \/ \E u, q : Dispatch(u, q)
    BY <1>5 DEF ReceiveFlat, ReceiveStacked
  <2>3. CASE UNCHANGED status
    BY <2>1, <2>3 DEF Unharmed
  <2>4. CASE \E u, q : Dispatch(u, q)
    <3>1. PICK u : \E q : Dispatch(u, q)
      BY <2>4
    <3>2. \/ status' = [status EXCEPT ![u] = "queued"]
          \/ status' = [status EXCEPT ![u] = "running"]
      BY <3>1 DEF Dispatch
    <3> QED
      BY <1>t, <2>1, <3>2 DEF Unharmed
  <2> QED
    BY <2>2, <2>3, <2>4
<1>6. CASE WarpDone
  BY <1>t, <1>6 DEF WarpDone, Unharmed
<1>7. CASE WarpRaises
  BY <1>t, <1>7 DEF WarpRaises, Unharmed
<1>8. CASE \E u \in Unit : DaemonStart(u)
  BY <1>t, <1>8 DEF DaemonStart, Unharmed
<1>9. CASE \E u \in Unit, how \in {"done", "error", "lost"} : DaemonEnd(u, how)
  BY <1>t, <1>9 DEF DaemonEnd, Unharmed
<1>10. CASE DaemonLeaves
  BY <1>10 DEF DaemonLeaves
<1> QED
  BY <1>3, <1>4, <1>5, <1>6, <1>7, <1>8, <1>9, <1>10 DEF BatchNext

LEMMA UnharmedAlways == BatchSpec => []Unharmed
<1>1. BatchInit => Unharmed
  BY DEF BatchInit, StreamInit, Unharmed
<1> QED
  BY <1>1, UnharmedStep, BatchInvariant, PTL DEF BatchSpec

(* An NA means what ck_batch documents (no overlap, or a failed fetch that *)
(* was warned of) wherever no fetch panics and no daemon fails.            *)
THEOREM BatchNaDocumented ==
  ASSUME ~CanPanic, ~DaemonsFail
  PROVE  BatchSpec => []NaIsDocumented
<1>1. NaExplained /\ Unharmed => NaIsDocumented
  BY UnitSets DEF NaExplained, NaIsDocumented, Unharmed
<1> QED
  BY <1>1, BatchNaExplained, UnharmedAlways, PTL

(* ck_batch returns paths and NA only, as documented, wherever no daemon   *)
(* fails: an error of an inline assembly is raised and never returned.     *)
THEOREM BatchPathsDocumented ==
  ASSUME ~DaemonsFail
  PROVE  BatchSpec => []OnlyPathsReturned
<1>1. ASSUME BatchInv, Unharmed PROVE OnlyPathsReturned
  <2> SUFFICES ASSUME rpc = "returned", NEW u \in Outputs
               PROVE  ret[u] \in {"path", "NA"}
    BY DEF OnlyPathsReturned
  <2>1. u \in Unit /\ ret[u] = Collect1(u)
    BY <1>1, UnitSets DEF BatchInv, ThreadOK
  <2>2. status[u] # "error"
    BY <1>1, <2>1 DEF Unharmed
  <2> QED
    BY <2>1, <2>2 DEF Collect1
<1> QED
  BY <1>1, BatchInvariant, UnharmedAlways, PTL

=============================================================================
