------------------------------ MODULE BatchRun ------------------------------
(***************************************************************************)
(* ck_batch (src/R/ck_batch.R): R drains a streaming fetch session and     *)
(* assembles (warps and writes) each output as soon as its windows have    *)
(* landed, inline on R's thread or on an ambient pool of mirai daemons.    *)
(* Composed with FetchStream, whose consumer is .batch_stream_run.         *)
(*                                                                         *)
(* Sources are numbered in the flattened order of the src argument; a      *)
(* source is requested from the session (is in idx) iff it has a plan.     *)
(***************************************************************************)
EXTENDS FetchStream

CONSTANTS
  NGroups,     (* length(src): number of groups                           *)
  GroupOf,     (* grp_of: the group of each source                        *)
  NDaemons,    (* daemons connected to the mirai pool at the start        *)
  DaemonsFail  (* TRUE: a task may fail in its daemon, and daemons go away*)

Groups == 1 .. NGroups

ASSUME BatchAssumption ==
  /\ NGroups \in Nat \ {0}
  /\ GroupOf \in [Src -> Groups]
  /\ \A s, t \in Src : s <= t => GroupOf[s] <= GroupOf[t]
  /\ NDaemons \in Nat \ {0}
  /\ DaemonsFail \in BOOLEAN

(* Outputs: one per source when flat, one per group when stacked.          *)
Unit == 1 .. (IF NSrc >= NGroups THEN NSrc ELSE NGroups)

VARIABLES
  stack,   (* argument of ck_batch: one output per group instead of band  *)
  usePar,  (* .batch_use_parallel(): a daemon pool is running             *)
  have,    (* windows landed per group                                    *)
  acc,     (* per-group accumulator, in arrival order                     *)
  failed,  (* sources whose fetch failed                                  *)
  work,    (* the sources each output was assembled from, in band order   *)
  status,  (* state of the assembly of each output                        *)
  daemons, (* daemons still connected to the pool                         *)
  rpc,     (* where R's thread is                                         *)
  unit,    (* the output an inline assembly is working on, or 0           *)
  warned,  (* the failed-fetch warning was raised                         *)
  ret      (* what ck_batch returns for each output                       *)

batchOnlyVars ==
  <<stack, usePar, have, acc, failed, work, status, daemons, rpc, unit, warned, ret>>
vars == <<streamVars, batchOnlyVars>>

(* The sources of a group that were planned (surv), and how many it needs. *)
Members(g) == {s \in idx : GroupOf[s] = g}

(* Mutant of need: one window too few.                                     *)
need_OneShort(g) == Cardinality(Members(g)) - 1

need(g) == Cardinality(Members(g))

(* band_of: position of a source in its group.                             *)
BandOf(s) == Cardinality({t \in Src : GroupOf[t] = GroupOf[s] /\ t <= s})

(* The planned sources an output is made of.                               *)
Inputs(u) == IF stack THEN Members(u) ELSE idx \cap {u}
Outputs == IF stack THEN Groups ELSE Src

BatchTypeOK ==
  /\ StreamTypeOK
  /\ stack \in BOOLEAN
  /\ usePar \in BOOLEAN
  /\ have \in [Groups -> Nat]
  /\ acc \in [Groups -> Seq(Src)]
  /\ failed \in SUBSET Src
  /\ work \in [Unit -> Seq(Src)]
  /\ status \in [Unit -> {"none", "queued", "running", "done", "error", "lost"}]
  /\ daemons \in 0 .. NDaemons
  /\ rpc \in {"take", "warp", "collect", "returned", "raised"}
  /\ unit \in Unit \cup {0}
  /\ warned \in BOOLEAN
  /\ ret \in [Unit -> {"unset", "path", "NA", "message"}]

(* ck_batch aborts before opening the stream unless some source has a plan.*)
BatchInit ==
  /\ StreamInit
  /\ idx # {}
  /\ stack \in BOOLEAN
  /\ usePar \in BOOLEAN
  /\ have = [g \in Groups |-> 0]
  /\ acc = [g \in Groups |-> <<>>]
  /\ failed = {}
  /\ work = [u \in Unit |-> <<>>]
  /\ status = [u \in Unit |-> "none"]
  /\ daemons = NDaemons
  /\ rpc = "take"
  /\ unit = 0
  /\ warned = FALSE
  /\ ret = [u \in Unit |-> "unset"]

-----------------------------------------------------------------------------
(***************************************************************************)
(* Draining the stream.                                                    *)
(***************************************************************************)

(* Mutant of InBandOrder: the windows stay in the order they arrived in.   *)
InBandOrder_Arrival(q) == {q}

(* order() by band position: a rearrangement of q that is increasing.      *)
InBandOrder(q) ==
  {p \in [1 .. Len(q) -> Elems(q)] :
     /\ Elems(p) = Elems(q)
     /\ \A i, j \in 1 .. Len(q) : i < j => BandOf(p[i]) < BandOf(p[j])}

(* Assemble output u from the windows of q: queued to the daemons, or      *)
(* started inline, where R's thread stays until it ends.                   *)
Dispatch(u, q) ==
  /\ work' = [work EXCEPT ![u] = q]
  /\ IF usePar
     THEN /\ status' = [status EXCEPT ![u] = "queued"]
          /\ UNCHANGED <<rpc, unit>>
     ELSE /\ status' = [status EXCEPT ![u] = "running"]
          /\ rpc' = "warp"
          /\ unit' = u

(* Mutant of ReceiveError: a failed fetch still counts as landed.          *)
ReceiveError_CountsAsLanded ==
  LET s == Head(chan) IN
  /\ rpc = "take"
  /\ Take
  /\ result[s] = "err"
  /\ failed' = failed \cup {s}
  /\ have' = [have EXCEPT ![GroupOf[s]] = @ + 1]
  /\ UNCHANGED <<stack, usePar, acc, work, status, daemons, rpc, unit, warned, ret>>

(* A per-source failure is recorded and its window never counts.           *)
ReceiveError ==
  LET s == Head(chan) IN
  /\ rpc = "take"
  /\ Take
  /\ result[s] = "err"
  /\ failed' = failed \cup {s}
  /\ UNCHANGED <<stack, usePar, have, acc, work, status, daemons, rpc, unit, warned, ret>>

(* stack = FALSE: one output per source, assembled on arrival.             *)
ReceiveFlat ==
  LET s == Head(chan) IN
  /\ rpc = "take"
  /\ ~stack
  /\ Take
  /\ result[s] = "ok"
  /\ Dispatch(s, <<s>>)
  /\ UNCHANGED <<stack, usePar, have, acc, failed, daemons, warned, ret>>

(* stack = TRUE: keep the window with its band; assemble the group when    *)
(* its last planned window lands, in band order, and free the accumulator. *)
ReceiveStacked ==
  LET s == Head(chan)
      g == GroupOf[s]
      q == Append(acc[g], s)
  IN
  /\ rpc = "take"
  /\ stack
  /\ Take
  /\ result[s] = "ok"
  /\ have' = [have EXCEPT ![g] = @ + 1]
  /\ IF have[g] + 1 >= need(g)
     THEN /\ \E p \in InBandOrder(q) : Dispatch(g, p)
          /\ acc' = [acc EXCEPT ![g] = <<>>]
     ELSE /\ acc' = [acc EXCEPT ![g] = q]
          /\ UNCHANGED <<work, status, rpc, unit>>
  /\ UNCHANGED <<stack, usePar, failed, daemons, warned, ret>>

(* Mutant of EndDrain: failed fetches are recorded but never reported.     *)
EndDrain_Silent ==
  /\ rpc = "take"
  /\ TakeNull
  /\ rpc' = "collect"
  /\ UNCHANGED <<stack, usePar, have, acc, failed, work, status, daemons, unit, warned, ret>>

(* NULL: leave the loop, and warn when some fetch failed.                  *)
EndDrain ==
  /\ rpc = "take"
  /\ TakeNull
  /\ rpc' = "collect"
  /\ warned' = (failed # {})
  /\ UNCHANGED <<stack, usePar, have, acc, failed, work, status, daemons, unit, ret>>

-----------------------------------------------------------------------------
(***************************************************************************)
(* Assembling: .stack_assemble inline, or in a daemon.                     *)
(***************************************************************************)

WarpDone ==
  /\ rpc = "warp"
  /\ status' = [status EXCEPT ![unit] = "done"]
  /\ rpc' = "take"
  /\ unit' = 0
  /\ UNCHANGED <<streamVars, stack, usePar, have, acc, failed, work, daemons, warned, ret>>

(* An R or GDAL error inside an inline assembly leaves ck_batch at once.   *)
WarpRaises ==
  /\ rpc = "warp"
  /\ status' = [status EXCEPT ![unit] = "error"]
  /\ rpc' = "raised"
  /\ UNCHANGED <<streamVars, stack, usePar, have, acc, failed, work, daemons, unit, warned, ret>>

Running == {u \in Unit : status[u] = "running"}

(* A daemon that is still there and has nothing to do takes a task.        *)
DaemonStart(u) ==
  /\ usePar
  /\ status[u] = "queued"
  /\ Cardinality(Running) < daemons
  /\ status' = [status EXCEPT ![u] = "running"]
  /\ UNCHANGED <<streamVars, stack, usePar, have, acc, failed, work, daemons, rpc, unit, warned, ret>>

(* A task ends with the path, with an error value, or with its daemon,     *)
(* which the pool then has no more.                                        *)
DaemonEnd(u, how) ==
  /\ usePar
  /\ status[u] = "running"
  /\ how = "done" \/ DaemonsFail
  /\ status' = [status EXCEPT ![u] = how]
  /\ daemons' = IF how = "lost" THEN daemons - 1 ELSE daemons
  /\ UNCHANGED <<streamVars, stack, usePar, have, acc, failed, work, rpc, unit, warned, ret>>

(* An idle daemon goes away.  use_par was decided before the first window; *)
(* ck_batch neither looks again nor starts another daemon.                 *)
DaemonLeaves ==
  /\ usePar /\ DaemonsFail
  /\ Cardinality(Running) < daemons
  /\ daemons' = daemons - 1
  /\ UNCHANGED <<streamVars, stack, usePar, have, acc, failed, work, status, rpc, unit, warned, ret>>

-----------------------------------------------------------------------------
(* Mutant of Collect1: the resolved value as it is, not only a string.     *)
Collect1_Raw(u) ==
  CASE status[u] = "none" -> "NA"
    [] status[u] = "done" -> "path"
    [] OTHER              -> status[u]

(* collect1: NULL is NA; a mirai error value is itself a string of length  *)
(* one and passes for a path; a lost connection is an integer error value. *)
Collect1(u) ==
  CASE status[u] = "none"  -> "NA"
    [] status[u] = "done"  -> "path"
    [] status[u] = "error" -> "message"
    [] OTHER               -> "NA"

(* collect_mirai blocks, with no timeout, until each task has resolved.    *)
Collect ==
  /\ rpc = "collect"
  /\ \A u \in Unit : status[u] \notin {"queued", "running"}
  /\ ret' = [u \in Unit |-> IF u \in Outputs THEN Collect1(u) ELSE "unset"]
  /\ rpc' = "returned"
  /\ UNCHANGED <<streamVars, stack, usePar, have, acc, failed, work, status, daemons, unit, warned>>

(* The session is garbage once ck_batch has returned or raised.            *)
Forget ==
  /\ rpc \in {"returned", "raised"}
  /\ DropSession
  /\ UNCHANGED batchOnlyVars

Driver == DriverNext /\ UNCHANGED batchOnlyVars

Consume == ReceiveError \/ ReceiveFlat \/ ReceiveStacked \/ EndDrain

BatchNext ==
  \/ Driver
  \/ ReceiveError
  \/ ReceiveFlat
  \/ ReceiveStacked
  \/ EndDrain
  \/ WarpDone
  \/ WarpRaises
  \/ \E u \in Unit : DaemonStart(u)
  \/ \E u \in Unit, how \in {"done", "error", "lost"} : DaemonEnd(u, how)
  \/ DaemonLeaves
  \/ Collect
  \/ Forget

BatchSpec == BatchInit /\ [][BatchNext]_vars

(* R's thread runs, tokio polls the driver, fetches time out at the latest,*)
(* a daemon that is there takes what is queued, and an assembly ends.  No  *)
(* daemon is assumed to stay, and none that left to be replaced.           *)
BatchFairness ==
  /\ DriverFairness
  /\ WF_vars(Consume)
  /\ WF_vars(WarpDone)
  /\ WF_vars(Collect)
  /\ \A u \in Unit : WF_vars(DaemonStart(u))
  /\ \A u \in Unit : WF_vars(DaemonEnd(u, "done"))

FairBatchSpec == BatchSpec /\ BatchFairness

-----------------------------------------------------------------------------
(***************************************************************************)
(* Properties.                                                             *)
(***************************************************************************)

(* The windows of a group that landed.                                     *)
Landed(g) == {s \in taken \ failed : GroupOf[s] = g}

(* No window is lost or assembled twice between cog_fetch_take and the     *)
(* assembly: have[] counts exactly the landed windows of a group, and each *)
(* of them is in the accumulator until the group is dispatched, then in    *)
(* the dispatched output (ck_batch.R, .batch_stream_run).                  *)
AccumulatorsExact ==
  /\ failed \subseteq taken
  /\ stack => \A g \in Groups :
       /\ have[g] = Cardinality(Landed(g))
       /\ Elems(acc[g]) \cup Elems(work[g]) = Landed(g)
       /\ acc[g] = <<>> \/ work[g] = <<>>
  /\ ~stack => \A s \in Src : Elems(work[s]) = {s} \cap (taken \ failed)

(* A stacked output is assembled from every planned source of its group,   *)
(* all of them fetched, and in band order although windows arrive in       *)
(* completion order.                                                       *)
StackCompleteInBandOrder ==
  stack => \A g \in Groups : work[g] # <<>> =>
    /\ Elems(work[g]) = Members(g)
    /\ Members(g) \cap failed = {}
    /\ \A i, j \in DOMAIN work[g] : i < j => BandOf(work[g][i]) < BandOf(work[g][j])

(* The call as its promise sees it: the output a source belongs to, the    *)
(* outputs whose assembly failed, those returned as files, and the end.    *)
Home == IF stack THEN GroupOf ELSE [s \in Src |-> s]
Spoiled == {u \in Unit : status[u] \in {"error", "lost"}}
Files == {u \in Unit : ret[u] = "path"}
Ended == IF rpc \in {"returned", "raised"} THEN rpc ELSE "no"

(* ck_batch implements BatchPromise (ck_batch.R, .batch_stream_run): with  *)
(* counters, accumulators and daemons it assembles each output once, from  *)
(* all its windows in source order, at the moment the last one lands, and  *)
(* returns as files exactly the outputs that were assembled in full.       *)
Batch ==
  INSTANCE BatchPromise WITH
    Sources <- Src, Outs <- Unit, jobs <- idx, home <- Home,
    landed <- taken \ failed, missing <- failed, made <- work,
    spoiled <- Spoiled, cut <- driver = "panicked", warned <- warned,
    files <- Files, ended <- Ended
BatchPromiseKept == Batch!OutSpec

(* A returned path stands for a finished file holding all its inputs.      *)
PathMeansComplete ==
  rpc = "returned" => \A u \in Outputs : ret[u] = "path" =>
    /\ Inputs(u) # {}
    /\ Elems(work[u]) = Inputs(u)
    /\ \A s \in Inputs(u) : s \in taken /\ result[s] = "ok"

(* The documented meaning of NA (ck_batch.R, @return): the source did not  *)
(* overlap, or its fetch failed and a warning was raised.                  *)
NaMeans(u) ==
  \/ Inputs(u) = {}
  \/ Inputs(u) \cap failed # {} /\ warned
NaIsDocumented ==
  rpc = "returned" => \A u \in Outputs : ret[u] = "NA" => NaMeans(u)

(* The same for the code as it is: an NA the documentation does not        *)
(* explain needs a panicked driver or a lost daemon.                       *)
NaExplained ==
  rpc = "returned" => \A u \in Outputs : ret[u] = "NA" =>
    NaMeans(u) \/ driver = "panicked" \/ status[u] = "lost"

(* What ck_batch returns is a path or NA (ck_batch.R, @return).            *)
OnlyPathsReturned ==
  rpc = "returned" => \A u \in Outputs : ret[u] \in {"path", "NA"}

(* Windows in memory: completed on the Rust side, accumulated by R, or     *)
(* handed to an assembly that has not ended.                               *)
Held ==
  {s \in parked \cup Sent : result[s] = "ok"}
    \cup (UNION {Elems(acc[g]) : g \in Groups})
    \cup (UNION {Elems(work[u]) : u \in {v \in Unit : status[v] \in {"queued", "running"}}})

(* "Memory is bounded" (ck_batch.R, lib.rs): true of the inline, unstacked *)
(* run, where the only window R holds is the one being assembled.          *)
InlineMemoryBounded ==
  ~stack /\ ~usePar => Cardinality(Held) <= Io + Buf + 1

(* Tasks are queued and the pool has no daemon left to take them.          *)
Stranded == usePar /\ daemons = 0 /\ \E u \in Unit : status[u] = "queued"

(* Liveness: ck_batch returns or raises, even when fetches fail or the     *)
(* driver panics: no blocking take waits forever, and collect_mirai only   *)
(* when the last daemon left with tasks still in the queue, for it has no  *)
(* timeout (ck_batch.R, collect1).                                         *)
BatchReturns == <>(rpc \in {"returned", "raised"} \/ (rpc = "collect" /\ Stranded))

-----------------------------------------------------------------------------
(***************************************************************************)
(* The inductive invariant behind the safety properties.                   *)
(***************************************************************************)

(* R files a window under failed exactly when its fetch failed.            *)
OutcomeKnown ==
  \A s \in taken : result[s] = IF s \in failed THEN "err" ELSE "ok"

(* A group still accumulating has not landed all it needs.                 *)
AccOpen ==
  stack => \A g \in Groups : acc[g] # <<>> => have[g] < need(g)

StatusMatches == \A u \in Unit : status[u] = "none" <=> work[u] = <<>>

(* What is known of R's thread at each of its stages.                      *)
ThreadOK ==
  /\ rpc = "warp" => unit \in Unit /\ work[unit] # <<>>
  /\ rpc \in {"collect", "returned"} => eos /\ (warned <=> failed # {})
  /\ rpc = "returned" => \A u \in Unit :
       /\ status[u] \notin {"queued", "running"}
       /\ u \in Outputs => ret[u] = Collect1(u)

(* What the promise needs to know of the loop: the warning comes last, an  *)
(* inline assembly runs by itself, and only outputs asked for are made.    *)
LoopOK ==
  /\ rpc \in {"take", "warp"} => ~warned
  /\ rpc = "warp" => ~usePar /\ status[unit] = "running"
  /\ \A u \in Unit : work[u] # <<>> => u \in Outputs

BatchInv ==
  /\ BatchTypeOK
  /\ StreamInv
  /\ OutcomeKnown
  /\ AccumulatorsExact
  /\ AccOpen
  /\ StackCompleteInBandOrder
  /\ StatusMatches
  /\ ThreadOK

(* No more tasks run than there are daemons.                               *)
PoolOK == usePar => Cardinality(Running) <= daemons

(* The inline, unstacked run: nothing accumulates, and the only window R   *)
(* holds is the one its thread is assembling.                              *)
InlineFlat ==
  ~stack /\ ~usePar =>
    /\ \A g \in Groups : acc[g] = <<>>
    /\ \A u \in Unit : Len(work[u]) <= 1
    /\ \A u \in Unit : status[u] \in {"queued", "running"} => rpc = "warp" /\ u = unit

=============================================================================
