--------------------------- MODULE StreamPromise ---------------------------
(***************************************************************************)
(* What a streaming fetch session promises its consumer                    *)
(* (src/src/rust/src/lib.rs, the comment on cog_fetch_take): every         *)
(* requested window exactly once, in any order, and NULL when and only     *)
(* when the stream is fully drained.                                       *)
(***************************************************************************)
CONSTANT Sources  (* the sources of the set                               *)

VARIABLES
  jobs,       (* the requested sources                                    *)
  delivered,  (* the sources handed to the consumer                       *)
  over        (* the consumer was told that there is nothing more         *)

promiseVars == <<jobs, delivered, over>>

PromiseInit ==
  /\ jobs \in SUBSET Sources
  /\ delivered = {}
  /\ over = FALSE

Deliver ==
  /\ ~over
  /\ \E s \in jobs \ delivered : delivered' = delivered \cup {s}
  /\ UNCHANGED <<jobs, over>>

Close ==
  /\ ~over
  /\ delivered = jobs
  /\ over' = TRUE
  /\ UNCHANGED <<jobs, delivered>>

PromiseNext == Deliver \/ Close

PromiseSpec == PromiseInit /\ [][PromiseNext]_promiseVars

=============================================================================
