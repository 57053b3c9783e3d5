--------------------------- MODULE BatchPromise ---------------------------
(***************************************************************************)
(* What ck_batch promises (src/R/ck_batch.R, the comments at 10-32 and     *)
(* 105-124), whatever it does to keep it: windows are answered in any      *)
(* order; an output is made from all its windows, in source order, at the  *)
(* moment the last of them lands, and never again; failed fetches are      *)
(* warned of; and the files named at the end are those that were made.     *)
(***************************************************************************)
EXTENDS Naturals, FiniteSets

CONSTANTS
  Sources,  (* the sources, numbered in the order of the src argument      *)
  Outs      (* the outputs                                                 *)

VARIABLES
  jobs,     (* the sources with a window to fetch                          *)
  home,     (* the output a source belongs to                              *)
  landed,   (* sources whose window arrived                                *)
  missing,  (* sources whose fetch failed                                  *)
  made,     (* what each output was assembled from, <<>> before it is      *)
  spoiled,  (* outputs whose assembly failed                               *)
  cut,      (* a panic ended the stream early                              *)
  warned,   (* the user was warned of the missing windows                  *)
  files,    (* the outputs returned as files                               *)
  ended     (* how the call ended                                          *)

outVars == <<jobs, home, landed, missing, made, spoiled, cut, warned, files, ended>>

(* The windows an output waits for, and their listing in source order.     *)
Awaited(u) == {s \in jobs : home[s] = u}
InOrder(S) ==
  {p \in [1 .. Cardinality(S) -> S] :
     /\ \A s \in S : \E i \in DOMAIN p : p[i] = s
     /\ \A i, j \in DOMAIN p : i < j => p[i] < p[j]}

OutInit ==
  /\ jobs \in SUBSET Sources
  /\ home \in [Sources -> Outs]
  /\ landed = {}
  /\ missing = {}
  /\ made = [u \in Outs |-> <<>>]
  /\ spoiled = {}
  /\ cut = FALSE
  /\ warned = FALSE
  /\ files = {}
  /\ ended = "no"

Answerable(s) ==
  /\ ended = "no"
  /\ ~warned
  /\ s \in jobs \ (landed \cup missing)

(* A window arrives; if it is the last its output waits for, the output is *)
(* assembled, and otherwise no output is.                                  *)
Land(s) ==
  LET u == home[s] IN
  /\ Answerable(s)
  /\ landed' = landed \cup {s}
  /\ IF Awaited(u) \subseteq landed'
     THEN \E p \in InOrder(Awaited(u)) : made' = [made EXCEPT ![u] = p]
     ELSE UNCHANGED made
  /\ UNCHANGED <<jobs, home, missing, spoiled, cut, warned, files, ended>>

Lose(s) ==
  /\ Answerable(s)
  /\ missing' = missing \cup {s}
  /\ UNCHANGED <<jobs, home, landed, made, spoiled, cut, warned, files, ended>>

Warn ==
  /\ ended = "no"
  /\ missing # {}
  /\ warned' = TRUE
  /\ UNCHANGED <<jobs, home, landed, missing, made, spoiled, cut, files, ended>>

Cut ==
  /\ cut' = TRUE
  /\ UNCHANGED <<jobs, home, landed, missing, made, spoiled, warned, files, ended>>

(* An assembly fails in its daemon, or in the caller's thread: then the    *)
(* call ends with it.                                                      *)
Spoil(u) ==
  /\ ended # "returned"
  /\ made[u] # <<>>
  /\ spoiled' = spoiled \cup {u}
  /\ ended' \in {ended, "raised"}
  /\ UNCHANGED <<jobs, home, landed, missing, made, cut, warned, files>>

(* Every window was answered unless the stream was cut, every failure was  *)
(* warned of, and exactly the outputs made and not spoiled are returned.   *)
Finish ==
  /\ ended = "no"
  /\ cut \/ landed \cup missing = jobs
  /\ warned <=> missing # {}
  /\ files' = {u \in Outs : made[u] # <<>>} \ spoiled
  /\ ended' = "returned"
  /\ UNCHANGED <<jobs, home, landed, missing, made, spoiled, cut, warned>>

OutNext ==
  \/ \E s \in Sources : Land(s) \/ Lose(s)
  \/ Warn
  \/ Cut
  \/ \E u \in Outs : Spoil(u)
  \/ Finish

OutSpec == OutInit /\ [][OutNext]_outVars

=============================================================================
