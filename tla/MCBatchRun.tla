---------------------------- MODULE MCBatchRun ----------------------------
(***************************************************************************)
(* Model checking BatchRun: how the sources are grouped in each instance.  *)
(***************************************************************************)
EXTENDS BatchRun

(* Groups of two consecutive sources: five make two pairs and a single.    *)
MCPairs == [s \in Src |-> (s + 1) \div 2]

=============================================================================
