--------------------------- MODULE MCConcurrency ---------------------------
(***************************************************************************)
(* concurrency.rs: the executor, and beside it the graph that orders the   *)
(* tasks.  They share no state: a behaviour is one of the executor or one  *)
(* of the graph.  Calls c3 and c4 have the same id.                        *)
(***************************************************************************)
EXTENDS ConcurrencyExecutor, DependencyGraph

CONSTANTS c1, c2, c3, c4, i1, i2, i3

MCIdOf == [c \in Calls |-> CASE c = c1 -> i1 [] c = c2 -> i2 [] OTHER -> i3]
MCBatch == <<c1, c2, c3>>
MCBatch2 == <<c1, c3>>

VARIABLE part

MCInit == part \in {"executor", "graph"} /\ Init /\ GraphInit
MCNext == /\ UNCHANGED part
          /\ \/ part = "executor" /\ Next /\ UNCHANGED graphVars
             \/ part = "graph" /\ GraphNext /\ UNCHANGED vars
MCSpec == MCInit /\ [][MCNext]_<<part, vars, graphVars>> /\ Fairness

\* execute_batch reports everybody, and every call returns.
CallsReturnReported == []BatchReportsAll /\ CallsReturn
=============================================================================
