--------------------------- MODULE MCHookPipeline ---------------------------
(* TLC instance of HookPipeline: three hooks, two of one environment group.  *)
EXTENDS HookPipeline

CONSTANTS h1, h2, h3

MCOrder == <<h1, h2, h3>>
MCGroup == [h \in Hooks |-> IF h = h2 THEN "node" ELSE "python"]

NoDeps == [h \in Hooks |-> {}]
\* Nothing, a chain against the configuration order, two independent edges, a cycle.
MCDeps ==
    {NoDeps,
     [NoDeps EXCEPT ![h1] = {h2}, ![h2] = {h3}],
     [NoDeps EXCEPT ![h2] = {h3}],
     [NoDeps EXCEPT ![h1] = {h2}, ![h2] = {h1}]}

=============================================================================
