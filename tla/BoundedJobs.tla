----------------------------- MODULE BoundedJobs -----------------------------
(***************************************************************************)
(* What the ConcurrencyExecutor promises its callers: every call is one    *)
(* job that runs at most once, and at most MaxConcurrent jobs run at a time.*)
(***************************************************************************)
EXTENDS Integers, FiniteSets

CONSTANTS Calls, MaxConcurrent

VARIABLE job   \* job[c]: "waiting", "running" or "done"

Running == {c \in Calls : job[c] = "running"}

Init == job = [c \in Calls |-> "waiting"]

Start(c) ==
    /\ job[c] = "waiting"
    /\ Cardinality(Running) < MaxConcurrent
    /\ job' = [job EXCEPT ![c] = "running"]

End(c) ==
    /\ job[c] = "running"
    /\ job' = [job EXCEPT ![c] = "done"]

Next == \E c \in Calls : Start(c) \/ End(c)

Spec == Init /\ [][Next]_job
=============================================================================
