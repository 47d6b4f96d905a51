------------------------------- MODULE Recovery -------------------------------
(***************************************************************************)
(* RecoveryEngine of recovery.rs, shared by several tasks whose operation  *)
(* has the same operation_id.  handle_error reads the rate limiter and the *)
(* circuit breaker, retries the operation and records the outcome; each    *)
(* record is written under a lock of its own, so the calls of two tasks    *)
(* interleave between any two of them.                                     *)
(***************************************************************************)
EXTENDS Integers, Sequences, FiniteSets

CONSTANTS Tasks,            \* the callers of handle_error
          MaxGlobalRetries, \* max_global_retries: failures before the limiter skips
          Threshold,        \* circuit_breaker_threshold
          MaxHistory,       \* max_entries of the history
          MaxCalls,         \* bound: calls of handle_error in all
          Raised            \* bound: the errors handle_error is called with

Errors == {"NetworkError", "GitTimeout", "RemoteError", "OtherGitError", "FileLockFailed",
           "DatabaseCorrupted", "ProcessTimeout", "CommandNotFound", "OtherProcessError",
           "EnvironmentSetupFailed", "ExecutionTimeout", "OtherError"}
ASSUME RecoveryAssumption ==
    Raised \subseteq Errors /\ IsFiniteSet(Tasks) /\ Threshold \in Nat /\ MaxHistory \in Nat

VARIABLES pc,        \* where each task is in handle_error
          try,       \* the attempt each task makes
          limit,     \* max_attempts of the strategy it follows
          error,     \* the type of its last error
          answer,    \* the RecoveryResult it got
          calls,     \* calls of handle_error so far
          breaker,   \* circuit_breakers of the operation
          limiter,   \* rate_limiters of the operation
          stats,     \* retry_statistics
          history    \* recovery_history: successes and failures, oldest first

recoveryVars == <<pc, try, limit, error, answer, calls, breaker, limiter, stats, history>>

-----------------------------------------------------------------------------
\* RecoverableError::from_snp_error: the ErrorType of an error.
FromSnpError(e) ==
    CASE e \in {"NetworkError", "GitTimeout"} -> "NetworkTimeout"
      [] e = "RemoteError" -> "GitRemoteUnavailable"
      [] e = "OtherGitError" -> "GitRepositoryCorrupted"
      [] e = "FileLockFailed" -> "FileLocked"
      [] e \in {"ProcessTimeout", "ExecutionTimeout"} -> "ProcessTimeout"
      [] e \in {"CommandNotFound", "EnvironmentSetupFailed"} -> "LanguageEnvironmentMissing"
      [] e = "OtherProcessError" -> "ProcessResourceExhausted"
      [] OTHER -> "UnrecoverableError"

IsErrorRecoverable(type) == type \notin {"UnrecoverableError", "ConfigurationInvalid"}

\* RecoveryEngine::new: the retries of the types that have a strategy.
Retries(type) == CASE type = "NetworkTimeout" -> 3 [] type = "FileLocked" -> 5 [] type = "ProcessTimeout" -> 2

\* determine_strategy before the global policies: retry, or skip.
OwnStrategy(type) == IF type \in {"NetworkTimeout", "FileLocked", "ProcessTimeout"} THEN "Retry" ELSE "Skip"

\* The limiter's window starts with its first failure and is never started
\* again: once it has passed, the operation is never limited again.
IsRateLimited == limiter.exists /\ ~limiter.past /\ limiter.count >= MaxGlobalRetries

\* is_circuit_open, which also turns an open breaker that has cooled down
\* into a half-open one.  A half-open breaker lets every caller through.
CircuitOpen == breaker.state = "Open" /\ ~breaker.cooled
Checked == IF breaker.state = "Open" /\ breaker.cooled THEN [breaker EXCEPT !.state = "HalfOpen"] ELSE breaker

\* add_entry drops the oldest entry when the history is too long.
AddEntry(success) ==
    LET longer == Append(history, success)
    IN IF Len(longer) > MaxHistory THEN Tail(longer) ELSE longer

\* get_success_rate and get_operation_success_rate, as a pair (good, all).
SuccessRate(entries) == <<Cardinality({i \in DOMAIN entries : entries[i]}), Len(entries)>>
RecentFailures(entries) == Cardinality({i \in DOMAIN entries : ~entries[i]})

-----------------------------------------------------------------------------
RecoveryInit ==
    /\ pc = [t \in Tasks |-> "idle"] /\ try = [t \in Tasks |-> 0] /\ limit = [t \in Tasks |-> 0]
    /\ error = [t \in Tasks |-> "none"] /\ answer = [t \in Tasks |-> "none"]
    /\ calls = 0
    /\ breaker = [exists |-> FALSE, failures |-> 0, state |-> "Closed", cooled |-> FALSE]
    /\ limiter = [exists |-> FALSE, count |-> 0, past |-> FALSE]
    /\ stats = [attempts |-> 0, good |-> 0, bad |-> 0]
    /\ history = <<>>

\* The call ends, and with it the locals of its retry loop.
Return(t, result) == /\ pc' = [pc EXCEPT ![t] = "idle"] /\ answer' = [answer EXCEPT ![t] = result]
                     /\ try' = [try EXCEPT ![t] = 0] /\ limit' = [limit EXCEPT ![t] = 0]
                     /\ error' = [error EXCEPT ![t] = "none"]

\* handle_error(error): classify, refuse what cannot be recovered, and ask
\* the rate limiter.
HandleError(t, e) ==
    /\ pc[t] = "idle" /\ calls < MaxCalls
    /\ calls' = calls + 1
    /\ \/ /\ ~IsErrorRecoverable(FromSnpError(e)) /\ Return(t, "Failed")
       \/ /\ IsErrorRecoverable(FromSnpError(e)) /\ IsRateLimited /\ Return(t, "Skipped")
       \/ /\ IsErrorRecoverable(FromSnpError(e)) /\ ~IsRateLimited
          /\ pc' = [pc EXCEPT ![t] = "circuit"] /\ answer' = [answer EXCEPT ![t] = "none"]
          /\ error' = [error EXCEPT ![t] = FromSnpError(e)] /\ UNCHANGED <<try, limit>>
    /\ UNCHANGED <<breaker, limiter, stats, history>>

\* The second half of apply_global_policies, under the breakers' lock.
CheckCircuit(t) ==
    /\ pc[t] = "circuit"
    /\ breaker' = Checked
    /\ \/ CircuitOpen /\ Return(t, "Aborted")
       \/ ~CircuitOpen /\ OwnStrategy(error[t]) = "Skip" /\ Return(t, "Skipped")
       \/ /\ ~CircuitOpen /\ OwnStrategy(error[t]) = "Retry"
          /\ limit' = [limit EXCEPT ![t] = Retries(error[t])]
          /\ pc' = [pc EXCEPT ![t] = "retry"] /\ UNCHANGED <<answer, try, error>>
    /\ UNCHANGED <<calls, limiter, stats, history>>

\* One turn of execute_retry_strategy: the operation succeeds or fails with
\* some error; one that cannot be recovered ends the loop.
Attempt(t) ==
    /\ pc[t] = "retry"
    /\ try' = [try EXCEPT ![t] = @ + 1]
    /\ \/ pc' = [pc EXCEPT ![t] = "good.stats"] /\ UNCHANGED error
       \/ \E e \in {"NetworkError", "OtherError"} :
            /\ error' = [error EXCEPT ![t] = FromSnpError(e)]
            /\ pc' = [pc EXCEPT ![t] = IF IsErrorRecoverable(FromSnpError(e)) /\ try[t] + 1 < limit[t]
                                       THEN "retry" ELSE "bad.stats"]
    /\ UNCHANGED <<limit, answer, calls, breaker, limiter, stats, history>>

Goto(t, next) == pc' = [pc EXCEPT ![t] = next]

\* record_successful_recovery: statistics, breaker, history.
RecordSuccess(t) ==
    \/ /\ pc[t] = "good.stats"
       /\ stats' = [stats EXCEPT !.attempts = @ + try[t], !.good = @ + 1]
       /\ Goto(t, "good.breaker")
       /\ UNCHANGED <<try, limit, error, answer, calls, breaker, limiter, history>>
    \/ /\ pc[t] = "good.breaker"
       /\ breaker' = IF breaker.exists THEN [breaker EXCEPT !.failures = 0, !.state = "Closed"] ELSE breaker
       /\ Goto(t, "good.history")
       /\ UNCHANGED <<try, limit, error, answer, calls, limiter, stats, history>>
    \/ /\ pc[t] = "good.history"
       /\ history' = AddEntry(TRUE)
       /\ Return(t, "Recovered")
       /\ UNCHANGED <<calls, breaker, limiter, stats>>

\* record_failed_recovery: statistics, breaker, history, limiter.  The
\* statistics count max_attempts, whether or not they were all made.
RecordFailure(t) ==
    \/ /\ pc[t] = "bad.stats"
       /\ stats' = [stats EXCEPT !.attempts = @ + limit[t], !.bad = @ + 1]
       /\ Goto(t, "bad.breaker")
       /\ UNCHANGED <<try, limit, error, answer, calls, breaker, limiter, history>>
    \/ /\ pc[t] = "bad.breaker"
       /\ breaker' = [exists |-> TRUE, failures |-> breaker.failures + 1, cooled |-> FALSE,
                      state |-> IF breaker.failures + 1 >= Threshold THEN "Open" ELSE breaker.state]
       /\ Goto(t, "bad.history")
       /\ UNCHANGED <<try, limit, error, answer, calls, limiter, stats, history>>
    \/ /\ pc[t] = "bad.history"
       /\ history' = AddEntry(FALSE)
       /\ Goto(t, "bad.limiter")
       /\ UNCHANGED <<try, limit, error, answer, calls, breaker, limiter, stats>>
    \/ /\ pc[t] = "bad.limiter"
       /\ limiter' = [limiter EXCEPT !.exists = TRUE, !.count = @ + 1]
       /\ Return(t, "Failed")
       /\ UNCHANGED <<calls, breaker, stats, history>>

\* circuit_breaker_timeout has passed since the last failure.
CoolDown == /\ breaker.exists /\ ~breaker.cooled
            /\ breaker' = [breaker EXCEPT !.cooled = TRUE]
            /\ UNCHANGED <<pc, try, limit, error, answer, calls, limiter, stats, history>>

\* The limiter's minute is over.
WindowPasses == /\ limiter.exists /\ ~limiter.past
                /\ limiter' = [limiter EXCEPT !.past = TRUE]
                /\ UNCHANGED <<pc, try, limit, error, answer, calls, breaker, stats, history>>

\* clear_old_entries forgets the oldest entries.
ClearOldEntries == /\ history # <<>> /\ calls = MaxCalls
                   /\ history' = Tail(history)
                   /\ UNCHANGED <<pc, try, limit, error, answer, calls, breaker, limiter, stats>>

TaskStep(t) == CheckCircuit(t) \/ Attempt(t) \/ RecordSuccess(t) \/ RecordFailure(t)
RecoveryNext == \/ \E t \in Tasks, e \in Raised : HandleError(t, e)
                \/ \E t \in Tasks : TaskStep(t)
                \/ CoolDown \/ WindowPasses \/ ClearOldEntries

-----------------------------------------------------------------------------
Recording(p) == {t \in Tasks : pc[t] = p}

\* The books of the engine.  Between two recordings the statistics, the
\* limiter and the history tell the same numbers: each is written under its
\* own lock, and what one has and another lacks is what some task is about
\* to write.  A breaker is open only after Threshold failed recoveries, with
\* no success since.  A call runs the operation at least once and at most
\* max_attempts times, and never for an error that is not recoverable.
RecoveryAccounts ==
    /\ stats.bad = limiter.count + Cardinality(Recording("bad.breaker") \cup Recording("bad.history")
                                               \cup Recording("bad.limiter"))
    /\ calls < MaxCalls =>
          stats.good + stats.bad >= SuccessRate(history)[2] /\ RecentFailures(history) <= stats.bad
    /\ SuccessRate(history)[2] <= MaxHistory
    /\ breaker.state = "Open" => breaker.failures >= Threshold
    /\ breaker.failures <= stats.bad
    /\ \A t \in Tasks : try[t] <= limit[t] /\ (pc[t] \in {"good.stats", "bad.stats"} => try[t] > 0)
    /\ \A t \in Tasks : pc[t] = "retry" => IsErrorRecoverable(error[t])

\* Every call of handle_error returns: no task waits for another.
RecoveryReturns == \A t \in Tasks : pc[t] # "idle" ~> pc[t] = "idle"

-----------------------------------------------------------------------------
(* The recovery actions, each a function of the context's parameters and   *)
(* of what the tool it runs does: "absent" (it cannot be started), "bad"   *)
(* (it fails) or "good".                                                   *)

\* RecloneRepositoryAction removes the local copy before it clones, so the
\* copy is gone when the clone fails.
Reclone(params, git) ==
    IF ~{"repository_url", "local_path"} \subseteq params THEN [result |-> "Failed", copy |-> "old"]
    ELSE IF git = "good" THEN [result |-> "Recovered", copy |-> "new"]
    ELSE [result |-> "Failed", copy |-> "none"]

InstallPython(deps, python, pip) ==
    IF python # "absent" /\ (deps = {} \/ pip = "good") THEN "Recovered" ELSE "Failed"
InstallNode(deps, node, npm) ==
    IF node # "absent" /\ (deps = {} \/ npm = "good") THEN "Recovered" ELSE "Failed"
InstallRust(deps, rustc, cargo) ==
    IF rustc # "absent" /\ (deps = {} \/ cargo = "good") THEN "Recovered" ELSE "Failed"

\* InstallEnvironmentAction: the language decides which installer runs.
InstallEnvironment(language, deps, tool, installer) ==
    CASE language = "python" -> InstallPython(deps, tool, installer)
      [] language \in {"node", "nodejs"} -> InstallNode(deps, tool, installer)
      [] language = "rust" -> InstallRust(deps, tool, installer)
      [] OTHER -> "Failed"

FixFilePermissions(params, chmod) == IF "file_path" \in params /\ chmod = "good" THEN "Recovered" ELSE "Failed"
CheckNetworkConnectivity(ping) == IF ping = "good" THEN "Recovered" ELSE "Failed"

Tools == {"absent", "bad", "good"}

\* An action answers "Recovered" only when the thing it repairs is whole: the
\* new copy is there, every dependency was installed by a tool that exists.
\* A failed reclone never leaves the old copy behind as if it were new.
ActionsTruthful ==
    /\ \A params \in SUBSET {"repository_url", "local_path"}, git \in Tools :
          LET r == Reclone(params, git) IN (r.result = "Recovered") <=> (r.copy = "new")
    /\ \A language \in {"python", "node", "rust", "cobol"}, deps \in {{}, {"d"}}, tool, installer \in Tools :
          InstallEnvironment(language, deps, tool, installer) = "Recovered" =>
              language # "cobol" /\ tool # "absent" /\ (deps # {} => installer = "good")
    /\ \A chmod \in Tools : FixFilePermissions({}, chmod) = "Failed"
    /\ \A tool \in Tools \ {"good"} :
          CheckNetworkConnectivity(tool) = "Failed" /\ FixFilePermissions({"file_path"}, tool) = "Failed"

=============================================================================
