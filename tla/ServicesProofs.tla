---------------------------- MODULE ServicesProofs ----------------------------
(***************************************************************************)
(* The services around the hooks, with any constants: a chain of hooks is  *)
(* planned and run in order, the books of the recovery engine agree with   *)
(* any number of tasks that fail and recover at the same time, the process *)
(* manager serves its callers whatever the processes, programs, pipes and  *)
(* permits, and the event bus delivers to whoever is interested.           *)
(***************************************************************************)
EXTENDS MCServices, FiniteSetTheorems, SequenceTheorems, FunctionTheorems, WellFoundedInduction, TLAPS

RecoverySpec == RecoveryInit /\ [][RecoveryNext]_recoveryVars
ProcSpec == ProcInit /\ [][ProcNext]_procVars

-----------------------------------------------------------------------------
(* Recovery: the inductive invariant.                                        *)

ErrorTypes == {FromSnpError(e) : e \in Errors}
Places == {"idle", "circuit", "retry", "good.stats", "good.breaker", "good.history",
           "bad.stats", "bad.breaker", "bad.history", "bad.limiter"}
RecoveryTypes ==
  /\ pc \in [Tasks -> Places] /\ try \in [Tasks -> Nat] /\ limit \in [Tasks -> Nat]
  /\ error \in [Tasks -> ErrorTypes \union {"none"}]
  /\ breaker \in [exists : BOOLEAN, failures : Nat, state : {"Closed", "Open", "HalfOpen"}, cooled : BOOLEAN]
  /\ limiter \in [exists : BOOLEAN, count : Nat, past : BOOLEAN]
  /\ stats \in [attempts : Nat, good : Nat, bad : Nat] /\ history \in Seq(BOOLEAN)

\* What a task knows of its attempts at each place.
AttemptInv ==
  \A t \in Tasks :
    /\ try[t] <= limit[t]
    /\ pc[t] \in {"idle", "circuit"} => try[t] = 0
    /\ pc[t] \in {"circuit", "retry"} => error[t] # "none" /\ IsErrorRecoverable(error[t])
    /\ pc[t] = "retry" => try[t] < limit[t]
    /\ pc[t] \in {"good.stats", "bad.stats"} => try[t] > 0

\* The tasks at one of some places.
At(P) == {t \in Tasks : pc[t] \in P}
\* The tasks that are about to write a failure, counted in the statistics, in
\* the limiter's count, in the breaker's, an entry in the history, a failure there.
Uncounted == Cardinality(At({"bad.breaker", "bad.history", "bad.limiter"}))
Unbroken == Cardinality(At({"bad.breaker"}))
Unwritten == Cardinality(At({"good.breaker", "good.history", "bad.breaker", "bad.history"}))
UnwrittenFailures == Cardinality(At({"bad.breaker", "bad.history"}))
\* What each book has, and what tasks are about to write in it, is in the statistics.
BooksInv ==
  /\ stats.bad = limiter.count + Uncounted
  /\ breaker.failures + Unbroken <= stats.bad
  /\ Len(history) + Unwritten <= stats.good + stats.bad
  /\ RecentFailures(history) + UnwrittenFailures <= stats.bad
  /\ Len(history) <= MaxHistory
  /\ breaker.state = "Open" => breaker.failures >= Threshold

RecoveryInv == RecoveryTypes /\ AttemptInv /\ BooksInv

\* A task goes from one place to another.
LEMMA Moved ==
  ASSUME RecoveryTypes, NEW t \in Tasks, NEW p, pc' = [pc EXCEPT ![t] = p], NEW P
  PROVE  /\ Cardinality(At(P)) \in Nat
         /\ p \in P /\ pc[t] \notin P => Cardinality(At(P)') = Cardinality(At(P)) + 1
         /\ p \notin P /\ pc[t] \in P => Cardinality(At(P)') = Cardinality(At(P)) - 1
         /\ p \in P /\ pc[t] \in P => Cardinality(At(P)') = Cardinality(At(P))
         /\ p \notin P /\ pc[t] \notin P => Cardinality(At(P)') = Cardinality(At(P))
<1>1. IsFiniteSet(At(P)) /\ IsFiniteSet(At(P) \ {t})
  BY RecoveryAssumption, FS_Subset DEF At
<1>2. /\ Cardinality(At(P)) \in Nat /\ Cardinality(At(P) \ {t}) \in Nat
      /\ pc[t] \in P => Cardinality(At(P)) = Cardinality(At(P) \ {t}) + 1
      /\ pc[t] \notin P => Cardinality(At(P)) = Cardinality(At(P) \ {t})
  <2>1. t \in At(P) <=> pc[t] \in P
    BY DEF At
  <2>2. t \notin At(P) => At(P) \ {t} = At(P)
    OBVIOUS
  <2>3. t \in At(P) => Cardinality(At(P) \ {t}) = Cardinality(At(P)) - 1
    BY <1>1, FS_RemoveElement
  <2>4. Cardinality(At(P)) \in Nat /\ Cardinality(At(P) \ {t}) \in Nat
    BY <1>1, FS_CardinalityType
  <2>5. CASE t \in At(P)
    BY <2>1, <2>3, <2>4, <2>5
  <2>6. CASE t \notin At(P)
    BY <2>1, <2>2, <2>4, <2>6
  <2> QED
    BY <2>5, <2>6
<1>3. /\ p \in P => At(P)' = (At(P) \ {t}) \union {t}
      /\ p \notin P => At(P)' = At(P) \ {t}
  BY DEF At, RecoveryTypes
<1>4. Cardinality((At(P) \ {t}) \union {t}) = Cardinality(At(P) \ {t}) + 1
  BY <1>1, FS_AddElement
<1>5. CASE p \in P
  <2>1. Cardinality(At(P)') = Cardinality(At(P) \ {t}) + 1
    BY <1>3, <1>4, <1>5, Zenon
  <2> QED
    BY <1>2, <1>5, <2>1
<1>6. CASE p \notin P
  <2>1. Cardinality(At(P)') = Cardinality(At(P) \ {t})
    BY <1>3, <1>6, Zenon
  <2> QED
    BY <1>2, <1>6, <2>1
<1> QED
  BY <1>5, <1>6

\* The failures of a history, and what its two operations make of them.
LEMMA HistoryGrows ==
  ASSUME NEW s \in Seq(BOOLEAN), NEW b \in BOOLEAN
  PROVE  /\ RecentFailures(s) \in Nat /\ RecentFailures(s) <= Len(s)
         /\ RecentFailures(Append(s, b)) = RecentFailures(s) + (IF b THEN 0 ELSE 1)
         /\ s # << >> => RecentFailures(Tail(s)) <= RecentFailures(s) /\ RecentFailures(Tail(s)) \in Nat
<1> DEFINE F(r) == {i \in 1 .. Len(r) : ~r[i]}
<1>1. \A r \in Seq(BOOLEAN) : RecentFailures(r) = Cardinality(F(r))
  <2> SUFFICES ASSUME NEW r \in Seq(BOOLEAN) PROVE RecentFailures(r) = Cardinality(F(r))
    OBVIOUS
  <2>1. DOMAIN r = 1 .. Len(r)
    BY LenProperties
  <2> QED
    BY <2>1 DEF RecentFailures
<1>2. \A r \in Seq(BOOLEAN) : IsFiniteSet(F(r)) /\ Cardinality(F(r)) \in Nat /\ Cardinality(F(r)) <= Len(r)
  <2> SUFFICES ASSUME NEW r \in Seq(BOOLEAN)
               PROVE  IsFiniteSet(F(r)) /\ Cardinality(F(r)) \in Nat /\ Cardinality(F(r)) <= Len(r)
    OBVIOUS
  <2>1. 1 \in Int /\ Len(r) \in Int /\ Len(r) >= 0
    OBVIOUS
  <2>2. IsFiniteSet(1 .. Len(r)) /\ Cardinality(1 .. Len(r)) = IF 1 > Len(r) THEN 0 ELSE Len(r) - 1 + 1
    BY <2>1, FS_Interval
  <2>3. F(r) \subseteq 1 .. Len(r)
    OBVIOUS
  <2> HIDE DEF F
  <2>4. IsFiniteSet(F(r)) /\ Cardinality(F(r)) <= Cardinality(1 .. Len(r))
    BY <2>2, <2>3, FS_Subset
  <2>5. Cardinality(F(r)) \in Nat
    BY <2>4, FS_CardinalityType
  <2>6. Cardinality(1 .. Len(r)) = Len(r)
    BY <2>1, <2>2
  <2> QED
    BY <2>4, <2>5, <2>6
<1>3. /\ Append(s, b) \in Seq(BOOLEAN) /\ Len(s) \in Nat /\ Len(Append(s, b)) = Len(s) + 1
      /\ \A i \in 1 .. Len(s) : Append(s, b)[i] = s[i]
      /\ Append(s, b)[Len(s) + 1] = b
  OBVIOUS
<1>4. RecentFailures(Append(s, b)) = RecentFailures(s) + (IF b THEN 0 ELSE 1)
  <2>1. F(Append(s, b)) = IF b THEN F(s) ELSE F(s) \union {Len(s) + 1}
    BY <1>3
  <2>2. Len(s) + 1 \notin F(s)
    BY <1>3
  <2> HIDE DEF F
  <2>3. Cardinality(F(s) \union {Len(s) + 1}) = Cardinality(F(s)) + 1
    BY <1>2, <2>2, FS_AddElement
  <2>4. CASE b
    <3>1. RecentFailures(Append(s, b)) = RecentFailures(s)
      BY <1>1, <1>3, <2>1, <2>4, Zenon
    <3>2. (IF b THEN 0 ELSE 1) = 0
      BY <2>4, Zenon
    <3>3. RecentFailures(s) + 0 = RecentFailures(s)
      BY <1>1, <1>2
    <3> QED
      BY <3>1, <3>2, <3>3, Zenon
  <2>5. CASE ~b
    BY <1>1, <1>2, <1>3, <2>1, <2>3, <2>5
  <2> QED
    BY <2>4, <2>5
<1>5. ASSUME s # << >> PROVE RecentFailures(Tail(s)) <= RecentFailures(s) /\ RecentFailures(Tail(s)) \in Nat
  <2>1. /\ Tail(s) \in Seq(BOOLEAN) /\ Len(Tail(s)) = Len(s) - 1
        /\ \A i \in 1 .. Len(Tail(s)) : Tail(s)[i] = s[i + 1]
    BY <1>5
  <2> DEFINE f == [i \in F(Tail(s)) |-> i + 1]
  <2>2. \A i \in F(Tail(s)) : i + 1 \in F(s) /\ i \in Nat
    BY <1>3, <2>1
  <2>3. f \in [F(Tail(s)) -> F(s)] /\ \A i, j \in F(Tail(s)) : f[i] = f[j] => i = j
    <3> HIDE DEF F
    <3> QED
      BY <2>2
  <2> HIDE DEF f, F
  <2>4. f \in Injection(F(Tail(s)), F(s))
    BY <2>3 DEF Injection, IsInjective
  <2>5. Cardinality(F(Tail(s))) <= Cardinality(F(s))
    BY <1>2, <2>4, FS_Injection DEF ExistsInjection
  <2> QED
    BY <1>1, <1>2, <2>1, <2>5
<1> QED
  BY <1>1, <1>2, <1>4, <1>5

\* The places from which, or to which, a task writes in the books.
Recordings == {"good.stats", "good.breaker", "good.history", "bad.stats", "bad.breaker", "bad.history", "bad.limiter"}

\* A task that moves among the places before the recordings leaves the books.
LEMMA QuietMove ==
  ASSUME RecoveryTypes, BooksInv, NEW t \in Tasks, NEW p, pc' = [pc EXCEPT ![t] = p],
         pc[t] \notin Recordings \/ pc[t] \in {"good.stats", "bad.stats"},
         p \notin Recordings \/ p \in {"good.stats", "bad.stats"},
         UNCHANGED <<limiter, stats, history>>, breaker'.failures = breaker.failures,
         breaker'.state = "Open" => breaker.state = "Open"
  PROVE  BooksInv'
<1> DEFINE A == {"bad.breaker", "bad.history", "bad.limiter"}
           B == {"bad.breaker"}
           C == {"good.breaker", "good.history", "bad.breaker", "bad.history"}
           D == {"bad.breaker", "bad.history"}
<1>1. Uncounted \in Nat /\ Uncounted' = Uncounted
  <2>1. p \notin A /\ pc[t] \notin A
    BY DEF Recordings
  <2> QED
    BY <2>1, Moved, Zenon DEF Uncounted
<1>2. Unbroken \in Nat /\ Unbroken' = Unbroken
  <2>1. p \notin B /\ pc[t] \notin B
    BY DEF Recordings
  <2> QED
    BY <2>1, Moved, Zenon DEF Unbroken
<1>3. Unwritten \in Nat /\ Unwritten' = Unwritten
  <2>1. p \notin C /\ pc[t] \notin C
    BY DEF Recordings
  <2> QED
    BY <2>1, Moved, Zenon DEF Unwritten
<1>4. UnwrittenFailures \in Nat /\ UnwrittenFailures' = UnwrittenFailures
  <2>1. p \notin D /\ pc[t] \notin D
    BY DEF Recordings
  <2> QED
    BY <2>1, Moved, Zenon DEF UnwrittenFailures
<1> QED
  BY <1>1, <1>2, <1>3, <1>4, RecoveryAssumption DEF BooksInv

LEMMA RaisedTypes ==
  ASSUME NEW e \in Errors
  PROVE  FromSnpError(e) \in ErrorTypes
BY DEF ErrorTypes

\* A call that returns before the recordings.
LEMMA EarlyReturn ==
  ASSUME RecoveryInv, NEW t \in Tasks, NEW r, Return(t, r), pc[t] \in {"idle", "circuit"},
         UNCHANGED <<limiter, stats, history>>, breaker' = breaker \/ breaker' = Checked
  PROVE  RecoveryInv'
<1>1. /\ breaker' \in [exists : BOOLEAN, failures : Nat, state : {"Closed", "Open", "HalfOpen"}, cooled : BOOLEAN]
      /\ breaker'.failures = breaker.failures /\ (breaker'.state = "Open" => breaker.state = "Open")
  BY DEF Checked, RecoveryInv, RecoveryTypes
<1>2. pc' = [pc EXCEPT ![t] = "idle"] /\ "idle" \in Places
  BY DEF Return, Places
<1>3. RecoveryTypes'
  BY <1>1, <1>2 DEF RecoveryInv, RecoveryTypes, Return
<1>4. AttemptInv'
  BY <1>2 DEF RecoveryInv, RecoveryTypes, AttemptInv, Return
<1>5. BooksInv'
  BY <1>1, <1>2, QuietMove DEF RecoveryInv, Recordings
<1> QED
  BY <1>3, <1>4, <1>5 DEF RecoveryInv

LEMMA HandleErrorKeeps ==
  ASSUME RecoveryInv, NEW t \in Tasks, NEW e \in Raised, HandleError(t, e)
  PROVE  RecoveryInv'
<1>1. CASE pc' = [pc EXCEPT ![t] = "circuit"] /\ error' = [error EXCEPT ![t] = FromSnpError(e)] /\ UNCHANGED <<try, limit>>
           /\ IsErrorRecoverable(FromSnpError(e)) /\ pc[t] = "idle" /\ UNCHANGED <<breaker, limiter, stats, history>>
  <2>1. FromSnpError(e) \in ErrorTypes /\ FromSnpError(e) # "none"
    BY RecoveryAssumption, RaisedTypes DEF FromSnpError, Errors
  <2>2. RecoveryTypes'
    BY <1>1, <2>1 DEF RecoveryInv, RecoveryTypes, Places
  <2>3. AttemptInv'
    BY <1>1, <2>1 DEF RecoveryInv, RecoveryTypes, AttemptInv
  <2>4. BooksInv'
    BY <1>1, QuietMove DEF RecoveryInv, Recordings, Places
  <2> QED
    BY <2>2, <2>3, <2>4 DEF RecoveryInv
<1>2. CASE \E r : Return(t, r) /\ pc[t] = "idle" /\ UNCHANGED <<breaker, limiter, stats, history>>
  BY <1>2, EarlyReturn
<1> QED
  BY <1>1, <1>2 DEF HandleError

LEMMA CheckCircuitKeeps ==
  ASSUME RecoveryInv, NEW t \in Tasks, CheckCircuit(t)
  PROVE  RecoveryInv'
<1>1. pc[t] = "circuit" /\ breaker' = Checked /\ UNCHANGED <<limiter, stats, history>>
  BY DEF CheckCircuit
<1>2. CASE \E r : Return(t, r)
  BY <1>1, <1>2, EarlyReturn
<1>3. CASE /\ OwnStrategy(error[t]) = "Retry" /\ limit' = [limit EXCEPT ![t] = Retries(error[t])]
           /\ pc' = [pc EXCEPT ![t] = "retry"] /\ UNCHANGED <<answer, try, error>>
  <2>1. Retries(error[t]) \in Nat /\ Retries(error[t]) > 0
    BY <1>3 DEF OwnStrategy, Retries
  <2>2. /\ breaker' \in [exists : BOOLEAN, failures : Nat, state : {"Closed", "Open", "HalfOpen"}, cooled : BOOLEAN]
        /\ breaker'.failures = breaker.failures /\ (breaker'.state = "Open" => breaker.state = "Open")
    BY <1>1 DEF Checked, RecoveryInv, RecoveryTypes
  <2>3. RecoveryTypes'
    BY <1>1, <1>3, <2>1, <2>2 DEF RecoveryInv, RecoveryTypes, Places
  <2>4. AttemptInv'
    BY <1>1, <1>3, <2>1 DEF RecoveryInv, RecoveryTypes, AttemptInv
  <2>5. BooksInv'
    BY <1>1, <1>3, <2>2, QuietMove DEF RecoveryInv, Recordings, Places
  <2> QED
    BY <2>3, <2>4, <2>5 DEF RecoveryInv
<1> QED
  BY <1>2, <1>3 DEF CheckCircuit

LEMMA AttemptKeeps ==
  ASSUME RecoveryInv, NEW t \in Tasks, Attempt(t)
  PROVE  RecoveryInv'
<1>1. /\ pc[t] = "retry" /\ try' = [try EXCEPT ![t] = @ + 1] /\ UNCHANGED <<limit, breaker, limiter, stats, history>>
      /\ try[t] \in Nat /\ limit[t] \in Nat /\ try[t] < limit[t]
  BY DEF Attempt, RecoveryInv, RecoveryTypes, AttemptInv
<1>2. ASSUME NEW p \in {"good.stats", "bad.stats", "retry"}, pc' = [pc EXCEPT ![t] = p],
             \/ p # "retry" /\ UNCHANGED error
             \/ \E e \in {"NetworkError", "OtherError"} :
                  /\ error' = [error EXCEPT ![t] = FromSnpError(e)]
                  /\ p = "retry" => IsErrorRecoverable(FromSnpError(e)) /\ try[t] + 1 < limit[t]
      PROVE  RecoveryInv'
  <2>1. \A e \in {"NetworkError", "OtherError"} : FromSnpError(e) \in ErrorTypes /\ FromSnpError(e) # "none"
    BY RaisedTypes DEF FromSnpError, Errors
  <2>2. RecoveryTypes'
    <3>1. error' \in [Tasks -> ErrorTypes \union {"none"}]
      <4>1. error \in [Tasks -> ErrorTypes \union {"none"}]
        BY DEF RecoveryInv, RecoveryTypes
      <4>2. UNCHANGED error \/ \E e \in {"NetworkError", "OtherError"} : error' = [error EXCEPT ![t] = FromSnpError(e)]
        BY <1>2
      <4> QED
        BY <2>1, <4>1, <4>2
    <3>2. pc' \in [Tasks -> Places] /\ try' \in [Tasks -> Nat]
      BY <1>1, <1>2 DEF RecoveryInv, RecoveryTypes, Places
    <3> QED
      BY <1>1, <3>1, <3>2 DEF RecoveryInv, RecoveryTypes
  <2>3. AttemptInv'
    BY <1>1, <1>2, <2>1 DEF RecoveryInv, RecoveryTypes, AttemptInv
  <2>4. BooksInv'
    BY <1>1, <1>2, QuietMove DEF RecoveryInv, Recordings, Places
  <2> QED
    BY <2>2, <2>3, <2>4 DEF RecoveryInv
<1> QED
  BY <1>2 DEF Attempt

\* add_entry: at most one entry more, and never more than MaxHistory.
LEMMA EntryAdded ==
  ASSUME RecoveryInv, NEW b \in BOOLEAN
  PROVE  /\ AddEntry(b) \in Seq(BOOLEAN) /\ Len(AddEntry(b)) <= MaxHistory
         /\ Len(history) \in Nat /\ Len(AddEntry(b)) \in Nat /\ Len(AddEntry(b)) <= Len(history) + 1
         /\ RecentFailures(history) \in Nat /\ RecentFailures(AddEntry(b)) \in Nat
         /\ RecentFailures(AddEntry(b)) <= RecentFailures(history) + (IF b THEN 0 ELSE 1)
<1> DEFINE longer == Append(history, b)
           more == IF b THEN 0 ELSE 1
<1>1. history \in Seq(BOOLEAN) /\ Len(history) \in Nat /\ Len(history) <= MaxHistory /\ MaxHistory \in Nat
  BY RecoveryAssumption DEF RecoveryInv, RecoveryTypes, BooksInv
<1>2. longer \in Seq(BOOLEAN) /\ Len(longer) = Len(history) + 1 /\ longer # << >>
  BY <1>1
<1>3. /\ RecentFailures(history) \in Nat /\ RecentFailures(longer) \in Nat
      /\ RecentFailures(longer) = RecentFailures(history) + more
  BY <1>1, <1>2, HistoryGrows
<1>4. RecentFailures(Tail(longer)) <= RecentFailures(longer) /\ RecentFailures(Tail(longer)) \in Nat
  BY <1>2, HistoryGrows
<1>5. more \in {0, 1}
  OBVIOUS
<1>6. AddEntry(b) = IF Len(longer) > MaxHistory THEN Tail(longer) ELSE longer
  BY DEF AddEntry
<1>7. Tail(longer) \in Seq(BOOLEAN) /\ Len(Tail(longer)) = Len(history)
  BY <1>1, <1>2
<1> HIDE DEF longer, more
<1>8. RecentFailures(AddEntry(b)) \in Nat /\ RecentFailures(AddEntry(b)) <= RecentFailures(longer)
  BY <1>3, <1>4, <1>6
<1>9. RecentFailures(AddEntry(b)) <= RecentFailures(history) + more
  BY <1>3, <1>5, <1>8
<1>10. AddEntry(b) \in Seq(BOOLEAN) /\ Len(AddEntry(b)) <= MaxHistory
       /\ Len(AddEntry(b)) \in Nat /\ Len(AddEntry(b)) <= Len(history) + 1
  <2>1. CASE Len(longer) > MaxHistory
    <3>1. AddEntry(b) = Tail(longer)
      BY <1>6, <2>1, Zenon
    <3> QED
      BY <1>1, <1>7, <3>1
  <2>2. CASE ~(Len(longer) > MaxHistory)
    <3>1. AddEntry(b) = longer
      BY <1>6, <2>2, Zenon
    <3> QED
      BY <1>1, <1>2, <2>2, <3>1
  <2> QED
    BY <2>1, <2>2
<1> QED
  BY <1>1, <1>3, <1>8, <1>9, <1>10 DEF more

\* record_successful_recovery keeps the books.
LEMMA RecordSuccessKeeps ==
  ASSUME RecoveryInv, NEW t \in Tasks, RecordSuccess(t)
  PROVE  RecoveryInv'
<1> DEFINE A == {"bad.breaker", "bad.history", "bad.limiter"}
           B == {"bad.breaker"}
           C == {"good.breaker", "good.history", "bad.breaker", "bad.history"}
           D == {"bad.breaker", "bad.history"}
<1>1. CASE pc[t] = "good.stats"
  <2>1. /\ stats' = [stats EXCEPT !.attempts = @ + try[t], !.good = @ + 1] /\ pc' = [pc EXCEPT ![t] = "good.breaker"]
        /\ UNCHANGED <<try, limit, error, answer, calls, breaker, limiter, history>>
    BY <1>1 DEF RecordSuccess, Goto
  <2>2. RecoveryTypes' /\ AttemptInv'
    <3>1. try[t] \in Nat /\ stats \in [attempts : Nat, good : Nat, bad : Nat]
      BY DEF RecoveryInv, RecoveryTypes
    <3>2. stats' \in [attempts : Nat, good : Nat, bad : Nat]
      <4>1. stats' = [stats EXCEPT !.attempts = stats.attempts + try[t], !.good = stats.good + 1]
        BY <2>1
      <4>2. stats.attempts + try[t] \in Nat /\ stats.good + 1 \in Nat
        BY <3>1
      <4> QED
        BY <3>1, <4>1, <4>2
    <3>3. RecoveryTypes'
      BY <1>1, <2>1, <3>2 DEF RecoveryInv, RecoveryTypes, Places
    <3>4. AttemptInv'
      BY <1>1, <2>1 DEF RecoveryInv, RecoveryTypes, AttemptInv
    <3> QED
      BY <3>3, <3>4
  <2>3. stats'.good = stats.good + 1 /\ stats'.bad = stats.bad /\ stats.good \in Nat /\ stats.bad \in Nat
    BY <2>1 DEF RecoveryInv, RecoveryTypes
  <2>4. /\ Uncounted \in Nat /\ Unbroken \in Nat
        /\ Unwritten \in Nat /\ UnwrittenFailures \in Nat
        /\ Uncounted' = Uncounted
        /\ Unbroken' = Unbroken
        /\ Unwritten' = Unwritten + 1
        /\ UnwrittenFailures' = UnwrittenFailures
    <3>1. RecoveryTypes /\ pc' = [pc EXCEPT ![t] = "good.breaker"]
      BY <2>1 DEF RecoveryInv
    <3>2. Uncounted \in Nat /\ Uncounted' = Uncounted
      <4>1. "good.breaker" \notin A /\ pc[t] \notin A
        BY <1>1
      <4> QED
        BY <3>1, <4>1, Moved, Zenon DEF Uncounted
    <3>3. Unbroken \in Nat /\ Unbroken' = Unbroken
      <4>1. "good.breaker" \notin B /\ pc[t] \notin B
        BY <1>1
      <4> QED
        BY <3>1, <4>1, Moved, Zenon DEF Unbroken
    <3>4. Unwritten \in Nat /\ Unwritten' = Unwritten + 1
      <4>1. "good.breaker" \in C /\ pc[t] \notin C
        BY <1>1
      <4> QED
        BY <3>1, <4>1, Moved, Zenon DEF Unwritten
    <3>5. UnwrittenFailures \in Nat /\ UnwrittenFailures' = UnwrittenFailures
      <4>1. "good.breaker" \notin D /\ pc[t] \notin D
        BY <1>1
      <4> QED
        BY <3>1, <4>1, Moved, Zenon DEF UnwrittenFailures
    <3> QED
      BY <3>2, <3>3, <3>4, <3>5
  <2>5. BooksInv'
    <3>1. Len(history) \in Nat /\ RecentFailures(history) \in Nat
      BY HistoryGrows, LenProperties DEF RecoveryInv, RecoveryTypes
    <3>2. RecentFailures(history') = RecentFailures(history)
      BY <2>1
    <3> QED
      BY <2>1, <2>3, <2>4, <3>1, <3>2, RecoveryAssumption DEF BooksInv, RecoveryInv
  <2> QED
    BY <2>2, <2>5 DEF RecoveryInv
<1>2. CASE pc[t] = "good.breaker"
  <2>1. /\ breaker' = IF breaker.exists THEN [breaker EXCEPT !.failures = 0, !.state = "Closed"] ELSE breaker
        /\ pc' = [pc EXCEPT ![t] = "good.history"]
        /\ UNCHANGED <<try, limit, error, answer, calls, limiter, stats, history>>
    BY <1>2 DEF RecordSuccess, Goto
  <2>2. RecoveryTypes' /\ AttemptInv'
    BY <1>2, <2>1 DEF RecoveryInv, RecoveryTypes, AttemptInv, Places
  <2>3. /\ breaker'.failures <= breaker.failures /\ breaker.failures \in Nat /\ breaker'.failures \in Nat
        /\ breaker'.state = "Open" => breaker' = breaker
    BY <2>1 DEF RecoveryInv, RecoveryTypes
  <2>4. /\ Uncounted \in Nat /\ Unbroken \in Nat
        /\ Unwritten \in Nat /\ UnwrittenFailures \in Nat
        /\ Uncounted' = Uncounted
        /\ Unbroken' = Unbroken
        /\ Unwritten' = Unwritten
        /\ UnwrittenFailures' = UnwrittenFailures
    <3>1. RecoveryTypes /\ pc' = [pc EXCEPT ![t] = "good.history"]
      BY <2>1 DEF RecoveryInv
    <3>2. Uncounted \in Nat /\ Uncounted' = Uncounted
      <4>1. "good.history" \notin A /\ pc[t] \notin A
        BY <1>2
      <4> QED
        BY <3>1, <4>1, Moved, Zenon DEF Uncounted
    <3>3. Unbroken \in Nat /\ Unbroken' = Unbroken
      <4>1. "good.history" \notin B /\ pc[t] \notin B
        BY <1>2
      <4> QED
        BY <3>1, <4>1, Moved, Zenon DEF Unbroken
    <3>4. Unwritten \in Nat /\ Unwritten' = Unwritten
      <4>1. "good.history" \in C /\ pc[t] \in C
        BY <1>2
      <4> QED
        BY <3>1, <4>1, Moved, Zenon DEF Unwritten
    <3>5. UnwrittenFailures \in Nat /\ UnwrittenFailures' = UnwrittenFailures
      <4>1. "good.history" \notin D /\ pc[t] \notin D
        BY <1>2
      <4> QED
        BY <3>1, <4>1, Moved, Zenon DEF UnwrittenFailures
    <3> QED
      BY <3>2, <3>3, <3>4, <3>5
  <2>5. BooksInv'
    <3>1. RecentFailures(history') = RecentFailures(history)
      BY <2>1
    <3>2. stats.bad \in Nat
      BY DEF RecoveryInv, RecoveryTypes
    <3> QED
      BY <2>1, <2>3, <2>4, <3>1, <3>2, RecoveryAssumption DEF BooksInv, RecoveryInv
  <2> QED
    BY <2>2, <2>5 DEF RecoveryInv

<1>3. CASE pc[t] = "good.history"
  <2>1. /\ history' = AddEntry(TRUE) /\ Return(t, "Recovered") /\ pc' = [pc EXCEPT ![t] = "idle"]
        /\ UNCHANGED <<calls, breaker, limiter, stats>>
    BY <1>3 DEF RecordSuccess, Return
  <2>2. /\ history' \in Seq(BOOLEAN) /\ Len(history') <= MaxHistory /\ Len(history') <= Len(history) + 1
        /\ Len(history) \in Nat /\ Len(history') \in Nat
    BY <2>1, EntryAdded
  <2>3. /\ RecentFailures(history) \in Nat /\ RecentFailures(history') \in Nat
        /\ RecentFailures(history') <= RecentFailures(history)
    <3>1. /\ RecentFailures(history) \in Nat /\ RecentFailures(AddEntry(TRUE)) \in Nat
          /\ RecentFailures(AddEntry(TRUE)) <= RecentFailures(history) + (IF TRUE THEN 0 ELSE 1)
      BY EntryAdded, Zenon
    <3>2. RecentFailures(AddEntry(TRUE)) <= RecentFailures(history) + 0
      BY <3>1, Zenon
    <3>3. RecentFailures(history') <= RecentFailures(history) + 0 /\ RecentFailures(history') \in Nat
      BY <2>1, <3>1, <3>2, Zenon
    <3> QED
      BY <3>1, <3>3
  <2>4. RecoveryTypes' /\ AttemptInv'
    <3>1. RecoveryTypes'
      BY <1>3, <2>1, <2>2 DEF RecoveryInv, RecoveryTypes, Places, Return
    <3>2. AttemptInv'
      BY <1>3, <2>1 DEF RecoveryInv, RecoveryTypes, AttemptInv, Return
    <3> QED
      BY <3>1, <3>2
  <2>5. /\ Uncounted \in Nat /\ Unbroken \in Nat
        /\ Unwritten \in Nat /\ UnwrittenFailures \in Nat
        /\ Uncounted' = Uncounted
        /\ Unbroken' = Unbroken
        /\ Unwritten' = Unwritten - 1
        /\ UnwrittenFailures' = UnwrittenFailures
    <3>1. RecoveryTypes /\ pc' = [pc EXCEPT ![t] = "idle"]
      BY <2>1 DEF RecoveryInv
    <3>2. Uncounted \in Nat /\ Uncounted' = Uncounted
      <4>1. "idle" \notin A /\ pc[t] \notin A
        BY <1>3
      <4> QED
        BY <3>1, <4>1, Moved, Zenon DEF Uncounted
    <3>3. Unbroken \in Nat /\ Unbroken' = Unbroken
      <4>1. "idle" \notin B /\ pc[t] \notin B
        BY <1>3
      <4> QED
        BY <3>1, <4>1, Moved, Zenon DEF Unbroken
    <3>4. Unwritten \in Nat /\ Unwritten' = Unwritten - 1
      <4>1. "idle" \notin C /\ pc[t] \in C
        BY <1>3
      <4> QED
        BY <3>1, <4>1, Moved, Zenon DEF Unwritten
    <3>5. UnwrittenFailures \in Nat /\ UnwrittenFailures' = UnwrittenFailures
      <4>1. "idle" \notin D /\ pc[t] \notin D
        BY <1>3
      <4> QED
        BY <3>1, <4>1, Moved, Zenon DEF UnwrittenFailures
    <3> QED
      BY <3>2, <3>3, <3>4, <3>5
  <2>6. BooksInv'
    <3>1. stats.bad \in Nat /\ stats.good \in Nat /\ limiter.count \in Nat /\ breaker.failures \in Nat
      BY DEF RecoveryInv, RecoveryTypes
    <3>2. UNCHANGED <<breaker, limiter, stats>> /\ BooksInv /\ MaxHistory \in Nat
      BY <2>1, RecoveryAssumption DEF RecoveryInv
    <3>3. /\ stats.bad = limiter.count + Uncounted /\ breaker.failures + Unbroken <= stats.bad
          /\ Len(history) + Unwritten <= stats.good + stats.bad
          /\ RecentFailures(history) + UnwrittenFailures <= stats.bad
          /\ breaker.state = "Open" => breaker.failures >= Threshold
      BY <3>2 DEF BooksInv
    <3>4. Len(history') + Unwritten' <= stats.good + stats.bad
      <4>1. Len(history') <= Len(history) + 1 /\ Len(history') \in Nat /\ Len(history) \in Nat
        BY <2>2
      <4>2. Unwritten' = Unwritten - 1 /\ Unwritten \in Nat
        BY <2>5
      <4>3. stats.good \in Nat /\ stats.bad \in Nat
        BY <3>1
      <4>4. Len(history) + Unwritten <= stats.good + stats.bad
        BY <3>3
      <4> QED
        BY <4>1, <4>2, <4>3, <4>4
    <3>5. RecentFailures(history') + UnwrittenFailures' <= stats.bad
      BY <2>3, <2>5, <3>1, <3>3
    <3>6. /\ stats.bad = limiter.count + Uncounted' /\ breaker.failures + Unbroken' <= stats.bad
          /\ Len(history') <= MaxHistory
      BY <2>2, <2>5, <3>3
    <3> QED
      BY <3>2, <3>3, <3>4, <3>5, <3>6 DEF BooksInv
  <2> QED
    BY <2>4, <2>6 DEF RecoveryInv
<1> QED
  BY <1>1, <1>2, <1>3 DEF RecordSuccess

\* record_failed_recovery keeps the books.
LEMMA RecordFailureKeeps ==
  ASSUME RecoveryInv, NEW t \in Tasks, RecordFailure(t)
  PROVE  RecoveryInv'
<1> DEFINE A == {"bad.breaker", "bad.history", "bad.limiter"}
           B == {"bad.breaker"}
           C == {"good.breaker", "good.history", "bad.breaker", "bad.history"}
           D == {"bad.breaker", "bad.history"}
<1>1. CASE pc[t] = "bad.stats"
  <2>1. /\ stats' = [stats EXCEPT !.attempts = @ + limit[t], !.bad = @ + 1] /\ pc' = [pc EXCEPT ![t] = "bad.breaker"]
        /\ UNCHANGED <<try, limit, error, answer, calls, breaker, limiter, history>>
    BY <1>1 DEF RecordFailure, Goto
  <2>2. RecoveryTypes' /\ AttemptInv'
    <3>1. limit[t] \in Nat /\ stats \in [attempts : Nat, good : Nat, bad : Nat]
      BY DEF RecoveryInv, RecoveryTypes
    <3>2. stats' \in [attempts : Nat, good : Nat, bad : Nat]
      <4>1. stats' = [stats EXCEPT !.attempts = stats.attempts + limit[t], !.bad = stats.bad + 1]
        BY <2>1
      <4>2. stats.attempts + limit[t] \in Nat /\ stats.bad + 1 \in Nat
        BY <3>1
      <4> QED
        BY <3>1, <4>1, <4>2
    <3>3. RecoveryTypes'
      BY <1>1, <2>1, <3>2 DEF RecoveryInv, RecoveryTypes, Places
    <3>4. AttemptInv'
      BY <1>1, <2>1 DEF RecoveryInv, RecoveryTypes, AttemptInv
    <3> QED
      BY <3>3, <3>4
  <2>3. /\ Uncounted \in Nat /\ Unbroken \in Nat
        /\ Unwritten \in Nat /\ UnwrittenFailures \in Nat
        /\ Uncounted' = Uncounted + 1
        /\ Unbroken' = Unbroken + 1
        /\ Unwritten' = Unwritten + 1
        /\ UnwrittenFailures' = UnwrittenFailures + 1
    <3>1. RecoveryTypes /\ pc' = [pc EXCEPT ![t] = "bad.breaker"]
      BY <2>1 DEF RecoveryInv
    <3>2. Uncounted \in Nat /\ Uncounted' = Uncounted + 1
      <4>1. "bad.breaker" \in A /\ pc[t] \notin A
        BY <1>1
      <4> QED
        BY <3>1, <4>1, Moved, Zenon DEF Uncounted
    <3>3. Unbroken \in Nat /\ Unbroken' = Unbroken + 1
      <4>1. "bad.breaker" \in B /\ pc[t] \notin B
        BY <1>1
      <4> QED
        BY <3>1, <4>1, Moved, Zenon DEF Unbroken
    <3>4. Unwritten \in Nat /\ Unwritten' = Unwritten + 1
      <4>1. "bad.breaker" \in C /\ pc[t] \notin C
        BY <1>1
      <4> QED
        BY <3>1, <4>1, Moved, Zenon DEF Unwritten
    <3>5. UnwrittenFailures \in Nat /\ UnwrittenFailures' = UnwrittenFailures + 1
      <4>1. "bad.breaker" \in D /\ pc[t] \notin D
        BY <1>1
      <4> QED
        BY <3>1, <4>1, Moved, Zenon DEF UnwrittenFailures
    <3> QED
      BY <3>2, <3>3, <3>4, <3>5
  <2>4. stats'.bad = stats.bad + 1 /\ stats'.good = stats.good
    BY <2>1 DEF RecoveryInv, RecoveryTypes
  <2>5. BooksInv'
    <3>1. /\ stats.bad \in Nat /\ stats.good \in Nat /\ limiter.count \in Nat /\ breaker.failures \in Nat
          /\ Len(history) \in Nat /\ RecentFailures(history) \in Nat /\ Threshold \in Nat /\ MaxHistory \in Nat
      BY RecoveryAssumption, HistoryGrows, LenProperties DEF RecoveryInv, RecoveryTypes
    <3>2. /\ stats.bad = limiter.count + Uncounted /\ breaker.failures + Unbroken <= stats.bad
          /\ Len(history) + Unwritten <= stats.good + stats.bad
          /\ RecentFailures(history) + UnwrittenFailures <= stats.bad
          /\ Len(history) <= MaxHistory
          /\ breaker.state = "Open" => breaker.failures >= Threshold
      BY DEF RecoveryInv, BooksInv
    <3>3. UNCHANGED <<breaker, limiter, history>> /\ RecentFailures(history') = RecentFailures(history)
      BY <2>1
    <3>4. stats'.bad = limiter'.count + Uncounted'
      <4>1. limiter'.count = limiter.count
        BY <3>3
      <4>2. Uncounted' = Uncounted + 1 /\ Uncounted \in Nat
        BY <2>3
      <4> QED
        BY <2>4, <3>1, <3>2, <4>1, <4>2
    <3>5. breaker'.failures + Unbroken' <= stats'.bad
      <4>1. breaker'.failures = breaker.failures
        BY <3>3
      <4>2. Unbroken' = Unbroken + 1 /\ Unbroken \in Nat
        BY <2>3
      <4>3. stats'.bad = stats.bad + 1
        BY <2>4
      <4>4. stats.bad \in Nat /\ breaker.failures \in Nat
        BY <3>1
      <4>5. breaker.failures + Unbroken <= stats.bad
        BY <3>2
      <4> QED
        BY <4>1, <4>2, <4>3, <4>4, <4>5
    <3>6. Len(history') + Unwritten' <= stats'.good + stats'.bad
      <4>1. Len(history') = Len(history)
        BY <3>3
      <4>2. Unwritten' = Unwritten + 1 /\ Unwritten \in Nat
        BY <2>3
      <4>3. stats'.bad = stats.bad + 1 /\ stats'.good = stats.good
        BY <2>4
      <4>4. stats.bad \in Nat /\ stats.good \in Nat /\ Len(history) \in Nat
        BY <3>1
      <4>5. Len(history) + Unwritten <= stats.good + stats.bad
        BY <3>2
      <4> QED
        BY <4>1, <4>2, <4>3, <4>4, <4>5
    <3>7. RecentFailures(history') + UnwrittenFailures' <= stats'.bad
      BY <2>3, <2>4, <3>1, <3>2, <3>3
    <3>8. Len(history') <= MaxHistory
      BY <2>4, <3>2, <3>3
    <3> QED
      BY <3>2, <3>3, <3>4, <3>5, <3>6, <3>7, <3>8 DEF BooksInv
  <2> QED
    BY <2>2, <2>5 DEF RecoveryInv
<1>2. CASE pc[t] = "bad.breaker"
  <2>1. /\ breaker' = [exists |-> TRUE, failures |-> breaker.failures + 1, cooled |-> FALSE,
                       state |-> IF breaker.failures + 1 >= Threshold THEN "Open" ELSE breaker.state]
        /\ pc' = [pc EXCEPT ![t] = "bad.history"]
        /\ UNCHANGED <<try, limit, error, answer, calls, limiter, stats, history>>
    BY <1>2 DEF RecordFailure, Goto
  <2>2. RecoveryTypes' /\ AttemptInv'
    <3>1. RecoveryTypes'
      BY <1>2, <2>1 DEF RecoveryInv, RecoveryTypes, Places
    <3>2. AttemptInv'
      BY <1>2, <2>1 DEF RecoveryInv, RecoveryTypes, AttemptInv
    <3> QED
      BY <3>1, <3>2
  <2>3. /\ Uncounted \in Nat /\ Unbroken \in Nat
        /\ Unwritten \in Nat /\ UnwrittenFailures \in Nat
        /\ Uncounted' = Uncounted
        /\ Unbroken' = Unbroken - 1
        /\ Unwritten' = Unwritten
        /\ UnwrittenFailures' = UnwrittenFailures
    <3>1. RecoveryTypes /\ pc' = [pc EXCEPT ![t] = "bad.history"]
      BY <2>1 DEF RecoveryInv
    <3>2. Uncounted \in Nat /\ Uncounted' = Uncounted
      <4>1. "bad.history" \in A /\ pc[t] \in A
        BY <1>2
      <4> QED
        BY <3>1, <4>1, Moved, Zenon DEF Uncounted
    <3>3. Unbroken \in Nat /\ Unbroken' = Unbroken - 1
      <4>1. "bad.history" \notin B /\ pc[t] \in B
        BY <1>2
      <4> QED
        BY <3>1, <4>1, Moved, Zenon DEF Unbroken
    <3>4. Unwritten \in Nat /\ Unwritten' = Unwritten
      <4>1. "bad.history" \in C /\ pc[t] \in C
        BY <1>2
      <4> QED
        BY <3>1, <4>1, Moved, Zenon DEF Unwritten
    <3>5. UnwrittenFailures \in Nat /\ UnwrittenFailures' = UnwrittenFailures
      <4>1. "bad.history" \in D /\ pc[t] \in D
        BY <1>2
      <4> QED
        BY <3>1, <4>1, Moved, Zenon DEF UnwrittenFailures
    <3> QED
      BY <3>2, <3>3, <3>4, <3>5
  <2>4. /\ breaker'.failures = breaker.failures + 1
        /\ breaker'.state = "Open" => breaker.state = "Open" \/ breaker.failures + 1 >= Threshold
    BY <2>1
  <2>5. BooksInv'
    <3>1. /\ stats.bad \in Nat /\ stats.good \in Nat /\ limiter.count \in Nat /\ breaker.failures \in Nat
          /\ Len(history) \in Nat /\ RecentFailures(history) \in Nat /\ Threshold \in Nat /\ MaxHistory \in Nat
      BY RecoveryAssumption, HistoryGrows, LenProperties DEF RecoveryInv, RecoveryTypes
    <3>2. /\ stats.bad = limiter.count + Uncounted /\ breaker.failures + Unbroken <= stats.bad
          /\ Len(history) + Unwritten <= stats.good + stats.bad
          /\ RecentFailures(history) + UnwrittenFailures <= stats.bad
          /\ Len(history) <= MaxHistory
          /\ breaker.state = "Open" => breaker.failures >= Threshold
      BY DEF RecoveryInv, BooksInv
    <3>3. UNCHANGED <<stats, limiter, history>> /\ RecentFailures(history') = RecentFailures(history)
      BY <2>1
    <3>4. breaker'.state = "Open" => breaker'.failures >= Threshold
      BY <2>4, <3>1, <3>2
    <3>5. stats'.bad = limiter'.count + Uncounted'
      BY <2>3, <2>4, <3>1, <3>2, <3>3
    <3>6. breaker'.failures + Unbroken' <= stats'.bad
      <4>1. breaker'.failures = breaker.failures + 1
        BY <2>4
      <4>2. Unbroken' = Unbroken - 1 /\ Unbroken \in Nat
        BY <2>3
      <4>3. stats'.bad = stats.bad
        BY <3>3
      <4>4. stats.bad \in Nat /\ breaker.failures \in Nat
        BY <3>1
      <4>5. breaker.failures + Unbroken <= stats.bad
        BY <3>2
      <4> QED
        BY <4>1, <4>2, <4>3, <4>4, <4>5
    <3>7. Len(history') + Unwritten' <= stats'.good + stats'.bad
      BY <2>3, <2>4, <3>1, <3>2, <3>3
    <3>8. RecentFailures(history') + UnwrittenFailures' <= stats'.bad
      BY <2>3, <2>4, <3>1, <3>2, <3>3
    <3>9. Len(history') <= MaxHistory
      BY <2>4, <3>2, <3>3
    <3> QED
      BY <3>4, <3>5, <3>6, <3>7, <3>8, <3>9 DEF BooksInv
  <2> QED
    BY <2>2, <2>5 DEF RecoveryInv
<1>3. CASE pc[t] = "bad.history"
  <2>1. /\ history' = AddEntry(FALSE) /\ pc' = [pc EXCEPT ![t] = "bad.limiter"]
        /\ UNCHANGED <<try, limit, error, answer, calls, breaker, limiter, stats>>
    BY <1>3 DEF RecordFailure, Goto
  <2>2. RecoveryTypes' /\ AttemptInv'
    <3>1. history' \in Seq(BOOLEAN)
      BY <2>1, EntryAdded
    <3>2. RecoveryTypes'
      BY <1>3, <2>1, <3>1 DEF RecoveryInv, RecoveryTypes, Places
    <3>3. AttemptInv'
      BY <1>3, <2>1 DEF RecoveryInv, RecoveryTypes, AttemptInv
    <3> QED
      BY <3>2, <3>3
  <2>3. /\ Uncounted \in Nat /\ Unbroken \in Nat
        /\ Unwritten \in Nat /\ UnwrittenFailures \in Nat
        /\ Uncounted' = Uncounted
        /\ Unbroken' = Unbroken
        /\ Unwritten' = Unwritten - 1
        /\ UnwrittenFailures' = UnwrittenFailures - 1
    <3>1. RecoveryTypes /\ pc' = [pc EXCEPT ![t] = "bad.limiter"]
      BY <2>1 DEF RecoveryInv
    <3>2. Uncounted \in Nat /\ Uncounted' = Uncounted
      <4>1. "bad.limiter" \in A /\ pc[t] \in A
        BY <1>3
      <4> QED
        BY <3>1, <4>1, Moved, Zenon DEF Uncounted
    <3>3. Unbroken \in Nat /\ Unbroken' = Unbroken
      <4>1. "bad.limiter" \notin B /\ pc[t] \notin B
        BY <1>3
      <4> QED
        BY <3>1, <4>1, Moved, Zenon DEF Unbroken
    <3>4. Unwritten \in Nat /\ Unwritten' = Unwritten - 1
      <4>1. "bad.limiter" \notin C /\ pc[t] \in C
        BY <1>3
      <4> QED
        BY <3>1, <4>1, Moved, Zenon DEF Unwritten
    <3>5. UnwrittenFailures \in Nat /\ UnwrittenFailures' = UnwrittenFailures - 1
      <4>1. "bad.limiter" \notin D /\ pc[t] \in D
        BY <1>3
      <4> QED
        BY <3>1, <4>1, Moved, Zenon DEF UnwrittenFailures
    <3> QED
      BY <3>2, <3>3, <3>4, <3>5
  <2>4. /\ Len(history') <= MaxHistory /\ Len(history') <= Len(history) + 1 /\ Len(history') \in Nat
        /\ RecentFailures(history') \in Nat /\ RecentFailures(history') <= RecentFailures(history) + 1
    <3>1. /\ RecentFailures(AddEntry(FALSE)) \in Nat /\ Len(AddEntry(FALSE)) \in Nat
          /\ Len(AddEntry(FALSE)) <= MaxHistory /\ Len(AddEntry(FALSE)) <= Len(history) + 1
          /\ RecentFailures(AddEntry(FALSE)) <= RecentFailures(history) + (IF FALSE THEN 0 ELSE 1)
      BY EntryAdded, Zenon
    <3>2. RecentFailures(AddEntry(FALSE)) <= RecentFailures(history) + 1
      BY <3>1, Zenon
    <3> QED
      BY <2>1, <3>1, <3>2, Zenon
  <2>5. BooksInv'
    <3>1. /\ stats.bad \in Nat /\ stats.good \in Nat /\ limiter.count \in Nat /\ breaker.failures \in Nat
          /\ Len(history) \in Nat /\ RecentFailures(history) \in Nat /\ Threshold \in Nat /\ MaxHistory \in Nat
      BY RecoveryAssumption, HistoryGrows, LenProperties DEF RecoveryInv, RecoveryTypes
    <3>2. /\ stats.bad = limiter.count + Uncounted /\ breaker.failures + Unbroken <= stats.bad
          /\ Len(history) + Unwritten <= stats.good + stats.bad
          /\ RecentFailures(history) + UnwrittenFailures <= stats.bad
          /\ Len(history) <= MaxHistory
          /\ breaker.state = "Open" => breaker.failures >= Threshold
      BY DEF RecoveryInv, BooksInv
    <3>3. UNCHANGED <<stats, limiter, breaker>>
      BY <2>1
    <3>4. stats'.bad = limiter'.count + Uncounted'
      BY <2>3, <2>4, <3>1, <3>2, <3>3
    <3>5. breaker'.failures + Unbroken' <= stats'.bad
      BY <2>3, <2>4, <3>1, <3>2, <3>3
    <3>6. Len(history') + Unwritten' <= stats'.good + stats'.bad
      <4>1. stats'.good = stats.good /\ stats'.bad = stats.bad
        BY <3>3
      <4>2. Unwritten' = Unwritten - 1 /\ Unwritten \in Nat
        BY <2>3
      <4>3. Len(history') <= Len(history) + 1 /\ Len(history') \in Nat /\ Len(history) + Unwritten <= stats.good + stats.bad
        BY <2>4, <3>2
      <4> QED
        BY <3>1, <4>1, <4>2, <4>3
    <3>7. RecentFailures(history') + UnwrittenFailures' <= stats'.bad
      <4>1. RecentFailures(history') <= RecentFailures(history) + 1 /\ RecentFailures(history') \in Nat
        BY <2>4
      <4>2. UnwrittenFailures' = UnwrittenFailures - 1 /\ UnwrittenFailures \in Nat
        BY <2>3
      <4>3. stats'.bad = stats.bad
        BY <3>3
      <4>4. stats.bad \in Nat /\ RecentFailures(history) \in Nat
        BY <3>1
      <4>5. RecentFailures(history) + UnwrittenFailures <= stats.bad
        BY <3>2
      <4> QED
        BY <4>1, <4>2, <4>3, <4>4, <4>5
    <3>8. Len(history') <= MaxHistory
      BY <2>4, <3>2, <3>3
    <3> QED
      BY <3>2, <3>3, <3>4, <3>5, <3>6, <3>7, <3>8 DEF BooksInv
  <2> QED
    BY <2>2, <2>5 DEF RecoveryInv
<1>4. CASE pc[t] = "bad.limiter"
  <2>1. /\ limiter' = [limiter EXCEPT !.exists = TRUE, !.count = @ + 1] /\ pc' = [pc EXCEPT ![t] = "idle"]
        /\ Return(t, "Failed") /\ UNCHANGED <<calls, breaker, stats, history>>
    BY <1>4 DEF RecordFailure, Return
  <2>2. RecoveryTypes' /\ AttemptInv'
    <3>1. limiter' \in [exists : BOOLEAN, count : Nat, past : BOOLEAN]
      <4>1. limiter \in [exists : BOOLEAN, count : Nat, past : BOOLEAN] /\ limiter.count + 1 \in Nat
        BY DEF RecoveryInv, RecoveryTypes
      <4>2. limiter' = [limiter EXCEPT !.exists = TRUE, !.count = limiter.count + 1]
        BY <2>1
      <4> QED
        BY <4>1, <4>2
    <3>2. RecoveryTypes'
      BY <1>4, <2>1, <3>1 DEF RecoveryInv, RecoveryTypes, Places, Return
    <3>3. AttemptInv'
      BY <1>4, <2>1 DEF RecoveryInv, RecoveryTypes, AttemptInv, Return
    <3> QED
      BY <3>2, <3>3
  <2>3. /\ Uncounted \in Nat /\ Unbroken \in Nat
        /\ Unwritten \in Nat /\ UnwrittenFailures \in Nat
        /\ Uncounted' = Uncounted - 1
        /\ Unbroken' = Unbroken
        /\ Unwritten' = Unwritten
        /\ UnwrittenFailures' = UnwrittenFailures
    <3>1. RecoveryTypes /\ pc' = [pc EXCEPT ![t] = "idle"]
      BY <2>1 DEF RecoveryInv
    <3>2. Uncounted \in Nat /\ Uncounted' = Uncounted - 1
      <4>1. "idle" \notin A /\ pc[t] \in A
        BY <1>4
      <4> QED
        BY <3>1, <4>1, Moved, Zenon DEF Uncounted
    <3>3. Unbroken \in Nat /\ Unbroken' = Unbroken
      <4>1. "idle" \notin B /\ pc[t] \notin B
        BY <1>4
      <4> QED
        BY <3>1, <4>1, Moved, Zenon DEF Unbroken
    <3>4. Unwritten \in Nat /\ Unwritten' = Unwritten
      <4>1. "idle" \notin C /\ pc[t] \notin C
        BY <1>4
      <4> QED
        BY <3>1, <4>1, Moved, Zenon DEF Unwritten
    <3>5. UnwrittenFailures \in Nat /\ UnwrittenFailures' = UnwrittenFailures
      <4>1. "idle" \notin D /\ pc[t] \notin D
        BY <1>4
      <4> QED
        BY <3>1, <4>1, Moved, Zenon DEF UnwrittenFailures
    <3> QED
      BY <3>2, <3>3, <3>4, <3>5
  <2>4. limiter'.count = limiter.count + 1
    <3>1. limiter \in [exists : BOOLEAN, count : Nat, past : BOOLEAN]
      BY DEF RecoveryInv, RecoveryTypes
    <3>2. limiter' = [limiter EXCEPT !.exists = TRUE, !.count = limiter.count + 1]
      BY <2>1
    <3> QED
      BY <3>1, <3>2
  <2>5. BooksInv'
    <3>1. /\ stats.bad \in Nat /\ stats.good \in Nat /\ limiter.count \in Nat /\ breaker.failures \in Nat
          /\ Len(history) \in Nat /\ RecentFailures(history) \in Nat /\ Threshold \in Nat /\ MaxHistory \in Nat
      BY RecoveryAssumption, HistoryGrows, LenProperties DEF RecoveryInv, RecoveryTypes
    <3>2. /\ stats.bad = limiter.count + Uncounted /\ breaker.failures + Unbroken <= stats.bad
          /\ Len(history) + Unwritten <= stats.good + stats.bad
          /\ RecentFailures(history) + UnwrittenFailures <= stats.bad
          /\ Len(history) <= MaxHistory
          /\ breaker.state = "Open" => breaker.failures >= Threshold
      BY DEF RecoveryInv, BooksInv
    <3>3. UNCHANGED <<stats, history, breaker>> /\ RecentFailures(history') = RecentFailures(history)
      BY <2>1
    <3>4. stats'.bad = limiter'.count + Uncounted'
      <4>1. limiter'.count = limiter.count + 1
        BY <2>4
      <4>2. Uncounted' = Uncounted - 1 /\ Uncounted \in Nat
        BY <2>3
      <4>3. stats'.bad = stats.bad
        BY <3>3
      <4>4. stats.bad \in Nat /\ limiter.count \in Nat
        BY <3>1
      <4>5. stats.bad = limiter.count + Uncounted
        BY <3>2
      <4> QED
        BY <4>1, <4>2, <4>3, <4>4, <4>5
    <3>5. breaker'.failures + Unbroken' <= stats'.bad
      BY <2>3, <2>4, <3>1, <3>2, <3>3
    <3>6. Len(history') + Unwritten' <= stats'.good + stats'.bad
      BY <2>3, <2>4, <3>1, <3>2, <3>3
    <3>7. RecentFailures(history') + UnwrittenFailures' <= stats'.bad
      BY <2>3, <2>4, <3>1, <3>2, <3>3
    <3>8. Len(history') <= MaxHistory
      BY <2>4, <3>2, <3>3
    <3> QED
      BY <3>2, <3>3, <3>4, <3>5, <3>6, <3>7, <3>8 DEF BooksInv
  <2> QED
    BY <2>2, <2>5 DEF RecoveryInv
<1> QED
  BY <1>1, <1>2, <1>3, <1>4 DEF RecordFailure

-----------------------------------------------------------------------------
(* Recovery: the theorem.                                                    *)

\* No task has begun.
LEMMA RecoveryStarts == RecoveryInit => RecoveryInv
<1> SUFFICES ASSUME RecoveryInit PROVE RecoveryInv
  OBVIOUS
<1>1. RecoveryTypes
  BY DEF RecoveryInit, RecoveryTypes, Places
<1>2. AttemptInv
  BY DEF RecoveryInit, AttemptInv
<1>3. Uncounted = 0 /\ Unbroken = 0 /\ Unwritten = 0 /\ UnwrittenFailures = 0
  <2>1. \A P \in SUBSET Places : "idle" \notin P => At(P) = {}
    BY DEF RecoveryInit, At
  <2>2. \A P \in SUBSET Places : "idle" \notin P => Cardinality(At(P)) = 0
    BY <2>1, FS_EmptySet
  <2> QED
    BY <2>2 DEF Uncounted, Unbroken, Unwritten, UnwrittenFailures, Places
<1>4. RecentFailures(history) \in Nat /\ RecentFailures(history) <= Len(history) /\ Len(history) = 0
  <2>1. history = << >> /\ history \in Seq(BOOLEAN) /\ Len(history) = 0
    BY DEF RecoveryInit
  <2> QED
    BY <2>1, HistoryGrows
<1> QED
  BY <1>1, <1>2, <1>3, <1>4, RecoveryAssumption DEF RecoveryInit, RecoveryInv, BooksInv

\* Every step keeps the books.
LEMMA RecoveryKeeps == RecoveryInv /\ [RecoveryNext]_recoveryVars => RecoveryInv'
<1> SUFFICES ASSUME RecoveryInv, [RecoveryNext]_recoveryVars PROVE RecoveryInv'
  OBVIOUS
<1>1. ASSUME NEW t \in Tasks, NEW e \in Raised, HandleError(t, e) PROVE RecoveryInv'
  BY <1>1, HandleErrorKeeps
<1>2. ASSUME NEW t \in Tasks, TaskStep(t) PROVE RecoveryInv'
  BY <1>2, CheckCircuitKeeps, AttemptKeeps, RecordSuccessKeeps, RecordFailureKeeps DEF TaskStep
<1>3. CASE CoolDown
  <2>1. /\ breaker' = [breaker EXCEPT !.cooled = TRUE] /\ UNCHANGED <<pc, try, limit, error, limiter, stats, history>>
        /\ breaker \in [exists : BOOLEAN, failures : Nat, state : {"Closed", "Open", "HalfOpen"}, cooled : BOOLEAN]
    BY <1>3 DEF CoolDown, RecoveryInv, RecoveryTypes
  <2>2. /\ breaker' \in [exists : BOOLEAN, failures : Nat, state : {"Closed", "Open", "HalfOpen"}, cooled : BOOLEAN]
        /\ breaker'.failures = breaker.failures /\ breaker'.state = breaker.state
    BY <2>1
  <2>3. RecoveryTypes' /\ AttemptInv'
    BY <2>1, <2>2 DEF RecoveryInv, RecoveryTypes, AttemptInv
  <2>4. BooksInv'
    <3>1. Uncounted' = Uncounted /\ Unbroken' = Unbroken /\ Unwritten' = Unwritten /\ UnwrittenFailures' = UnwrittenFailures
      BY <2>1 DEF Uncounted, Unbroken, Unwritten, UnwrittenFailures, At
    <3> QED
      BY <2>1, <2>2, <3>1 DEF RecoveryInv, BooksInv
  <2> QED
    BY <2>3, <2>4 DEF RecoveryInv
<1>4. CASE WindowPasses
  <2>1. /\ limiter' = [limiter EXCEPT !.past = TRUE] /\ UNCHANGED <<pc, try, limit, error, breaker, stats, history>>
        /\ limiter \in [exists : BOOLEAN, count : Nat, past : BOOLEAN]
    BY <1>4 DEF WindowPasses, RecoveryInv, RecoveryTypes
  <2>2. limiter' \in [exists : BOOLEAN, count : Nat, past : BOOLEAN] /\ limiter'.count = limiter.count
    BY <2>1
  <2>3. RecoveryTypes' /\ AttemptInv'
    BY <2>1, <2>2 DEF RecoveryInv, RecoveryTypes, AttemptInv
  <2>4. BooksInv'
    <3>1. Uncounted' = Uncounted /\ Unbroken' = Unbroken /\ Unwritten' = Unwritten /\ UnwrittenFailures' = UnwrittenFailures
      BY <2>1 DEF Uncounted, Unbroken, Unwritten, UnwrittenFailures, At
    <3> QED
      BY <2>1, <2>2, <3>1 DEF RecoveryInv, BooksInv
  <2> QED
    BY <2>3, <2>4 DEF RecoveryInv
<1>5. CASE ClearOldEntries
  <2>1. history # << >> /\ history' = Tail(history) /\ UNCHANGED <<pc, try, limit, error, breaker, limiter, stats>>
    BY <1>5 DEF ClearOldEntries
  <2>2. history \in Seq(BOOLEAN) /\ MaxHistory \in Nat /\ stats.good \in Nat /\ stats.bad \in Nat
    BY RecoveryAssumption DEF RecoveryInv, RecoveryTypes
  <2>3. history' \in Seq(BOOLEAN) /\ Len(history') = Len(history) - 1 /\ Len(history') \in Nat /\ Len(history) \in Nat
    BY <2>1, <2>2
  <2>4. /\ RecentFailures(history') <= RecentFailures(history) /\ RecentFailures(history') \in Nat
        /\ RecentFailures(history) \in Nat
    BY <2>1, <2>2, HistoryGrows
  <2>5. RecoveryTypes' /\ AttemptInv'
    BY <2>1, <2>3 DEF RecoveryInv, RecoveryTypes, AttemptInv
  <2>6. /\ Uncounted' = Uncounted /\ Unbroken' = Unbroken /\ Unwritten' = Unwritten /\ UnwrittenFailures' = UnwrittenFailures
        /\ Unwritten \in Nat /\ UnwrittenFailures \in Nat
    <3>1. \A P : IsFiniteSet(At(P))
      BY RecoveryAssumption, FS_Subset DEF At
    <3> QED
      BY <2>1, <3>1, FS_CardinalityType DEF Uncounted, Unbroken, Unwritten, UnwrittenFailures, At
  <2>7. BooksInv'
    BY <2>1, <2>2, <2>3, <2>4, <2>6 DEF RecoveryInv, BooksInv
  <2> QED
    BY <2>5, <2>7 DEF RecoveryInv
<1>6. CASE UNCHANGED recoveryVars
  BY <1>6 DEF recoveryVars, RecoveryInv, RecoveryTypes, AttemptInv, BooksInv, Uncounted, Unbroken, Unwritten,
              UnwrittenFailures, At
<1> QED
  BY <1>1, <1>2, <1>3, <1>4, <1>5, <1>6 DEF RecoveryNext

\* What the engine owes follows.
LEMMA RecoveryBooks == RecoveryInv => RecoveryAccounts
<1> SUFFICES ASSUME RecoveryInv PROVE RecoveryAccounts
  OBVIOUS
<1>1. /\ Uncounted \in Nat /\ Unbroken \in Nat /\ Unwritten \in Nat /\ UnwrittenFailures \in Nat
      /\ Uncounted = Cardinality(Recording("bad.breaker") \cup Recording("bad.history") \cup Recording("bad.limiter"))
  <2>1. \A P : IsFiniteSet(At(P))
    BY RecoveryAssumption, FS_Subset DEF At
  <2>2. At({"bad.breaker", "bad.history", "bad.limiter"}) =
          Recording("bad.breaker") \cup Recording("bad.history") \cup Recording("bad.limiter")
    BY DEF At, Recording
  <2> QED
    BY <2>1, <2>2, FS_CardinalityType DEF Uncounted, Unbroken, Unwritten, UnwrittenFailures
<1>2. SuccessRate(history)[2] = Len(history)
  BY DEF SuccessRate
<1>3. /\ stats.good \in Nat /\ stats.bad \in Nat /\ breaker.failures \in Nat /\ Len(history) \in Nat
      /\ RecentFailures(history) \in Nat
  BY HistoryGrows, LenProperties DEF RecoveryInv, RecoveryTypes
<1>4. /\ stats.bad = limiter.count + Uncounted /\ breaker.failures <= stats.bad
      /\ stats.good + stats.bad >= Len(history) /\ RecentFailures(history) <= stats.bad
      /\ Len(history) <= MaxHistory /\ (breaker.state = "Open" => breaker.failures >= Threshold)
  BY <1>1, <1>3 DEF RecoveryInv, BooksInv
<1>5. \A t \in Tasks : /\ try[t] <= limit[t] /\ (pc[t] \in {"good.stats", "bad.stats"} => try[t] > 0)
                       /\ (pc[t] = "retry" => IsErrorRecoverable(error[t]))
  BY DEF RecoveryInv, AttemptInv
<1> QED
  BY <1>1, <1>2, <1>4, <1>5 DEF RecoveryAccounts

\* The recovery engine's books agree, whatever tasks fail and recover at the
\* same time: the statistics have every failure the limiter has counted or is
\* about to count, an open breaker has had its threshold of failures with no
\* success since, the history is bounded and has no more than the statistics,
\* and a call makes at least one attempt and at most those it is allowed.
THEOREM BooksAgree == RecoverySpec => []RecoveryAccounts
<1>1. RecoveryInit => RecoveryInv
  BY RecoveryStarts
<1>2. RecoveryInv /\ [RecoveryNext]_recoveryVars => RecoveryInv'
  BY RecoveryKeeps
<1>3. RecoveryInv => RecoveryAccounts
  BY RecoveryBooks
<1> QED
  BY <1>1, <1>2, <1>3, PTL DEF RecoverySpec

-----------------------------------------------------------------------------
(* The process manager: the inductive invariant.                             *)

Running == {"stdout", "stderr", "wait"}
Results == [of : Nat, success : BOOLEAN, timed_out : BOOLEAN, out : [Streams -> Nat]]
ProcTypes ==
  /\ config \in [Configs -> [program : Programs, spawns : BOOLEAN, capture : BOOLEAN, code : {0, 1}]]
  /\ stage \in [Configs -> {"queued", "stdout", "stderr", "wait", "done"}]
  /\ permits \in Nat /\ at \in [Configs -> Nat]
  /\ pipe \in [Configs -> [Streams -> Nat]] /\ read \in [Configs -> [Streams -> Nat]]
  /\ child \in [Configs -> {"none", "running", "exited", "killed"}]
  /\ outcome \in [Configs -> {"none", "SpawnFailed", "Success", "Failure", "Timeout"}]
  /\ collected \in Seq(Results)

\* What the first k steps of a program write, and what a child has written so far.
WrittenBy(program, k, s) == Cardinality({i \in 1 .. k : program[i] = s})
Written(c, s) == WrittenBy(config[c].program, at[c], s)
\* The tasks that hold a permit.
Active == {c \in Configs : stage[c] \in Running}
PermitsInv == permits + Cardinality(Active) = MaxConcurrent
\* A child has done some of its program, all of it once it has exited.
ChildInv ==
  \A c \in Configs :
    /\ at[c] <= Len(config[c].program)
    /\ child[c] = "exited" => at[c] = Len(config[c].program)
    /\ child[c] = "running" => stage[c] \in Running
    /\ stage[c] = "queued" => child[c] = "none" /\ at[c] = 0
\* What was written is in the pipe or was read; a task reads one pipe, then the other.
PipeInv ==
  \A c \in Configs :
    /\ config[c].capture => \A s \in Streams : read[c][s] + pipe[c][s] = Written(c, s)
    /\ stage[c] = "queued" => \A s \in Streams : read[c][s] = 0
    /\ stage[c] = "stdout" => config[c].capture /\ read[c]["err"] = 0
    /\ stage[c] = "stderr" => pipe[c]["out"] = 0 /\ child[c] = "exited"
    /\ stage[c] = "wait" /\ config[c].capture => \A s \in Streams : pipe[c][s] = 0
    /\ stage[c] = "wait" /\ config[c].capture => child[c] = "exited"
OutcomeInv ==
  \A c \in Configs :
    /\ outcome[c] # "none" => stage[c] = "done"
    /\ outcome[c] \in {"Success", "Failure"} =>
         /\ (outcome[c] = "Success") <=> (config[c].code = 0)
         /\ child[c] = "exited"
         /\ config[c].capture => \A s \in Streams : pipe[c][s] = 0
CollectedInv ==
  /\ Len(collected) <= NConfigs
  /\ \A i \in 1 .. Len(collected) :
       stage[i] = "done" /\ collected[i].of = i /\ (collected[i].success => outcome[i] = "Success")

ProcInv == ProcTypes /\ PermitsInv /\ ChildInv /\ PipeInv /\ OutcomeInv /\ CollectedInv

LEMMA Interval ==
  ASSUME NEW n \in Nat
  PROVE  IsFiniteSet(1 .. n)
<1>1. 1 \in Int /\ n \in Int
  OBVIOUS
<1> QED
  BY <1>1, FS_Interval

\* A program writes step by step, and never less than its first steps.
LEMMA FirstWrites ==
  ASSUME NEW program \in Seq(Streams), NEW k \in Nat, k <= Len(program), NEW s \in Streams
  PROVE  /\ WrittenBy(program, k, s) \in Nat /\ WrittenBy(program, 0, s) = 0
         /\ WrittenBy(program, Len(program), s) \in Nat
         /\ WrittenBy(program, k, s) <= WrittenBy(program, Len(program), s)
         /\ k < Len(program) /\ program[k + 1] = s =>
              /\ WrittenBy(program, k + 1, s) = WrittenBy(program, k, s) + 1
              /\ WrittenBy(program, k, s) < WrittenBy(program, Len(program), s)
         /\ k < Len(program) /\ program[k + 1] # s => WrittenBy(program, k + 1, s) = WrittenBy(program, k, s)
<1> DEFINE W(n) == {i \in 1 .. n : program[i] = s}
<1>1. Len(program) \in Nat
  BY LenProperties
<1>2. \A n \in Nat : IsFiniteSet(W(n)) /\ Cardinality(W(n)) \in Nat /\ WrittenBy(program, n, s) = Cardinality(W(n))
  <2> SUFFICES ASSUME NEW n \in Nat
               PROVE  IsFiniteSet(W(n)) /\ Cardinality(W(n)) \in Nat /\ WrittenBy(program, n, s) = Cardinality(W(n))
    OBVIOUS
  <2>1. WrittenBy(program, n, s) = Cardinality(W(n))
    BY DEF WrittenBy
  <2>2. IsFiniteSet(1 .. n) /\ W(n) \subseteq 1 .. n
    BY Interval
  <2>3. IsFiniteSet(W(n))
    BY <2>2, FS_Subset
  <2> QED
    BY <2>1, <2>3, FS_CardinalityType
<1>3. WrittenBy(program, 0, s) = 0
  <2>1. W(0) = {}
    OBVIOUS
  <2> QED
    BY <1>2, <2>1, FS_EmptySet
<1>4. \A n \in Nat : n <= Len(program) => WrittenBy(program, n, s) <= WrittenBy(program, Len(program), s)
  <2> SUFFICES ASSUME NEW n \in Nat, n <= Len(program)
               PROVE  WrittenBy(program, n, s) <= WrittenBy(program, Len(program), s)
    OBVIOUS
  <2>1. W(n) \subseteq W(Len(program))
    BY <1>1
  <2> HIDE DEF W
  <2>2. Cardinality(W(n)) <= Cardinality(W(Len(program)))
    BY <1>1, <1>2, <2>1, FS_Subset
  <2> QED
    BY <1>1, <1>2, <2>2
<1>5. k + 1 \in Nat /\ (k < Len(program) => k + 1 <= Len(program))
  BY <1>1
<1>6. ASSUME k < Len(program), program[k + 1] = s
      PROVE  WrittenBy(program, k + 1, s) = WrittenBy(program, k, s) + 1
  <2>1. W(k + 1) = W(k) \union {k + 1} /\ k + 1 \notin W(k)
    BY <1>5, <1>6
  <2> HIDE DEF W
  <2>2. Cardinality(W(k + 1)) = Cardinality(W(k)) + 1
    BY <1>2, <2>1, FS_AddElement
  <2> QED
    BY <1>2, <1>5, <2>2
<1>7. ASSUME k < Len(program), program[k + 1] # s
      PROVE  WrittenBy(program, k + 1, s) = WrittenBy(program, k, s)
  <2>1. W(k + 1) = W(k)
    BY <1>5, <1>7
  <2> HIDE DEF W
  <2> QED
    BY <1>2, <1>5, <2>1
<1> HIDE DEF W
<1>8. WrittenBy(program, k, s) \in Nat /\ WrittenBy(program, Len(program), s) \in Nat
  BY <1>1, <1>2
<1>9. ASSUME k < Len(program), program[k + 1] = s
      PROVE  WrittenBy(program, k, s) < WrittenBy(program, Len(program), s)
  BY <1>4, <1>5, <1>6, <1>8, <1>9
<1> QED
  BY <1>3, <1>4, <1>6, <1>7, <1>8, <1>9

\* A task goes from one stage to another: the permits that are held.
LEMMA ActiveMoved ==
  ASSUME ProcTypes, NEW c \in Configs, NEW g, stage' = [stage EXCEPT ![c] = g]
  PROVE  /\ Cardinality(Active) \in Nat
         /\ g \in Running /\ stage[c] \notin Running => Cardinality(Active') = Cardinality(Active) + 1
         /\ g \notin Running /\ stage[c] \in Running => Cardinality(Active') = Cardinality(Active) - 1
         /\ g \in Running /\ stage[c] \in Running => Cardinality(Active') = Cardinality(Active)
         /\ g \notin Running /\ stage[c] \notin Running => Cardinality(Active') = Cardinality(Active)
<1>1. IsFiniteSet(Active) /\ Cardinality(Active) \in Nat
  <2>1. IsFiniteSet(Configs)
    BY ProcessAssumption, Interval DEF Configs
  <2>2. IsFiniteSet(Active)
    BY <2>1, FS_Subset DEF Active
  <2> QED
    BY <2>2, FS_CardinalityType
<1>2. ASSUME g \in Running, stage[c] \notin Running PROVE Cardinality(Active') = Cardinality(Active) + 1
  <2>1. Active' = Active \union {c} /\ c \notin Active
    BY <1>2 DEF Active, ProcTypes
  <2> QED
    BY <1>1, <2>1, FS_AddElement
<1>3. ASSUME g \notin Running, stage[c] \in Running PROVE Cardinality(Active') = Cardinality(Active) - 1
  <2>1. Active' = Active \ {c} /\ c \in Active
    BY <1>3 DEF Active, ProcTypes
  <2> QED
    BY <1>1, <2>1, FS_RemoveElement
<1>4. ASSUME g \in Running <=> stage[c] \in Running PROVE Active' = Active
  BY <1>4 DEF Active, ProcTypes
<1> QED
  BY <1>1, <1>2, <1>3, <1>4

LEMMA ProgramTypes ==
  ASSUME ProcTypes, NEW c \in Configs
  PROVE  /\ config[c].program \in Seq(Streams) /\ Len(config[c].program) \in Nat
         /\ at[c] \in Nat /\ stage[c] \in {"queued", "stdout", "stderr", "wait", "done"}
         /\ child[c] \in {"none", "running", "exited", "killed"}
<1>1. config[c].program \in Programs
  BY DEF ProcTypes
<1>2. config[c].program \in Seq(Streams)
  BY <1>1, ProcessAssumption DEF Streams
<1> QED
  BY <1>2, LenProperties DEF ProcTypes

\* Start: a permit is taken with the child, or the task ends without one.
LEMMA StartKeeps ==
  ASSUME ProcInv, NEW c \in Configs, Start(c)
  PROVE  ProcInv'
<1>1. /\ stage[c] = "queued" /\ permits > 0 /\ child[c] = "none" /\ at[c] = 0
      /\ UNCHANGED <<config, at, pipe, read, collected>> /\ ProcTypes /\ outcome[c] = "none"
      /\ \A s \in Streams : read[c][s] = 0
  BY DEF Start, ProcInv, ChildInv, OutcomeInv, PipeInv, ProcTypes
<1>2. CASE /\ config[c].spawns /\ child' = [child EXCEPT ![c] = "running"] /\ permits' = permits - 1
           /\ stage' = [stage EXCEPT ![c] = IF config[c].capture THEN "stdout" ELSE "wait"] /\ UNCHANGED outcome
  <2>1. PICK g \in {"stdout", "wait"} : /\ stage' = [stage EXCEPT ![c] = g]
                                        /\ g = "stdout" => config[c].capture
                                        /\ g = "wait" => ~config[c].capture
    BY <1>2
  <2>2. ProcTypes'
    BY <1>1, <1>2, <2>1 DEF ProcTypes
  <2>3. PermitsInv'
    <3>1. g \in Running /\ stage[c] \notin Running
      BY <1>1 DEF Running
    <3>2. Cardinality(Active') = Cardinality(Active) + 1 /\ Cardinality(Active) \in Nat
      BY <1>1, <2>1, <3>1, ActiveMoved, Zenon
    <3> QED
      BY <1>1, <1>2, <3>2, ProcessAssumption DEF ProcInv, PermitsInv, ProcTypes
  <2>4. ChildInv'
    BY <1>1, <1>2, <2>1 DEF ProcInv, ChildInv, ProcTypes, Running
  <2>5. PipeInv'
    <3>1. \A d \in Configs, s \in Streams : Written(d, s)' = Written(d, s)
      BY <1>1 DEF Written
    <3> QED
      BY <1>1, <1>2, <2>1, <3>1 DEF ProcInv, PipeInv, ProcTypes, Streams
  <2>6. OutcomeInv'
    BY <1>1, <1>2, <2>1 DEF ProcInv, OutcomeInv, ProcTypes
  <2>7. CollectedInv'
    BY <1>1, <1>2, <2>1 DEF ProcInv, CollectedInv, ProcTypes
  <2> QED
    BY <2>2, <2>3, <2>4, <2>5, <2>6, <2>7 DEF ProcInv
<1>3. CASE /\ outcome' = [outcome EXCEPT ![c] = "SpawnFailed"] /\ stage' = [stage EXCEPT ![c] = "done"]
           /\ UNCHANGED <<child, permits>>
  <2>1. ProcTypes'
    BY <1>1, <1>3 DEF ProcTypes
  <2>2. PermitsInv'
    <3>1. "done" \notin Running /\ stage[c] \notin Running
      BY <1>1 DEF Running
    <3>2. Cardinality(Active') = Cardinality(Active)
      BY <1>1, <1>3, <3>1, ActiveMoved, Zenon
    <3> QED
      BY <1>3, <3>2 DEF ProcInv, PermitsInv
  <2>3. ChildInv'
    BY <1>1, <1>3 DEF ProcInv, ChildInv, ProcTypes, Running
  <2>4. PipeInv'
    <3>1. \A d \in Configs, s \in Streams : Written(d, s)' = Written(d, s)
      BY <1>1 DEF Written
    <3> QED
      BY <1>1, <1>3, <3>1 DEF ProcInv, PipeInv, ProcTypes, Streams
  <2>5. OutcomeInv'
    BY <1>1, <1>3 DEF ProcInv, OutcomeInv, ProcTypes
  <2>6. CollectedInv'
    BY <1>1, <1>3 DEF ProcInv, CollectedInv, ProcTypes
  <2> QED
    BY <2>1, <2>2, <2>3, <2>4, <2>5, <2>6 DEF ProcInv
<1> QED
  BY <1>2, <1>3 DEF Start

\* The child writes, if there is room, or exits when its program is done.
LEMMA ChildKeeps ==
  ASSUME ProcInv, NEW c \in Configs, Child(c)
  PROVE  ProcInv'
<1>1. /\ child[c] = "running" /\ stage[c] \in Running
      /\ UNCHANGED <<config, stage, permits, read, outcome, collected>> /\ ProcTypes
      /\ at[c] <= Len(config[c].program) /\ config[c].program \in Seq(Streams) /\ Len(config[c].program) \in Nat /\ at[c] \in Nat
  BY ProgramTypes DEF Child, ProcInv, ChildInv, ProcTypes
<1>2. PermitsInv'
  BY <1>1 DEF ProcInv, PermitsInv, Active
<1>3. CASE /\ at[c] < Len(config[c].program) /\ UNCHANGED child /\ at' = [at EXCEPT ![c] = @ + 1]
           /\ LET s == config[c].program[at[c] + 1] IN
                pipe' = IF config[c].capture THEN [pipe EXCEPT ![c][s] = @ + 1] ELSE pipe
  <2>1. PICK s \in Streams : /\ s = config[c].program[at[c] + 1]
                             /\ config[c].capture => pipe' = [pipe EXCEPT ![c] = [pipe[c] EXCEPT ![s] = pipe[c][s] + 1]]
                             /\ ~config[c].capture => pipe' = pipe
    <3> DEFINE s == config[c].program[at[c] + 1]
    <3>1. s \in Streams
      BY <1>1, <1>3
    <3>2. pipe' = IF config[c].capture THEN [pipe EXCEPT ![c][s] = @ + 1] ELSE pipe
      BY <1>3
    <3> HIDE DEF s
    <3>3. config[c].capture => pipe' = [pipe EXCEPT ![c] = [pipe[c] EXCEPT ![s] = pipe[c][s] + 1]]
      BY <3>2
    <3>4. ~config[c].capture => pipe' = pipe
      BY <3>2
    <3> QED
      BY <3>1, <3>3, <3>4 DEF s
  <2>2. pipe' \in [Configs -> [Streams -> Nat]]
    <3>1. pipe \in [Configs -> [Streams -> Nat]] /\ [pipe[c] EXCEPT ![s] = pipe[c][s] + 1] \in [Streams -> Nat]
      BY <1>1 DEF ProcTypes
    <3> QED
      BY <2>1, <3>1
  <2>3. ProcTypes'
    <3>1. at' = [at EXCEPT ![c] = at[c] + 1] /\ UNCHANGED child /\ at[c] + 1 \in Nat
      BY <1>1, <1>3
    <3>2. at' \in [Configs -> Nat]
      BY <1>1, <3>1 DEF ProcTypes
    <3> QED
      BY <1>1, <2>2, <3>1, <3>2 DEF ProcTypes
  <2>4. ChildInv'
    <3>1. at' = [at EXCEPT ![c] = at[c] + 1] /\ UNCHANGED child /\ at[c] < Len(config[c].program)
      BY <1>3
    <3>2. at'[c] = at[c] + 1 /\ at[c] + 1 <= Len(config[c].program) /\ \A d \in Configs \ {c} : at'[d] = at[d]
      BY <1>1, <3>1 DEF ProcTypes
    <3>3. ASSUME NEW d \in Configs
          PROVE  /\ at'[d] <= Len(config[d].program) /\ (child[d] = "exited" => at'[d] = Len(config[d].program))
                 /\ (child[d] = "running" => stage[d] \in Running)
                 /\ (stage[d] = "queued" => child[d] = "none" /\ at'[d] = 0)
      <4>1. CASE d = c
        BY <1>1, <3>2, <4>1 DEF Running
      <4>2. CASE d # c
        BY <3>2, <4>2 DEF ProcInv, ChildInv
      <4> QED
        BY <4>1, <4>2
    <3> QED
      BY <1>1, <3>1, <3>3 DEF ChildInv
  <2>5. /\ \A d \in Configs \ {c}, r \in Streams : Written(d, r)' = Written(d, r) /\ pipe'[d] = pipe[d]
        /\ Written(c, s)' = Written(c, s) + 1 /\ Written(c, s) \in Nat
        /\ \A r \in Streams \ {s} : Written(c, r)' = Written(c, r)
    <3>1. at'[c] = at[c] + 1 /\ \A d \in Configs \ {c} : at'[d] = at[d] /\ pipe'[d] = pipe[d]
      BY <1>1, <1>3, <2>1 DEF ProcTypes
    <3>2. \A r \in Streams : /\ Written(c, r)' = WrittenBy(config[c].program, at[c] + 1, r)
                             /\ Written(c, r) = WrittenBy(config[c].program, at[c], r)
      BY <1>1, <3>1 DEF Written
    <3>3. /\ WrittenBy(config[c].program, at[c] + 1, s) = WrittenBy(config[c].program, at[c], s) + 1
          /\ WrittenBy(config[c].program, at[c], s) \in Nat
      BY <1>1, <1>3, <2>1, FirstWrites
    <3>4. \A r \in Streams \ {s} : WrittenBy(config[c].program, at[c] + 1, r) = WrittenBy(config[c].program, at[c], r)
      BY <1>1, <1>3, <2>1, FirstWrites
    <3>5. \A d \in Configs \ {c}, r \in Streams : Written(d, r)' = Written(d, r)
      BY <1>1, <3>1 DEF Written
    <3> QED
      BY <3>1, <3>2, <3>3, <3>4, <3>5
  <2>6. PipeInv'
    <3>1. \A d \in Configs \ {c} : pipe'[d] = pipe[d] /\ \A r \in Streams : Written(d, r)' = Written(d, r)
      BY <2>5
    <3>2. ASSUME config[c].capture PROVE \A r \in Streams : read[c][r] + pipe'[c][r] = Written(c, r)'
      <4>1. pipe'[c] = [pipe[c] EXCEPT ![s] = pipe[c][s] + 1] /\ pipe[c] \in [Streams -> Nat] /\ read[c] \in [Streams -> Nat]
        BY <1>1, <2>1, <3>2 DEF ProcTypes
      <4>2. \A r \in Streams : read[c][r] + pipe[c][r] = Written(c, r)
        BY <3>2 DEF ProcInv, PipeInv
      <4>3. read[c][s] + pipe'[c][s] = Written(c, s)'
        BY <2>5, <4>1, <4>2
      <4>4. \A r \in Streams \ {s} : read[c][r] + pipe'[c][r] = Written(c, r)'
        BY <2>5, <4>1, <4>2
      <4> QED
        BY <4>3, <4>4
    <3>3. stage[c] \in {"stdout", "wait"} /\ (stage[c] = "wait" => ~config[c].capture)
      BY <1>1 DEF ProcInv, PipeInv, Running
    <3>4. ASSUME NEW d \in Configs \ {c}
          PROVE  config[d].capture => \A r \in Streams : read[d][r] + pipe'[d][r] = Written(d, r)'
      BY <3>1 DEF ProcInv, PipeInv
    <3> QED
      BY <1>1, <1>3, <3>1, <3>2, <3>3, <3>4 DEF ProcInv, PipeInv
  <2>7. OutcomeInv'
    <3>1. \A d \in Configs : outcome[d] \in {"Success", "Failure"} => child[d] = "exited" /\ d # c
      BY <1>1 DEF ProcInv, OutcomeInv
    <3> QED
      BY <1>1, <1>3, <2>5, <3>1 DEF ProcInv, OutcomeInv
  <2>8. CollectedInv'
    BY <1>1 DEF ProcInv, CollectedInv
  <2> QED
    BY <1>2, <2>3, <2>4, <2>6, <2>7, <2>8 DEF ProcInv
<1>4. CASE /\ at[c] = Len(config[c].program) /\ child' = [child EXCEPT ![c] = "exited"] /\ UNCHANGED <<at, pipe>>
  <2>1. ProcTypes'
    BY <1>1, <1>4 DEF ProcTypes
  <2>2. ChildInv'
    BY <1>1, <1>4 DEF ProcInv, ChildInv, ProcTypes, Running
  <2>3. PipeInv'
    <3>1. \A d \in Configs, s \in Streams : Written(d, s)' = Written(d, s)
      BY <1>1, <1>4 DEF Written
    <3> QED
      BY <1>1, <1>4, <3>1 DEF ProcInv, PipeInv, ProcTypes
  <2>4. OutcomeInv'
    BY <1>1, <1>4 DEF ProcInv, OutcomeInv, ProcTypes
  <2>5. CollectedInv'
    BY <1>1 DEF ProcInv, CollectedInv
  <2> QED
    BY <1>2, <2>1, <2>2, <2>3, <2>4, <2>5 DEF ProcInv
<1> QED
  BY <1>3, <1>4 DEF Child

\* A task reads what a pipe holds, or goes on when the pipe has ended.
LEMMA ReadKeeps ==
  ASSUME ProcInv, NEW c \in Configs, Read(c)
  PROVE  ProcInv'
<1>1. UNCHANGED <<config, permits, at, child, outcome, collected>> /\ ProcTypes
  BY DEF Read, ProcInv
<1>2. \A d \in Configs, s \in Streams : Written(d, s)' = Written(d, s)
  BY <1>1 DEF Written
<1>3. ASSUME NEW s \in Streams, pipe[c][s] > 0, stage[c] \in {"stdout", "stderr"}, stage[c] = "stdout" => s = "out",
             read' = [read EXCEPT ![c][s] = @ + pipe[c][s]], pipe' = [pipe EXCEPT ![c][s] = 0], UNCHANGED stage
      PROVE  ProcInv'
  <2>1. /\ pipe[c] \in [Streams -> Nat] /\ read[c] \in [Streams -> Nat]
        /\ read'[c] = [read[c] EXCEPT ![s] = read[c][s] + pipe[c][s]] /\ pipe'[c] = [pipe[c] EXCEPT ![s] = 0]
        /\ \A d \in Configs \ {c} : read'[d] = read[d] /\ pipe'[d] = pipe[d]
    BY <1>1, <1>3 DEF ProcTypes
  <2>2. read'[c] \in [Streams -> Nat] /\ pipe'[c] \in [Streams -> Nat]
    <3>1. read[c][s] + pipe[c][s] \in Nat
      BY <2>1
    <3> QED
      BY <2>1, <3>1
  <2>3. ProcTypes'
    <3>1. read' \in [Configs -> [Streams -> Nat]] /\ pipe' \in [Configs -> [Streams -> Nat]]
      BY <1>1, <1>3, <2>1, <2>2 DEF ProcTypes
    <3> QED
      BY <1>1, <1>3, <3>1 DEF ProcTypes
  <2>4. PermitsInv' /\ ChildInv' /\ CollectedInv'
    BY <1>1, <1>3 DEF ProcInv, PermitsInv, Active, ChildInv, CollectedInv
  <2>5. PipeInv'
    <3>1. \A r \in Streams : read'[c][r] + pipe'[c][r] = read[c][r] + pipe[c][r] /\ (pipe[c][r] = 0 => pipe'[c][r] = 0)
      BY <2>1
    <3>2. s # "err" => read'[c]["err"] = read[c]["err"]
      BY <2>1 DEF Streams
    <3>3. ASSUME NEW d \in Configs
          PROVE  config[d].capture => \A r \in Streams : read'[d][r] + pipe'[d][r] = Written(d, r)'
      <4>1. CASE d = c
        BY <1>2, <3>1, <4>1 DEF ProcInv, PipeInv
      <4>2. CASE d # c
        BY <1>2, <2>1, <4>2 DEF ProcInv, PipeInv
      <4> QED
        BY <4>1, <4>2
    <3> QED
      BY <1>1, <1>3, <2>1, <3>1, <3>2, <3>3 DEF ProcInv, PipeInv, Streams
  <2>6. OutcomeInv'
    <3>1. \A d \in Configs : outcome[d] \in {"Success", "Failure"} => d # c
      BY <1>3 DEF ProcInv, OutcomeInv
    <3> QED
      BY <1>1, <1>3, <2>1, <3>1 DEF ProcInv, OutcomeInv
  <2> QED
    BY <2>3, <2>4, <2>5, <2>6 DEF ProcInv
<1>4. ASSUME NEW s \in Streams, NEW next, pipe[c][s] = 0, child[c] = "exited", stage' = [stage EXCEPT ![c] = next],
             \/ stage[c] = "stdout" /\ s = "out" /\ next = "stderr"
             \/ stage[c] = "stderr" /\ s = "err" /\ next = "wait",
             UNCHANGED <<read, pipe>>
      PROVE  ProcInv'
  <2>1. ProcTypes'
    BY <1>1, <1>4 DEF ProcTypes
  <2>2. PermitsInv'
    <3>1. next \in Running /\ stage[c] \in Running
      BY <1>4 DEF Running
    <3>2. Cardinality(Active') = Cardinality(Active)
      BY <1>1, <1>4, <3>1, ActiveMoved, Zenon
    <3> QED
      BY <1>1, <3>2 DEF ProcInv, PermitsInv
  <2>3. ChildInv'
    BY <1>1, <1>4 DEF ProcInv, ChildInv, ProcTypes, Running
  <2>4. PipeInv'
    BY <1>1, <1>2, <1>4 DEF ProcInv, PipeInv, ProcTypes, Streams
  <2>5. OutcomeInv' /\ CollectedInv'
    BY <1>1, <1>4 DEF ProcInv, OutcomeInv, CollectedInv, ProcTypes
  <2> QED
    BY <2>1, <2>2, <2>3, <2>4, <2>5 DEF ProcInv
<1>5. "out" \in Streams /\ "err" \in Streams
  BY DEF Streams
<1> QED
  BY <1>3, <1>4, <1>5 DEF Read, ReadToEnd

\* The child has ended: its exit code is the outcome, and the permit is free.
LEMMA WaitKeeps ==
  ASSUME ProcInv, NEW c \in Configs, Wait(c)
  PROVE  ProcInv'
<1>1. /\ stage[c] = "wait" /\ child[c] = "exited" /\ permits' = permits + 1 /\ stage' = [stage EXCEPT ![c] = "done"]
      /\ outcome' = [outcome EXCEPT ![c] = IF config[c].code = 0 THEN "Success" ELSE "Failure"]
      /\ UNCHANGED <<config, at, pipe, read, child, collected>> /\ ProcTypes
  BY DEF Wait, ProcInv
<1>2. ProcTypes'
  BY <1>1 DEF ProcTypes
<1>3. PermitsInv'
  <2>1. "done" \notin Running /\ stage[c] \in Running
    BY <1>1 DEF Running
  <2>2. Cardinality(Active') = Cardinality(Active) - 1 /\ Cardinality(Active) \in Nat
    BY <1>1, <2>1, ActiveMoved, Zenon
  <2> QED
    BY <1>1, <2>2 DEF ProcInv, PermitsInv, ProcTypes
<1>4. ChildInv'
  BY <1>1 DEF ProcInv, ChildInv, ProcTypes, Running
<1>5. PipeInv'
  <2>1. \A d \in Configs, s \in Streams : Written(d, s)' = Written(d, s)
    BY <1>1 DEF Written
  <2> QED
    BY <1>1, <2>1 DEF ProcInv, PipeInv, ProcTypes
<1>6. OutcomeInv'
  <2>1. config[c].capture => \A s \in Streams : pipe[c][s] = 0
    BY <1>1 DEF ProcInv, PipeInv
  <2>2. (outcome'[c] = "Success") <=> (config[c].code = 0)
    BY <1>1 DEF ProcTypes
  <2>3. \A d \in Configs \ {c} : outcome'[d] = outcome[d] /\ stage'[d] = stage[d]
    BY <1>1 DEF ProcTypes
  <2> QED
    BY <1>1, <2>1, <2>2, <2>3 DEF ProcInv, OutcomeInv, ProcTypes
<1>7. CollectedInv'
  BY <1>1 DEF ProcInv, CollectedInv, ProcTypes
<1> QED
  BY <1>2, <1>3, <1>4, <1>5, <1>6, <1>7 DEF ProcInv

\* The timeout: no child is left running, and the permit is free.
LEMMA TimeoutKeeps ==
  ASSUME ProcInv, NEW c \in Configs, Timeout(c)
  PROVE  ProcInv'
<1>1. /\ stage[c] \in Running /\ permits' = permits + 1 /\ stage' = [stage EXCEPT ![c] = "done"]
      /\ child' = [child EXCEPT ![c] = IF @ = "running" THEN "killed" ELSE @]
      /\ outcome' = [outcome EXCEPT ![c] = "Timeout"]
      /\ UNCHANGED <<config, at, pipe, read, collected>> /\ ProcTypes
  BY DEF Timeout, ProcInv, Running
<1>2. ProcTypes'
  BY <1>1 DEF ProcTypes
<1>3. PermitsInv'
  <2>1. "done" \notin Running
    BY DEF Running
  <2>2. Cardinality(Active') = Cardinality(Active) - 1 /\ Cardinality(Active) \in Nat
    BY <1>1, <2>1, ActiveMoved, Zenon
  <2> QED
    BY <1>1, <2>2 DEF ProcInv, PermitsInv, ProcTypes
<1>4. ChildInv'
  BY <1>1 DEF ProcInv, ChildInv, ProcTypes, Running
<1>5. PipeInv'
  <2>1. \A d \in Configs, s \in Streams : Written(d, s)' = Written(d, s)
    BY <1>1 DEF Written
  <2> QED
    BY <1>1, <2>1 DEF ProcInv, PipeInv, ProcTypes
<1>6. OutcomeInv'
  BY <1>1 DEF ProcInv, OutcomeInv, ProcTypes
<1>7. CollectedInv'
  BY <1>1 DEF ProcInv, CollectedInv, ProcTypes, Running
<1> QED
  BY <1>2, <1>3, <1>4, <1>5, <1>6, <1>7 DEF ProcInv

\* The collecting loop takes the next result.
LEMMA CollectKeeps ==
  ASSUME ProcInv, Collect
  PROVE  ProcInv'
<1> DEFINE c == Len(collected) + 1
           result == [of |-> c, success |-> outcome[c] = "Success", timed_out |-> FALSE,
                      out |-> IF outcome[c] \in {"Success", "Failure"} THEN read[c] ELSE [s \in Streams |-> 0]]
<1>1. /\ Len(collected) < NConfigs /\ stage[c] = "done" /\ collected' = Append(collected, result)
      /\ UNCHANGED <<config, stage, permits, at, pipe, read, child, outcome>> /\ ProcTypes
  BY DEF Collect, ProcInv
<1>2. collected \in Seq(Results) /\ Len(collected) \in Nat /\ NConfigs \in Nat /\ c \in Configs /\ c \in Nat
  BY <1>1, ProcessAssumption DEF ProcTypes, Configs
<1>3. result \in Results
  <2>1. read[c] \in [Streams -> Nat] /\ [s \in Streams |-> 0] \in [Streams -> Nat]
    BY <1>1, <1>2 DEF ProcTypes
  <2> QED
    BY <1>2, <2>1 DEF Results
<1>4. result.of = c /\ (result.success => outcome[c] = "Success")
  OBVIOUS
<1> HIDE DEF result
<1>5. /\ collected' \in Seq(Results) /\ Len(collected') = Len(collected) + 1 /\ collected'[Len(collected) + 1] = result
      /\ \A i \in 1 .. Len(collected) : collected'[i] = collected[i]
  BY <1>1, <1>2, <1>3
<1>6. ProcTypes'
  BY <1>1, <1>5 DEF ProcTypes
<1>7. PermitsInv' /\ ChildInv' /\ OutcomeInv'
  BY <1>1 DEF ProcInv, PermitsInv, Active, ChildInv, OutcomeInv
<1>8. PipeInv'
  <2>1. \A d \in Configs, s \in Streams : Written(d, s)' = Written(d, s)
    BY <1>1 DEF Written
  <2> QED
    BY <1>1, <2>1 DEF ProcInv, PipeInv
<1>9. CollectedInv'
  BY <1>1, <1>2, <1>4, <1>5 DEF ProcInv, CollectedInv
<1> QED
  BY <1>6, <1>7, <1>8, <1>9 DEF ProcInv

-----------------------------------------------------------------------------
(* The process manager: the theorem.                                         *)

LEMMA ProcStarts == ProcInit => ProcInv
<1> SUFFICES ASSUME ProcInit PROVE ProcInv
  OBVIOUS
<1>1. ProcTypes
  BY ProcessAssumption DEF ProcInit, ProcTypes
<1>2. PermitsInv
  <2>1. Active = {}
    BY DEF ProcInit, Active, Running
  <2> QED
    BY <2>1, FS_EmptySet, ProcessAssumption DEF ProcInit, PermitsInv
<1>3. ChildInv
  BY <1>1, ProgramTypes DEF ProcInit, ChildInv
<1>4. \A c \in Configs, s \in Streams : Written(c, s) = 0
  <2> SUFFICES ASSUME NEW c \in Configs, NEW s \in Streams PROVE Written(c, s) = 0
    OBVIOUS
  <2>1. at[c] = 0
    BY DEF ProcInit
  <2>2. config[c].program \in Seq(Streams) /\ 0 \in Nat /\ 0 <= Len(config[c].program)
    BY <1>1, ProgramTypes
  <2> QED
    BY <2>1, <2>2, FirstWrites DEF Written
<1>5. PipeInv
  BY <1>4 DEF ProcInit, PipeInv
<1>6. OutcomeInv /\ CollectedInv
  BY ProcessAssumption DEF ProcInit, OutcomeInv, CollectedInv
<1> QED
  BY <1>1, <1>2, <1>3, <1>5, <1>6 DEF ProcInv

\* Every step of a task, of a child and of the collecting loop.
LEMMA ProcKeeps == ProcInv /\ [ProcNext]_procVars => ProcInv'
<1>1. ASSUME ProcInv, NEW c \in Configs, Start(c) \/ Child(c) \/ Read(c) \/ Wait(c) \/ Timeout(c) PROVE ProcInv'
  BY <1>1, StartKeeps, ChildKeeps, ReadKeeps, WaitKeeps, TimeoutKeeps
<1>2. ASSUME ProcInv, Collect PROVE ProcInv'
  BY <1>2, CollectKeeps
<1>3. ASSUME ProcInv, UNCHANGED procVars PROVE ProcInv'
  BY <1>3 DEF procVars, ProcInv, ProcTypes, PermitsInv, Active, ChildInv, PipeInv, Written, OutcomeInv, CollectedInv
<1> QED
  BY <1>1, <1>2, <1>3 DEF ProcNext

\* What the manager owes follows.
LEMMA ProcServes == ProcInv => ProcessesAccounted
<1> SUFFICES ASSUME ProcInv PROVE ProcessesAccounted
  OBVIOUS
<1>1. /\ permits = MaxConcurrent - Cardinality({c \in Configs : stage[c] \in {"stdout", "stderr", "wait"}})
      /\ permits >= 0
  <2>1. Active = {c \in Configs : stage[c] \in {"stdout", "stderr", "wait"}}
    BY DEF Active, Running
  <2>2. Cardinality(Active) \in Nat
    <3>1. IsFiniteSet(Active)
      BY ProcessAssumption, Interval, FS_Subset DEF Active, Configs
    <3> QED
      BY <3>1, FS_CardinalityType
  <2> QED
    BY <2>1, <2>2, ProcessAssumption DEF ProcInv, PermitsInv, ProcTypes
<1>2. \A c \in Configs : child[c] = "running" => stage[c] \in {"stdout", "stderr", "wait"}
  BY DEF ProcInv, ChildInv, Running
<1>3. ASSUME NEW c \in Configs, NEW s \in Streams
      PROVE  /\ Wrote(c, s) = WrittenBy(config[c].program, Len(config[c].program), s) /\ Wrote(c, s) \in Nat
             /\ at[c] = Len(config[c].program) => Wrote(c, s) = Written(c, s)
             /\ at[c] < Len(config[c].program) /\ config[c].program[at[c] + 1] = s => Written(c, s) < Wrote(c, s)
  <2>1. /\ config[c].program \in Seq(Streams) /\ at[c] \in Nat /\ at[c] <= Len(config[c].program)
        /\ DOMAIN config[c].program = 1 .. Len(config[c].program)
    BY ProgramTypes, LenProperties DEF ProcInv, ChildInv
  <2>2. Wrote(c, s) = WrittenBy(config[c].program, Len(config[c].program), s)
    BY <2>1 DEF Wrote, WrittenBy
  <2>3. WrittenBy(config[c].program, Len(config[c].program), s) \in Nat
    BY <2>1, FirstWrites
  <2>4. at[c] < Len(config[c].program) /\ config[c].program[at[c] + 1] = s =>
          WrittenBy(config[c].program, at[c], s) < WrittenBy(config[c].program, Len(config[c].program), s)
    BY <2>1, FirstWrites
  <2> QED
    BY <2>2, <2>3, <2>4 DEF Written
<1>4. ASSUME NEW c \in Configs, outcome[c] \in {"Success", "Failure"}
      PROVE  /\ (outcome[c] = "Success") <=> (config[c].code = 0)
             /\ at[c] = Len(config[c].program)
             /\ config[c].capture => \A s \in Streams : read[c][s] = Wrote(c, s)
  <2>1. /\ (outcome[c] = "Success") <=> (config[c].code = 0) 
        /\ at[c] = Len(config[c].program)
        /\ config[c].capture => \A s \in Streams : pipe[c][s] = 0 /\ read[c][s] + pipe[c][s] = Written(c, s)
    BY <1>4 DEF ProcInv, OutcomeInv, ChildInv, PipeInv
  <2>2. \A s \in Streams : read[c][s] \in Nat
    BY DEF ProcInv, ProcTypes
  <2> QED
    BY <1>3, <2>1, <2>2
<1>5. \A i \in DOMAIN collected : collected[i].of = i /\ (collected[i].success => outcome[i] = "Success")
  <2>1. DOMAIN collected = 1 .. Len(collected)
    BY LenProperties DEF ProcInv, ProcTypes
  <2> QED
    BY <2>1 DEF ProcInv, CollectedInv
<1>6. ASSUME NEW c \in Configs, PipeDeadlock(c) PROVE Wrote(c, "err") > PipeSize
  <2>1. /\ stage[c] = "stdout" /\ at[c] < Len(config[c].program) /\ config[c].program[at[c] + 1] = "err"
        /\ pipe[c]["err"] = PipeSize /\ "err" \in Streams
    BY <1>6 DEF PipeDeadlock, Streams
  <2>2. read[c]["err"] = 0 /\ read[c]["err"] + pipe[c]["err"] = Written(c, "err")
    BY <2>1 DEF ProcInv, PipeInv
  <2>3. Written(c, "err") = PipeSize
    BY <2>1, <2>2, ProcessAssumption
  <2>4. Written(c, "err") < Wrote(c, "err") /\ Wrote(c, "err") \in Nat
    BY <1>3, <2>1
  <2> QED
    BY <2>3, <2>4, ProcessAssumption
<1> QED
  BY <1>1, <1>2, <1>4, <1>5, <1>6 DEF ProcessesAccounted

\* What the process manager owes its callers, with any processes: at most
\* max_concurrent children run, each under a task that holds a permit, and a
\* task that ended by a timeout leaves none; a result that is no error has
\* the child's exit code and all the child wrote; results come in the order of
\* the configs; and a task and its child block each other only when the child
\* writes more to stderr than the pipe holds.
THEOREM ProcessesServed == ProcSpec => []ProcessesAccounted
<1>1. ProcInit => ProcInv
  BY ProcStarts
<1>2. ProcInv /\ [ProcNext]_procVars => ProcInv'
  BY ProcKeeps
<1>3. ProcInv => ProcessesAccounted
  BY ProcServes
<1> QED
  BY <1>1, <1>2, <1>3, PTL DEF ProcSpec

-----------------------------------------------------------------------------
(* Hook chains.                                                              *)

\* Every nonempty set of naturals has a least member: what the inductions
\* below rest on.
LEMMA LeastNatural ==
  ASSUME NEW S, S \subseteq Nat, S # {}
  PROVE  \E m \in S : \A k \in S : m <= k
<1>1. \E m \in S : \A k \in S : ~ (<<k, m>> \in OpToRel(<, Nat))
  BY NatLessThanWellFounded, WFMin
<1>2. PICK m \in S : \A k \in S : ~ (<<k, m>> \in OpToRel(<, Nat))
  BY <1>1
<1>3. \A k \in S : <<k, m>> \in OpToRel(<, Nat) <=> k < m
  BY DEF OpToRel
<1>4. \A k \in S : k \in Nat /\ m \in Nat /\ ~ (k < m)
  BY <1>2, <1>3
<1>5. \A k \in S : m <= k
  BY <1>4
<1>. QED BY <1>2, <1>5

\* What holds of zero and of the successor of each natural it holds of.
LEMMA Inductive ==
  ASSUME NEW S, S \subseteq Nat, 0 \in S, \A n \in S : n + 1 \in S
  PROVE  S = Nat
<1>1. SUFFICES ASSUME Nat \ S # {} PROVE FALSE
  OBVIOUS
<1>2. PICK m \in Nat \ S : \A k \in Nat \ S : m <= k
  BY <1>1, LeastNatural
<1>3. m # 0 /\ m - 1 \in Nat
  BY <1>2
<1>4. m - 1 \in S
  BY <1>2, <1>3
<1>. QED BY <1>2, <1>4

\* A repeated step, when it stays in some set.
LEMMA IteratesDef ==
  ASSUME NEW V, NEW start \in V, NEW next \in [V -> V]
  PROVE  /\ Iterates(start, next) \in [Nat -> V]
         /\ Iterates(start, next)[0] = start
         /\ \A n \in Nat : Iterates(start, next)[n + 1] = next[Iterates(start, next)[n]]
<1>. DEFINE Run(k) == {g \in [0..k -> V] : g[0] = start /\ \A i \in 0..(k - 1) : g[i + 1] = next[g[i]]}
            Runs == {k \in Nat : Run(k) # {}}
<1>1. Runs = Nat
  <2>1. 0 \in Runs
    <3>1. [i \in 0..0 |-> start] \in Run(0)
      OBVIOUS
    <3>. QED BY <3>1
  <2>2. ASSUME NEW k \in Runs PROVE k + 1 \in Runs
    <3>1. PICK g : g \in Run(k)
      BY <2>2
    <3>. DEFINE h == [i \in 0..(k + 1) |-> IF i = k + 1 THEN next[g[k]] ELSE g[i]]
    <3>2. k \in Nat /\ g \in [0..k -> V] /\ g[k] \in V
      BY <3>1
    <3>3. h \in [0..(k + 1) -> V]
      BY <3>2
    <3>4. h[0] = start
      BY <3>1, <3>2
    <3>5. ASSUME NEW i \in 0..k PROVE h[i + 1] = next[h[i]]
      <4>1. CASE i = k
        BY <4>1, <3>2
      <4>2. CASE i # k
        <5>1. i \in 0..(k - 1) /\ i + 1 \in 0..k /\ i + 1 # k + 1 /\ i # k + 1
          BY <4>2, <3>2
        <5>. QED BY <5>1, <3>1
      <4>. QED BY <4>1, <4>2
    <3>6. (k + 1) - 1 = k
      BY <3>2
    <3>7. h \in Run(k + 1)
      <4>. HIDE DEF h
      <4>. QED BY <3>3, <3>4, <3>5, <3>6
    <3>. QED BY <3>2, <3>7
  <2>. HIDE DEF Runs
  <2>3. Runs \subseteq Nat
    BY DEF Runs
  <2>. QED BY <2>1, <2>2, <2>3, Inductive
<1>0. \A k \in Nat : \E g : g \in Run(k)
  <2>1. \A k \in Nat : k \in Runs
    BY <1>1
  <2>. QED BY <2>1
<1>2. ASSUME NEW k \in Nat, NEW l \in Nat, k <= l, NEW g \in Run(k), NEW h \in Run(l), NEW n \in 0..k
      PROVE  g[n] = h[n]
  <2>. DEFINE Same == {i \in Nat : i <= k => g[i] = h[i]}
  <2>1. 0 \in Same
    BY <1>2
  <2>2. ASSUME NEW i \in Same PROVE i + 1 \in Same
    <3>1. CASE i + 1 <= k
      <4>1. i \in 0..(k - 1) /\ i \in 0..(l - 1)
        BY <3>1, <1>2
      <4>. QED BY <4>1, <1>2
    <3>. QED BY <3>1
  <2>3. Same \subseteq Nat
    OBVIOUS
  <2>. HIDE DEF Same
  <2>4. Same = Nat
    BY <2>1, <2>2, <2>3, Inductive
  <2>. QED BY <2>4, <1>2 DEF Same
<1>. DEFINE G == [n \in Nat |-> (CHOOSE g \in Run(n) : TRUE)[n]]
<1>3. ASSUME NEW n \in Nat, NEW l \in Nat, n <= l, NEW h \in Run(l)
      PROVE  G[n] = h[n]
  <2>. HIDE DEF Run
  <2>1. (CHOOSE g \in Run(n) : TRUE) \in Run(n)
    BY <1>0
  <2>2. n \in 0..n /\ n <= l
    BY <1>3
  <2>3. (CHOOSE g \in Run(n) : TRUE)[n] = h[n]
    BY <2>1, <2>2, <1>2
  <2>. QED BY <2>3
<1>4. G[0] = start
  <2>1. PICK g : g \in Run(0)
    BY <1>0
  <2>2. G[0] = g[0]
    <3>. HIDE DEF G, Run
    <3>. QED BY <2>1, <1>3
  <2>. QED BY <2>1, <2>2
<1>5. ASSUME NEW n \in Nat PROVE G[n + 1] = next[G[n]] /\ G[n] \in V
  <2>1. PICK g : g \in Run(n + 1)
    BY <1>0
  <2>2. G[n] = g[n] /\ G[n + 1] = g[n + 1]
    <3>. HIDE DEF G, Run
    <3>. QED BY <2>1, <1>3
  <2>. QED BY <2>1, <2>2
<1>. HIDE DEF G
<1>6. DOMAIN G = Nat /\ G = [n \in Nat |-> G[n]]
  BY DEF G
<1>7. \A n \in Nat : G[n] = IF n = 0 THEN start ELSE next[G[n - 1]]
  BY <1>4, <1>5
<1>8. G = [n \in Nat |-> IF n = 0 THEN start ELSE next[G[n - 1]]]
  BY <1>6, <1>7
<1>. DEFINE I == Iterates(start, next)
<1>9. I = [n \in Nat |-> IF n = 0 THEN start ELSE next[I[n - 1]]]
  BY <1>8 DEF Iterates
<1>. HIDE DEF I
<1>10. I[0] = start /\ \A n \in Nat : I[n + 1] = next[I[n]]
  BY <1>9
<1>11. \A n \in Nat : I[n] \in V
  <2>. DEFINE In == {n \in Nat : I[n] \in V}
  <2>1. 0 \in In /\ \A n \in In : n + 1 \in In
    BY <1>10
  <2>2. In \subseteq Nat
    OBVIOUS
  <2>. HIDE DEF In
  <2>3. In = Nat
    BY <2>1, <2>2, Inductive
  <2>. QED BY <2>3 DEF In
<1>12. I \in [Nat -> V]
  BY <1>9, <1>11
<1>. QED BY <1>10, <1>12 DEF I

\* A repeated step that only adds hooks has nothing to add after as many
\* repetitions as there are hooks.
LEMMA Saturates ==
  ASSUME NEW start \in SUBSET Hooks, NEW next \in [SUBSET Hooks -> SUBSET Hooks],
         \A S \in SUBSET Hooks : S \subseteq next[S],
         NEW G, G = Iterates(start, next)
  PROVE  /\ Cardinality(Hooks) \in Nat
         /\ \A m, n \in Nat : m <= n => G[m] \subseteq G[n]
         /\ \A n \in Nat : n >= Cardinality(Hooks) => G[n] = G[Cardinality(Hooks)]
         /\ next[G[Cardinality(Hooks)]] = G[Cardinality(Hooks)]
<1>. DEFINE N == Cardinality(Hooks)
<1>1. N \in Nat /\ IsFiniteSet(Hooks)
  BY FS_CardinalityType, ChainAssumption
<1>2. /\ \A n \in Nat : G[n] \in SUBSET Hooks
      /\ G[0] = start
      /\ \A n \in Nat : G[n + 1] = next[G[n]]
  <2>1. /\ G \in [Nat -> SUBSET Hooks] /\ G[0] = start
        /\ \A n \in Nat : G[n + 1] = next[G[n]]
    <3>. DEFINE V == SUBSET Hooks
    <3>1. start \in V /\ next \in [V -> V]
      OBVIOUS
    <3>. HIDE DEF V
    <3>2. /\ Iterates(start, next) \in [Nat -> V] /\ Iterates(start, next)[0] = start
          /\ \A n \in Nat : Iterates(start, next)[n + 1] = next[Iterates(start, next)[n]]
      BY <3>1, IteratesDef
    <3>. QED BY <3>2 DEF V
  <2>. QED BY <2>1
<1>. HIDE DEF N
<1>3. ASSUME NEW m \in Nat, NEW n \in Nat, m <= n PROVE G[m] \subseteq G[n]
  <2>. DEFINE Above == {k \in Nat : G[m] \subseteq G[m + k]}
  <2>1. 0 \in Above
    BY <1>2
  <2>2. ASSUME NEW k \in Above PROVE k + 1 \in Above
    <3>1. m + k \in Nat /\ m + (k + 1) = (m + k) + 1
      BY <2>2
    <3>2. G[m + k] \subseteq G[(m + k) + 1]
      BY <1>2, <3>1
    <3>. QED BY <2>2, <3>1, <3>2
  <2>3. Above \subseteq Nat
    OBVIOUS
  <2>. HIDE DEF Above
  <2>4. Above = Nat
    BY <2>1, <2>2, <2>3, Inductive
  <2>5. n - m \in Nat /\ m + (n - m) = n
    BY <1>3
  <2>. QED BY <2>4, <2>5 DEF Above
<1>4. ASSUME NEW m \in Nat, G[m + 1] = G[m], NEW n \in Nat, m <= n PROVE G[n] = G[m]
  <2>. DEFINE Still == {k \in Nat : G[m + k] = G[m]}
  <2>1. 0 \in Still
    BY <1>2
  <2>2. ASSUME NEW k \in Still PROVE k + 1 \in Still
    <3>1. m + k \in Nat /\ m + (k + 1) = (m + k) + 1
      BY <2>2
    <3>2. G[(m + k) + 1] = next[G[m]] /\ next[G[m]] = G[m]
      BY <1>2, <3>1, <2>2, <1>4
    <3>. QED BY <2>2, <3>1, <3>2
  <2>3. Still \subseteq Nat
    OBVIOUS
  <2>. HIDE DEF Still
  <2>4. Still = Nat
    BY <2>1, <2>2, <2>3, Inductive
  <2>5. n - m \in Nat /\ m + (n - m) = n
    BY <1>4
  <2>. QED BY <2>4, <2>5 DEF Still
<1>5. G[N + 1] = G[N]
  <2>1. SUFFICES ASSUME G[N + 1] # G[N] PROVE FALSE
    OBVIOUS
  <2>2. ASSUME NEW k \in Nat, k <= N PROVE G[k + 1] # G[k]
    <3>1. SUFFICES ASSUME G[k + 1] = G[k] PROVE FALSE
      OBVIOUS
    <3>2. k <= N + 1 /\ N + 1 \in Nat
      BY <1>1, <2>2
    <3>3. G[N] = G[k] /\ G[N + 1] = G[k]
      BY <1>4, <1>1, <2>2, <3>1, <3>2
    <3>. QED BY <3>3, <2>1
  <2>. DEFINE Big == {k \in Nat : k <= N + 1 => IsFiniteSet(G[k]) /\ Cardinality(G[k]) >= k}
  <2>3. ASSUME NEW k \in Nat PROVE IsFiniteSet(G[k]) /\ Cardinality(G[k]) \in Nat /\ Cardinality(G[k]) <= N
    BY <1>1, <1>2, FS_Subset, FS_CardinalityType DEF N
  <2>4. 0 \in Big
    BY <2>3
  <2>5. ASSUME NEW k \in Big PROVE k + 1 \in Big
    <3>1. SUFFICES ASSUME k + 1 <= N + 1 PROVE Cardinality(G[k + 1]) >= k + 1
      BY <2>3, <2>5
    <3>2. k \in Nat /\ k + 1 \in Nat /\ k <= N /\ k <= N + 1
      BY <3>1, <2>5, <1>1
    <3>3. G[k + 1] # G[k] /\ G[k] \subseteq G[k + 1]
      BY <3>2, <2>2, <1>3
    <3>4. Cardinality(G[k]) < Cardinality(G[k + 1])
      <4>1. IsFiniteSet(G[k + 1])
        BY <2>3, <3>2
      <4>2. Cardinality(G[k]) # Cardinality(G[k + 1])
        BY <4>1, <3>3, FS_Subset
      <4>3. Cardinality(G[k]) <= Cardinality(G[k + 1])
        BY <4>1, <3>3, FS_Subset
      <4>. QED BY <4>2, <4>3, <2>3, <3>2
    <3>5. Cardinality(G[k]) >= k
      BY <2>5, <3>2
    <3>. QED BY <3>2, <3>4, <3>5, <2>3
  <2>6. Big \subseteq Nat
    OBVIOUS
  <2>. HIDE DEF Big
  <2>7. Big = Nat
    BY <2>4, <2>5, <2>6, Inductive
  <2>8. N + 1 \in Big
    BY <2>7, <1>1
  <2>9. Cardinality(G[N + 1]) >= N + 1 /\ Cardinality(G[N + 1]) <= N /\ Cardinality(G[N + 1]) \in Nat
    BY <2>8, <1>1, <2>3 DEF Big
  <2>. QED BY <2>9, <1>1
<1>6. next[G[N]] = G[N]
  BY <1>5, <1>1, <1>2
<1>7. \A n \in Nat : n >= N => G[n] = G[N]
  BY <1>4, <1>5, <1>1
<1>. QED BY <1>1, <1>3, <1>6, <1>7 DEF N

\* The hooks that have a level, level by level.
LEMMA AssignedDef ==
  ASSUME NEW deps, NEW A, A = Assigned(deps)
  PROVE  /\ Cardinality(Hooks) \in Nat
         /\ A[0] = {} /\ \A n \in Nat : A[n] \subseteq Hooks
         /\ \A n \in Nat : A[n + 1] = A[n] \cup {h \in Hooks : deps[h] \subseteq A[n]}
         /\ \A m, n \in Nat : m <= n => A[m] \subseteq A[n]
         /\ {h \in Hooks : deps[h] \subseteq A[Cardinality(Hooks)]} \subseteq A[Cardinality(Hooks)]
<1>. DEFINE Step == [S \in SUBSET Hooks |-> S \cup {h \in Hooks : deps[h] \subseteq S}]
            V == SUBSET Hooks
            N == Cardinality(Hooks)
<1>1. Step \in [V -> V] /\ {} \in V /\ \A S \in V : S \subseteq Step[S]
  OBVIOUS
<1>2. A = Iterates({}, Step)
  BY DEF Assigned
<1>3. \A S \in V : Step[S] = S \cup {h \in Hooks : deps[h] \subseteq S}
  OBVIOUS
<1>. HIDE DEF Step, V
<1>4. A \in [Nat -> V] /\ A[0] = {} /\ \A n \in Nat : A[n + 1] = Step[A[n]]
  BY <1>1, <1>2, IteratesDef
<1>5. /\ N \in Nat
      /\ \A m, n \in Nat : m <= n => A[m] \subseteq A[n]
      /\ Step[A[N]] = A[N]
  <2>1. {} \in SUBSET Hooks /\ Step \in [SUBSET Hooks -> SUBSET Hooks] /\ \A S \in SUBSET Hooks : S \subseteq Step[S]
    BY <1>1 DEF V
  <2>. QED BY <2>1, <1>2, Saturates
<1>6. \A n \in Nat : A[n + 1] = A[n] \cup {h \in Hooks : deps[h] \subseteq A[n]}
  BY <1>3, <1>4
<1>7. A[N] = A[N] \cup {h \in Hooks : deps[h] \subseteq A[N]}
  BY <1>3, <1>4, <1>5
<1>8. \A n \in Nat : A[n] \subseteq Hooks
  BY <1>4 DEF V
<1>. HIDE DEF N
<1>. QED BY <1>4, <1>5, <1>6, <1>7, <1>8 DEF N

\* Each of them has a level, and found its dependencies below it.
LEMMA LevelOfEach ==
  ASSUME NEW deps, NEW A, A = Assigned(deps), NEW k \in Nat, NEW h \in A[k]
  PROVE  \E n \in 1..k : h \in A[n] \ A[n - 1] /\ deps[h] \subseteq A[n - 1]
<1>. DEFINE In == {n \in Nat : h \in A[n]}
<1>1. /\ A[0] = {}
      /\ \A n \in Nat : A[n + 1] = A[n] \cup {g \in Hooks : deps[g] \subseteq A[n]}
  BY AssignedDef
<1>2. k \in In /\ In \subseteq Nat
  OBVIOUS
<1>3. PICK n \in In : \A j \in In : n <= j
  <2>. HIDE DEF In
  <2>. QED BY <1>2, LeastNatural
<1>4. n \in Nat /\ n # 0 /\ n <= k /\ h \in A[n]
  BY <1>1, <1>2, <1>3
<1>5. n - 1 \in Nat /\ ~ (n - 1 \in In) /\ (n - 1) + 1 = n
  BY <1>3, <1>4
<1>6. h \notin A[n - 1] /\ A[n] = A[n - 1] \cup {g \in Hooks : deps[g] \subseteq A[n - 1]}
  BY <1>1, <1>5
<1>. QED BY <1>4, <1>5, <1>6

\* The shape of the levels: none, or those of the hooks assigned.
LEMMA LevelsDef ==
  ASSUME NEW deps, NEW A, A = Assigned(deps), NEW L, L = ExecutionLevels(deps)
  PROVE  \/ A[Cardinality(Hooks)] # Hooks /\ L = <<>>
         \/ \E depth \in 0..Cardinality(Hooks) :
               /\ L = [n \in 1..depth |-> A[n] \ A[n - 1]]
               /\ A[depth] = Hooks /\ \A k \in 0..(depth - 1) : A[k] # Hooks
<1>. DEFINE N == Cardinality(Hooks)
            Full == {n \in Nat : A[n] = Hooks}
            Is(n) == A[n] = Hooks /\ \A k \in 0..(n - 1) : A[k] # Hooks
            depth == CHOOSE n \in 0..N : Is(n)
<1>1. CASE A[N] # Hooks
  BY <1>1 DEF ExecutionLevels
<1>2. CASE A[N] = Hooks
  <2>1. N \in Nat
    BY AssignedDef
  <2>2. N \in Full /\ Full \subseteq Nat
    BY <1>2, <2>1
  <2>3. PICK n \in Full : \A j \in Full : n <= j
    <3>. HIDE DEF Full
    <3>. QED BY <2>2, LeastNatural
  <2>4. n \in 0..N /\ Is(n)
    BY <2>1, <2>2, <2>3
  <2>5. depth \in 0..N /\ Is(depth)
    <3>. HIDE DEF Is
    <3>. QED BY <2>4
  <2>6. L = [i \in 1..depth |-> A[i] \ A[i - 1]]
    BY <1>2 DEF ExecutionLevels
  <2>. HIDE DEF depth
  <2>. QED BY <2>5, <2>6
<1>. QED BY <1>1, <1>2

\* Every level is a set of hooks of its own, above all of its dependencies.
LEMMA LevelsSound ==
  ASSUME NEW deps, NEW L, L = ExecutionLevels(deps)
  PROVE  /\ L \in Seq(SUBSET Hooks) /\ Len(L) <= Cardinality(Hooks)
         /\ \A m, n \in DOMAIN L : m # n => L[m] \cap L[n] = {}
         /\ \A m \in DOMAIN L : \A h \in L[m] : \A d \in deps[h] : \E n \in 1..(m - 1) : d \in L[n]
<1>. DEFINE A == Assigned(deps)
            N == Cardinality(Hooks)
<1>1. /\ N \in Nat
      /\ \A n \in Nat : A[n] \subseteq Hooks
      /\ \A m, n \in Nat : m <= n => A[m] \subseteq A[n]
  BY AssignedDef
<1>2. CASE L = <<>>
  <2>1. Len(L) = 0 /\ DOMAIN L = {} /\ L \in Seq(SUBSET Hooks)
    BY <1>2
  <2>. QED BY <2>1, <1>1
<1>3. CASE L # <<>>
  <2>1. PICK depth \in 0..N : L = [n \in 1..depth |-> A[n] \ A[n - 1]]
    BY <1>3, LevelsDef
  <2>. HIDE DEF A, N
  <2>2. depth \in Nat /\ depth <= N /\ DOMAIN L = 1..depth /\ \A n \in 1..depth : L[n] = A[n] \ A[n - 1]
    BY <2>1, <1>1
  <2>3. \A n \in 1..depth : L[n] \in SUBSET Hooks
    BY <2>2, <1>1
  <2>4. L \in Seq(SUBSET Hooks) /\ Len(L) = depth
    BY <2>1, <2>2, <2>3
  <2>5. ASSUME NEW m \in DOMAIN L, NEW n \in DOMAIN L, m # n PROVE L[m] \cap L[n] = {}
    <3>1. m \in Nat /\ n \in Nat /\ m - 1 \in Nat /\ n - 1 \in Nat /\ (m <= n - 1 \/ n <= m - 1)
      BY <2>2, <2>5
    <3>2. A[m] \subseteq A[n - 1] \/ A[n] \subseteq A[m - 1]
      BY <3>1, <1>1
    <3>. QED BY <3>2, <2>2, <2>5
  <2>6. ASSUME NEW m \in DOMAIN L, NEW h \in L[m], NEW d \in deps[h] PROVE \E n \in 1..(m - 1) : d \in L[n]
    <3>1. m \in Nat /\ m - 1 \in Nat /\ m \in 1..depth /\ h \in A[m] /\ h \notin A[m - 1]
      BY <2>2, <2>6
    <3>2. PICK i \in 1..m : h \in A[i] \ A[i - 1] /\ deps[h] \subseteq A[i - 1]
      BY <3>1, LevelOfEach DEF A
    <3>3. i = m
      <4>1. SUFFICES ASSUME i # m PROVE FALSE
        OBVIOUS
      <4>2. i \in Nat /\ i <= m - 1
        BY <3>1, <3>2, <4>1
      <4>3. A[i] \subseteq A[m - 1]
        BY <4>2, <3>1, <1>1
      <4>. QED BY <4>3, <3>1, <3>2
    <3>4. d \in A[m - 1]
      BY <3>2, <3>3
    <3>5. PICK n \in 1..(m - 1) : d \in A[n] \ A[n - 1]
      BY <3>1, <3>4, LevelOfEach DEF A
    <3>6. n \in 1..depth
      BY <3>1, <3>5, <2>2
    <3>. QED BY <3>5, <3>6, <2>2
  <2>. QED BY <2>2, <2>4, <2>5, <2>6 DEF N
<1>. QED BY <1>2, <1>3

\* The hooks that a hook reaches: those that need it, closed under what
\* needs them, and no others.
LEMMA ReachesDef ==
  ASSUME NEW deps, NEW a, NEW R, R = Reaches(deps, a)
  PROVE  /\ R \subseteq Hooks /\ Dependents(deps, a) \subseteq R
         /\ \A g \in Hooks : deps[g] \cap R # {} => g \in R
         /\ \A T \in SUBSET Hooks :
               Dependents(deps, a) \subseteq T /\ (\A g \in Hooks : deps[g] \cap T # {} => g \in T) => R \subseteq T
<1>. DEFINE V == SUBSET Hooks
            Further == [S \in SUBSET Hooks |-> S \cup {g \in Hooks : deps[g] \cap S # {}}]
            start == Dependents(deps, a)
            G == Iterates(start, Further)
            N == Cardinality(Hooks)
<1>1. start \in V /\ Further \in [V -> V] /\ \A S \in V : S \subseteq Further[S]
  BY DEF Dependents
<1>2. \A S \in V : Further[S] = S \cup {g \in Hooks : deps[g] \cap S # {}}
  OBVIOUS
<1>3. R = G[N]
  BY DEF Reaches
<1>4. start \in SUBSET Hooks /\ Further \in [SUBSET Hooks -> SUBSET Hooks] /\ \A S \in SUBSET Hooks : S \subseteq Further[S]
  BY <1>1
<1>. HIDE DEF Further, V, start
<1>5. G \in [Nat -> V] /\ G[0] = start /\ \A n \in Nat : G[n + 1] = Further[G[n]]
  BY <1>1, IteratesDef
<1>. HIDE DEF G
<1>6. N \in Nat /\ (\A m, n \in Nat : m <= n => G[m] \subseteq G[n]) /\ Further[G[N]] = G[N]
  BY <1>4, Saturates DEF G
<1>. HIDE DEF N
<1>7. R \subseteq Hooks /\ start \subseteq R
  <2>1. R \in V /\ G[0] \subseteq G[N]
    BY <1>3, <1>5, <1>6
  <2>. QED BY <2>1, <1>3, <1>5 DEF V
<1>8. \A g \in Hooks : deps[g] \cap R # {} => g \in R
  <2>1. R = R \cup {g \in Hooks : deps[g] \cap R # {}}
    BY <1>2, <1>3, <1>5, <1>6
  <2>. QED BY <2>1
<1>9. ASSUME NEW T \in SUBSET Hooks, start \subseteq T, \A g \in Hooks : deps[g] \cap T # {} => g \in T
      PROVE  R \subseteq T
  <2>. DEFINE In == {n \in Nat : G[n] \subseteq T}
  <2>1. 0 \in In
    BY <1>5, <1>9
  <2>2. ASSUME NEW n \in In PROVE n + 1 \in In
    <3>1. G[n + 1] = G[n] \cup {g \in Hooks : deps[g] \cap G[n] # {}} /\ G[n] \subseteq T
      BY <1>2, <1>5, <2>2
    <3>. QED BY <3>1, <1>9
  <2>3. In \subseteq Nat
    OBVIOUS
  <2>. HIDE DEF In
  <2>4. In = Nat
    BY <2>1, <2>2, <2>3, Inductive
  <2>. QED BY <2>4, <1>3, <1>6 DEF In
<1>. QED BY <1>7, <1>8, <1>9 DEF start

\* A chain without cycles of several hooks, and without missing ones, gets
\* levels unless some hook depends on itself.
LEMMA SelfDependent ==
  ASSUME NEW deps, Validated(deps), NEW A, A = Assigned(deps), A[Cardinality(Hooks)] # Hooks
  PROVE  \E h \in Hooks : h \in deps[h]
<1>1. SUFFICES ASSUME \A h \in Hooks : h \notin deps[h] PROVE FALSE
  OBVIOUS
<1>. DEFINE R(h) == Reaches(deps, h)
            Above(h) == {g \in Hooks : h \in R(g)}
            T == Hooks \ A[Cardinality(Hooks)]
            Aboves == {Above(h) : h \in T}
<1>2. ASSUME NEW d \in Hooks PROVE d \notin R(d)
  <2>1. SUFFICES ASSUME d \in R(d) PROVE FALSE
    OBVIOUS
  <2>2. PICK x \in R(d) : x # d /\ x \in deps[d]
    <3>1. SUFFICES ASSUME \A x \in R(d) : x # d => x \notin deps[d] PROVE FALSE
      OBVIOUS
    <3>. DEFINE W == R(d) \ {d}
    <3>2. R(d) \subseteq Hooks /\ Dependents(deps, d) \subseteq R(d)
      BY ReachesDef
    <3>3. W \in SUBSET Hooks /\ Dependents(deps, d) \subseteq W
      BY <3>2, <1>1 DEF Dependents
    <3>4. ASSUME NEW g \in Hooks, deps[g] \cap W # {} PROVE g \in W
      <4>1. g \in R(d)
        <5>1. deps[g] \cap R(d) # {}
          BY <3>4
        <5>. QED BY <5>1, ReachesDef
      <4>. QED BY <4>1, <3>1, <3>4
    <3>5. R(d) \subseteq W
      <4>. HIDE DEF W
      <4>. QED BY <3>3, <3>4, ReachesDef
    <3>. QED BY <3>5, <2>1
  <2>3. x \in Hooks /\ d \in R(x)
    <3>1. x \in Hooks
      BY <2>2, ReachesDef
    <3>2. d \in Dependents(deps, x)
      BY <2>2 DEF Dependents
    <3>. QED BY <3>1, <3>2, ReachesDef
  <2>4. <<d, x>> \in DetectCycles(deps)
    BY <2>2, <2>3 DEF DetectCycles
  <2>. QED BY <2>4 DEF Validated
<1>3. T # {} /\ T \subseteq Hooks
  <2>1. A[Cardinality(Hooks)] \subseteq Hooks
    BY AssignedDef
  <2>. QED BY <2>1
<1>4. PICK h \in T : \A g \in T : ~ (Above(g) \subseteq Above(h) /\ Above(g) # Above(h))
  <2>1. Aboves \subseteq SUBSET Hooks /\ Aboves # {}
    <3>1. \A x \in T : Above(x) \in SUBSET Hooks
      OBVIOUS
    <3>. HIDE DEF T, Above
    <3>. QED BY <3>1, <1>3
  <2>. HIDE DEF Aboves
  <2>2. IsWellFoundedOn(StrictSubsetOrdering(Hooks), SUBSET Hooks)
    BY ChainAssumption, FS_StrictSubsetOrderingWellFounded, FS_FiniteSubsetsOfFinite
  <2>3. \E X \in Aboves : \A Y \in Aboves : ~ (<<Y, X>> \in StrictSubsetOrdering(Hooks))
    BY <2>1, <2>2, WFMin
  <2>4. \A X, Y \in SUBSET Hooks : X \subseteq Y /\ X # Y => <<X, Y>> \in StrictSubsetOrdering(Hooks)
    BY DEF StrictSubsetOrdering
  <2>5. PICK X \in Aboves : \A Y \in Aboves : ~ (Y \subseteq X /\ Y # X)
    BY <2>1, <2>3, <2>4
  <2>6. PICK h \in T : X = Above(h)
    BY DEF Aboves
  <2>7. \A g \in T : Above(g) \in Aboves
    BY DEF Aboves
  <2>. HIDE DEF Above, T
  <2>. QED BY <2>5, <2>6, <2>7
<1>5. PICK d \in T : d \in deps[h]
  <2>1. ~ (deps[h] \subseteq A[Cardinality(Hooks)]) /\ deps[h] \subseteq Hooks
    BY AssignedDef DEF Validated
  <2>. QED BY <2>1
<1>6. Above(d) \subseteq Above(h)
  <2>1. SUFFICES ASSUME NEW g \in Hooks, d \in R(g) PROVE h \in R(g)
    OBVIOUS
  <2>2. deps[h] \cap R(g) # {} /\ h \in Hooks
    BY <1>5, <2>1
  <2>. QED BY <2>2, ReachesDef
<1>7. d \in Above(h) /\ d \notin Above(d)
  <2>1. h \in R(d)
    <3>1. h \in Dependents(deps, d)
      BY <1>5 DEF Dependents
    <3>. QED BY <3>1, ReachesDef
  <2>. QED BY <2>1, <1>2
<1>. QED BY <1>4, <1>6, <1>7

\* A finite set of naturals has a largest member.
LEMMA LargestOf ==
  ASSUME NEW S, IsFiniteSet(S), S # {}, S \subseteq Nat
  PROVE  Largest(S) \in S /\ \A n \in S : n <= Largest(S)
<1>. DEFINE above(c) == {d \in S : d > c}
            T == {above(c) : c \in S}
<1>1. T \subseteq SUBSET S /\ T # {}
  OBVIOUS
<1>2. IsWellFoundedOn(StrictSubsetOrdering(S), SUBSET S)
  BY FS_StrictSubsetOrderingWellFounded, FS_FiniteSubsetsOfFinite
<1>3. PICK X \in T : \A Y \in T : ~ (<<Y, X>> \in StrictSubsetOrdering(S))
  <2>. HIDE DEF T
  <2>. QED BY <1>1, <1>2, WFMin
<1>4. PICK c \in S : X = above(c)
  BY <1>3
<1>5. ASSUME NEW d \in S PROVE d <= c
  <2>1. SUFFICES ASSUME d > c PROVE FALSE
    OBVIOUS
  <2>2. above(d) \subseteq above(c) /\ d \in above(c) /\ d \notin above(d)
    <3>1. c \in Nat /\ d \in Nat /\ ~ (d > d) /\ \A x \in S : x \in Nat /\ (x > d => x > c)
      BY <2>1
    <3>. QED BY <3>1, <2>1
  <2>3. above(d) \in T /\ above(d) \in SUBSET S /\ above(c) \in SUBSET S
    OBVIOUS
  <2>4. <<above(d), above(c)>> \in StrictSubsetOrdering(S)
    <3>. HIDE DEF above
    <3>. QED BY <2>2, <2>3 DEF StrictSubsetOrdering
  <2>. QED BY <2>3, <2>4, <1>3, <1>4
<1>. QED BY <1>5 DEF Largest

\* What a function makes of a finite set is finite.
LEMMA ImageFinite ==
  ASSUME NEW S, IsFiniteSet(S), NEW f
  PROVE  IsFiniteSet({f[x] : x \in S})
<1>. DEFINE T == {f[x] : x \in S}
            g == [x \in S |-> f[x]]
<1>1. g \in Surjection(S, T)
  BY DEF Surjection
<1>. HIDE DEF g, T
<1>2. IsFiniteSet(T)
  BY <1>1, FS_Surjection
<1>. QED BY <1>2 DEF T

\* The paths found with at most n steps: one longer than the longest from
\* those that need the hook.
LEMMA LongestDef ==
  ASSUME NEW deps, NEW I, I = LongestFrom(deps)
  PROVE  /\ \A n \in Nat : I[n] \in [Hooks -> Nat]
         /\ \A h \in Hooks : I[0][h] = 1
         /\ \A n \in Nat, h \in Hooks :
               /\ \A g \in Dependents(deps, h) : I[n + 1][h] >= 1 + I[n][g]
               /\ I[n + 1][h] = 1 \/ \E g \in Dependents(deps, h) : I[n + 1][h] = 1 + I[n][g]
<1>. DEFINE V == [Hooks -> Nat]
            Found(paths, h) == {0} \cup {paths[g] : g \in Dependents(deps, h)}
            Longer == [paths \in [Hooks -> Nat] |-> [h \in Hooks |-> 1 + Largest(Found(paths, h))]]
            ones == [h \in Hooks |-> 1]
<1>0. I = Iterates(ones, Longer)
  BY DEF LongestFrom
<1>1. ASSUME NEW paths \in V, NEW h \in Hooks
      PROVE  /\ Largest(Found(paths, h)) \in Found(paths, h) /\ Found(paths, h) \subseteq Nat
             /\ \A n \in Found(paths, h) : n <= Largest(Found(paths, h))
  <2>1. IsFiniteSet(Dependents(deps, h)) /\ Dependents(deps, h) \subseteq Hooks
    BY ChainAssumption, FS_Subset DEF Dependents
  <2>2. IsFiniteSet({paths[g] : g \in Dependents(deps, h)})
    BY <2>1, ImageFinite
  <2>3. IsFiniteSet(Found(paths, h))
    BY <2>2, FS_Union, FS_Singleton
  <2>4. Found(paths, h) \subseteq Nat /\ Found(paths, h) # {}
    BY <2>1
  <2>. HIDE DEF Found
  <2>. QED BY <2>3, <2>4, LargestOf
<1>2. ASSUME NEW paths \in V PROVE Longer[paths] \in V /\ \A h \in Hooks : Longer[paths][h] = 1 + Largest(Found(paths, h))
  <2>1. \A h \in Hooks : Largest(Found(paths, h)) \in Nat
    <3>. HIDE DEF V
    <3>. QED BY <1>1
  <2>. HIDE DEF Found
  <2>. QED BY <2>1
<1>3. Longer \in [V -> V]
  <2>1. Longer = [paths \in V |-> Longer[paths]]
    OBVIOUS
  <2>. HIDE DEF Longer, V
  <2>. QED BY <2>1, <1>2
<1>4. ones \in V
  OBVIOUS
<1>. HIDE DEF Longer, V
<1>5. I \in [Nat -> V] /\ I[0] = ones /\ \A n \in Nat : I[n + 1] = Longer[I[n]]
  <2>. HIDE DEF ones
  <2>. QED BY <1>0, <1>3, <1>4, IteratesDef
<1>6. \A n \in Nat : I[n] \in V
  BY <1>5
<1>7. ASSUME NEW n \in Nat, NEW h \in Hooks
      PROVE  /\ \A g \in Dependents(deps, h) : I[n + 1][h] >= 1 + I[n][g]
             /\ I[n + 1][h] = 1 \/ \E g \in Dependents(deps, h) : I[n + 1][h] = 1 + I[n][g]
  <2>. DEFINE F == Found(I[n], h)
  <2>1. I[n] \in V /\ I[n + 1][h] = 1 + Largest(F)
    BY <1>5, <1>6, <1>2
  <2>2. Largest(F) \in F /\ F \subseteq Nat /\ \A k \in F : k <= Largest(F)
    BY <1>1, <2>1
  <2>3. \A g \in Dependents(deps, h) : I[n][g] \in F
    OBVIOUS
  <2>4. Largest(F) = 0 \/ \E g \in Dependents(deps, h) : Largest(F) = I[n][g]
    BY <2>2
  <2>. HIDE DEF F
  <2>5. Largest(F) \in Nat
    BY <2>2
  <2>6. \A g \in Dependents(deps, h) : I[n][g] \in Nat /\ I[n][g] <= Largest(F)
    BY <2>2, <2>3
  <2>. QED BY <2>1, <2>4, <2>5, <2>6
<1>9. \A h \in Hooks : I[0][h] = 1
  BY <1>5
<1>10. \A n \in Nat : I[n] \in [Hooks -> Nat]
  BY <1>6 DEF V
<1>. QED BY <1>7, <1>9, <1>10

\* The critical path has a hook of every level.
LEMMA CriticalPath ==
  ASSUME NEW deps, NEW A, A = Assigned(deps), A[Cardinality(Hooks)] = Hooks,
         NEW L, L = ExecutionLevels(deps)
  PROVE  CriticalPathLength(deps) = Len(L)
<1>. DEFINE N == Cardinality(Hooks)
            P == TraceLongestPath(deps)
            Found == {0} \cup {P[h] : h \in Starts(deps)}
<1>1. /\ N \in Nat
      /\ A[0] = {} /\ \A n \in Nat : A[n] \subseteq Hooks
      /\ \A n \in Nat : A[n + 1] = A[n] \cup {h \in Hooks : deps[h] \subseteq A[n]}
      /\ \A m, n \in Nat : m <= n => A[m] \subseteq A[n]
  BY AssignedDef
<1>2. PICK depth \in 0..N : /\ L = [n \in 1..depth |-> A[n] \ A[n - 1]]
                            /\ A[depth] = Hooks /\ \A k \in 0..(depth - 1) : A[k] # Hooks
  BY LevelsDef
<1>3. depth \in Nat /\ depth <= N /\ DOMAIN L = 1..depth /\ Len(L) = depth /\ \A n \in 1..depth : L[n] = A[n] \ A[n - 1]
  <2>1. depth \in Nat /\ depth <= N
    BY <1>1
  <2>2. Len(L) = depth
    BY <1>2, <2>1
  <2>. QED BY <2>1, <2>2, <1>2
<1>4. \A m \in 1..depth : \A h \in L[m] : \A d \in deps[h] : \E n \in 1..(m - 1) : d \in L[n]
  BY <1>3, LevelsSound
<1>5. \A m \in 1..depth : L[m] \subseteq Hooks
  BY <1>1, <1>3
<1>6. \A h \in Hooks : \E m \in 1..depth : h \in L[m]
  <2>1. SUFFICES ASSUME NEW h \in Hooks PROVE \E m \in 1..depth : h \in L[m]
    OBVIOUS
  <2>2. \E m \in 1..depth : h \in A[m] \ A[m - 1]
    BY <1>2, <1>3, LevelOfEach
  <2>. QED BY <2>2, <1>3
<1>. DEFINE I == LongestFrom(deps)
<1>7. /\ P = I[N]
      /\ \A n \in Nat : I[n] \in [Hooks -> Nat]
      /\ \A h \in Hooks : I[0][h] = 1
      /\ \A n \in Nat, h \in Hooks :
            /\ \A g \in Dependents(deps, h) : I[n + 1][h] >= 1 + I[n][g]
            /\ I[n + 1][h] = 1 \/ \E g \in Dependents(deps, h) : I[n + 1][h] = 1 + I[n][g]
  BY LongestDef DEF TraceLongestPath
<1>. HIDE DEF P, N, I
\* No path is longer than the levels from its first hook's.
<1>8. \A n \in Nat : \A k \in 1..depth : \A h \in L[k] : I[n][h] <= (depth - k) + 1
  <2>. DEFINE Short == {n \in Nat : \A k \in 1..depth : \A h \in L[k] : I[n][h] <= (depth - k) + 1}
  <2>1. 0 \in Short
    BY <1>3, <1>5, <1>7
  <2>2. ASSUME NEW n \in Short PROVE n + 1 \in Short
    <3>1. SUFFICES ASSUME NEW k \in 1..depth, NEW h \in L[k] PROVE I[n + 1][h] <= (depth - k) + 1
      BY <2>2
    <3>2. n \in Nat /\ h \in Hooks /\ k \in Nat /\ k <= depth
      BY <2>2, <3>1, <1>3, <1>5
    <3>3. CASE I[n + 1][h] = 1
      BY <3>2, <3>3, <1>3
    <3>4. ASSUME NEW g \in Dependents(deps, h), I[n + 1][h] = 1 + I[n][g] PROVE I[n + 1][h] <= (depth - k) + 1
      <4>1. g \in Hooks /\ h \in deps[g]
        BY DEF Dependents
      <4>2. PICK m \in 1..depth : g \in L[m]
        BY <4>1, <1>6
      <4>3. PICK j \in 1..(m - 1) : h \in L[j]
        BY <4>1, <4>2, <1>4
      <4>4. m \in Nat /\ j \in Nat /\ j < m /\ j \in 1..depth
        BY <4>2, <4>3, <1>3
      <4>5. j = k
        <5>1. \A a, b \in DOMAIN L : a # b => L[a] \cap L[b] = {}
          BY LevelsSound
        <5>. QED BY <5>1, <4>3, <4>4, <3>1, <1>3
      <4>6. I[n][g] <= (depth - m) + 1 /\ I[n][g] \in Nat
        BY <2>2, <4>1, <4>2, <3>2, <1>7
      <4>. QED BY <4>4, <4>5, <4>6, <3>2, <3>4, <1>3
    <3>. QED BY <3>2, <3>3, <3>4, <1>7
  <2>3. Short \subseteq Nat
    OBVIOUS
  <2>. HIDE DEF Short
  <2>4. Short = Nat
    BY <2>1, <2>2, <2>3, Inductive
  <2>. QED BY <2>4 DEF Short
\* Down from the last level, some hook of each is on a path that long.
<1>9. \A j \in Nat : j < depth => \E h \in L[depth - j] : \A n \in Nat : n >= j => I[n][h] >= j + 1
  <2>. DEFINE Long == {j \in Nat : j < depth => \E h \in L[depth - j] : \A n \in Nat : n >= j => I[n][h] >= j + 1}
  <2>1. \A n \in Nat, h \in Hooks : I[n][h] >= 1
    <3>1. SUFFICES ASSUME NEW n \in Nat, NEW h \in Hooks, n # 0 PROVE I[n][h] >= 1
      BY <1>7
    <3>2. n - 1 \in Nat /\ (n - 1) + 1 = n
      BY <3>1
    <3>3. I[n][h] = 1 \/ \E g \in Dependents(deps, h) : I[n][h] = 1 + I[n - 1][g]
      BY <3>2, <1>7
    <3>4. \A g \in Dependents(deps, h) : I[n - 1][g] \in Nat
      BY <3>2, <1>7 DEF Dependents
    <3>. QED BY <3>3, <3>4
  <2>2. 0 \in Long
    <3>1. SUFFICES ASSUME 0 < depth PROVE \E h \in L[depth - 0] : \A n \in Nat : n >= 0 => I[n][h] >= 0 + 1
      OBVIOUS
    <3>2. depth - 1 \in 0..(depth - 1) /\ depth - 1 \in Nat /\ depth \in 1..depth /\ depth - 0 = depth
      BY <3>1, <1>3
    <3>3. A[depth - 1] # Hooks /\ A[depth - 1] \subseteq Hooks
      BY <3>2, <1>1, <1>2
    <3>4. PICK h \in Hooks : h \in L[depth]
      BY <3>2, <3>3, <1>2, <1>3
    <3>. QED BY <3>2, <3>4, <2>1
  <2>3. ASSUME NEW j \in Long PROVE j + 1 \in Long
    <3>1. SUFFICES ASSUME j + 1 < depth
                   PROVE  \E h \in L[depth - (j + 1)] : \A n \in Nat : n >= j + 1 => I[n][h] >= (j + 1) + 1
      BY <2>3
    <3>. DEFINE k == depth - j
    <3>2. j \in Nat /\ k \in 1..depth /\ k - 1 \in 1..depth /\ k - 2 \in Nat /\ depth - (j + 1) = k - 1 /\ (k - 2) + 1 = k - 1
      BY <3>1, <2>3, <1>3
    <3>3. PICK h \in L[k] : \A n \in Nat : n >= j => I[n][h] >= j + 1
      BY <3>1, <3>2, <2>3, <1>3
    <3>. HIDE DEF k
    <3>4. h \in Hooks /\ h \in A[k] /\ h \notin A[k - 1]
      BY <3>2, <3>3, <1>3, <1>5
    <3>5. PICK d \in deps[h] : d \in L[k - 1]
      <4>1. SUFFICES ASSUME \A d \in deps[h] : d \notin L[k - 1] PROVE FALSE
        OBVIOUS
      <4>2. ASSUME NEW d \in deps[h] PROVE d \in A[k - 2]
        <5>1. PICK n \in 1..(k - 1) : d \in L[n]
          BY <3>2, <3>3, <1>4
        <5>2. n # k - 1
          BY <5>1, <4>1
        <5>3. n \in Nat /\ n <= k - 2 /\ n \in 1..depth
          BY <5>1, <5>2, <3>2, <1>3
        <5>4. d \in A[n] /\ A[n] \subseteq A[k - 2]
          BY <5>1, <5>3, <3>2, <1>1, <1>3
        <5>. QED BY <5>4
      <4>3. A[k - 1] = A[k - 2] \cup {g \in Hooks : deps[g] \subseteq A[k - 2]}
        BY <3>2, <1>1
      <4>. QED BY <4>2, <4>3, <3>4
    <3>6. d \in Hooks /\ h \in Dependents(deps, d)
      BY <3>2, <3>4, <3>5, <1>5 DEF Dependents
    <3>7. ASSUME NEW n \in Nat, n >= j + 1 PROVE I[n][d] >= (j + 1) + 1
      <4>1. n - 1 \in Nat /\ (n - 1) + 1 = n /\ n - 1 >= j
        BY <3>2, <3>7
      <4>2. I[n][d] >= 1 + I[n - 1][h] /\ I[n - 1][h] >= j + 1
        BY <4>1, <3>3, <3>6, <1>7
      <4>3. I[n][d] \in Nat /\ I[n - 1][h] \in Nat
        BY <4>1, <3>4, <3>6, <1>7
      <4>. QED BY <4>2, <4>3, <3>2
    <3>. QED BY <3>2, <3>5, <3>7
  <2>4. Long \subseteq Nat
    OBVIOUS
  <2>. HIDE DEF Long
  <2>5. Long = Nat
    BY <2>2, <2>3, <2>4, Inductive
  <2>. QED BY <2>5 DEF Long
<1>10. Found \subseteq Nat /\ IsFiniteSet(Found) /\ Found # {} /\ \A n \in Found : n <= depth
  <2>1. Starts(deps) \subseteq Hooks /\ IsFiniteSet(Starts(deps))
    BY ChainAssumption, FS_Subset DEF Starts
  <2>2. IsFiniteSet(Found)
    <3>1. IsFiniteSet({P[h] : h \in Starts(deps)})
      BY <2>1, ImageFinite
    <3>2. IsFiniteSet({0})
      BY FS_Singleton
    <3>. QED BY <3>1, <3>2, FS_Union
  <2>3. ASSUME NEW h \in Hooks PROVE P[h] \in Nat /\ P[h] <= depth
    <3>1. PICK m \in 1..depth : h \in L[m]
      BY <1>6
    <3>2. P[h] <= (depth - m) + 1 /\ P[h] \in Nat
      BY <3>1, <1>1, <1>7, <1>8
    <3>. QED BY <3>1, <3>2, <1>3
  <2>. QED BY <2>1, <2>2, <2>3, <1>3
<1>11. depth # 0 => depth \in Found /\ Starts(deps) # {}
  <2>1. SUFFICES ASSUME depth # 0 PROVE \E h \in Starts(deps) : P[h] = depth
    OBVIOUS
  <2>2. depth - 1 \in Nat /\ depth - 1 < depth /\ depth - (depth - 1) = 1 /\ 1 \in 1..depth /\ (depth - 1) + 1 = depth
        /\ N >= depth - 1
    BY <2>1, <1>1, <1>3
  <2>3. PICK h \in L[1] : \A n \in Nat : n >= depth - 1 => I[n][h] >= depth
    BY <1>9, <2>2
  <2>4. h \in Hooks /\ deps[h] = {}
    <3>1. \A d \in deps[h] : \E n \in 1..(1 - 1) : d \in L[n]
      BY <1>4, <2>2, <2>3
    <3>. QED BY <3>1, <1>5, <2>2, <2>3
  <2>5. P[h] >= depth /\ P[h] <= (depth - 1) + 1 /\ P[h] \in Nat
    BY <1>1, <1>7, <1>8, <2>2, <2>3, <2>4
  <2>. QED BY <2>4, <2>5, <1>3 DEF Starts
<1>12. CASE depth = 0
  <2>1. Hooks = {} /\ Starts(deps) = {}
    BY <1>1, <1>2, <1>12 DEF Starts
  <2>2. Found = {0} /\ CriticalPathLength(deps) = Largest(Found)
    BY <2>1 DEF CriticalPathLength, P
  <2>. HIDE DEF Found
  <2>3. Largest(Found) \in Found
    BY <1>10, LargestOf
  <2>. QED BY <2>2, <2>3, <1>3, <1>12
<1>13. CASE depth # 0
  <2>1. CriticalPathLength(deps) = Largest(Found)
    BY <1>11, <1>13 DEF CriticalPathLength, P
  <2>. HIDE DEF Found
  <2>2. Largest(Found) \in Found /\ \A n \in Found : n <= Largest(Found)
    BY <1>10, LargestOf
  <2>3. Largest(Found) \in Nat /\ Largest(Found) <= depth /\ depth <= Largest(Found)
    BY <2>2, <1>10, <1>11, <1>13
  <2>. QED BY <2>1, <2>3, <1>3
<1>. QED BY <1>12, <1>13

\* A chain that is not refused has a sound plan, whatever hooks depend on.
LEMMA PlanOf ==
  ASSUME NEW deps, Validated(deps), NEW L, L = ExecutionLevels(deps)
  PROVE  \/ L = <<>> /\ \E h \in Hooks : h \in deps[h]
         \/ /\ \A h \in Hooks : \E n \in DOMAIN L : h \in L[n] /\ {m \in DOMAIN L : h \in L[m]} = {n}
            /\ CriticalPathLength(deps) = Len(L)
<1>. DEFINE A == Assigned(deps)
            N == Cardinality(Hooks)
<1>1. CASE A[N] # Hooks
  <2>1. L = <<>>
    BY <1>1 DEF ExecutionLevels
  <2>2. \E h \in Hooks : h \in deps[h]
    BY <1>1, SelfDependent
  <2>. QED BY <2>1, <2>2
<1>2. CASE A[N] = Hooks
  <2>1. CriticalPathLength(deps) = Len(L)
    BY <1>2, CriticalPath
  <2>2. ASSUME NEW h \in Hooks PROVE \E n \in DOMAIN L : h \in L[n] /\ {m \in DOMAIN L : h \in L[m]} = {n}
    <3>1. PICK depth \in 0..N : L = [n \in 1..depth |-> A[n] \ A[n - 1]] /\ A[depth] = Hooks
      BY <1>2, LevelsDef
    <3>2. depth \in Nat
      BY <3>1, FS_CardinalityType, ChainAssumption
    <3>3. PICK n \in 1..depth : h \in A[n] \ A[n - 1]
      BY <3>1, <3>2, LevelOfEach
    <3>4. n \in DOMAIN L /\ h \in L[n]
      <4>. HIDE DEF A
      <4>. QED BY <3>1, <3>2, <3>3
    <3>5. \A m \in DOMAIN L : m # n => L[m] \cap L[n] = {}
      BY <3>4, LevelsSound
    <3>. QED BY <3>4, <3>5
  <2>. QED BY <2>1, <2>2
<1>. QED BY <1>1, <1>2

-----------------------------------------------------------------------------
(* Hook chains: the inductive invariant.                                     *)

ChainSpec == ChainInit /\ [][ChainNext]_chainVars

Underway == {"select", "phase", "done"}
\* A hook whose level was begun, in a phase that is under way or over.
Reached(h) == \E n \in DOMAIN Levels : h \in Levels[n] /\ (n < phase \/ (n = phase /\ status = "phase"))
ChainTypes ==
  /\ chain \in Chains /\ status \in {"new", "refused", "overflowed"} \union Underway
  /\ phase \in Nat /\ todo \subseteq Hooks /\ order \in Seq(Hooks) /\ skipped \subseteq Hooks
  /\ failed \subseteq Executed /\ blamed \in [Hooks -> SUBSET failed] /\ attempts \in [Hooks -> Nat]
PhaseInv ==
  /\ status \notin Underway => phase = 0 /\ order = <<>> /\ skipped = {}
  /\ status \in Underway => phase \in 1..(Len(Levels) + 1)
  /\ status \notin {"new", "refused"} => Validated(Deps)
  /\ status = "phase" => phase <= Len(Levels) /\ todo \subseteq Levels[phase]
  /\ status # "phase" => todo = {}
HooksInv ==
  /\ DependenciesFirst
  /\ \A h \in todo : Deps[h] \subseteq Executed \ failed /\ h \notin Executed \union skipped
  /\ Executed \intersect skipped = {}
  /\ \A h \in failed : attempts[h] > 0 /\ ~Succeeds(h)
AccountsInv ==
  /\ status \in {"select", "phase"} => \A h \in Executed \union skipped : Reached(h)
  /\ \A h \in skipped : SkippedFor(h)
  /\ \A h \in Hooks : status = "done" \/ Reached(h) => h \in Executed \union skipped \union todo \/ LostTo(h)
ChainInv == ChainTypes /\ PhaseInv /\ HooksInv /\ AccountsInv

\* The levels of the chain being executed.
LEMMA LevelFacts ==
  /\ Levels \in Seq(SUBSET Hooks) /\ Len(Levels) \in Nat /\ DOMAIN Levels = 1..Len(Levels)
  /\ Len(Levels) <= Cardinality(Hooks)
  /\ \A m, n \in DOMAIN Levels : m # n => Levels[m] \cap Levels[n] = {}
  /\ \A m \in DOMAIN Levels : \A h \in Levels[m] : \A d \in Deps[h] : \E n \in 1..(m - 1) : d \in Levels[n]
  /\ \A n \in DOMAIN Levels : \A h \in Levels[n] : LevelOf(h) = n
<1>1. /\ Levels \in Seq(SUBSET Hooks) /\ Len(Levels) <= Cardinality(Hooks)
      /\ \A m, n \in DOMAIN Levels : m # n => Levels[m] \cap Levels[n] = {}
      /\ \A m \in DOMAIN Levels : \A h \in Levels[m] : \A d \in Deps[h] : \E n \in 1..(m - 1) : d \in Levels[n]
  BY LevelsSound DEF Levels
<1>2. Len(Levels) \in Nat /\ DOMAIN Levels = 1..Len(Levels)
  BY <1>1
<1>3. \A n \in DOMAIN Levels : \A h \in Levels[n] : LevelOf(h) = n
  BY <1>1 DEF LevelOf
<1>. QED BY <1>1, <1>2, <1>3

\* A step of one chain keeps its graph and its levels.
LEMMA ChainStays ==
  ASSUME chain' = chain
  PROVE  /\ Deps' = Deps /\ Levels' = Levels /\ (Validated(Deps))' = Validated(Deps)
         /\ \A h \in Hooks : /\ (Succeeds(h))' = Succeeds(h)
                             /\ (EvaluateConditions(chain.hooks[h].conditions))' = EvaluateConditions(chain.hooks[h].conditions)
                             /\ (LevelOf(h))' = LevelOf(h)
<1>1. Deps' = Deps
  BY DEF Deps
<1>2. Levels' = Levels
  BY <1>1 DEF Levels
<1>3. (Validated(Deps))' = Validated(Deps)
  BY <1>1
<1>4. ASSUME NEW h \in Hooks
      PROVE  /\ (Succeeds(h))' = Succeeds(h)
             /\ (EvaluateConditions(chain.hooks[h].conditions))' = EvaluateConditions(chain.hooks[h].conditions)
             /\ (LevelOf(h))' = LevelOf(h)
  BY <1>2 DEF Succeeds, TimesOut, EvaluateConditions, LevelOf
<1>. QED BY <1>1, <1>2, <1>3, <1>4

LEMMA ChainStarts == ChainInit => ChainInv
<1>1. SUFFICES ASSUME ChainInit PROVE ChainInv
  OBVIOUS
<1>2. order = <<>> /\ Executed = {}
  BY <1>1 DEF ChainInit, Executed
<1>3. ~ \E h \in Hooks : Reached(h)
  BY <1>1, LevelFacts DEF ChainInit, Reached
<1>. QED BY <1>1, <1>2, <1>3
     DEF ChainInit, ChainInv, ChainTypes, PhaseInv, HooksInv, AccountsInv, Underway, DependenciesFirst

LEMMA ExecuteChainInv == ChainInv /\ ExecuteChain => ChainInv'
<1>1. SUFFICES ASSUME ChainInv, ExecuteChain PROVE ChainInv'
  OBVIOUS
<1>2. /\ chain' = chain /\ todo' = todo /\ order' = order /\ failed' = failed /\ skipped' = skipped
      /\ blamed' = blamed /\ attempts' = attempts /\ Executed' = Executed
  BY <1>1 DEF ExecuteChain, Executed
<1>3. /\ status = "new" /\ phase = 0 /\ order = <<>> /\ todo = {} /\ skipped = {} /\ Executed = {} /\ failed = {}
  BY <1>1 DEF ExecuteChain, ChainInv, PhaseInv, ChainTypes, Executed, Underway
<1>4. \/ status' \in {"refused", "overflowed"} /\ phase' = 0
      \/ status' = "select" /\ phase' = 1
  BY <1>1, <1>3 DEF ExecuteChain
<1>5. status' # "refused" => Validated(Deps)
  BY <1>1 DEF ExecuteChain
<1>6. ~ \E h \in Hooks : Reached(h)'
  BY <1>2, <1>4, ChainStays, LevelFacts DEF Reached
<1>7. ChainTypes'
  BY <1>1, <1>2, <1>4 DEF ChainInv, ChainTypes, Underway
<1>8. PhaseInv'
  BY <1>2, <1>3, <1>4, <1>5, ChainStays, LevelFacts DEF PhaseInv, Underway
<1>9. HooksInv'
  BY <1>2, <1>3 DEF HooksInv, DependenciesFirst
<1>10. AccountsInv'
  BY <1>2, <1>3, <1>4, <1>6 DEF AccountsInv
<1>. QED BY <1>7, <1>8, <1>9, <1>10 DEF ChainInv

LEMMA SelectPhaseInv == ChainInv /\ SelectPhase => ChainInv'
<1>1. SUFFICES ASSUME ChainInv, SelectPhase PROVE ChainInv'
  OBVIOUS
<1>. DEFINE level == Levels[phase]
            ready == {h \in level : DepsOk(h)}
            runs == {h \in ready : EvaluateConditions(chain.hooks[h].conditions)}
<1>2. /\ chain' = chain /\ phase' = phase /\ order' = order /\ failed' = failed /\ attempts' = attempts
      /\ Executed' = Executed /\ Deps' = Deps /\ Levels' = Levels
      /\ status = "select" /\ phase <= Len(Levels) /\ status' = "phase"
      /\ todo' = runs /\ skipped' = skipped \cup (level \ runs)
      /\ blamed' = [h \in Hooks |-> IF h \in level \ ready THEN Deps[h] \cap failed ELSE blamed[h]]
  BY <1>1, ChainStays DEF SelectPhase, Executed
<1>3. phase \in DOMAIN Levels /\ phase \in Nat /\ level \subseteq Hooks /\ todo = {}
  BY <1>1, <1>2, LevelFacts DEF ChainInv, PhaseInv, Underway
<1>4. ASSUME NEW h \in level PROVE ~ Reached(h) /\ h \notin Executed /\ h \notin skipped
  <2>1. \A n \in DOMAIN Levels : h \in Levels[n] => n = phase
    BY <1>3, <1>4, LevelFacts
  <2>2. ~ Reached(h)
    BY <2>1, <1>2, <1>3 DEF Reached
  <2>. QED BY <2>2, <1>1, <1>2 DEF ChainInv, AccountsInv
<1>5. \A h \in Hooks : (Reached(h))' <=> Reached(h) \/ h \in level
  BY <1>2, <1>3, LevelFacts DEF Reached
<1>6. \A h \in Hooks : LevelOf(h)' = LevelOf(h)
  BY <1>2 DEF LevelOf
<1>7. \A h \in runs : h \in level /\ Deps[h] \subseteq Executed \ failed
  BY DEF DepsOk
<1>8. ASSUME NEW h \in level \ runs
      PROVE  ~ (Deps[h] \subseteq Executed \ failed) \/ ~EvaluateConditions(chain.hooks[h].conditions)
  BY <1>8 DEF DepsOk
<1>. HIDE DEF runs
<1>9. ChainTypes'
  <2>2. blamed' \in [Hooks -> SUBSET failed]
    <3>. HIDE DEF ready, level
    <3>. QED BY <1>1, <1>2 DEF ChainInv, ChainTypes
  <2>3. todo' \subseteq Hooks /\ skipped' \subseteq Hooks
    BY <1>1, <1>2, <1>3, <1>7 DEF ChainInv, ChainTypes
  <2>. QED BY <2>2, <2>3, <1>1, <1>2 DEF ChainInv, ChainTypes, Underway
<1>10. PhaseInv'
  <2>1. (Validated(Deps))' = Validated(Deps)
    BY <1>2
  <2>2. todo' \subseteq Levels[phase]
    BY <1>2, <1>7
  <2>. QED BY <2>1, <2>2, <1>1, <1>2, <1>3 DEF ChainInv, PhaseInv, Underway
<1>11. HooksInv'
  <2>1. DependenciesFirst'
    BY <1>1, <1>2 DEF ChainInv, HooksInv, DependenciesFirst
  <2>2. \A h \in todo' : Deps[h] \subseteq Executed \ failed /\ h \notin Executed \union skipped'
    BY <1>2, <1>4, <1>7
  <2>3. Executed \intersect skipped' = {}
    BY <1>1, <1>2, <1>4 DEF ChainInv, HooksInv
  <2>4. \A h \in Hooks : (Succeeds(h))' = Succeeds(h)
    BY <1>2, ChainStays
  <2>5. \A h \in failed : attempts'[h] > 0 /\ ~(Succeeds(h))'
    BY <2>4, <1>1, <1>2 DEF ChainInv, HooksInv, ChainTypes, Executed
  <2>. QED BY <2>1, <2>2, <2>3, <2>5, <1>2 DEF HooksInv
<1>12. AccountsInv'
  <2>1. \A h \in Executed \union skipped' : (Reached(h))'
    BY <1>1, <1>2, <1>3, <1>5 DEF ChainInv, AccountsInv, ChainTypes, Executed
  <2>2. ASSUME NEW h \in skipped' PROVE (SkippedFor(h))'
    <3>1. \A c : (EvaluateConditions(c))' = EvaluateConditions(c)
      BY <1>2 DEF EvaluateConditions
    <3>2. CASE h \in skipped
      <4>1. SkippedFor(h)
        BY <3>2, <1>1 DEF ChainInv, AccountsInv
      <4>2. failed \subseteq Hooks /\ h \in Hooks
        BY <1>1, <3>2 DEF ChainInv, ChainTypes, Executed
      <4>. QED BY <4>1, <4>2, <3>1, <1>2, <1>6 DEF SkippedFor
    <3>3. CASE h \in level \ runs
      <4>1. Deps[h] \subseteq Hooks
        BY <1>1, <1>2, <1>3, <3>3 DEF ChainInv, PhaseInv, Validated
      <4>2. \/ \E d \in Deps[h] : d \in failed \cup skipped' \cup (Hooks \ Executed)
            \/ ~EvaluateConditions(chain.hooks[h].conditions)
        BY <4>1, <3>3, <1>8
      <4>. QED BY <4>2, <3>1, <1>2 DEF SkippedFor
    <3>. QED BY <3>2, <3>3, <1>2
  <2>3. ASSUME NEW h \in Hooks, (Reached(h))' PROVE h \in Executed \union skipped' \union todo' \/ (LostTo(h))'
    <3>1. CASE h \in level
      BY <3>1, <1>2
    <3>2. CASE Reached(h)
      <4>1. h \in Executed \union skipped \/ LostTo(h)
        BY <3>2, <1>1, <1>3 DEF ChainInv, AccountsInv
      <4>2. failed \subseteq Hooks
        BY <1>1 DEF ChainInv, ChainTypes, Executed
      <4>3. (LostTo(h))' <=> LostTo(h)
        BY <4>2, <1>2, <1>6 DEF LostTo
      <4>. QED BY <4>1, <4>3, <1>2
    <3>. QED BY <3>1, <3>2, <2>3, <1>5
  <2>. QED BY <2>1, <2>2, <2>3, <1>2 DEF AccountsInv
<1>. QED BY <1>9, <1>10, <1>11, <1>12 DEF ChainInv

LEMMA ExecuteHookInv ==
  ASSUME NEW h \in Hooks, ChainInv, ExecuteHook(h)
  PROVE  ChainInv'
<1>1. /\ chain' = chain /\ status' = status /\ phase' = phase /\ skipped' = skipped /\ blamed' = blamed
      /\ Deps' = Deps /\ Levels' = Levels /\ status = "phase" /\ h \in todo
      /\ order' = Append(order, h) /\ attempts' = [attempts EXCEPT ![h] = Attempts(h)]
      /\ failed' = IF Succeeds(h) THEN failed ELSE failed \cup {h}
      /\ todo' = IF Breaks(h) THEN {} ELSE todo \ {h}
  BY ChainStays DEF ExecuteHook
<1>2. /\ phase \in DOMAIN Levels /\ h \in Levels[phase] /\ todo \subseteq Levels[phase]
      /\ h \notin Executed /\ h \notin skipped /\ h \notin failed /\ Deps[h] \subseteq Executed \ failed
      /\ order \in Seq(Hooks)
  BY <1>1, LevelFacts DEF ChainInv, PhaseInv, HooksInv, ChainTypes, Underway
<1>3. /\ Executed' = Executed \cup {h} /\ Len(order') = Len(order) + 1 /\ order'[Len(order) + 1] = h
      /\ DOMAIN order' = DOMAIN order \cup {Len(order) + 1} /\ DOMAIN order = 1..Len(order) /\ Len(order) \in Nat
      /\ \A i \in DOMAIN order : order'[i] = order[i]
  <2>1. /\ Len(order') = Len(order) + 1 /\ order'[Len(order) + 1] = h /\ order' \in Seq(Hooks)
        /\ DOMAIN order' = DOMAIN order \cup {Len(order) + 1} /\ DOMAIN order = 1..Len(order) /\ Len(order) \in Nat
        /\ \A i \in DOMAIN order : order'[i] = order[i]
    BY <1>1, <1>2
  <2>2. Executed' = Executed \cup {h}
    BY <2>1 DEF Executed
  <2>. QED BY <2>1, <2>2
<1>4. failed \subseteq failed' /\ failed' \subseteq failed \cup {h} /\ (h \in failed' => ~Succeeds(h))
  BY <1>1, <1>2
<1>5. todo' \subseteq todo \ {h}
  BY <1>1
<1>6. failed \subseteq Executed /\ failed \subseteq Hooks /\ \A g \in Executed : g \in Hooks /\ g # h
  BY <1>2 DEF ChainInv, ChainTypes, Executed
<1>7. Attempts(h) \in Nat /\ Attempts(h) > 0
  <2>1. chain.hooks[h].retries \in Nat
    BY ChainAssumption DEF ChainInv, ChainTypes, ChainShape
  <2>. QED BY <2>1 DEF Attempts
<1>8. \A g \in Hooks : LevelOf(g)' = LevelOf(g) /\ (Succeeds(g))' = Succeeds(g)
  BY <1>1, ChainStays
<1>9. \A g \in Hooks : (Reached(g))' = Reached(g)
  BY <1>1 DEF Reached
<1>10. ASSUME NEW g \in Levels[phase] PROVE \A d \in Deps[g] : d # h
  <2>1. SUFFICES ASSUME h \in Deps[g] PROVE FALSE
    OBVIOUS
  <2>2. PICK n \in 1..(phase - 1) : h \in Levels[n]
    BY <1>2, <2>1, LevelFacts
  <2>3. n \in DOMAIN Levels /\ n # phase
    BY <1>2, <2>2, LevelFacts
  <2>. QED BY <2>2, <2>3, <1>2, LevelFacts
<1>11. ChainTypes'
  <2>1. attempts' \in [Hooks -> Nat]
    BY <1>1, <1>7 DEF ChainInv, ChainTypes
  <2>2. order' \in Seq(Hooks) /\ todo' \subseteq Hooks
    BY <1>1, <1>2, <1>5 DEF ChainInv, ChainTypes
  <2>3. failed' \subseteq Executed' /\ blamed' \in [Hooks -> SUBSET failed']
    BY <1>1, <1>3, <1>4, <1>6 DEF ChainInv, ChainTypes
  <2>. QED BY <2>1, <2>2, <2>3, <1>1 DEF ChainInv, ChainTypes, Underway
<1>12. PhaseInv'
  <2>1. (Validated(Deps))' = Validated(Deps) /\ todo' \subseteq Levels[phase]
    BY <1>1, <1>2, <1>5
  <2>. QED BY <2>1, <1>1, <1>2 DEF ChainInv, PhaseInv, Underway
<1>13. HooksInv'
  <2>1. ASSUME NEW i \in DOMAIN order', NEW d \in Deps[order'[i]]
        PROVE  \E j \in 1..(i - 1) : order'[j] = d /\ d \notin failed'
    <3>1. CASE i \in DOMAIN order
      <4>1. PICK j \in 1..(i - 1) : order[j] = d /\ d \notin failed
        BY <3>1, <2>1, <1>3 DEF ChainInv, HooksInv, DependenciesFirst
      <4>2. j \in DOMAIN order /\ d \in Executed
        BY <4>1, <3>1, <1>3 DEF Executed
      <4>. QED BY <4>1, <4>2, <1>3, <1>4, <1>6
    <3>2. CASE i = Len(order) + 1
      <4>1. d \in Executed /\ d \notin failed /\ d # h
        BY <3>2, <2>1, <1>2, <1>3
      <4>2. PICK j \in DOMAIN order : order[j] = d
        BY <4>1 DEF Executed
      <4>3. j \in 1..(i - 1)
        BY <3>2, <4>2, <1>3
      <4>. QED BY <4>1, <4>2, <4>3, <1>3, <1>4
    <3>. QED BY <3>1, <3>2, <1>3
  <2>2. ASSUME NEW i \in DOMAIN order', NEW j \in DOMAIN order', order'[i] = order'[j] PROVE i = j
    <3>1. \A k \in DOMAIN order : order'[k] # h
      BY <1>2, <1>3 DEF Executed
    <3>2. \A k, l \in DOMAIN order : order[k] = order[l] => k = l
      BY DEF ChainInv, HooksInv, DependenciesFirst
    <3>. QED BY <3>1, <3>2, <2>2, <1>3
  <2>3. DependenciesFirst'
    BY <2>1, <2>2, <1>1 DEF DependenciesFirst
  <2>4. ASSUME NEW g \in todo' PROVE Deps[g] \subseteq Executed' \ failed' /\ g \notin Executed' \union skipped'
    <3>1. g \in todo /\ g # h /\ g \in Levels[phase]
      BY <1>2, <1>5, <2>4
    <3>2. Deps[g] \subseteq Executed \ failed /\ g \notin Executed \union skipped /\ \A d \in Deps[g] : d # h
      BY <3>1, <1>10 DEF ChainInv, HooksInv
    <3>. QED BY <3>1, <3>2, <1>1, <1>3, <1>4
  <2>5. Executed' \intersect skipped' = {}
    BY <1>1, <1>2, <1>3 DEF ChainInv, HooksInv
  <2>6. ASSUME NEW g \in failed' PROVE attempts'[g] > 0 /\ ~(Succeeds(g))'
    <3>1. g \in Hooks /\ (g = h \/ g \in failed)
      BY <2>6, <1>4, <1>6
    <3>2. CASE g = h
      BY <3>2, <2>6, <1>1, <1>4, <1>7, <1>8 DEF ChainInv, ChainTypes
    <3>3. CASE g # h
      <4>1. attempts'[g] = attempts[g]
        BY <3>1, <3>3, <1>1 DEF ChainInv, ChainTypes
      <4>. QED BY <4>1, <3>1, <3>3, <1>8 DEF ChainInv, HooksInv
    <3>. QED BY <3>2, <3>3
  <2>. QED BY <2>3, <2>4, <2>5, <2>6, <1>1 DEF HooksInv
<1>14. AccountsInv'
  <2>1. Reached(h)
    BY <1>1, <1>2 DEF Reached
  <2>2. \A g \in Executed' \union skipped' : (Reached(g))'
    <3>1. \A g \in Executed \union skipped : Reached(g) /\ g \in Hooks
      BY <1>1, <1>6 DEF ChainInv, AccountsInv, ChainTypes
    <3>. QED BY <3>1, <2>1, <1>1, <1>3, <1>9
  <2>3. ASSUME NEW g \in skipped' PROVE (SkippedFor(g))'
    <3>1. g \in Hooks /\ g \in skipped /\ Reached(g) /\ SkippedFor(g)
      BY <2>3, <1>1 DEF ChainInv, AccountsInv, ChainTypes
    <3>2. ASSUME NEW d \in Deps[g] PROVE d # h
      <4>1. PICK n \in DOMAIN Levels : g \in Levels[n] /\ n <= phase
        BY <3>1, <1>1, <1>2, LevelFacts DEF Reached
      <4>2. PICK m \in 1..(n - 1) : d \in Levels[m]
        BY <4>1, <3>2, LevelFacts
      <4>3. m \in DOMAIN Levels /\ m # phase
        BY <4>1, <4>2, <1>2, LevelFacts
      <4>. QED BY <4>2, <4>3, <1>2, LevelFacts
    <3>3. (EvaluateConditions(chain.hooks[g].conditions))' = EvaluateConditions(chain.hooks[g].conditions)
      BY <1>1, <3>1, ChainStays
    <3>. QED BY <3>1, <3>2, <3>3, <1>1, <1>3, <1>4, <1>6, <1>8 DEF SkippedFor
  <2>4. ASSUME NEW g \in Hooks, Reached(g) PROVE g \in Executed' \union skipped' \union todo' \/ (LostTo(g))'
    <3>1. LostTo(g) => (LostTo(g))'
      BY <1>1, <1>4, <1>6, <1>8 DEF LostTo
    <3>2. g \in Executed \union skipped \union todo \/ LostTo(g)
      BY <2>4 DEF ChainInv, AccountsInv
    <3>3. ASSUME g \in todo, g # h, g \notin todo' PROVE (LostTo(g))'
      <4>1. Breaks(h)
        BY <3>3, <1>1
      <4>2. ~Succeeds(h) /\ (chain.failure = "FailFast" \/ chain.hooks[h].behavior = "Critical")
        BY <4>1 DEF Breaks
      <4>3. h \in failed' /\ LevelOf(h) = phase /\ LevelOf(g) = phase
        BY <4>2, <1>1, <1>2, <3>3, LevelFacts
      <4>. QED BY <4>2, <4>3, <1>1, <1>8 DEF LostTo
    <3>. QED BY <3>1, <3>2, <3>3, <1>1, <1>3
  <2>. QED BY <2>2, <2>3, <2>4, <1>1, <1>9 DEF AccountsInv
<1>. QED BY <1>11, <1>12, <1>13, <1>14 DEF ChainInv

LEMMA EndPhaseInv == ChainInv /\ EndPhase => ChainInv'
<1>1. SUFFICES ASSUME ChainInv, EndPhase PROVE ChainInv'
  OBVIOUS
<1>. DEFINE rest == UNION {Levels[n] : n \in (phase + 1)..Len(Levels)}
<1>2. /\ chain' = chain /\ todo' = todo /\ order' = order /\ failed' = failed /\ attempts' = attempts
      /\ Executed' = Executed /\ Deps' = Deps /\ Levels' = Levels /\ status = "phase" /\ todo = {}
  BY <1>1, ChainStays DEF EndPhase, Executed
<1>3. phase \in DOMAIN Levels /\ phase \in Nat /\ phase <= Len(Levels) /\ failed \subseteq Hooks
  BY <1>1, <1>2, LevelFacts DEF ChainInv, PhaseInv, Underway, ChainTypes, Executed
<1>4. \A h \in Hooks : /\ (Succeeds(h))' = Succeeds(h) /\ (LevelOf(h))' = LevelOf(h)
                       /\ (EvaluateConditions(chain.hooks[h].conditions))' = EvaluateConditions(chain.hooks[h].conditions)
                       /\ (LostTo(h))' = LostTo(h)
  <2>1. \A h \in Hooks : /\ (Succeeds(h))' = Succeeds(h) /\ (LevelOf(h))' = LevelOf(h)
                         /\ (EvaluateConditions(chain.hooks[h].conditions))' = EvaluateConditions(chain.hooks[h].conditions)
    BY <1>2, ChainStays
  <2>2. ASSUME NEW h \in Hooks PROVE (LostTo(h))' = LostTo(h)
    BY <2>1, <1>2, <1>3 DEF LostTo
  <2>. QED BY <2>1, <2>2
<1>5. (Validated(Deps))' = Validated(Deps)
  BY <1>2
<1>6. \A h \in failed : attempts'[h] > 0 /\ ~(Succeeds(h))'
  BY <1>1, <1>2, <1>3, <1>4 DEF ChainInv, HooksInv
<1>7. DependenciesFirst'
  BY <1>1, <1>2 DEF ChainInv, HooksInv, DependenciesFirst
<1>8. CASE ~(failed # {} /\ chain.failure = "FailFast")
  <2>1. status' = "select" /\ phase' = phase + 1 /\ skipped' = skipped /\ blamed' = blamed
    BY <1>1, <1>8 DEF EndPhase
  <2>2. \A h \in Hooks : (Reached(h))' <=> Reached(h)
    BY <2>1, <1>2, <1>3, LevelFacts DEF Reached
  <2>3. ChainTypes'
    BY <2>1, <1>1, <1>2, <1>3 DEF ChainInv, ChainTypes, Underway
  <2>4. PhaseInv'
    BY <2>1, <1>1, <1>2, <1>3, <1>5, LevelFacts DEF ChainInv, PhaseInv, Underway
  <2>5. HooksInv'
    BY <2>1, <1>1, <1>2, <1>6, <1>7 DEF ChainInv, HooksInv
  <2>6. AccountsInv'
    <3>1. ASSUME NEW h \in skipped PROVE (SkippedFor(h))'
      <4>1. h \in Hooks /\ SkippedFor(h)
        BY <1>1, <3>1 DEF ChainInv, AccountsInv, ChainTypes
      <4>. QED BY <4>1, <2>1, <1>2, <1>3, <1>4 DEF SkippedFor
    <3>2. \A h \in Executed \union skipped : h \in Hooks /\ Reached(h)
      BY <1>1, <1>2 DEF ChainInv, AccountsInv, ChainTypes, Executed
    <3>3. \A h \in Hooks : Reached(h) => h \in Executed \union skipped \union todo \/ (LostTo(h))'
      BY <1>1, <1>4 DEF ChainInv, AccountsInv
    <3>. QED BY <3>1, <3>2, <3>3, <2>1, <2>2, <1>2 DEF AccountsInv
  <2>. QED BY <2>3, <2>4, <2>5, <2>6 DEF ChainInv
<1>9. CASE failed # {} /\ chain.failure = "FailFast"
  <2>1. /\ status' = "done" /\ phase' = phase /\ skipped' = skipped \cup rest
        /\ blamed' = [h \in Hooks |-> IF h \in rest THEN Deps[h] \cap failed ELSE blamed[h]]
    BY <1>1, <1>9 DEF EndPhase
  <2>2. ASSUME NEW h \in rest PROVE h \in Hooks /\ ~Reached(h) /\ LevelOf(h) > phase
    <3>1. PICK n \in (phase + 1)..Len(Levels) : h \in Levels[n]
      OBVIOUS
    <3>2. n \in DOMAIN Levels /\ n > phase /\ h \in Hooks
      BY <3>1, <1>3, LevelFacts
    <3>3. LevelOf(h) = n
      BY <3>1, <3>2, LevelFacts
    <3>4. \A m \in DOMAIN Levels : h \in Levels[m] => m = n
      BY <3>1, <3>2, LevelFacts
    <3>. QED BY <3>2, <3>3, <3>4, <1>3, LevelFacts DEF Reached
  <2>3. \A h \in Hooks : (\E n \in DOMAIN Levels : h \in Levels[n]) => Reached(h) \/ h \in rest
    BY <1>2, <1>3, LevelFacts DEF Reached
  <2>. HIDE DEF rest
  <2>4. \A h \in Executed \union skipped : h \in Hooks /\ Reached(h)
    BY <1>1, <1>2 DEF ChainInv, AccountsInv, ChainTypes, Executed
  <2>5. ChainTypes'
    <3>1. blamed' \in [Hooks -> SUBSET failed]
      BY <2>1, <1>1 DEF ChainInv, ChainTypes
    <3>2. skipped' \subseteq Hooks
      BY <2>1, <2>2, <1>1 DEF ChainInv, ChainTypes
    <3>. QED BY <3>1, <3>2, <2>1, <1>1, <1>2 DEF ChainInv, ChainTypes, Underway
  <2>6. PhaseInv'
    BY <2>1, <1>1, <1>2, <1>3, <1>5, LevelFacts DEF ChainInv, PhaseInv, Underway
  <2>7. HooksInv'
    <3>1. Executed \intersect skipped' = {}
      BY <2>1, <2>2, <2>4, <1>1 DEF ChainInv, HooksInv
    <3>. QED BY <3>1, <2>1, <1>2, <1>6, <1>7 DEF HooksInv
  <2>8. AccountsInv'
    <3>1. ASSUME NEW h \in skipped PROVE (SkippedFor(h))'
      <4>1. h \in Hooks /\ SkippedFor(h)
        BY <1>1, <3>1 DEF ChainInv, AccountsInv, ChainTypes
      <4>. QED BY <4>1, <2>1, <1>2, <1>3, <1>4 DEF SkippedFor
    <3>2. ASSUME NEW h \in rest PROVE (SkippedFor(h))'
      <4>1. PICK g \in failed : g \in Hooks /\ Reached(g)
        BY <1>9, <1>3, <2>4, <1>1 DEF ChainInv, ChainTypes
      <4>2. LevelOf(g) <= phase /\ LevelOf(g) \in Nat /\ LevelOf(h) \in Nat
        <5>1. PICK n \in DOMAIN Levels : g \in Levels[n] /\ n <= phase
          BY <4>1, <1>2, <1>3, LevelFacts DEF Reached
        <5>2. LevelOf(g) = n /\ n \in Nat
          BY <5>1, LevelFacts
        <5>3. LevelOf(h) \in Nat
          <6>1. PICK m \in DOMAIN Levels : h \in Levels[m]
            BY <1>3, LevelFacts DEF rest
          <6>. QED BY <6>1, LevelFacts
        <5>. QED BY <5>1, <5>2, <5>3
      <4>3. LevelOf(g) < LevelOf(h)
        BY <4>2, <2>2, <1>3
      <4>. QED BY <4>1, <4>3, <2>2, <1>2, <1>4, <1>9 DEF SkippedFor
    <3>3. ASSUME NEW h \in Hooks PROVE h \in Executed \union skipped' \union todo \/ (LostTo(h))'
      <4>1. \E n \in DOMAIN Levels : h \in Levels[n]
        <5>1. Levels # <<>> /\ Validated(Deps)
          BY <1>1, <1>2, <1>3, LevelFacts DEF ChainInv, PhaseInv
        <5>. QED BY <5>1, PlanOf DEF Levels
      <4>2. Reached(h) => h \in Executed \union skipped \union todo \/ LostTo(h)
        BY <1>1 DEF ChainInv, AccountsInv
      <4>. QED BY <4>1, <4>2, <2>1, <2>3, <1>4
    <3>. QED BY <3>1, <3>2, <3>3, <2>1, <1>2 DEF AccountsInv
  <2>. QED BY <2>5, <2>6, <2>7, <2>8 DEF ChainInv
<1>. QED BY <1>8, <1>9

LEMMA FinishInv == ChainInv /\ Finish => ChainInv'
<1>1. SUFFICES ASSUME ChainInv, Finish PROVE ChainInv'
  OBVIOUS
<1>2. /\ chain' = chain /\ todo' = todo /\ order' = order /\ failed' = failed /\ attempts' = attempts
      /\ phase' = phase /\ skipped' = skipped /\ blamed' = blamed /\ status' = "done" /\ status = "select"
      /\ Executed' = Executed /\ Deps' = Deps /\ Levels' = Levels /\ phase > Len(Levels) /\ phase \in Nat
  BY <1>1, ChainStays DEF Finish, Executed, ChainInv, ChainTypes
<1>3. \A h \in Hooks : /\ (Succeeds(h))' = Succeeds(h) /\ (LevelOf(h))' = LevelOf(h)
                       /\ (EvaluateConditions(chain.hooks[h].conditions))' = EvaluateConditions(chain.hooks[h].conditions)
  BY <1>2, ChainStays
<1>4. failed \subseteq Hooks
  BY <1>1 DEF ChainInv, ChainTypes, Executed
<1>5. ChainTypes'
  BY <1>1, <1>2 DEF ChainInv, ChainTypes, Underway
<1>6. PhaseInv'
  <2>1. (Validated(Deps))' = Validated(Deps)
    BY <1>2
  <2>. QED BY <2>1, <1>1, <1>2 DEF ChainInv, PhaseInv, Underway
<1>7. HooksInv'
  <2>1. \A h \in failed : attempts'[h] > 0 /\ ~(Succeeds(h))'
    BY <1>1, <1>2, <1>3, <1>4 DEF ChainInv, HooksInv
  <2>2. DependenciesFirst'
    BY <1>1, <1>2 DEF ChainInv, HooksInv, DependenciesFirst
  <2>. QED BY <2>1, <2>2, <1>1, <1>2 DEF ChainInv, HooksInv
<1>8. AccountsInv'
  <2>1. ASSUME NEW h \in skipped PROVE (SkippedFor(h))'
    <3>1. h \in Hooks /\ SkippedFor(h)
      BY <1>1, <2>1 DEF ChainInv, AccountsInv, ChainTypes
    <3>. QED BY <3>1, <1>2, <1>3, <1>4 DEF SkippedFor
  <2>2. ASSUME NEW h \in Hooks PROVE h \in Executed \union skipped \union todo \/ LostTo(h)
    <3>1. Validated(Deps)
      BY <1>1, <1>2 DEF ChainInv, PhaseInv
    <3>2. CASE Levels = <<>> /\ \E g \in Hooks : g \in Deps[g]
      BY <3>2 DEF LostTo
    <3>3. CASE \E n \in DOMAIN Levels : h \in Levels[n]
      <4>1. Reached(h)
        BY <3>3, <1>2, LevelFacts DEF Reached
      <4>. QED BY <4>1, <1>1 DEF ChainInv, AccountsInv
    <3>. QED BY <3>1, <3>2, <3>3, PlanOf DEF Levels
  <2>3. \A h \in Hooks : (LostTo(h))' = LostTo(h)
    <3>1. ASSUME NEW h \in Hooks PROVE (LostTo(h))' = LostTo(h)
      BY <1>2, <1>3, <1>4 DEF LostTo
    <3>. QED BY <3>1
  <2>. QED BY <2>1, <2>2, <2>3, <1>2 DEF AccountsInv
<1>. QED BY <1>5, <1>6, <1>7, <1>8 DEF ChainInv

LEMMA ChainStutters == ChainInv /\ UNCHANGED chainVars => ChainInv'
<1>1. SUFFICES ASSUME ChainInv, UNCHANGED chainVars PROVE ChainInv'
  OBVIOUS
<1>2. /\ chain' = chain /\ todo' = todo /\ order' = order /\ failed' = failed /\ attempts' = attempts
      /\ phase' = phase /\ skipped' = skipped /\ blamed' = blamed /\ status' = status
      /\ Executed' = Executed /\ Deps' = Deps /\ Levels' = Levels
  BY <1>1, ChainStays DEF chainVars, Executed
<1>3. \A h \in Hooks : /\ (Succeeds(h))' = Succeeds(h) /\ (LevelOf(h))' = LevelOf(h)
                       /\ (EvaluateConditions(chain.hooks[h].conditions))' = EvaluateConditions(chain.hooks[h].conditions)
  BY <1>2, ChainStays
<1>4. failed \subseteq Hooks /\ skipped \subseteq Hooks
  BY <1>1 DEF ChainInv, ChainTypes, Executed
<1>5. \A h \in Hooks : (LostTo(h))' = LostTo(h) /\ (Reached(h))' = Reached(h) /\ (h \in skipped => (SkippedFor(h))' = SkippedFor(h))
  <2>1. SUFFICES ASSUME NEW h \in Hooks
                 PROVE  (LostTo(h))' = LostTo(h) /\ (Reached(h))' = Reached(h) /\ (SkippedFor(h))' = SkippedFor(h)
    OBVIOUS
  <2>2. (LostTo(h))' = LostTo(h)
    BY <1>2, <1>3, <1>4 DEF LostTo
  <2>3. (Reached(h))' = Reached(h)
    BY <1>2 DEF Reached
  <2>4. (SkippedFor(h))' = SkippedFor(h)
    BY <1>2, <1>3, <1>4 DEF SkippedFor
  <2>. QED BY <2>2, <2>3, <2>4
<1>6. ChainTypes' /\ PhaseInv'
  <2>1. (Validated(Deps))' = Validated(Deps)
    BY <1>2
  <2>. QED BY <2>1, <1>1, <1>2 DEF ChainInv, ChainTypes, PhaseInv
<1>7. HooksInv'
  <2>1. DependenciesFirst'
    BY <1>1, <1>2 DEF ChainInv, HooksInv, DependenciesFirst
  <2>2. \A h \in failed : attempts'[h] > 0 /\ ~(Succeeds(h))'
    BY <1>1, <1>2, <1>3, <1>4 DEF ChainInv, HooksInv
  <2>. QED BY <2>1, <2>2, <1>1, <1>2 DEF ChainInv, HooksInv
<1>8. AccountsInv'
  <2>1. \A h \in Executed \union skipped : h \in Hooks
    BY <1>1 DEF ChainInv, ChainTypes, Executed
  <2>. QED BY <2>1, <1>1, <1>2, <1>4, <1>5 DEF ChainInv, AccountsInv
<1>. QED BY <1>6, <1>7, <1>8 DEF ChainInv

LEMMA ChainStep == ChainInv /\ [ChainNext]_chainVars => ChainInv'
BY ExecuteChainInv, SelectPhaseInv, ExecuteHookInv, EndPhaseInv, FinishInv, ChainStutters DEF ChainNext

LEMMA ChainInvImplies == ChainInv => ChainTypeOK /\ PlanSound /\ DependenciesFirst /\ ChainAccounts
<1>1. SUFFICES ASSUME ChainInv PROVE ChainTypeOK /\ PlanSound /\ DependenciesFirst /\ ChainAccounts
  OBVIOUS
<1>2. ChainTypeOK
  <2>1. phase \in 0..(Cardinality(Hooks) + 1)
    <3>1. Cardinality(Hooks) \in Nat
      BY ChainAssumption, FS_CardinalityType
    <3>2. phase \in Nat /\ (phase = 0 \/ phase <= Len(Levels) + 1) /\ Len(Levels) \in Nat
      BY <1>1, LevelFacts DEF ChainInv, PhaseInv, ChainTypes
    <3>. QED BY <3>1, <3>2, LevelFacts
  <2>. QED BY <2>1, <1>1 DEF ChainInv, ChainTypes, ChainTypeOK, Underway
<1>3. PlanSound
  <2>1. SUFFICES ASSUME status \notin {"new", "refused"}
                 PROVE  \/ \E h \in Hooks : h \in Deps[h] /\ Levels = <<>>
                        \/ /\ \A h \in Hooks : Cardinality({n \in DOMAIN Levels : h \in Levels[n]}) = 1
                           /\ \A m, n \in DOMAIN Levels : \A h \in Levels[m], g \in Levels[n] : g \in Deps[h] => n < m
                           /\ CriticalPathLength(Deps) = Len(Levels)
    BY DEF PlanSound
  <2>2. \/ Levels = <<>> /\ \E h \in Hooks : h \in Deps[h]
        \/ /\ \A h \in Hooks : \E n \in DOMAIN Levels : {m \in DOMAIN Levels : h \in Levels[m]} = {n}
           /\ CriticalPathLength(Deps) = Len(Levels)
    BY <1>1, <2>1, PlanOf DEF ChainInv, PhaseInv, Levels
  <2>3. ASSUME NEW m \in DOMAIN Levels, NEW n \in DOMAIN Levels, NEW h \in Levels[m], NEW g \in Levels[n], g \in Deps[h]
        PROVE  n < m
    <3>1. PICK k \in 1..(m - 1) : g \in Levels[k]
      BY <2>3, LevelFacts
    <3>2. m \in Nat /\ k \in Nat /\ k < m /\ k \in DOMAIN Levels
      BY <3>1, LevelFacts
    <3>3. k = n
      BY <3>1, <3>2, LevelFacts
    <3>. QED BY <3>2, <3>3
  <2>4. \A n : Cardinality({n}) = 1
    BY FS_Singleton
  <2>. QED BY <2>2, <2>3, <2>4
<1>4. ChainAccounts
  <2>1. \A h \in Hooks : status = "done" => h \in Executed \union skipped \/ LostTo(h)
    BY <1>1 DEF ChainInv, AccountsInv, PhaseInv
  <2>. QED BY <2>1, <1>1 DEF ChainInv, AccountsInv, HooksInv, ChainAccounts
<1>. QED BY <1>1, <1>2, <1>3, <1>4 DEF ChainInv, HooksInv

\* Whatever the chain, its hooks, their dependencies, conditions and
\* failure behaviours, it keeps its books, its plan is sound (the levels hold
\* every hook once, above its dependencies, and the critical path has one hook
\* of each), hooks run after their dependencies, and at the end each of them is
\* accounted for.
THEOREM ChainsAreSound == ChainSpec => [](ChainTypeOK /\ PlanSound /\ DependenciesFirst /\ ChainAccounts)
<1>1. ChainInit => ChainInv
  BY ChainStarts
<1>2. ChainInv /\ [ChainNext]_chainVars => ChainInv'
  BY ChainStep
<1>3. ChainInv => ChainTypeOK /\ PlanSound /\ DependenciesFirst /\ ChainAccounts
  BY ChainInvImplies
<1>. QED BY <1>1, <1>2, <1>3, PTL DEF ChainSpec

-----------------------------------------------------------------------------
(* The event bus: the inductive invariant.                                   *)

BusSpec == BusInit /\ [][BusNext]_busVars

Sent == [by : Emitters, n : Nat, is : EventTypes]
BusTypes ==
  /\ registered \subseteq Handlers /\ sent \in [Emitters -> Nat]
  /\ step \in [Emitters -> {"idle", "send", "handle"}] /\ left \in [Emitters -> SUBSET Handlers]
  /\ event \in [Emitters -> EventTypes \union {"none"}] /\ \A m \in Emitters : step[m] # "idle" => event[m] \in EventTypes
  /\ metrics \in [EventTypes -> Nat] /\ channel \in Seq(Sent) /\ received \in Seq(Sent)
  /\ handled \in [Handlers -> Seq(Sent)] /\ seen \in 0..Len(channel)

CalledWith(h) == {handled[h][i] : i \in DOMAIN handled[h]}
OnChannel == {channel[i] : i \in DOMAIN channel}
Due(e) == {h \in registered : e.is \in Interested[h]}
\* The handlers still to be called with the event.
Pending(e) == IF step[e.by] = "handle" /\ e.n = sent[e.by] THEN left[e.by] ELSE {}
\* The channel has each emitter's events up to its last, in order.
ChannelInv ==
  /\ InOrder(channel)
  /\ \A e \in OnChannel : e.n > 0 /\ e.n <= sent[e.by] /\ (step[e.by] = "send" => e.n < sent[e.by])
  /\ \A m \in Emitters : step[m] = "handle" => Emitted(m) \in OnChannel
\* The calls made are those due, but for the ones an emit has still to make.
CallsInv ==
  /\ \A h \in Handlers : CalledWith(h) \subseteq OnChannel /\ InOrder(handled[h])
  /\ \A e \in OnChannel : \A h \in Handlers : e \in CalledWith(h) <=> h \in Due(e) \ Pending(e)
  /\ \A m \in Emitters : step[m] = "handle" =>
        /\ left[m] \subseteq Due(Emitted(m))
        /\ "metrics" \in left[m] /\ "logging" \in Due(Emitted(m)) => "logging" \in left[m]
ReceiveInv ==
  /\ \A j \in DOMAIN received : \E k \in 1..seen : received[j] = channel[k]
  /\ InOrder(received)
  /\ Len(channel) <= Capacity => Len(received) = seen
BusInv == BusTypes /\ EmittedOnce /\ ChannelInv /\ CallsInv /\ ReceiveInv

\* How many members of a sequence are in a set, when one is appended.
Count(s, T) == Cardinality({i \in DOMAIN s : s[i] \in T})
LEMMA CountAppend ==
  ASSUME NEW S, NEW s \in Seq(S), NEW e \in S, NEW T
  PROVE  /\ Count(s, T) \in Nat
         /\ e \in T => Count(Append(s, e), T) = Count(s, T) + 1
         /\ e \notin T => Count(Append(s, e), T) = Count(s, T)
<1>. DEFINE C == {i \in DOMAIN s : s[i] \in T}
            D == {i \in DOMAIN Append(s, e) : Append(s, e)[i] \in T}
            n == Len(s) + 1
<1>1. IsFiniteSet(C) /\ Cardinality(C) \in Nat
  <2>1. DOMAIN s = 1..Len(s) /\ Len(s) \in Nat
    OBVIOUS
  <2>2. IsFiniteSet(1..Len(s))
    BY <2>1, FS_Interval
  <2>. QED BY <2>1, <2>2, FS_Subset, FS_CardinalityType
<1>2. /\ DOMAIN Append(s, e) = DOMAIN s \cup {n} /\ n \notin DOMAIN s
      /\ \A i \in DOMAIN s : Append(s, e)[i] = s[i]
      /\ Append(s, e)[n] = e
  OBVIOUS
<1>3. e \in T => Cardinality(D) = Cardinality(C) + 1
  <2>1. SUFFICES ASSUME e \in T PROVE Cardinality(D) = Cardinality(C) + 1
    OBVIOUS
  <2>2. D = C \cup {n} /\ n \notin C
    BY <1>2, <2>1
  <2>. QED BY <2>2, <1>1, FS_AddElement
<1>4. e \notin T => D = C
  BY <1>2
<1>5. Count(s, T) = Cardinality(C) /\ Count(Append(s, e), T) = Cardinality(D)
  BY DEF Count
<1>. HIDE DEF C, D
<1>. QED BY <1>1, <1>3, <1>4, <1>5

\* Appending what is after everything of the same emitter keeps the order.
LEMMA InOrderAppend ==
  ASSUME NEW s \in Seq(Sent), InOrder(s), NEW e \in Sent,
         \A i \in DOMAIN s : s[i].by = e.by => s[i].n < e.n
  PROVE  /\ InOrder(Append(s, e)) /\ Append(s, e) \in Seq(Sent) /\ Len(Append(s, e)) = Len(s) + 1
         /\ {Append(s, e)[i] : i \in DOMAIN Append(s, e)} = {s[i] : i \in DOMAIN s} \union {e}
         /\ \A i \in DOMAIN s : Append(s, e)[i] = s[i]
<1>. DEFINE t == Append(s, e)
            n == Len(s) + 1
<1>1. /\ DOMAIN t = DOMAIN s \cup {n} /\ DOMAIN s = 1..Len(s) /\ Len(s) \in Nat
      /\ \A i \in DOMAIN s : t[i] = s[i]
      /\ t[n] = e /\ t \in Seq(Sent) /\ Len(t) = n
  OBVIOUS
<1>2. ASSUME NEW i \in DOMAIN t, NEW j \in DOMAIN t, i < j, t[i].by = t[j].by PROVE t[i].n < t[j].n
  <2>. HIDE DEF t
  <2>1. i \in DOMAIN s
    BY <1>1, <1>2
  <2>2. CASE j = n
    BY <2>1, <2>2, <1>1, <1>2
  <2>3. CASE j \in DOMAIN s
    BY <2>1, <2>3, <1>1, <1>2 DEF InOrder
  <2>. QED BY <2>2, <2>3, <1>1
<1>. HIDE DEF t
<1>3. {t[i] : i \in DOMAIN t} = {s[i] : i \in DOMAIN s} \union {e}
  BY <1>1
<1>4. InOrder(t)
  BY <1>2 DEF InOrder
<1>. QED BY <1>1, <1>3, <1>4 DEF t

\* The emitters about to send an event of a type, when one of them changes.
Sending(y) == {m \in Emitters : step[m] = "send" /\ event[m] = y}
LEMMA SendingBegins ==
  ASSUME BusTypes, NEW m \in Emitters, step[m] # "send", step' = [step EXCEPT ![m] = "send"],
         NEW y \in EventTypes, event' = [event EXCEPT ![m] = y], NEW z \in EventTypes
  PROVE  /\ Cardinality(Sending(z)) \in Nat
         /\ z = y => Cardinality(Sending(z)') = Cardinality(Sending(z)) + 1
         /\ z # y => Cardinality(Sending(z)') = Cardinality(Sending(z))
<1>1. IsFiniteSet(Sending(z)) /\ Cardinality(Sending(z)) \in Nat
  BY BusAssumption, FS_Subset, FS_CardinalityType DEF Sending
<1>2. /\ \A k \in Emitters : k # m => step'[k] = step[k] /\ event'[k] = event[k]
      /\ step'[m] = "send" /\ event'[m] = y
  BY DEF BusTypes
<1>3. z = y => Sending(z)' = Sending(z) \union {m} /\ m \notin Sending(z)
  BY <1>2 DEF Sending
<1>4. z # y => Sending(z)' = Sending(z)
  BY <1>2 DEF Sending
<1>5. m \notin Sending(z) => Cardinality(Sending(z) \union {m}) = Cardinality(Sending(z)) + 1
  BY <1>1, FS_AddElement
<1>. QED BY <1>1, <1>3, <1>4, <1>5

LEMMA SendingEnds ==
  ASSUME BusTypes, NEW m \in Emitters, step[m] = "send", step' = [step EXCEPT ![m] = "handle"],
         event' = event, NEW z \in EventTypes
  PROVE  /\ Cardinality(Sending(z)) \in Nat
         /\ z = event[m] => Cardinality(Sending(z)') = Cardinality(Sending(z)) - 1
         /\ z # event[m] => Cardinality(Sending(z)') = Cardinality(Sending(z))
<1>1. IsFiniteSet(Sending(z)) /\ Cardinality(Sending(z)) \in Nat
  BY BusAssumption, FS_Subset, FS_CardinalityType DEF Sending
<1>2. (\A k \in Emitters : k # m => step'[k] = step[k]) /\ step'[m] = "handle"
  BY DEF BusTypes
<1>3. z = event[m] => Sending(z)' = Sending(z) \ {m} /\ m \in Sending(z)
  BY <1>2 DEF Sending
<1>4. z # event[m] => Sending(z)' = Sending(z)
  BY <1>2 DEF Sending
<1>5. m \in Sending(z) => Cardinality(Sending(z) \ {m}) = Cardinality(Sending(z)) - 1
  BY <1>1, FS_RemoveElement
<1>. QED BY <1>1, <1>3, <1>4, <1>5

LEMMA ChannelFinite ==
  ASSUME BusTypes
  PROVE  \A D \in SUBSET (DOMAIN channel) : IsFiniteSet(D) /\ Cardinality(D) \in Nat
<1>1. DOMAIN channel = 1..Len(channel) /\ Len(channel) \in Nat
  BY DEF BusTypes
<1>2. IsFiniteSet(1..Len(channel))
  BY <1>1, FS_Interval
<1>. QED BY <1>1, <1>2, FS_Subset, FS_CardinalityType

LEMMA ChannelEvents ==
  ASSUME BusTypes
  PROVE  \A e \in OnChannel : e \in Sent /\ e.by \in Emitters /\ e.n \in Nat /\ e.is \in EventTypes
<1>1. \A i \in DOMAIN channel : channel[i] \in Sent
  BY DEF BusTypes
<1>2. \A e \in Sent : e.by \in Emitters /\ e.n \in Nat /\ e.is \in EventTypes
  BY DEF Sent
<1>. QED BY <1>1, <1>2 DEF OnChannel

LEMMA HandlerFacts ==
  /\ Handlers = {"logging", "metrics"} /\ Priority["metrics"] = 3 /\ Priority["logging"] = 2
BY DEF Handlers, Priority

LEMMA BusStarts == BusInit => BusInv
<1>1. SUFFICES ASSUME BusInit PROVE BusInv
  OBVIOUS
<1>2. DOMAIN channel = {} /\ OnChannel = {} /\ channel = <<>> /\ received = <<>> /\ Len(channel) = 0 /\ Len(received) = 0
      /\ DOMAIN received = {}
  BY <1>1 DEF BusInit, OnChannel
<1>3. \A h \in Handlers : handled[h] = <<>> /\ CalledWith(h) = {} /\ DOMAIN handled[h] = {}
  BY <1>1 DEF BusInit, CalledWith
<1>4. BusTypes
  BY <1>1, <1>2 DEF BusInit, BusTypes
<1>5. EmittedOnce
  <2>1. Cardinality({}) = 0
    BY FS_EmptySet
  <2>2. ASSUME NEW y \in EventTypes
        PROVE  metrics[y] = Cardinality({i \in DOMAIN channel : channel[i].is = y})
                            + Cardinality({m \in Emitters : step[m] = "send" /\ event[m] = y})
    <3>. DEFINE C == {i \in DOMAIN channel : channel[i].is = y}
                D == {m \in Emitters : step[m] = "send" /\ event[m] = y}
    <3>1. C = {} /\ D = {}
      BY <1>1, <1>2 DEF BusInit
    <3>2. metrics[y] = 0
      BY <1>1 DEF BusInit
    <3>. HIDE DEF C, D
    <3>3. metrics[y] = Cardinality(C) + Cardinality(D)
      BY <3>1, <3>2, <2>1
    <3>. QED BY <3>3 DEF C, D
  <2>3. ASSUME NEW m \in Emitters
        PROVE  sent[m] = Cardinality({i \in DOMAIN channel : channel[i].by = m}) + (IF step[m] = "send" THEN 1 ELSE 0)
    <3>1. {i \in DOMAIN channel : channel[i].by = m} = {}
      BY <1>2
    <3>. QED BY <3>1, <2>1, <1>1 DEF BusInit
  <2>. QED BY <2>2, <2>3 DEF EmittedOnce
<1>6. ChannelInv
  BY <1>1, <1>2 DEF BusInit, ChannelInv, InOrder
<1>7. CallsInv
  BY <1>1, <1>2, <1>3 DEF BusInit, CallsInv, InOrder
<1>8. ReceiveInv
  BY <1>1, <1>2 DEF BusInit, ReceiveInv, InOrder
<1>. QED BY <1>4, <1>5, <1>6, <1>7, <1>8 DEF BusInv

LEMMA RegisterInv == BusInv /\ (SetEnabled \/ \E h \in Handlers : RegisterHandler(h)) => BusInv'
<1>1. SUFFICES ASSUME BusInv, SetEnabled \/ \E h \in Handlers : RegisterHandler(h) PROVE BusInv'
  OBVIOUS
<1>2. /\ registered' \subseteq Handlers /\ sent' = sent /\ event' = event /\ left' = left /\ step' = step
      /\ metrics' = metrics /\ channel' = channel /\ received' = received /\ seen' = seen /\ handled' = handled
      /\ \A m \in Emitters : step[m] = "idle" /\ sent[m] = 0
  BY <1>1 DEF BusInv, BusTypes, SetEnabled, RegisterHandler
<1>3. OnChannel = {} /\ OnChannel' = {}
  <2>1. \A e \in OnChannel : e.by \in Emitters
    BY <1>1, ChannelEvents DEF BusInv
  <2>2. OnChannel = {}
    <3>1. \A e \in OnChannel : e.n \in Nat /\ e.n > 0 /\ e.n <= 0
      BY <2>1, <1>1, <1>2, ChannelEvents DEF BusInv, ChannelInv
    <3>. QED BY <3>1
  <2>. QED BY <2>2, <1>2 DEF OnChannel
<1>4. BusTypes'
  BY <1>1, <1>2 DEF BusInv, BusTypes
<1>5. EmittedOnce'
  BY <1>1, <1>2 DEF BusInv, EmittedOnce
<1>6. ChannelInv' /\ ReceiveInv'
  BY <1>1, <1>2, <1>3 DEF BusInv, ChannelInv, ReceiveInv
<1>7. CallsInv'
  <2>1. \A h \in Handlers : CalledWith(h)' = CalledWith(h)
    BY <1>2 DEF CalledWith
  <2>. QED BY <2>1, <1>1, <1>2, <1>3 DEF BusInv, CallsInv
<1>. QED BY <1>4, <1>5, <1>6, <1>7 DEF BusInv

LEMMA EmitInv ==
  ASSUME NEW m \in Emitters, NEW y \in EmittedTypes, BusInv, Emit(m, y)
  PROVE  BusInv'
<1>1. /\ y \in EventTypes /\ step[m] = "idle" /\ metrics' = [metrics EXCEPT ![y] = @ + 1]
      /\ event' = [event EXCEPT ![m] = y] /\ step' = [step EXCEPT ![m] = "send"] /\ sent' = [sent EXCEPT ![m] = @ + 1]
      /\ registered' = registered /\ left' = left /\ channel' = channel /\ received' = received /\ seen' = seen
      /\ handled' = handled /\ OnChannel' = OnChannel
  BY DEF Emit, EmittedTypes, EventTypes, OnChannel
<1>2. /\ \A k \in Emitters : k # m => step'[k] = step[k] /\ sent'[k] = sent[k] /\ event'[k] = event[k]
      /\ step'[m] = "send" /\ sent'[m] = sent[m] + 1 /\ event'[m] = y /\ sent[m] \in Nat
  BY <1>1 DEF BusInv, BusTypes
<1>3. \A e \in OnChannel : e.by \in Emitters /\ e.n \in Nat /\ e.n <= sent[e.by] /\ sent[e.by] \in Nat
  <2>1. sent \in [Emitters -> Nat]
    BY DEF BusInv, BusTypes
  <2>. QED BY <2>1, ChannelEvents DEF BusInv, ChannelInv
<1>4. BusTypes'
  BY <1>1, <1>2 DEF BusInv, BusTypes
<1>5. EmittedOnce'
  <2>1. ASSUME NEW z \in EventTypes
        PROVE  metrics'[z] = Cardinality({i \in DOMAIN channel : channel[i].is = z}) + Cardinality(Sending(z)')
    <3>. DEFINE c == Cardinality({i \in DOMAIN channel : channel[i].is = z})
    <3>1. c \in Nat
      BY ChannelFinite DEF BusInv
    <3>2. metrics[z] = c + Cardinality(Sending(z)) /\ metrics[z] \in Nat
      BY DEF BusInv, BusTypes, EmittedOnce, Sending
    <3>3. /\ Cardinality(Sending(z)) \in Nat
          /\ z = y => Cardinality(Sending(z)') = Cardinality(Sending(z)) + 1
          /\ z # y => Cardinality(Sending(z)') = Cardinality(Sending(z))
      BY <1>1, SendingBegins DEF BusInv
    <3>4. metrics'[z] = IF z = y THEN metrics[z] + 1 ELSE metrics[z]
      BY <1>1 DEF BusInv, BusTypes
    <3>. HIDE DEF c
    <3>5. metrics'[z] = c + Cardinality(Sending(z)')
      BY <3>1, <3>2, <3>3, <3>4
    <3>. QED BY <3>5 DEF c
  <2>2. ASSUME NEW k \in Emitters
        PROVE  sent'[k] = Cardinality({i \in DOMAIN channel : channel[i].by = k}) + (IF step'[k] = "send" THEN 1 ELSE 0)
    <3>1. sent[k] = Cardinality({i \in DOMAIN channel : channel[i].by = k}) + (IF step[k] = "send" THEN 1 ELSE 0)
      BY DEF BusInv, EmittedOnce
    <3>2. CASE k = m
      <4>1. Cardinality({i \in DOMAIN channel : channel[i].by = k}) \in Nat
        BY ChannelFinite DEF BusInv
      <4>. QED BY <4>1, <3>1, <3>2, <1>1, <1>2
    <3>. QED BY <3>1, <3>2, <1>2
  <2>. QED BY <2>1, <2>2, <1>1 DEF EmittedOnce, Sending
<1>6. ChannelInv'
  <2>1. \A e \in OnChannel : e.n > 0 /\ e.n <= sent'[e.by] /\ (step'[e.by] = "send" => e.n < sent'[e.by])
    <3>1. ASSUME NEW e \in OnChannel PROVE e.n > 0 /\ e.n <= sent'[e.by] /\ (step'[e.by] = "send" => e.n < sent'[e.by])
      <4>1. e.n > 0 /\ e.n <= sent[e.by] /\ (step[e.by] = "send" => e.n < sent[e.by])
        BY DEF BusInv, ChannelInv
      <4>. QED BY <4>1, <1>2, <1>3
    <3>. QED BY <3>1
  <2>2. \A k \in Emitters : step'[k] = "handle" => Emitted(k)' \in OnChannel
    BY <1>2 DEF BusInv, ChannelInv, Emitted
  <2>. QED BY <2>1, <2>2, <1>1 DEF BusInv, ChannelInv
<1>7. CallsInv'
  <2>1. \A h \in Handlers : CalledWith(h)' = CalledWith(h)
    BY <1>1 DEF CalledWith
  <2>2. \A e \in OnChannel : Pending(e)' = Pending(e)
    BY <1>1, <1>2, <1>3 DEF Pending
  <2>3. \A e : Due(e)' = Due(e)
    BY <1>1 DEF Due
  <2>4. \A k \in Emitters : step'[k] = "handle" => step[k] = "handle" /\ (Due(Emitted(k)))' = Due(Emitted(k))
    BY <1>1, <1>2 DEF Emitted, Due
  <2>5. \A e \in OnChannel : \A h \in Handlers : e \in CalledWith(h)' <=> h \in Due(e)' \ Pending(e)'
    BY <2>1, <2>2, <2>3 DEF BusInv, CallsInv
  <2>. QED BY <2>1, <2>4, <2>5, <1>1 DEF BusInv, CallsInv
<1>8. ReceiveInv'
  BY <1>1 DEF BusInv, ReceiveInv
<1>. QED BY <1>4, <1>5, <1>6, <1>7, <1>8 DEF BusInv

LEMMA SendInv ==
  ASSUME NEW m \in Emitters, BusInv, Send(m)
  PROVE  BusInv'
<1>0. PICK e, y, due : e = Emitted(m) /\ y = event[m] /\ due = {h \in registered : event[m] \in Interested[h]}
  OBVIOUS
<1>1. /\ step[m] = "send" /\ channel' = Append(channel, e) /\ left' = [left EXCEPT ![m] = due]
      /\ step' = [step EXCEPT ![m] = "handle"] /\ registered' = registered /\ sent' = sent /\ event' = event
      /\ metrics' = metrics /\ received' = received /\ seen' = seen /\ handled' = handled
  BY <1>0 DEF Send
<1>2. /\ y \in EventTypes /\ sent[m] \in Nat /\ channel \in Seq(Sent) /\ left \in [Emitters -> SUBSET Handlers]
      /\ step \in [Emitters -> {"idle", "send", "handle"}] /\ registered \subseteq Handlers
      /\ event \in [Emitters -> EventTypes \union {"none"}] /\ metrics \in [EventTypes -> Nat]
  BY <1>0, <1>1 DEF BusInv, BusTypes
<1>3. e \in Sent /\ e.by = m /\ e.n = sent[m] /\ e.is = y
  BY <1>0, <1>2 DEF Emitted, Sent
<1>4. /\ \A k \in Emitters : k # m => step'[k] = step[k] /\ left'[k] = left[k]
      /\ step'[m] = "handle" /\ left'[m] = due
  BY <1>1, <1>2
<1>5. \A i \in DOMAIN channel : channel[i] \in OnChannel
  BY DEF OnChannel
<1>6. \A c \in OnChannel : c.by = m => c.n < e.n
  BY <1>1, <1>3 DEF BusInv, ChannelInv
<1>7. /\ InOrder(channel') /\ channel' \in Seq(Sent) /\ Len(channel') = Len(channel) + 1
      /\ OnChannel' = OnChannel \union {e}
      /\ \A i \in DOMAIN channel : channel'[i] = channel[i]
  <2>1. \A i \in DOMAIN channel : channel[i].by = e.by => channel[i].n < e.n
    BY <1>3, <1>5, <1>6
  <2>2. InOrder(channel)
    BY DEF BusInv, ChannelInv
  <2>3. /\ InOrder(Append(channel, e)) /\ Append(channel, e) \in Seq(Sent) /\ Len(Append(channel, e)) = Len(channel) + 1
        /\ {Append(channel, e)[i] : i \in DOMAIN Append(channel, e)} = {channel[i] : i \in DOMAIN channel} \union {e}
        /\ \A i \in DOMAIN channel : Append(channel, e)[i] = channel[i]
    BY <2>1, <2>2, <1>2, <1>3, InOrderAppend
  <2>4. InOrder(channel') /\ \A i \in DOMAIN channel : channel'[i] = channel[i]
    BY <2>3, <1>1
  <2>5. OnChannel' = OnChannel \union {e}
    BY <2>3, <1>1 DEF OnChannel
  <2>. QED BY <2>3, <2>4, <2>5, <1>1
<1>8. \A c \in OnChannel : c \in Sent /\ c.by \in Emitters /\ c.n \in Nat
  BY ChannelEvents DEF BusInv
<1>9. BusTypes'
  <2>1. seen' \in 0..Len(channel')
    BY <1>1, <1>7 DEF BusInv, BusTypes
  <2>2. left' \in [Emitters -> SUBSET Handlers] /\ step' \in [Emitters -> {"idle", "send", "handle"}]
    <3>1. due \subseteq Handlers
      BY <1>0, <1>2
    <3>. QED BY <3>1, <1>1, <1>2
  <2>3. \A k \in Emitters : step'[k] # "idle" => event[k] \in EventTypes
    BY <1>1, <1>4 DEF BusInv, BusTypes
  <2>. QED BY <2>1, <2>2, <2>3, <1>1, <1>7 DEF BusInv, BusTypes
<1>10. EmittedOnce'
  <2>1. ASSUME NEW z \in EventTypes
        PROVE  metrics'[z] = Cardinality({i \in DOMAIN channel' : channel'[i].is = z}) + Cardinality(Sending(z)')
    <3>. DEFINE T == {c \in Sent : c.is = z}
                before == Count(channel, T)
                after == Count(channel', T)
    <3>1. /\ Cardinality({i \in DOMAIN channel : channel[i].is = z}) = before
          /\ Cardinality({i \in DOMAIN channel' : channel'[i].is = z}) = after
      <4>1. /\ {i \in DOMAIN channel : channel[i].is = z} = {i \in DOMAIN channel : channel[i] \in T}
            /\ {i \in DOMAIN channel' : channel'[i].is = z} = {i \in DOMAIN channel' : channel'[i] \in T}
        BY <1>2, <1>7
      <4>. QED BY <4>1 DEF Count
    <3>2. e \in T <=> z = y
      BY <1>3
    <3>. HIDE DEF T
    <3>3. before \in Nat /\ (e \in T => after = before + 1) /\ (e \notin T => after = before)
      <4>1. channel \in Seq(Sent) /\ e \in Sent
        BY <1>2, <1>3
      <4>. QED BY <4>1, <1>1, CountAppend
    <3>4. metrics[z] = before + Cardinality(Sending(z)) /\ metrics[z] \in Nat
      BY <3>1, <1>2 DEF BusInv, EmittedOnce, Sending
    <3>5. event' = [event EXCEPT ![m] = y] /\ y = event[m]
      BY <1>0, <1>1, <1>2
    <3>6. /\ Cardinality(Sending(z)) \in Nat
          /\ z = y => Cardinality(Sending(z)') = Cardinality(Sending(z)) - 1
          /\ z # y => Cardinality(Sending(z)') = Cardinality(Sending(z))
      <4>1. BusTypes /\ step[m] = "send" /\ step' = [step EXCEPT ![m] = "handle"] /\ event' = event
        BY <1>1 DEF BusInv
      <4>. QED BY <4>1, <3>5, SendingEnds
    <3>. HIDE DEF before, after
    <3>7. metrics[z] = after + Cardinality(Sending(z)')
      BY <3>2, <3>3, <3>4, <3>6
    <3>. QED BY <3>7, <3>1, <1>1
  <2>2. ASSUME NEW k \in Emitters
        PROVE  sent'[k] = Cardinality({i \in DOMAIN channel' : channel'[i].by = k}) + (IF step'[k] = "send" THEN 1 ELSE 0)
    <3>. DEFINE T == {c \in Sent : c.by = k}
                before == Count(channel, T)
                after == Count(channel', T)
    <3>1. /\ Cardinality({i \in DOMAIN channel : channel[i].by = k}) = before
          /\ Cardinality({i \in DOMAIN channel' : channel'[i].by = k}) = after
      <4>1. /\ {i \in DOMAIN channel : channel[i].by = k} = {i \in DOMAIN channel : channel[i] \in T}
            /\ {i \in DOMAIN channel' : channel'[i].by = k} = {i \in DOMAIN channel' : channel'[i] \in T}
        BY <1>2, <1>7
      <4>. QED BY <4>1 DEF Count
    <3>2. e \in T <=> k = m
      BY <1>3
    <3>. HIDE DEF T
    <3>3. before \in Nat /\ (e \in T => after = before + 1) /\ (e \notin T => after = before)
      <4>1. channel \in Seq(Sent) /\ e \in Sent
        BY <1>2, <1>3
      <4>. QED BY <4>1, <1>1, CountAppend
    <3>4. sent[k] = before + (IF step[k] = "send" THEN 1 ELSE 0)
      BY <3>1 DEF BusInv, EmittedOnce
    <3>. HIDE DEF before, after
    <3>5. sent'[k] = after + (IF step'[k] = "send" THEN 1 ELSE 0)
      BY <3>2, <3>3, <3>4, <1>1, <1>4
    <3>. QED BY <3>5, <3>1
  <2>. QED BY <2>1, <2>2 DEF EmittedOnce, Sending
<1>11. ChannelInv'
  <2>1. ASSUME NEW c \in OnChannel'
        PROVE  c.n > 0 /\ c.n <= sent'[c.by] /\ (step'[c.by] = "send" => c.n < sent'[c.by])
    <3>1. CASE c \in OnChannel
      BY <3>1, <1>1, <1>4, <1>8 DEF BusInv, ChannelInv
    <3>2. CASE c = e
      <4>1. sent[m] > 0
        <5>1. Cardinality({i \in DOMAIN channel : channel[i].by = m}) \in Nat
          BY ChannelFinite DEF BusInv
        <5>. QED BY <5>1, <1>1 DEF BusInv, EmittedOnce
      <4>. QED BY <4>1, <3>2, <1>1, <1>2, <1>3, <1>4
    <3>. QED BY <3>1, <3>2, <1>7
  <2>2. ASSUME NEW k \in Emitters, step'[k] = "handle" PROVE Emitted(k)' \in OnChannel'
    <3>1. Emitted(k)' = Emitted(k)
      BY <1>1 DEF Emitted
    <3>. QED BY <3>1, <2>2, <1>0, <1>4, <1>7 DEF BusInv, ChannelInv
  <2>. QED BY <2>1, <2>2, <1>7 DEF ChannelInv
<1>12. CallsInv'
  <2>1. \A h \in Handlers : CalledWith(h)' = CalledWith(h) /\ CalledWith(h) \subseteq OnChannel /\ InOrder(handled[h])
    BY <1>1 DEF CalledWith, BusInv, CallsInv
  <2>2. \A c : Due(c)' = Due(c)
    BY <1>1 DEF Due
  <2>3. \A c \in OnChannel : Pending(c)' = Pending(c)
    <3>1. ASSUME NEW c \in OnChannel PROVE Pending(c)' = Pending(c)
      <4>1. CASE c.by = m
        <5>1. c.n # sent[m]
          BY <4>1, <1>3, <1>6, <1>8, <1>2
        <5>. QED BY <5>1, <4>1, <1>1 DEF Pending
      <4>2. CASE c.by # m
        BY <4>2, <1>1, <1>4, <1>8 DEF Pending
      <4>. QED BY <4>1, <4>2
    <3>. QED BY <3>1
  <2>4. e \notin OnChannel
    BY <1>2, <1>3, <1>6
  <2>5. due = Due(e) /\ Pending(e)' = due
    BY <1>0, <1>1, <1>3, <1>4 DEF Due, Pending
  <2>6. ASSUME NEW c \in OnChannel', NEW h \in Handlers PROVE c \in CalledWith(h)' <=> h \in Due(c)' \ Pending(c)'
    <3>1. CASE c \in OnChannel
      BY <3>1, <2>1, <2>2, <2>3 DEF BusInv, CallsInv
    <3>2. CASE c = e
      BY <3>2, <2>1, <2>2, <2>4, <2>5
    <3>. QED BY <3>1, <3>2, <1>7
  <2>7. ASSUME NEW k \in Emitters, step'[k] = "handle"
        PROVE  /\ left'[k] \subseteq (Due(Emitted(k)))'
               /\ "metrics" \in left'[k] /\ "logging" \in (Due(Emitted(k)))' => "logging" \in left'[k]
    <3>1. (Due(Emitted(k)))' = Due(Emitted(k))
      BY <1>1 DEF Emitted, Due
    <3>2. CASE k = m
      BY <3>1, <3>2, <2>5, <1>0, <1>4
    <3>3. CASE k # m
      BY <3>1, <3>3, <2>7, <1>4 DEF BusInv, CallsInv
    <3>. QED BY <3>2, <3>3
  <2>8. \A h \in Handlers : CalledWith(h)' \subseteq OnChannel' /\ InOrder(handled'[h])
    BY <2>1, <1>1, <1>7
  <2>. QED BY <2>6, <2>7, <2>8 DEF CallsInv
<1>13. ReceiveInv'
  <2>1. \A j \in DOMAIN received : \E k \in 1..seen : received[j] = channel'[k]
    <3>1. \A k \in 1..seen : k \in DOMAIN channel
      BY <1>2 DEF BusInv, BusTypes
    <3>. QED BY <3>1, <1>7 DEF BusInv, ReceiveInv
  <2>2. Len(channel') <= Capacity => Len(received) = seen
    BY <1>2, <1>7, BusAssumption DEF BusInv, ReceiveInv
  <2>. QED BY <2>1, <2>2, <1>1 DEF BusInv, ReceiveInv
<1>. QED BY <1>9, <1>10, <1>11, <1>12, <1>13 DEF BusInv

LEMMA EmitReturnsInv ==
  ASSUME NEW m \in Emitters, BusInv, EmitReturns(m)
  PROVE  BusInv'
<1>1. /\ step[m] = "handle" /\ left[m] = {} /\ step' = [step EXCEPT ![m] = "idle"]
      /\ registered' = registered /\ sent' = sent /\ event' = event /\ left' = left /\ metrics' = metrics
      /\ channel' = channel /\ received' = received /\ seen' = seen /\ handled' = handled /\ OnChannel' = OnChannel
  BY DEF EmitReturns, OnChannel
<1>2. (\A k \in Emitters : k # m => step'[k] = step[k]) /\ step'[m] = "idle"
  BY <1>1 DEF BusInv, BusTypes
<1>3. BusTypes'
  BY <1>1, <1>2 DEF BusInv, BusTypes
<1>4. EmittedOnce'
  <2>1. \A z : Sending(z)' = Sending(z)
    BY <1>1, <1>2 DEF Sending
  <2>2. \A k \in Emitters : step'[k] = "send" <=> step[k] = "send"
    BY <1>1, <1>2
  <2>. QED BY <2>1, <2>2, <1>1 DEF BusInv, EmittedOnce, Sending
<1>5. ChannelInv'
  <2>1. \A k \in Emitters : (Emitted(k))' = Emitted(k) /\ (step'[k] = "handle" => step[k] = "handle") /\ (step'[k] = "send" => step[k] = "send")
    BY <1>1, <1>2 DEF Emitted
  <2>. QED BY <2>1, <1>1, ChannelEvents DEF BusInv, ChannelInv
<1>6. CallsInv'
  <2>1. \A h \in Handlers : CalledWith(h)' = CalledWith(h)
    BY <1>1 DEF CalledWith
  <2>2. \A c : Due(c)' = Due(c)
    BY <1>1 DEF Due
  <2>3. \A c \in OnChannel : Pending(c)' = Pending(c)
    BY <1>1, <1>2, ChannelEvents DEF BusInv, Pending
  <2>4. \A k \in Emitters : (Due(Emitted(k)))' = Due(Emitted(k)) /\ (step'[k] = "handle" => step[k] = "handle")
    BY <1>1, <1>2 DEF Emitted, Due
  <2>5. \A c \in OnChannel : \A h \in Handlers : c \in CalledWith(h)' <=> h \in Due(c)' \ Pending(c)'
    BY <2>1, <2>2, <2>3 DEF BusInv, CallsInv
  <2>. QED BY <2>1, <2>4, <2>5, <1>1 DEF BusInv, CallsInv
<1>7. ReceiveInv'
  BY <1>1 DEF BusInv, ReceiveInv
<1>. QED BY <1>3, <1>4, <1>5, <1>6, <1>7 DEF BusInv

LEMMA CallHandlerInv ==
  ASSUME NEW m \in Emitters, BusInv, CallHandler(m)
  PROVE  BusInv'
<1>0. PICK h \in First(left[m]) : /\ handled' = [handled EXCEPT ![h] = Append(@, Emitted(m))]
                                  /\ left' = [left EXCEPT ![m] = @ \ {h}]
  BY DEF CallHandler
<1>1. PICK e : e = Emitted(m)
  OBVIOUS
<1>2. /\ step[m] = "handle" /\ h \in left[m] /\ h \in Handlers /\ \A g \in left[m] : Priority[g] <= Priority[h]
      /\ handled' = [handled EXCEPT ![h] = Append(@, e)] /\ left' = [left EXCEPT ![m] = @ \ {h}]
      /\ registered' = registered /\ sent' = sent /\ event' = event /\ step' = step /\ metrics' = metrics
      /\ channel' = channel /\ received' = received /\ seen' = seen /\ OnChannel' = OnChannel
  <2>1. left[m] \subseteq Handlers
    BY DEF BusInv, BusTypes
  <2>2. h \in left[m] /\ \A g \in left[m] : Priority[g] <= Priority[h]
    BY DEF First
  <2>3. /\ step[m] = "handle" /\ registered' = registered /\ sent' = sent /\ event' = event /\ step' = step
        /\ metrics' = metrics /\ channel' = channel /\ received' = received /\ seen' = seen
    BY DEF CallHandler
  <2>4. OnChannel' = OnChannel
    BY <2>3 DEF OnChannel
  <2>. QED BY <1>0, <1>1, <2>1, <2>2, <2>3, <2>4
<1>3. /\ left \in [Emitters -> SUBSET Handlers] /\ handled \in [Handlers -> Seq(Sent)] /\ handled[h] \in Seq(Sent)
      /\ sent[m] \in Nat /\ event[m] \in EventTypes
  BY <1>2 DEF BusInv, BusTypes
<1>4. e \in Sent /\ e.by = m /\ e.n = sent[m] /\ e.is = event[m] /\ e \in OnChannel
  BY <1>1, <1>2, <1>3 DEF Emitted, Sent, BusInv, ChannelInv
<1>5. \A c \in OnChannel : c.by \in Emitters /\ c.n \in Nat /\ c.n <= sent[c.by]
  BY ChannelEvents DEF BusInv, ChannelInv
<1>6. \A c \in OnChannel : c.by = m /\ c.n = sent[m] => c = e
  <2>1. SUFFICES ASSUME NEW i \in DOMAIN channel, NEW j \in DOMAIN channel, channel[i].by = m, channel[i].n = sent[m], channel[j] = e
                 PROVE  channel[i] = e
    BY <1>4 DEF OnChannel
  <2>2. i \in Nat /\ j \in Nat
    BY DEF BusInv, BusTypes
  <2>3. \A k, l \in DOMAIN channel : k < l /\ channel[k].by = channel[l].by => channel[k].n < channel[l].n
    BY DEF BusInv, ChannelInv, InOrder
  <2>4. ~ (i < j) /\ ~ (j < i)
    BY <2>1, <2>3, <1>3, <1>4
  <2>. QED BY <2>1, <2>2, <2>4
<1>7. Pending(e) = left[m] /\ e \notin CalledWith(h)
  BY <1>2, <1>4 DEF Pending, BusInv, CallsInv
<1>8. /\ InOrder(handled'[h]) /\ handled'[h] \in Seq(Sent)
      /\ CalledWith(h)' = CalledWith(h) \union {e}
  <2>1. ASSUME NEW i \in DOMAIN handled[h], handled[h][i].by = e.by PROVE handled[h][i].n < e.n
    <3>1. handled[h][i] \in CalledWith(h) /\ handled[h][i] \in OnChannel /\ handled[h][i] # e
      BY <1>2, <1>7 DEF CalledWith, BusInv, CallsInv
    <3>. QED BY <3>1, <2>1, <1>3, <1>4, <1>5, <1>6
  <2>2. InOrder(handled[h])
    BY <1>2 DEF BusInv, CallsInv
  <2>3. /\ InOrder(Append(handled[h], e)) /\ Append(handled[h], e) \in Seq(Sent)
        /\ {Append(handled[h], e)[i] : i \in DOMAIN Append(handled[h], e)} = {handled[h][i] : i \in DOMAIN handled[h]} \union {e}
    BY <2>1, <2>2, <1>3, <1>4, InOrderAppend
  <2>4. handled'[h] = Append(handled[h], e)
    BY <1>2, <1>3
  <2>. QED BY <2>3, <2>4 DEF CalledWith
<1>9. \A g \in Handlers : g # h => handled'[g] = handled[g] /\ CalledWith(g)' = CalledWith(g)
  BY <1>2, <1>3 DEF CalledWith
<1>10. (\A k \in Emitters : k # m => left'[k] = left[k]) /\ left'[m] = left[m] \ {h}
  BY <1>2, <1>3
<1>11. BusTypes'
  <2>1. handled' \in [Handlers -> Seq(Sent)]
    <3>1. \A g \in Handlers : handled'[g] \in Seq(Sent)
      BY <1>3, <1>8, <1>9
    <3>2. handled' = [g \in Handlers |-> handled'[g]]
      BY <1>2, <1>3
    <3>. QED BY <3>1, <3>2
  <2>2. left' \in [Emitters -> SUBSET Handlers]
    BY <1>2, <1>3
  <2>. QED BY <2>1, <2>2, <1>2 DEF BusInv, BusTypes
<1>12. EmittedOnce'
  BY <1>2 DEF BusInv, EmittedOnce
<1>13. \A k \in Emitters : (Emitted(k))' = Emitted(k) /\ (Due(Emitted(k)))' = Due(Emitted(k))
  BY <1>2 DEF Emitted, Due
<1>14. ChannelInv'
  BY <1>2, <1>13 DEF BusInv, ChannelInv
<1>15. CallsInv'
  <2>1. ASSUME NEW g \in Handlers PROVE CalledWith(g)' \subseteq OnChannel /\ InOrder(handled'[g])
    <3>1. CalledWith(g) \subseteq OnChannel /\ InOrder(handled[g])
      BY DEF BusInv, CallsInv
    <3>. QED BY <3>1, <1>4, <1>8, <1>9
  <2>2. \A c : Due(c)' = Due(c)
    BY <1>2 DEF Due
  <2>3. ASSUME NEW c \in OnChannel, NEW g \in Handlers PROVE c \in CalledWith(g)' <=> g \in Due(c)' \ Pending(c)'
    <3>1. c \in CalledWith(g) <=> g \in Due(c) \ Pending(c)
      BY DEF BusInv, CallsInv
    <3>2. CASE c = e
      <4>1. Pending(c)' = left[m] \ {h} /\ Pending(c) = left[m]
        BY <3>2, <1>2, <1>4, <1>7, <1>10 DEF Pending
      <4>2. h \in Due(c)
        BY <3>2, <1>1, <1>2 DEF BusInv, CallsInv
      <4>. QED BY <3>1, <3>2, <4>1, <4>2, <2>2, <1>2, <1>8, <1>9
    <3>3. CASE c # e
      <4>1. Pending(c)' = Pending(c)
        BY <3>3, <1>2, <1>5, <1>6, <1>10 DEF Pending
      <4>2. c \in CalledWith(g)' <=> c \in CalledWith(g)
        BY <3>3, <1>8, <1>9
      <4>. QED BY <3>1, <4>1, <4>2, <2>2
    <3>. QED BY <3>2, <3>3
  <2>4. ASSUME NEW k \in Emitters, step[k] = "handle"
        PROVE  /\ left'[k] \subseteq Due(Emitted(k))
               /\ "metrics" \in left'[k] /\ "logging" \in Due(Emitted(k)) => "logging" \in left'[k]
    <3>1. /\ left[k] \subseteq Due(Emitted(k))
          /\ "metrics" \in left[k] /\ "logging" \in Due(Emitted(k)) => "logging" \in left[k]
      BY <2>4 DEF BusInv, CallsInv
    <3>2. CASE k = m
      <4>1. "metrics" \in left[m] => h # "logging"
        BY <1>2, HandlerFacts
      <4>. QED BY <3>1, <3>2, <4>1, <1>10
    <3>. QED BY <3>1, <3>2, <1>10
  <2>. QED BY <2>1, <2>3, <2>4, <1>2, <1>13 DEF CallsInv
<1>16. ReceiveInv'
  BY <1>2 DEF BusInv, ReceiveInv
<1>. QED BY <1>11, <1>12, <1>14, <1>15, <1>16 DEF BusInv

\* What concerns neither the calls nor the channel stays.
LEMMA BusRests ==
  ASSUME BusInv, registered' = registered, sent' = sent, event' = event, left' = left, step' = step,
         metrics' = metrics, channel' = channel, handled' = handled
  PROVE  EmittedOnce' /\ ChannelInv' /\ CallsInv'
<1>1. OnChannel' = OnChannel /\ \A h \in Handlers : CalledWith(h)' = CalledWith(h)
  BY DEF OnChannel, CalledWith
<1>2. \A c : Due(c)' = Due(c) /\ Pending(c)' = Pending(c)
  BY DEF Due, Pending
<1>3. \A k \in Emitters : (Emitted(k))' = Emitted(k) /\ (Due(Emitted(k)))' = Due(Emitted(k))
  BY DEF Emitted, Due
<1>4. EmittedOnce'
  BY DEF BusInv, EmittedOnce
<1>5. ChannelInv'
  BY <1>1, <1>3 DEF BusInv, ChannelInv
<1>6. CallsInv'
  <2>1. \A c \in OnChannel : \A h \in Handlers : c \in CalledWith(h)' <=> h \in Due(c)' \ Pending(c)'
    BY <1>1, <1>2 DEF BusInv, CallsInv
  <2>. QED BY <2>1, <1>1, <1>3 DEF BusInv, CallsInv
<1>. QED BY <1>4, <1>5, <1>6

LEMMA ReceiveKeeps == BusInv /\ Receive => BusInv'
<1>1. SUFFICES ASSUME BusInv, Receive PROVE BusInv'
  OBVIOUS
<1>2. /\ registered' = registered /\ sent' = sent /\ event' = event /\ left' = left /\ step' = step
      /\ metrics' = metrics /\ channel' = channel /\ handled' = handled /\ seen < Len(channel)
      /\ Len(channel) - seen > Capacity => seen' = Len(channel) - Capacity /\ received' = received
      /\ Len(channel) - seen <= Capacity => seen' = seen + 1 /\ received' = Append(received, channel[seen + 1])
  BY <1>1, BusAssumption DEF Receive, BusInv, BusTypes
<1>3. EmittedOnce' /\ ChannelInv' /\ CallsInv'
  BY <1>1, <1>2, BusRests
<1>4. /\ seen \in Nat /\ Len(channel) \in Nat /\ Capacity \in Nat /\ received \in Seq(Sent) /\ channel \in Seq(Sent)
      /\ seen <= Len(channel)
  BY <1>1, BusAssumption DEF BusInv, BusTypes
<1>5. CASE Len(channel) - seen > Capacity
  <2>1. seen' \in 0..Len(channel) /\ seen' >= seen /\ received' = received
    BY <1>2, <1>4, <1>5
  <2>2. ReceiveInv'
    <3>1. \A j \in DOMAIN received : \E k \in 1..seen' : received[j] = channel[k]
      <4>1. 1..seen \subseteq 1..seen'
        BY <2>1, <1>4
      <4>. QED BY <4>1, <1>1 DEF BusInv, ReceiveInv
    <3>2. ~ (Len(channel) <= Capacity)
      BY <1>4, <1>5
    <3>. QED BY <3>1, <3>2, <2>1, <1>1, <1>2 DEF BusInv, ReceiveInv
  <2>3. BusTypes'
    BY <2>1, <1>1, <1>2 DEF BusInv, BusTypes
  <2>. QED BY <2>2, <2>3, <1>3 DEF BusInv
<1>6. CASE Len(channel) - seen <= Capacity
  <2>. DEFINE e == channel[seen + 1]
  <2>1. seen' = seen + 1 /\ received' = Append(received, e) /\ seen + 1 \in DOMAIN channel /\ e \in Sent
    BY <1>2, <1>4, <1>6
  <2>2. ASSUME NEW j \in DOMAIN received, received[j].by = e.by PROVE received[j].n < e.n
    <3>1. PICK k \in 1..seen : received[j] = channel[k]
      BY <1>1 DEF BusInv, ReceiveInv
    <3>2. k \in DOMAIN channel /\ k < seen + 1
      BY <3>1, <1>4
    <3>. QED BY <3>1, <3>2, <2>1, <2>2, <1>1 DEF BusInv, ChannelInv, InOrder
  <2>. HIDE DEF e
  <2>3. /\ InOrder(Append(received, e)) /\ Append(received, e) \in Seq(Sent) /\ Len(Append(received, e)) = Len(received) + 1
        /\ {Append(received, e)[i] : i \in DOMAIN Append(received, e)} = {received[i] : i \in DOMAIN received} \union {e}
    BY <2>1, <2>2, <1>1, <1>4, InOrderAppend DEF BusInv, ReceiveInv
  <2>4. ASSUME NEW j \in DOMAIN received' PROVE \E k \in 1..seen' : received'[j] = channel[k]
    <3>1. received'[j] \in {received[i] : i \in DOMAIN received} \union {e}
      BY <2>1, <2>3
    <3>2. 1..seen \subseteq 1..seen' /\ seen + 1 \in 1..seen'
      BY <2>1, <1>4
    <3>. QED BY <3>1, <3>2, <1>1 DEF BusInv, ReceiveInv, e
  <2>5. Len(channel) <= Capacity => Len(received') = seen'
    BY <2>1, <2>3, <1>1 DEF BusInv, ReceiveInv
  <2>6. ReceiveInv'
    BY <2>1, <2>3, <2>4, <2>5, <1>2 DEF ReceiveInv
  <2>7. BusTypes'
    BY <2>1, <2>3, <1>1, <1>2, <1>4 DEF BusInv, BusTypes
  <2>. QED BY <2>6, <2>7, <1>3 DEF BusInv
<1>. QED BY <1>4, <1>5, <1>6

LEMMA BusKeeps == BusInv /\ [BusNext]_busVars => BusInv'
<1>1. BusInv /\ UNCHANGED busVars => BusInv'
  <2>1. SUFFICES ASSUME BusInv, UNCHANGED busVars PROVE BusInv'
    OBVIOUS
  <2>2. BusTypes' /\ ReceiveInv'
    BY <2>1 DEF busVars, BusInv, BusTypes, ReceiveInv
  <2>3. EmittedOnce' /\ ChannelInv' /\ CallsInv'
    BY <2>1, BusRests DEF busVars
  <2>. QED BY <2>2, <2>3 DEF BusInv
<1>. QED BY <1>1, RegisterInv, EmitInv, SendInv, CallHandlerInv, EmitReturnsInv, ReceiveKeeps DEF BusNext, BusStep

\* In a sequence in order an event is at most once.
LEMMA AtMostOnce ==
  ASSUME NEW s \in Seq(Sent), InOrder(s), NEW e
  PROVE  /\ e \in {s[i] : i \in DOMAIN s} => Cardinality(Position(s, e)) = 1
         /\ e \notin {s[i] : i \in DOMAIN s} => Cardinality(Position(s, e)) = 0
<1>1. e \notin {s[i] : i \in DOMAIN s} => Position(s, e) = {}
  BY DEF Position
<1>2. ASSUME NEW i \in DOMAIN s, s[i] = e PROVE Position(s, e) = {i}
  <2>1. ASSUME NEW j \in DOMAIN s, s[j] = e PROVE j = i
    <3>1. s[i] \in Sent /\ i \in Nat /\ j \in Nat
      OBVIOUS
    <3>4. s[i].n \in Nat
      BY <3>1 DEF Sent
    <3>2. ~ (i < j) /\ ~ (j < i)
      BY <3>1, <3>4, <1>2, <2>1 DEF InOrder
    <3>. QED BY <3>1, <3>2
  <2>. QED BY <2>1, <1>2 DEF Position
<1>3. \A i : Cardinality({i}) = 1
  BY FS_Singleton
<1>4. Cardinality({}) = 0
  BY FS_EmptySet
<1>. QED BY <1>1, <1>2, <1>3, <1>4

LEMMA BusDelivers == BusInv => EventsDelivered
<1>1. SUFFICES ASSUME BusInv PROVE EventsDelivered
  OBVIOUS
<1>2. \A h \in Handlers : handled[h] \in Seq(Sent) /\ InOrder(handled[h])
  BY <1>1 DEF BusInv, BusTypes, CallsInv
<1>3. ASSUME NEW i \in DOMAIN channel, step[channel[i].by] = "idle", NEW h \in Handlers
      PROVE  Cardinality(Position(handled[h], channel[i]))
                = IF h \in registered /\ channel[i].is \in Interested[h] THEN 1 ELSE 0
  <2>1. channel[i] \in OnChannel /\ Pending(channel[i]) = {}
    BY <1>3 DEF OnChannel, Pending
  <2>2. channel[i] \in CalledWith(h) <=> h \in registered /\ channel[i].is \in Interested[h]
    BY <2>1, <1>1 DEF BusInv, CallsInv, Due
  <2>3. /\ channel[i] \in CalledWith(h) => Cardinality(Position(handled[h], channel[i])) = 1
        /\ channel[i] \notin CalledWith(h) => Cardinality(Position(handled[h], channel[i])) = 0
    BY <1>2, AtMostOnce DEF CalledWith
  <2>. QED BY <2>2, <2>3
<1>4. ASSUME NEW i \in DOMAIN handled["logging"], "metrics" \in registered,
             handled["logging"][i].is \in Interested["metrics"]
      PROVE  Position(handled["metrics"], handled["logging"][i]) # {}
  <2>1. PICK e : e = handled["logging"][i]
    OBVIOUS
  <2>2. e \in CalledWith("logging") /\ e \in OnChannel /\ "logging" \in Handlers /\ "metrics" \in Handlers
    BY <2>1, <1>1, HandlerFacts DEF CalledWith, BusInv, CallsInv
  <2>3. "logging" \in Due(e) \ Pending(e) /\ "metrics" \in Due(e)
    BY <2>1, <2>2, <1>1, <1>4 DEF BusInv, CallsInv, Due
  <2>4. "metrics" \notin Pending(e)
    <3>1. SUFFICES ASSUME step[e.by] = "handle", e.n = sent[e.by], "metrics" \in left[e.by], "logging" \notin left[e.by]
                   PROVE  FALSE
      BY <2>3 DEF Pending
    <3>2. e.by \in Emitters
      BY <2>2, <1>1, ChannelEvents DEF BusInv
    <3>3. Emitted(e.by) \in OnChannel
      BY <3>1, <3>2, <1>1 DEF BusInv, ChannelInv
    <3>4. Emitted(e.by).is = e.is
      <4>1. PICK j \in DOMAIN channel, k \in DOMAIN channel : channel[j] = e /\ channel[k] = Emitted(e.by)
        BY <2>2, <3>3 DEF OnChannel
      <4>2. channel[j].by = channel[k].by /\ channel[j].n = channel[k].n /\ channel[j].n \in Nat /\ j \in Nat /\ k \in Nat
        BY <4>1, <3>1, <2>2, <1>1, ChannelEvents DEF Emitted, BusInv, BusTypes
      <4>3. ~ (j < k) /\ ~ (k < j)
        BY <4>2, <1>1 DEF BusInv, ChannelInv, InOrder
      <4>. QED BY <4>1, <4>2, <4>3
    <3>5. "logging" \in Due(Emitted(e.by))
      BY <3>4, <2>3 DEF Due
    <3>. QED BY <3>1, <3>2, <3>5, <1>1 DEF BusInv, CallsInv
  <2>5. e \in CalledWith("metrics")
    BY <2>2, <2>3, <2>4, <1>1 DEF BusInv, CallsInv
  <2>. QED BY <2>1, <2>5 DEF CalledWith, Position
<1>5. HandledOnce
  BY <1>3 DEF HandledOnce
<1>6. Ordered
  BY <1>1, <1>2, <1>4 DEF Ordered, BusInv, ReceiveInv
<1>. QED BY <1>1, <1>5, <1>6 DEF EventsDelivered, BusInv

\* However many tasks emit at the same time, whichever handlers are
\* registered and however small the channel: every event is counted and sent
\* once, and when its emit returns each interested handler was called with it
\* exactly once; handlers and subscriber see an emitter's events in order.
THEOREM EventsArrive == BusSpec => []EventsDelivered
<1>1. BusInit => BusInv
  BY BusStarts
<1>2. BusInv /\ [BusNext]_busVars => BusInv'
  BY BusKeeps
<1>3. BusInv => EventsDelivered
  BY BusDelivers
<1>. QED BY <1>1, <1>2, <1>3, PTL DEF BusSpec


-----------------------------------------------------------------------------
(* The four services together, and what is said of the constants.            *)

ServicesSpec == MCInit /\ [][MCNext]_servicesVars

\* Only the service the part names has moved.
ServicesInv ==
  /\ part = "chain" => ChainInv
  /\ part = "recovery" => RecoveryInv
  /\ part = "process" => ProcInv
  /\ part = "bus" => BusInv

\* The recovery actions answer "Recovered" only when what they repair is whole.
LEMMA ActionsTellTheTruth == ActionsTruthful
<1>1. ASSUME NEW params \in SUBSET {"repository_url", "local_path"}, NEW git \in Tools
      PROVE  LET r == Reclone(params, git) IN (r.result = "Recovered") <=> (r.copy = "new")
  BY DEF Reclone, Tools
<1>2. ASSUME NEW language \in {"python", "node", "rust", "cobol"}, NEW deps \in {{}, {"d"}},
             NEW tool \in Tools, NEW installer \in Tools,
             InstallEnvironment(language, deps, tool, installer) = "Recovered"
      PROVE  language # "cobol" /\ tool # "absent" /\ (deps # {} => installer = "good")
  <2>1. CASE language = "python"
    BY <1>2, <2>1 DEF InstallEnvironment, InstallPython, Tools
  <2>2. CASE language = "node"
    BY <1>2, <2>2 DEF InstallEnvironment, InstallNode, Tools
  <2>3. CASE language = "rust"
    BY <1>2, <2>3 DEF InstallEnvironment, InstallRust, Tools
  <2>4. CASE language = "cobol"
    BY <1>2, <2>4 DEF InstallEnvironment
  <2>. QED BY <2>1, <2>2, <2>3, <2>4
<1>3. \A chmod \in Tools : FixFilePermissions({}, chmod) = "Failed"
  BY DEF FixFilePermissions
<1>4. \A tool \in Tools \ {"good"} :
        CheckNetworkConnectivity(tool) = "Failed" /\ FixFilePermissions({"file_path"}, tool) = "Failed"
  BY DEF CheckNetworkConnectivity, FixFilePermissions
<1>. QED BY <1>1, <1>2, <1>3, <1>4 DEF ActionsTruthful

\* What SetVar, RemoveVar and AddToPath make of a set of variables.
LEMMA Variables ==
  ASSUME NEW D, NEW V, NEW env \in [D -> V], NEW key, NEW value
  PROVE  /\ DOMAIN SetVar(env, key, value) = D \cup {key}
         /\ SetVar(env, key, value)[key] = value
         /\ \A k \in D \ {key} : SetVar(env, key, value)[k] = env[k]
         /\ DOMAIN RemoveVar(env, key) = D \ {key}
         /\ \A k \in D \ {key} : RemoveVar(env, key)[k] = env[k]
BY DEF SetVar, RemoveVar

\* The directory added last to PATH is found first; a variable that was
\* removed is seen only when it is inherited.
LEMMA EnvironmentIsInOrder == EnvironmentOrder
<1>1. SUFFICES ASSUME NEW inherit \in BOOLEAN, NEW system \in [{"PATH", "HOME"} -> {<<"usr">>}]
               PROVE  LET own == AddToPath(AddToPath(SetVar(<<>>, "HOME", <<"tmp">>), "a"), "b")
                          env == ChildEnvironment(inherit, system, RemoveVar(own, "HOME"))
                      IN /\ env["PATH"] = <<"b", "a">>
                         /\ ("HOME" \in DOMAIN env) <=> inherit
  BY DEF EnvironmentOrder
<1>. DEFINE home == SetVar(<<>>, "HOME", <<"tmp">>)
            once == AddToPath(home, "a")
            own == AddToPath(once, "b")
            kept == RemoveVar(own, "HOME")
            env == ChildEnvironment(inherit, system, kept)
<1>2. home = [k \in {"HOME"} |-> <<"tmp">>]
  BY DEF SetVar
<1>3. once = [k \in {"HOME", "PATH"} |-> IF k = "PATH" THEN <<"a">> ELSE <<"tmp">>]
  <2>1. once = SetVar(home, "PATH", <<"a">>)
    BY <1>2 DEF AddToPath
  <2>. QED BY <2>1, <1>2 DEF SetVar
<1>4. own = [k \in {"HOME", "PATH"} |-> IF k = "PATH" THEN <<"b", "a">> ELSE <<"tmp">>]
  <2>1. <<"b">> \o once["PATH"] = <<"b", "a">>
    <3>1. once["PATH"] = <<"a">>
      BY <1>3
    <3>2. <<"b">> \o <<"a">> = <<"b", "a">>
      <4>1. /\ <<"b">> \in Seq({"a", "b"}) /\ <<"a">> \in Seq({"a", "b"}) /\ <<"b", "a">> \in Seq({"a", "b"})
            /\ Len(<<"b">>) = 1 /\ Len(<<"a">>) = 1 /\ Len(<<"b", "a">>) = 2
        OBVIOUS
      <4>2. /\ <<"b">> \o <<"a">> \in Seq({"a", "b"}) /\ Len(<<"b">> \o <<"a">>) = 2
            /\ \A i \in 1..2 : (<<"b">> \o <<"a">>)[i] = <<"b", "a">>[i]
        <5>1. (<<"b">> \o <<"a">>)[1] = "b" /\ (<<"b">> \o <<"a">>)[2] = "a"
          BY <4>1, ConcatProperties
        <5>. QED BY <5>1, <4>1, ConcatProperties
      <4>. QED BY <4>1, <4>2, SeqEqual
    <3>. QED BY <3>1, <3>2
  <2>2. own = SetVar(once, "PATH", <<"b", "a">>)
    BY <2>1, <1>3 DEF AddToPath
  <2>. QED BY <2>2, <1>3 DEF SetVar
<1>5. kept = [k \in {"PATH"} |-> <<"b", "a">>]
  BY <1>4 DEF RemoveVar
<1>6. env = [k \in {"PATH"} \cup (IF inherit THEN {"PATH", "HOME"} ELSE {}) |->
               IF k = "PATH" THEN <<"b", "a">> ELSE system[k]]
  BY <1>5 DEF ChildEnvironment
<1>7. env["PATH"] = <<"b", "a">> /\ (("HOME" \in DOMAIN env) <=> inherit)
  BY <1>6
<1>. QED BY <1>7

\* The metrics handler adds something for exactly the event types it asks for,
\* and a filter with less in it lets no less through.
LEMMA MetricsFollowFilters == MetricsAndFilters
<1>1. ASSUME NEW e \in EventTypes PROVE e \in Interested["metrics"] <=> MetricsOf(e) # {}
  BY DEF EventTypes, Interested, MetricsOf
<1>2. \A type \in EventTypes, hook \in {"h1", "h2", "none"}, d \in 0..1, types \in SUBSET EmittedTypes,
         hooks \in SUBSET {"h1", "h2"}, min \in {<<>>, <<1>>}, st \in {<<>>, <<"manual">>} :
         LET e == [type |-> type, hook |-> hook, stage |-> "pre-commit", duration |-> d]
             f == [types |-> types, hooks |-> hooks, min |-> min, stage |-> st]
         IN ShouldEmit(f, e) =>
               /\ ShouldEmit([f EXCEPT !.types = {}], e) /\ ShouldEmit([f EXCEPT !.min = <<>>], e)
               /\ hooks # {} => hook # "none"
  BY DEF ShouldEmit
<1>. QED BY <1>1, <1>2 DEF MetricsAndFilters

\* The services around the hooks are sound, whatever the chain, however many
\* tasks fail, processes run and events are emitted: plans and order of hook
\* chains, the books and the answers of the recovery engine, the permits,
\* results and environments of the process manager, and the bus's delivery.
THEOREM ServicesAreSound == ServicesSpec => []ServicesSound
<1>1. MCInit => ServicesInv
  BY ChainStarts, RecoveryStarts, ProcStarts, BusStarts DEF MCInit, ServicesInv
<1>2. ServicesInv /\ [MCNext]_servicesVars => ServicesInv'
  <2>1. SUFFICES ASSUME ServicesInv, [MCNext]_servicesVars PROVE ServicesInv'
    OBVIOUS
  <2>2. part' = part
    BY <2>1 DEF MCNext, servicesVars
  <2>3. part = "chain" => [ChainNext]_chainVars
    BY <2>1 DEF MCNext, servicesVars
  <2>4. part = "recovery" => [RecoveryNext]_recoveryVars
    BY <2>1 DEF MCNext, servicesVars
  <2>5. part = "process" => [ProcNext]_procVars
    BY <2>1 DEF MCNext, servicesVars
  <2>6. part = "bus" => [BusNext]_busVars
    BY <2>1 DEF MCNext, servicesVars
  <2>. QED BY <2>1, <2>2, <2>3, <2>4, <2>5, <2>6, ChainStep, RecoveryKeeps, ProcKeeps, BusKeeps DEF ServicesInv
<1>3. ServicesInv => ServicesSound
  BY ChainInvImplies, RecoveryBooks, ProcServes, BusDelivers, ActionsTellTheTruth, EnvironmentIsInOrder, MetricsFollowFilters
  DEF ServicesInv, ServicesSound, ChainSound, RecoverySound, ProcessesSound, BusSound
<1>. QED BY <1>1, <1>2, <1>3, PTL DEF ServicesSpec

=============================================================================
