---------------------------- MODULE TaskGroupProofs ---------------------------
(***************************************************************************)
(* Proofs about TaskGroup, for any number of URLs, any --parallel-max and  *)
(* any number of retries.                                                  *)
(***************************************************************************)
EXTENDS TaskGroup, FiniteSetTheorems, TLAPS

(***************************************************************************)
(* The inductive invariant.                                                *)
(***************************************************************************)

\* The group's size, on which the decision to admit is taken, is bounded.
Bounded == Cardinality(css) <= ParallelMax

\* Tasks are created in order, each of them once.
InOrder ==
    /\ \A r \in Tasks : task[r] = "none" <=> r >= next
    /\ mpc \in {"adapt_queued", "adapt_wait"} => next <= N

\* Every attempt but the first has been paid for with a retry.
Budget ==
    \A r \in Tasks :
        attempts[r] + retries[r] <=
            ReqRetry + (IF task[r] \in {"attempt", "returned", "threw"} THEN 1 ELSE 0)

\* A task that has been cancelled, and a loop that was left before its end, have
\* a signal or an early failure to show for it.
Reasons ==
    /\ mainCancelled => signalled
    /\ \A r \in Tasks : cancelled[r] => signalled \/ max = 0
    /\ mpc \in {"join_queued", "join_wait", "done"} => next > N \/ signalled \/ max = 0
    /\ \A r \in Tasks :
        /\ task[r] \in {"attempt", "delay"} => attempts[r] > 0
        /\ task[r] \in {"returned", "threw"} => attempts[r] > 0 \/ cancelled[r]

IInv ==
    /\ TypeOK
    /\ GroupIsExact
    /\ Bounded
    /\ InOrder
    /\ Budget
    /\ NoLostWakeup
    /\ JoinedAtExit
    /\ Reasons

-------------------------------------------------------------------------------

\* css is finite, so that its cardinality behaves as a number of elements.
LEMMA GroupFinite ==
    ASSUME TypeOK
    PROVE  IsFiniteSet(css) /\ Cardinality(css) \in Nat
<1>1. IsFiniteSet(Tasks)
  BY CountsAssumption, FS_Interval DEF Tasks
<1>2. QED
  BY <1>1, FS_Subset, FS_CardinalityType DEF TypeOK

\* What a wake-up does to co_main's state: it is in no wait afterwards, and it
\* is in the operation it was in before.
LEMMA WokenFacts ==
    ASSUME NEW p \in MainPC
    PROVE  /\ Woken(p) \in MainPC \ {"adapt_wait", "join_wait"}
           /\ Woken(p) = "done" <=> p = "done"
           /\ Woken(p) = "adapt_queued" => p \in {"adapt_queued", "adapt_wait"}
           /\ Woken(p) = "join_queued" => p \in {"join_queued", "join_wait"}
BY DEF Woken, MainPC

\* What initiating an operation of the group leads to.
LEMMA InitiatedFacts ==
    ASSUME NEW n, NEW group
    PROVE  /\ Initiated(n, group) \in MainPC \ {"start", "done"}
           /\ Initiated(n, group) \in {"adapt_queued", "adapt_wait"} <=> n <= N
           /\ Initiated(n, group) = "adapt_wait" => MustWait(group)
           /\ Initiated(n, group) = "join_wait" => group # {}
BY DEF Initiated, MainPC

\* The invariant holds initially.
LEMMA InitInvariant == Init => IInv
<1> SUFFICES ASSUME Init PROVE IInv
  OBVIOUS
<1>1. TypeOK
  <2>1. cancelled \in [Tasks -> BOOLEAN] /\ {signalled, mainCancelled, ep} \subseteq BOOLEAN
    BY Zenon DEF Init
  <2>2. QED
    BY <2>1, CountsAssumption DEF Init, TypeOK, MainPC, TaskPC, Tasks
<1>2. GroupIsExact /\ InOrder /\ Budget /\ NoLostWakeup /\ JoinedAtExit /\ Reasons
  BY CountsAssumption DEF Init, GroupIsExact, Running, InOrder, Budget, NoLostWakeup,
     JoinedAtExit, Reasons, Tasks
<1>3. Bounded
  BY CountsAssumption, FS_EmptySet DEF Init, Bounded
<1>4. QED
  BY <1>1, <1>2, <1>3 DEF IInv

\* A task that runs may end, with or without an exception, provided that it made
\* an attempt or was cancelled: the step that closes, emits, removes and wakes.
LEMMA CompleteInvariant ==
    ASSUME IInv, NEW r \in Running, NEW threw \in BOOLEAN, Complete(r, threw),
           attempts[r] > 0 \/ cancelled[r]
    PROVE  IInv'
<1> USE DEF IInv
<1>0. r \in Tasks /\ r \in css
  BY DEF Running, GroupIsExact
<1>1. mpc' = Woken(mpc) /\ mpc \in MainPC /\ css' = css \ {r}
  BY DEF Complete, Remove, TypeOK
<1>2. /\ max' \in {0, max}
      /\ \A q \in Tasks : cancelled'[q] => cancelled[q] \/ max' = 0
      /\ \A q \in Tasks : cancelled[q] => cancelled'[q]
      /\ cancelled' \in [Tasks -> BOOLEAN]
  BY DEF Complete, OnCompletion, Emit, TypeOK
<1>3. TypeOK'
  BY <1>0, <1>1, <1>2, WokenFacts DEF Complete, TypeOK, TaskPC
<1>4. GroupIsExact'
  BY <1>0, <1>1 DEF Complete, GroupIsExact, Running, TypeOK
<1>5. Bounded'
  <2>1. IsFiniteSet(css) /\ Cardinality(css) \in Nat
    BY GroupFinite
  <2>2. Cardinality(css \ {r}) = Cardinality(css) - 1
    BY <2>1, <1>0, FS_RemoveElement
  <2>3. QED
    BY <1>1, <2>1, <2>2, CountsAssumption DEF Bounded
<1>6. InOrder'
  <2>1. \A q \in Tasks : task'[q] = "none" <=> task[q] = "none"
    BY <1>0 DEF Complete, TypeOK, Running
  <2>2. QED
    BY <2>1, <1>1, WokenFacts DEF InOrder, Complete
<1>7. Budget'
  BY <1>0, CountsAssumption DEF Complete, Budget, TypeOK, Running
<1>8. NoLostWakeup'
  BY <1>1, WokenFacts DEF NoLostWakeup
<1>9. JoinedAtExit'
  BY <1>1, <1>4, WokenFacts DEF JoinedAtExit, GroupIsExact
<1>10. Reasons'
  <2>1. max = 0 => max' = 0
    BY <1>2
  <2>2. /\ (mainCancelled => signalled)'
        /\ (mpc \in {"join_queued", "join_wait", "done"} => next > N \/ signalled \/ max = 0)'
    BY <1>1, <2>1, WokenFacts DEF Reasons, Complete
  <2>3. \A q \in Tasks : cancelled'[q] => signalled' \/ max' = 0
    BY <1>2, <2>1 DEF Reasons, Complete
  <2>4. ASSUME NEW q \in Tasks
        PROVE  /\ task'[q] \in {"attempt", "delay"} => attempts'[q] > 0
               /\ task'[q] \in {"returned", "threw"} => attempts'[q] > 0 \/ cancelled'[q]
    BY <1>0, <1>2 DEF Reasons, Complete, TypeOK
  <2>5. QED
    BY <2>2, <2>3, <2>4 DEF Reasons
<1>11. QED
  BY <1>3, <1>4, <1>5, <1>6, <1>7, <1>8, <1>9, <1>10

\* The other way for a task's coroutine to go on: it stays in the group.
LEMMA BeginInvariant ==
    ASSUME IInv, NEW r \in Tasks, task[r] \in {"spawned", "delay"}, ~ cancelled[r],
           task' = [task EXCEPT ![r] = "attempt"],
           attempts' = [attempts EXCEPT ![r] = @ + 1],
           UNCHANGED <<mainVars, max, css, retries, cancelled>>
    PROVE  IInv'
<1> USE DEF IInv, mainVars
<1>1. TypeOK'
  BY DEF TypeOK, TaskPC
<1>2. GroupIsExact' /\ Running' = Running
  BY DEF GroupIsExact, Running, TypeOK
<1>3. Bounded' /\ NoLostWakeup' /\ JoinedAtExit'
  BY <1>2 DEF Bounded, NoLostWakeup, MustWait, JoinedAtExit
<1>4. InOrder'
  BY DEF InOrder, TypeOK
<1>5. Budget'
  BY CountsAssumption DEF Budget, TypeOK
<1>6. Reasons'
  BY DEF Reasons, TypeOK
<1>7. QED
  BY <1>1, <1>2, <1>3, <1>4, <1>5, <1>6

\* BeginAttempt preserves the invariant, whichever of the two it does.
LEMMA BeginAttemptInvariant ==
    ASSUME IInv, NEW r \in Tasks, NEW inTime \in BOOLEAN,
           task[r] \in {"spawned", "delay"}, BeginAttempt(r, inTime)
    PROVE  IInv'
<1>1. CASE cancelled[r]
  <2>1. r \in Running
    BY DEF Running
  <2>2. Complete(r, ~ CanRetry(r, "aborted", inTime))
    BY <1>1 DEF BeginAttempt
  <2>3. (~ CanRetry(r, "aborted", inTime)) \in BOOLEAN
    OBVIOUS
  <2>4. QED
    BY <1>1, <2>1, <2>2, <2>3, CompleteInvariant
<1>2. CASE ~ cancelled[r]
  BY <1>2, BeginInvariant DEF BeginAttempt
<1>3. QED
  BY <1>1, <1>2

\* Steps of co_main that leave the tasks alone but for passing a cancellation on.
LEMMA MainInvariant ==
    ASSUME IInv, PassOnCancellation, ep' \in BOOLEAN,
           UNCHANGED <<next, signalled, max, css, task, retries, attempts>>,
           mpc' \in MainPC,
           mpc' \in {"adapt_queued", "adapt_wait"} => next <= N,
           mpc' = "adapt_wait" => MustWait(css),
           mpc' = "join_wait" => css # {},
           mpc' = "done" => css = {},
           mpc' \in {"join_queued", "join_wait", "done"} => next > N \/ signalled \/ max = 0
    PROVE  IInv'
<1> USE DEF IInv
<1>1. /\ cancelled' \in [Tasks -> BOOLEAN]
      /\ \A q \in Tasks : cancelled[q] => cancelled'[q]
      /\ \A q \in Tasks : cancelled'[q] => cancelled[q] \/ signalled
      /\ mainCancelled' = FALSE
  BY DEF PassOnCancellation, Emit, TypeOK, Reasons
<1>2. TypeOK'
  BY <1>1 DEF TypeOK
<1>3. GroupIsExact' /\ Bounded' /\ Budget' /\ InOrder' /\ Running' = Running
  BY DEF GroupIsExact, Bounded, Budget, InOrder, Running
<1>4. NoLostWakeup' /\ JoinedAtExit'
  BY <1>1, <1>3 DEF NoLostWakeup, MustWait, JoinedAtExit, GroupIsExact
<1>5. Reasons'
  BY <1>1 DEF Reasons
<1>6. QED
  BY <1>2, <1>3, <1>4, <1>5

\* The step that takes a place in the group.
LEMMA AdmitInvariant ==
    ASSUME IInv, AdaptProceeds
    PROVE  IInv'
<1> USE DEF IInv
<1>0. /\ mpc = "adapt_queued" /\ ~ mainCancelled /\ max = ParallelMax /\ max # 0
      /\ next \in Tasks /\ next <= N
      /\ UNCHANGED <<signalled, mainCancelled, ep, max, retries, attempts, cancelled>>
  BY CountsAssumption DEF AdaptProceeds, UnlessCancelledOrClosed, TypeOK, InOrder, Tasks
<1>1. CASE MustWait(css)
  <2>1. mpc' = "adapt_wait" /\ UNCHANGED <<css, task, next>>
    BY <1>1 DEF AdaptProceeds
  <2>2. TypeOK'
    BY <1>0, <2>1 DEF TypeOK, MainPC
  <2>3. GroupIsExact' /\ Bounded' /\ Budget' /\ InOrder'
    BY <1>0, <2>1 DEF GroupIsExact, Bounded, Budget, InOrder, Running
  <2>4. NoLostWakeup' /\ JoinedAtExit' /\ Reasons'
    BY <1>0, <1>1, <2>1 DEF NoLostWakeup, MustWait, JoinedAtExit, Reasons
  <2>5. QED
    BY <2>2, <2>3, <2>4
<1>2. CASE ~ MustWait(css)
  <2>1. /\ css' = css \cup {next}
        /\ task' = [task EXCEPT ![next] = "spawned"]
        /\ next' = next + 1
        /\ mpc' = Initiated(next + 1, css')
    BY <1>2 DEF AdaptProceeds
  <2>2. task[next] = "none" /\ next \notin css
    BY <1>0, CountsAssumption DEF InOrder, GroupIsExact, Running, TypeOK
  <2>3. TypeOK'
    BY <1>0, <2>1, InitiatedFacts, CountsAssumption DEF TypeOK, TaskPC, Tasks
  <2>4. GroupIsExact'
    BY <1>0, <2>1 DEF GroupIsExact, Running, TypeOK
  <2>5. Bounded'
    <3>1. IsFiniteSet(css) /\ Cardinality(css) \in Nat
      BY GroupFinite
    <3>2. Cardinality(css \cup {next}) = Cardinality(css) + 1
      BY <3>1, <2>2, FS_AddElement
    <3>3. Cardinality(css) < max
      BY <3>1, <1>0, <1>2, CountsAssumption DEF MustWait
    <3>4. QED
      BY <3>1, <3>2, <3>3, <1>0, <2>1, CountsAssumption DEF Bounded
  <2>6. InOrder'
    <3>1. \A r \in Tasks : task'[r] = "none" <=> r >= next'
      BY <1>0, <2>1, CountsAssumption DEF InOrder, TypeOK, Tasks
    <3>2. QED
      BY <3>1, <2>1, InitiatedFacts DEF InOrder
  <2>7. Budget'
    BY <1>0, <2>1, <2>2, CountsAssumption DEF Budget, TypeOK
  <2>8. NoLostWakeup' /\ JoinedAtExit'
    BY <1>0, <2>1, InitiatedFacts DEF NoLostWakeup, MustWait, JoinedAtExit
  <2>9. Reasons'
    <3>1. mpc' \in {"join_queued", "join_wait", "done"} => next' > N
      BY <1>0, <2>1, InitiatedFacts, CountsAssumption DEF TypeOK
    <3>2. QED
      BY <3>1, <1>0, <2>1 DEF Reasons, TypeOK
  <2>10. QED
    BY <2>3, <2>4, <2>5, <2>6, <2>7, <2>8, <2>9
<1>3. QED
  BY <1>1, <1>2

\* Every step preserves the invariant.
LEMMA NextInvariant == IInv /\ [Next]_vars => IInv'
<1> SUFFICES ASSUME IInv, [Next]_vars PROVE IInv'
  OBVIOUS
<1>1. ASSUME NEW r \in Tasks, NEW inTime \in BOOLEAN, TaskStart(r, inTime) PROVE IInv'
  BY <1>1, BeginAttemptInvariant DEF TaskStart
<1>2. ASSUME NEW r \in Tasks, NEW inTime \in BOOLEAN, DelayOver(r, inTime) PROVE IInv'
  BY <1>2, BeginAttemptInvariant DEF DelayOver
<1>3. ASSUME NEW r \in Tasks, DelayCancelled(r) PROVE IInv'
  <2>1. r \in Running /\ cancelled[r] /\ Complete(r, TRUE)
    BY <1>3 DEF DelayCancelled, Running
  <2>2. QED
    BY <2>1, CompleteInvariant
<1>4. ASSUME NEW r \in Tasks, NEW outcome \in Outcome, NEW inTime \in BOOLEAN,
             AttemptFinal(r, outcome, inTime)
      PROVE  IInv'
  <2>1. r \in Running /\ attempts[r] > 0
    BY <1>4 DEF AttemptFinal, Running, IInv, Reasons
  <2>2. Complete(r, outcome \notin {"final", "tty", "transient"})
    BY <1>4 DEF AttemptFinal
  <2>3. (outcome \notin {"final", "tty", "transient"}) \in BOOLEAN
    OBVIOUS
  <2>4. QED
    BY <2>1, <2>2, <2>3, CompleteInvariant
<1>5. ASSUME NEW r \in Tasks, NEW outcome \in Outcome, NEW inTime \in BOOLEAN,
             AttemptRetry(r, outcome, inTime)
      PROVE  IInv'
  <2>1. r \in Running /\ attempts[r] > 0 /\ task[r] = "attempt"
    BY <1>5 DEF AttemptRetry, Running, IInv, Reasons
  <2>2. CASE cancelled[r]
    BY <2>1, <2>2, <1>5, CompleteInvariant DEF AttemptRetry
  <2>3. CASE ~ cancelled[r]
    <3> USE DEF IInv, mainVars
    <3>1. /\ task' = [task EXCEPT ![r] = "delay"]
          /\ retries' = [retries EXCEPT ![r] = @ - 1]
          /\ UNCHANGED <<mainVars, max, css, attempts, cancelled>>
          /\ retries[r] # 0
      BY <2>3, <1>5 DEF AttemptRetry, CountRetry, CanRetry
    <3>2. TypeOK'
      BY <3>1, CountsAssumption DEF TypeOK, TaskPC
    <3>3. GroupIsExact' /\ Running' = Running
      BY <2>1, <3>1 DEF GroupIsExact, Running, TypeOK
    <3>4. Bounded' /\ NoLostWakeup' /\ JoinedAtExit'
      BY <3>1, <3>3 DEF Bounded, NoLostWakeup, MustWait, JoinedAtExit
    <3>5. InOrder'
      BY <2>1, <3>1 DEF InOrder, TypeOK
    <3>6. Budget'
      BY <2>1, <3>1, CountsAssumption DEF Budget, TypeOK
    <3>7. Reasons'
      BY <2>1, <3>1 DEF Reasons, TypeOK
    <3>8. QED
      BY <3>2, <3>3, <3>4, <3>5, <3>6, <3>7
  <2>4. QED
    BY <2>2, <2>3
<1>6. CASE MainStart
  <2>1. mpc' \in MainPC \ {"start", "done", "adapt_wait", "join_wait"} \/ mpc' = Initiated(next, css)
    BY <1>6 DEF MainStart, MainPC
  <2>2. ep' \in BOOLEAN
    BY <1>6 DEF MainStart
  <2>3. /\ mpc' \in {"adapt_queued", "adapt_wait"} => next <= N
        /\ mpc' = "adapt_wait" => MustWait(css)
        /\ mpc' = "join_wait" => css # {}
        /\ mpc' \in MainPC \ {"start", "done"}
        /\ mpc' \in {"join_queued", "join_wait"} => next > N \/ signalled
    <3>1. next \in Int /\ N \in Int /\ (mainCancelled => signalled)
      BY CountsAssumption DEF IInv, TypeOK, Reasons
    <3>2. CASE mainCancelled
      BY <3>1, <3>2, <1>6 DEF MainStart, MainPC
    <3>3. CASE ~ mainCancelled
      BY <3>1, <3>3, <1>6, InitiatedFacts DEF MainStart, MainPC
    <3>4. QED
      BY <3>2, <3>3
  <2>4. PassOnCancellation /\ UNCHANGED <<next, signalled, max, css, task, retries, attempts>>
    BY <1>6 DEF MainStart
  <2>5. QED
    BY <2>2, <2>3, <2>4, MainInvariant
<1>7. CASE AdaptFails
  <2>1. mpc' = "join_queued"
    BY <1>7 DEF AdaptFails, JoinWithSuperfluousSignal, Woken
  <2>2. signalled \/ max = 0
    BY <1>7 DEF AdaptFails, IInv, Reasons
  <2>3. PassOnCancellation /\ UNCHANGED <<next, signalled, max, css, task, retries, attempts>>
        /\ ep' \in BOOLEAN
    BY <1>7 DEF AdaptFails, IInv, TypeOK
  <2>4. QED
    BY <2>1, <2>2, <2>3, MainInvariant DEF MainPC
<1>8. CASE AdaptProceeds
  BY <1>8, AdmitInvariant
<1>9. CASE JoinResumes
  <2>1. mpc' = IF css # {} THEN "join_wait" ELSE "done"
    BY <1>9 DEF JoinResumes, JoinState
  <2>2. next > N \/ signalled \/ max = 0
    BY <1>9 DEF JoinResumes, IInv, Reasons
  <2>3. PassOnCancellation /\ UNCHANGED <<next, signalled, max, css, task, retries, attempts>>
        /\ ep' \in BOOLEAN
    BY <1>9 DEF JoinResumes, IInv, TypeOK
  <2>4. QED
    BY <2>1, <2>2, <2>3, MainInvariant DEF MainPC
<1>10. CASE Signal
  <2> USE DEF IInv
  <2>1. /\ mpc' = Woken(mpc) /\ mpc \in MainPC
        /\ signalled' = TRUE /\ mainCancelled' = TRUE
        /\ UNCHANGED <<next, ep, max, css, task, retries, attempts, cancelled>>
    BY <1>10 DEF Signal, TypeOK
  <2>2. TypeOK'
    BY <2>1, WokenFacts DEF TypeOK
  <2>3. GroupIsExact' /\ Bounded' /\ Budget' /\ Running' = Running
    BY <2>1 DEF GroupIsExact, Bounded, Budget, Running
  <2>4. InOrder'
    BY <2>1, WokenFacts DEF InOrder
  <2>5. NoLostWakeup' /\ JoinedAtExit'
    BY <2>1, <2>3, WokenFacts DEF NoLostWakeup, JoinedAtExit
  <2>6. Reasons'
    BY <2>1 DEF Reasons
  <2>7. QED
    BY <2>2, <2>3, <2>4, <2>5, <2>6
<1>11. CASE Terminated \/ UNCHANGED vars
  <2>1. UNCHANGED <<mpc, next, signalled, mainCancelled, ep, max, css, task, retries,
                    attempts, cancelled>>
    BY <1>11 DEF Terminated, vars, mainVars
  <2>2. TypeOK' /\ GroupIsExact' /\ Bounded' /\ InOrder'
    BY <2>1 DEF IInv, TypeOK, GroupIsExact, Running, Bounded, InOrder
  <2>3. Budget' /\ NoLostWakeup' /\ JoinedAtExit' /\ Reasons'
    BY <2>1 DEF IInv, Budget, NoLostWakeup, MustWait, JoinedAtExit, Running, Reasons
  <2>4. QED
    BY <2>2, <2>3 DEF IInv
<1>12. QED
  BY <1>1, <1>2, <1>3, <1>4, <1>5, <1>6, <1>7, <1>8, <1>9, <1>10, <1>11
     DEF Next, Main, TaskResumes, AttemptEnds

\* All of it: the invariant holds in every reachable state.
THEOREM Invariance == Spec => []IInv
BY InitInvariant, NextInvariant, PTL DEF Spec

\* Every variable keeps its type; in particular retry()'s unsigned count of
\* retries never goes below zero.
THEOREM TypeCorrect == Spec => []TypeOK
BY Invariance, PTL DEF IInv

\* Never more than --parallel-max transfers at a time.
THEOREM ConcurrencyBounded == Spec => []ConcurrencyBound
<1>1. IInv => ConcurrencyBound
  BY DEF IInv, GroupIsExact, Bounded, ConcurrencyBound
<1>2. QED
  BY <1>1, Invariance, PTL

\* The list of cancellation signals is exact.
THEOREM GroupExact == Spec => []GroupIsExact
BY Invariance, PTL DEF IInv

\* co_main never waits for something that has happened.
THEOREM WakeupsNotLost == Spec => []NoLostWakeup
BY Invariance, PTL DEF IInv

\* burl does not exit while a transfer runs.
THEOREM ExitsJoined == Spec => []JoinedAtExit
BY Invariance, PTL DEF IInv

\* --retry bounds the number of attempts.
THEOREM RetriesBounded == Spec => []RetryBudget
<1>1. IInv => RetryBudget
  BY CountsAssumption DEF IInv, Budget, TypeOK, RetryBudget
<1>2. QED
  BY <1>1, Invariance, PTL

\* Every URL is tried by the time burl exits by itself.
THEOREM RequestsNotDropped == Spec => []NoRequestDropped
<1>1. IInv => NoRequestDropped
  <2> SUFFICES ASSUME IInv, mpc = "done", ~ signalled, max # 0, NEW r \in Tasks
               PROVE  r \in Ended /\ attempts[r] > 0
    BY DEF NoRequestDropped
  <2>1. r \notin Running /\ ~ cancelled[r] /\ next > N
    BY DEF IInv, JoinedAtExit, Reasons
  <2>2. task[r] # "none"
    BY <2>1, CountsAssumption DEF IInv, InOrder, TypeOK, Tasks
  <2>3. QED
    BY <2>1, <2>2 DEF IInv, TypeOK, TaskPC, Running, Ended, Reasons
<1>2. QED
  BY <1>1, Invariance, PTL

-------------------------------------------------------------------------------
(***************************************************************************)
(* Action properties, and the refinement of the bounded service.           *)
(***************************************************************************)

\* Which tasks a step can touch: the one it is about, and only by creating it,
\* starting or repeating an attempt that is not cancelled, or ending it.
LEMMA StepCases ==
    ASSUME IInv, [Next]_vars
    PROVE  \/ UNCHANGED <<task, attempts, max>>
           \/ /\ next \in Tasks /\ task[next] = "none" /\ next \notin css
              /\ max # 0 /\ ~ MustWait(css)
              /\ task' = [task EXCEPT ![next] = "spawned"]
              /\ UNCHANGED <<attempts, max>>
           \/ \E r \in Running :
                /\ ~ cancelled[r]
                /\ task' = [task EXCEPT ![r] = "attempt"]
                /\ attempts' = [attempts EXCEPT ![r] = @ + 1]
                /\ UNCHANGED max
           \/ \E r \in Running :
                /\ task' = [task EXCEPT ![r] = "delay"]
                /\ UNCHANGED <<attempts, max>>
           \/ \E r \in Running, threw \in BOOLEAN :
                /\ task' = [task EXCEPT ![r] = IF threw THEN "threw" ELSE "returned"]
                /\ max' \in {0, max}
                /\ UNCHANGED attempts
<1>c. ASSUME NEW r \in Running, NEW threw \in BOOLEAN, Complete(r, threw)
      PROVE  /\ task' = [task EXCEPT ![r] = IF threw THEN "threw" ELSE "returned"]
             /\ max' \in {0, max}
             /\ UNCHANGED attempts
  BY <1>c DEF Complete, OnCompletion
<1>b. ASSUME NEW r \in Running, NEW inTime \in BOOLEAN, BeginAttempt(r, inTime)
      PROVE  \/ /\ ~ cancelled[r]
                /\ task' = [task EXCEPT ![r] = "attempt"]
                /\ attempts' = [attempts EXCEPT ![r] = @ + 1]
                /\ UNCHANGED max
             \/ \E threw \in BOOLEAN : Complete(r, threw)
  BY <1>b DEF BeginAttempt
<1>1. ASSUME NEW r \in Tasks, NEW inTime \in BOOLEAN,
             TaskStart(r, inTime) \/ DelayOver(r, inTime)
      PROVE  r \in Running /\ BeginAttempt(r, inTime)
  BY <1>1 DEF TaskStart, DelayOver, Running
<1>2. ASSUME NEW r \in Tasks, DelayCancelled(r)
      PROVE  r \in Running /\ Complete(r, TRUE)
  BY <1>2 DEF DelayCancelled, Running
<1>3. ASSUME NEW r \in Tasks, NEW outcome \in Outcome, NEW inTime \in BOOLEAN,
             AttemptFinal(r, outcome, inTime)
      PROVE  r \in Running /\ \E threw \in BOOLEAN : Complete(r, threw)
  BY <1>3 DEF AttemptFinal, Running
<1>4. ASSUME NEW r \in Tasks, NEW outcome \in Outcome, NEW inTime \in BOOLEAN,
             AttemptRetry(r, outcome, inTime)
      PROVE  /\ r \in Running
             /\ \/ \E threw \in BOOLEAN : Complete(r, threw)
                \/ /\ task' = [task EXCEPT ![r] = "delay"]
                   /\ UNCHANGED <<attempts, max>>
  BY <1>4 DEF AttemptRetry, Running
<1>5. CASE MainStart \/ AdaptFails \/ JoinResumes \/ Signal \/ Terminated \/ UNCHANGED vars
  BY <1>5 DEF MainStart, AdaptFails, JoinResumes, Signal, Terminated, vars
<1>6. CASE AdaptProceeds
  <2>1. next \in Tasks /\ max # 0
    BY <1>6, CountsAssumption
       DEF AdaptProceeds, UnlessCancelledOrClosed, IInv, InOrder, TypeOK, Tasks
  <2>2. task[next] = "none" /\ next \notin css
    BY <2>1, CountsAssumption DEF IInv, InOrder, GroupIsExact, Running, TypeOK
  <2>3. QED
    BY <1>6, <2>1, <2>2 DEF AdaptProceeds
<1>7. CASE \E r \in Tasks : TaskResumes(r) \/ AttemptEnds(r)
  <2>1. PICK r \in Tasks : TaskResumes(r) \/ AttemptEnds(r)
    BY <1>7
  <2>2. CASE \E inTime \in BOOLEAN : TaskStart(r, inTime) \/ DelayOver(r, inTime)
    BY <2>2, <1>1, <1>b, <1>c
  <2>3. CASE DelayCancelled(r)
    BY <2>3, <1>2, <1>c
  <2>4. CASE \E outcome \in Outcome, inTime \in BOOLEAN : AttemptFinal(r, outcome, inTime)
    BY <2>4, <1>3, <1>c
  <2>5. CASE \E outcome \in Outcome, inTime \in BOOLEAN : AttemptRetry(r, outcome, inTime)
    BY <2>5, <1>4, <1>c
  <2>6. QED
    BY <2>1, <2>2, <2>3, <2>4, <2>5 DEF TaskResumes, AttemptEnds
<1>8. QED
  BY <1>5, <1>6, <1>7 DEF Next, Main

\* A closed group starts no task.
THEOREM ClosedStartsNothing == Spec => NothingStartsAfterClose
<1>1. IInv /\ [Next]_vars =>
        [max = 0 => \A r \in Tasks : task[r] = "none" => task'[r] = "none"]_vars
  BY StepCases DEF Running, IInv, TypeOK
<1>2. QED
  BY <1>1, Invariance, PTL DEF Spec, NothingStartsAfterClose

\* A cancelled task makes no further attempt.
THEOREM CancelledTasksStop == Spec => CancelledStops
<1>1. IInv /\ [Next]_vars =>
        [\A r \in Tasks : cancelled[r] => attempts'[r] = attempts[r]]_vars
  BY StepCases DEF Running, IInv, TypeOK
<1>2. QED
  BY <1>1, Invariance, PTL DEF Spec, CancelledStops

\* The group implements the bounded service of capacity --parallel-max.
THEOREM GroupRefinesService == Spec => GroupSpec
<1>1. Init => Group!Init
  BY CountsAssumption DEF Init, Group!Init, AbstractPhase
<1>2. IInv /\ [Next]_vars => [Group!Next]_Group!vars
  <2> SUFFICES ASSUME IInv, [Next]_vars
               PROVE  [Group!Next]_Group!vars
    OBVIOUS
  <2> /\ task \in [Tasks -> TaskPC]
      /\ \A r \in Running : r \in Tasks /\ task[r] \in {"spawned", "attempt", "delay"}
    BY DEF IInv, TypeOK, Running
  <2>1. CASE UNCHANGED <<task, attempts, max>>
    BY <2>1 DEF Group!vars, AbstractPhase, Running
  <2>2. ASSUME next \in Tasks, task[next] = "none", next \notin css,
               max # 0, ~ MustWait(css),
               task' = [task EXCEPT ![next] = "spawned"], UNCHANGED max
        PROVE  Group!Admit(next)
    <3>1. Group!InService = css
      BY DEF Group!InService, IInv, GroupIsExact, Running, AbstractPhase
    <3>2. Cardinality(css) < ParallelMax
      <4>1. Cardinality(css) \in Nat
        BY GroupFinite DEF IInv
      <4>2. QED
        BY <2>2, <4>1, CountsAssumption DEF MustWait, IInv, TypeOK
    <3>3. AbstractPhase' = [AbstractPhase EXCEPT ![next] = "served"]
      BY <2>2 DEF Running, AbstractPhase
    <3>4. AbstractPhase[next] = "waiting"
      BY <2>2 DEF AbstractPhase
    <3>5. QED
      <4>1. Group!Cardinality(css) = Cardinality(css)
        BY DEF Group!Cardinality, Cardinality
      <4>2. QED
        BY <4>1, <2>2, <3>1, <3>2, <3>3, <3>4 DEF Group!Admit
  <2>3. ASSUME NEW r \in Running, UNCHANGED max,
               \/ task' = [task EXCEPT ![r] = "attempt"]
               \/ task' = [task EXCEPT ![r] = "delay"]
        PROVE  UNCHANGED Group!vars
    <3>1. AbstractPhase' = AbstractPhase
      BY <2>3 DEF Running, AbstractPhase
    <3>2. QED
      BY <2>3, <3>1 DEF Group!vars
  <2>4. ASSUME NEW r \in Running, NEW threw \in BOOLEAN, max' \in {0, max},
               task' = [task EXCEPT ![r] = IF threw THEN "threw" ELSE "returned"]
        PROVE  Group!Finish(r) \/ Group!FinishAndClose(r)
    <3>1. AbstractPhase' = [AbstractPhase EXCEPT ![r] = "done"]
      BY <2>4 DEF Running, AbstractPhase
    <3>2. AbstractPhase[r] = "served"
      BY <2>4 DEF Running, AbstractPhase
    <3>3. QED
      BY <2>4, <3>1, <3>2 DEF Group!Finish, Group!FinishAndClose
  <2>5. QED
    BY <2>1, <2>2, <2>3, <2>4, StepCases DEF Group!Next
<1>3. QED
  BY <1>1, <1>2, Invariance, PTL DEF Spec, GroupSpec, Group!Spec
===============================================================================
