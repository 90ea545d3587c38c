------------------------------- MODULE TaskGroup ------------------------------
(***************************************************************************)
(* burl's driver: co_main starts one retry() coroutine per requested URL,  *)
(* task_group bounds how many run at once, waits for room and for the end  *)
(* of all of them, and passes cancellation on; SIGINT and --fail-early cut *)
(* the run short.                                                          *)
(*                                                                         *)
(* All of it runs on one io_context in one thread, so a step is one        *)
(* completion handler.  The group's steady_timer cv_ is its condition      *)
(* variable: a wait on it never times out and cancel() wakes the waiter,   *)
(* which is to say that it queues the waiter's handler.                    *)
(*                                                                         *)
(* perform_request is one attempt with an outcome; how it gets there is    *)
(* not this module's concern.                                              *)
(***************************************************************************)
EXTENDS Naturals, FiniteSets

CONSTANTS
    N,                  \* number of URLs
    ParallelMax,        \* oc.parallel_max
    ReqRetry,           \* oc.req_retry
    FailEarly,          \* oc.failearly
    RetryAllErrors,     \* oc.retry_all_errors
    RetryConnRefused    \* oc.retry_connrefused

ASSUME CountsAssumption == N \in Nat /\ ParallelMax \in Nat \ {0} /\ ReqRetry \in Nat
ASSUME OptionsAssumption ==
    /\ FailEarly \in BOOLEAN
    /\ RetryAllErrors \in BOOLEAN
    /\ RetryConnRefused \in BOOLEAN

Tasks == 1..N

VARIABLES
    mpc,            \* where co_main is suspended
    next,           \* the task co_main creates next
    max,            \* task_group::max_, 0 once closed
    css,            \* task_group::css_: the tasks that hold a cancellation signal
    signalled,      \* SIGINT or SIGTERM has been taken from the signal_set
    mainCancelled,  \* cancellation state of co_main and the operation it awaits
    ep,             \* co_main ends with an exception: burl exits with a failure
    task,           \* where each retry() coroutine is
    retries,        \* retry()'s count of retries left
    attempts,       \* history: how many attempts were started
    cancelled       \* cancellation state of each retry() coroutine

mainVars == <<mpc, next, signalled, mainCancelled, ep>>
vars == <<mainVars, max, css, task, retries, attempts, cancelled>>

MainPC == {"start", "adapt_queued", "adapt_wait", "join_queued", "join_wait", "done"}
TaskPC == {"none", "spawned", "attempt", "delay", "returned", "threw"}

TypeOK ==
    /\ mpc \in MainPC
    /\ next \in 1..(N + 1)
    /\ max \in {0, ParallelMax}
    /\ css \in SUBSET Tasks
    /\ signalled \in BOOLEAN
    /\ mainCancelled \in BOOLEAN
    /\ ep \in BOOLEAN
    /\ task \in [Tasks -> TaskPC]
    /\ retries \in [Tasks -> 0..ReqRetry]
    /\ attempts \in [Tasks -> Nat]
    /\ cancelled \in [Tasks -> BOOLEAN]

Init ==
    /\ mpc = "start"
    /\ next = 1
    /\ max = ParallelMax
    /\ css = {}
    /\ signalled = FALSE
    /\ mainCancelled = FALSE
    /\ ep = FALSE
    /\ task = [r \in Tasks |-> "none"]
    /\ retries = [r \in Tasks |-> ReqRetry]
    /\ attempts = [r \in Tasks |-> 0]
    /\ cancelled = [r \in Tasks |-> FALSE]

-------------------------------------------------------------------------------
(***************************************************************************)
(* task_group.                                                             *)
(***************************************************************************)

\* cv_.cancel(): whoever waits on the timer has its handler queued.
Woken(p) ==
    CASE p = "adapt_wait" -> "adapt_queued"
      [] p = "join_wait" -> "join_queued"
      [] OTHER -> p

\* emit(type): every signal in the list reaches its task.
Emit(group) == [r \in Tasks |-> cancelled[r] \/ r \in group]

\* Fault: one task too many.
MustWaitAbove(group) == max # 0 /\ Cardinality(group) > max

\* The condition on which async_adapt waits instead of completing.
MustWait(group) == max # 0 /\ Cardinality(group) >= max

\* Fault: the last URL is left out.
InitiatedShort(n, group) ==
    IF n < N
    THEN IF MustWait(group) THEN "adapt_wait" ELSE "adapt_queued"
    ELSE IF group # {} THEN "join_wait" ELSE "join_queued"

\* async_adapt or async_join is initiated with `group` in the list: it waits on
\* cv_ or, so as not to complete inside its initiation, queues itself.
Initiated(n, group) ==
    IF n <= N
    THEN IF MustWait(group) THEN "adapt_wait" ELSE "adapt_queued"
    ELSE IF group # {} THEN "join_wait" ELSE "join_queued"

-------------------------------------------------------------------------------
(***************************************************************************)
(* retry(): one coroutine per URL.                                         *)
(***************************************************************************)

\* How an attempt can end: a status that is final, a transient one, the refusal
\* to write binary to a terminal, a system_error with one of the codes that
\* can_retry looks at or another, and an exception of another type.
Outcome == {"final", "transient", "tty", "aborted", "refused", "error", "exception"}

\* can_retry; inTime is the comparison with the clock.
CanRetry(r, outcome, inTime) ==
    /\ retries[r] # 0
    /\ inTime
    /\ \/ RetryAllErrors
       \/ outcome \in {"transient", "aborted"}
       \/ RetryConnRefused /\ outcome = "refused"

\* The completion handler that co_main gives async_adapt: on an error with
\* --fail-early it closes the group and emits.
OnCompletion(threw) ==
    IF threw /\ FailEarly
    THEN max' = 0 /\ cancelled' = Emit(css)
    ELSE UNCHANGED <<max, cancelled>>

\* Fault: the waiter is not woken.
RemoveSilently(r, threw) ==
    /\ css' = css \ {r}
    /\ mpc' = IF threw /\ FailEarly THEN Woken(mpc) ELSE mpc

\* The remover: the signal leaves the list and the waiter is woken (which
\* close() has done already if there was an early failure).
Remove(r, threw) ==
    /\ css' = css \ {r}
    /\ mpc' = Woken(mpc)

\* The coroutine ends, and the completion token that the group adapted runs.
Complete(r, threw) ==
    /\ task' = [task EXCEPT ![r] = IF threw THEN "threw" ELSE "returned"]
    /\ OnCompletion(threw)
    /\ Remove(r, threw)
    /\ UNCHANGED <<next, signalled, mainCancelled, ep, retries, attempts>>

\* Fault: the cancellation state is not looked at.
BeginRegardless(r, inTime) ==
    /\ task' = [task EXCEPT ![r] = "attempt"]
    /\ attempts' = [attempts EXCEPT ![r] = @ + 1]
    /\ UNCHANGED <<mainVars, max, css, retries, cancelled>>

\* An attempt is awaited; the co_await of a coroutine that has been cancelled
\* throws operation_aborted in place of starting anything.
BeginAttempt(r, inTime) ==
    IF cancelled[r]
    THEN Complete(r, ~ CanRetry(r, "aborted", inTime))
    ELSE /\ task' = [task EXCEPT ![r] = "attempt"]
         /\ attempts' = [attempts EXCEPT ![r] = @ + 1]
         /\ UNCHANGED <<mainVars, max, css, retries, cancelled>>

\* The coroutine co_spawn queued begins to run.
TaskStart(r, inTime) ==
    /\ task[r] = "spawned"
    /\ BeginAttempt(r, inTime)

\* Nothing is left to try: return or rethrow.
AttemptFinal(r, outcome, inTime) ==
    /\ task[r] = "attempt"
    /\ \/ outcome \in {"final", "tty", "exception"}
       \/ ~ CanRetry(r, outcome, inTime)
    /\ Complete(r, outcome \notin {"final", "tty", "transient"})

CountRetry(r, outcome) == retries' = [retries EXCEPT ![r] = @ - 1]

\* The attempt may be repeated: return if the coroutine has been cancelled,
\* otherwise use up one retry and wait.
AttemptRetry(r, outcome, inTime) ==
    /\ task[r] = "attempt"
    /\ outcome \notin {"final", "tty", "exception"}
    /\ CanRetry(r, outcome, inTime)
    /\ IF cancelled[r]
       THEN Complete(r, FALSE)
       ELSE /\ task' = [task EXCEPT ![r] = "delay"]
            /\ CountRetry(r, outcome)
            /\ UNCHANGED <<mainVars, max, css, attempts, cancelled>>

\* The back-off timer fires; it may have done so just before a cancellation.
DelayOver(r, inTime) ==
    /\ task[r] = "delay"
    /\ BeginAttempt(r, inTime)

\* The cancelled timer's wait throws operation_aborted outside of the try block.
DelayCancelled(r) ==
    /\ task[r] = "delay"
    /\ cancelled[r]
    /\ Complete(r, TRUE)

-------------------------------------------------------------------------------
(***************************************************************************)
(* co_main.                                                                *)
(***************************************************************************)

\* Fault: the cancellation is cleared and not passed on.
SwallowCancellation ==
    /\ mainCancelled' = FALSE
    /\ UNCHANGED cancelled

\* The loop is left with an exception, or the loop's await throws because
\* co_main was cancelled: emit to the tasks and clear the cancellation state.
PassOnCancellation ==
    /\ cancelled' = IF mainCancelled THEN Emit(css) ELSE cancelled
    /\ mainCancelled' = FALSE

\* co_main begins: the first async_adapt is initiated, or throws
\* operation_aborted, which is kept in ep, when a signal came even earlier.
MainStart ==
    /\ mpc = "start"
    /\ mpc' = IF mainCancelled THEN "join_queued" ELSE Initiated(next, css)
    /\ ep' = (mainCancelled /\ next <= N)
    /\ PassOnCancellation
    /\ UNCHANGED <<next, signalled, max, css, task, retries, attempts>>

\* Fault: removing the superfluous signal does not wake async_join.
JoinUnwoken == mpc' = "join_wait"

\* A failing async_adapt completes with a cancellation signal that was added to
\* the list for nothing.  It is still there when async_join looks, so that
\* async_join waits; its removal at the end of the handler wakes async_join.
JoinWithSuperfluousSignal == mpc' = Woken("join_wait")

\* async_adapt completes with `cancelled` or `closed`: the exception's category
\* is the group's, so it is dropped, and the join is initiated.
AdaptFails ==
    /\ mpc = "adapt_queued"
    /\ mainCancelled \/ max = 0
    /\ JoinWithSuperfluousSignal
    /\ PassOnCancellation
    /\ UNCHANGED <<next, signalled, ep, max, css, task, retries, attempts>>

UnlessCancelledOrClosed == ~ mainCancelled /\ max # 0

\* async_adapt's handler looks for room again.  If there is some it completes: the
\* signal joins the list, the task is spawned, and co_main goes on to its next
\* async_adapt or to async_join.
AdaptProceeds ==
    /\ mpc = "adapt_queued"
    /\ UnlessCancelledOrClosed
    /\ IF MustWait(css)
       THEN /\ mpc' = "adapt_wait"
            /\ UNCHANGED <<css, task, next>>
       ELSE /\ css' = css \cup {next}
            /\ task' = [task EXCEPT ![next] = "spawned"]
            /\ next' = next + 1
            /\ mpc' = Initiated(next + 1, css \cup {next})
    /\ UNCHANGED <<signalled, mainCancelled, ep, max, retries, attempts, cancelled>>

JoinState == IF css # {} THEN "join_wait" ELSE "done"

\* async_join's handler: pass a cancellation on and wait again, or complete.
JoinResumes ==
    /\ mpc = "join_queued"
    /\ mpc' = JoinState
    /\ PassOnCancellation
    /\ UNCHANGED <<next, signalled, ep, max, css, task, retries, attempts>>

\* main's parallel group: the first signal cancels co_main, which is suspended
\* in async_adapt or async_join; their wait on cv_ is aborted.
Signal ==
    /\ ~ signalled
    /\ mpc # "done"
    /\ signalled' = TRUE
    /\ mainCancelled' = TRUE
    /\ mpc' = Woken(mpc)
    /\ UNCHANGED <<next, ep, max, css, task, retries, attempts, cancelled>>

\* ioc.run() has returned.
Terminated ==
    /\ mpc = "done"
    /\ UNCHANGED vars

-------------------------------------------------------------------------------
Main == MainStart \/ AdaptFails \/ AdaptProceeds \/ JoinResumes

AttemptEnds(r) ==
    \E outcome \in Outcome, inTime \in BOOLEAN :
        AttemptFinal(r, outcome, inTime) \/ AttemptRetry(r, outcome, inTime)

TaskResumes(r) ==
    \/ \E inTime \in BOOLEAN : TaskStart(r, inTime) \/ DelayOver(r, inTime)
    \/ DelayCancelled(r)

Next ==
    \/ Main
    \/ \E r \in Tasks : TaskResumes(r) \/ AttemptEnds(r)
    \/ Signal
    \/ Terminated

Spec == Init /\ [][Next]_vars

(***************************************************************************)
(* Fairness: queued handlers run, timers fire, and an attempt that has     *)
(* been cancelled ends.  An attempt that has not may take for ever, since  *)
(* --max-time is not set by default.                                       *)
(***************************************************************************)
Fairness ==
    /\ WF_vars(Main)
    /\ \A r \in Tasks :
        /\ WF_vars(TaskResumes(r))
        /\ WF_vars(cancelled[r] /\ AttemptEnds(r))

FairSpec == Spec /\ Fairness

-------------------------------------------------------------------------------
(***************************************************************************)
(* Properties.                                                             *)
(***************************************************************************)

Running == {r \in Tasks : task[r] \in {"spawned", "attempt", "delay"}}
Ended == {r \in Tasks : task[r] \in {"returned", "threw"}}

\* Never more than --parallel-max transfers at a time, although async_adapt
\* checks for room in one handler and takes it in another.
ConcurrencyBound == Cardinality(Running) <= ParallelMax

\* The list of cancellation signals holds exactly the tasks that run, so that an
\* emit reaches all of them and the group's size is their number.
GroupIsExact == css = Running

\* co_main waits on cv_ only while what it waits for has not happened: no
\* removal, close or signal slips between its test and its wait.
NoLostWakeup ==
    /\ mpc = "adapt_wait" => MustWait(css) /\ ~ mainCancelled
    /\ mpc = "join_wait" => css # {} /\ ~ mainCancelled

\* burl does not exit while a transfer runs (async_join).
JoinedAtExit == mpc = "done" => Running = {}

\* Without a signal and without an early failure every URL has been tried by the
\* time burl exits.
NoRequestDropped ==
    (mpc = "done" /\ ~ signalled /\ max # 0) =>
        \A r \in Tasks : r \in Ended /\ attempts[r] > 0

\* A URL is attempted at most once more than --retry says, whatever the order of
\* time-outs, cancellations and back-offs.
RetryBudget == \A r \in Tasks : attempts[r] <= 1 + ReqRetry

\* Once the group has been closed no task is started any more.
NothingStartsAfterClose ==
    [][max = 0 => \A r \in Tasks : task[r] = "none" => task'[r] = "none"]_vars

\* A cancelled task makes no further attempt, whether the cancellation found it
\* spawned, in an attempt or in its back-off delay.
CancelledStops ==
    [][\A r \in Tasks : cancelled[r] => attempts'[r] = attempts[r]]_vars

\* An interrupt, and the first failure under --fail-early, end the run, whatever the
\* tasks are doing.
CutShortEnds == (signalled \/ max = 0) ~> mpc = "done"

\* If no attempt takes for ever, burl ends.
EverythingEnds ==
    (\A r \in Tasks : (task[r] = "attempt" ~> task[r] # "attempt")) => <>(mpc = "done")

\* The group implements the bounded service of capacity --parallel-max: each URL
\* is served at most once, and none after close().
AbstractPhase ==
    [r \in Tasks |-> IF task[r] = "none" THEN "waiting"
                     ELSE IF r \in Running THEN "served" ELSE "done"]

Group ==
    INSTANCE BoundedService WITH
        Clients <- Tasks, Cap <- ParallelMax, phase <- AbstractPhase, open <- (max # 0)

GroupSpec == Group!Spec
===============================================================================
