----------------------------- MODULE ImplicitDml -----------------------------
(***************************************************************************)
(* One DML statement in autocommit: an implicit read-write transaction     *)
(* that commits on its own, is tried again when it is ABORTED and the      *)
(* session asked for that (RETRY_ABORTS_INTERNALLY), and is tried once as  *)
(* partitioned DML when AUTOCOMMIT_DML_MODE asks for that and the          *)
(* transaction had too many mutations.                                     *)
(*                                                                         *)
(* One action is one RPC, or the code between two of them.  Time passes    *)
(* and the user interrupts between any two.  Only the deadline watcher     *)
(* could touch the owner meanwhile (while the goroutine waits without      *)
(* tm.mu), and it can only say what the clock already says: OwnerLifetime  *)
(* has it.  The server's state is the number of times the statement took   *)
(* effect, which the program cannot see.                                   *)
(***************************************************************************)
EXTENDS Naturals

CONSTANT MaxAttempts  \* maxImplicitAbortAttempts

ASSUME AttemptsAssumption == MaxAttempts \in Nat \ {0}

VARIABLES
    pc,         \* where the CLI goroutine is
    stmt,       \* the statement and the settings it runs under
    captured,   \* a mutationLimitFallbackAttempt was captured
    inTxn,      \* tm.tc # nil
    attempt,    \* attempt of runInNewOrExistRwTxLocked
    phase,      \* rwTxAttemptInfo.phase
    err,        \* the error so far
    deadline,   \* the owner's deadline
    cancelled,  \* the caller's context is cancelled
    applied,    \* commits of the statement that took effect on the server
    partitions  \* how much of the table partitioned DML changed

program == <<pc, stmt, captured, inTxn, attempt, phase, err>>
environment == <<deadline, cancelled>>
server == <<applied, partitions>>
vars == <<program, environment, server>>

Forms == {"update", "updateReturning", "insert", "batch"}
Modes == {"transactional", "fallback", "partitioned"}   \* AUTOCOMMIT_DML_MODE
Statement == [form: Forms, mode: Modes, retryAborts: BOOLEAN, timeout: BOOLEAN]

\* "commit" is a Commit RPC's own error, "partitioned" that of partitioned
\* DML, "display" a plan that could not be rendered.
Errors == {"none", "aborted", "mutationLimit", "other", "timeout", "cancelled",
           "commit", "partitioned", "display"}

TypeOK ==
    /\ pc \in {"prompt", "buffer", "begin", "sql", "commit", "failed", "backoff",
               "waiting", "display", "return", "partitioned"}
    /\ stmt \in Statement
    /\ captured \in BOOLEAN /\ inTxn \in BOOLEAN /\ cancelled \in BOOLEAN
    /\ attempt \in 0..MaxAttempts
    /\ phase \in {"none", "userSQL", "commit"}
    /\ err \in Errors
    /\ deadline \in {"none", "armed", "passed"}
    /\ applied \in Nat
    /\ partitions \in {"none", "some", "all"}

Init ==
    /\ pc = "prompt"
    /\ stmt = [form |-> "insert", mode |-> "transactional",
               retryAborts |-> FALSE, timeout |-> FALSE]
    /\ captured = FALSE /\ inTxn = FALSE
    /\ attempt = 0 /\ phase = "none" /\ err = "none"
    /\ deadline = "none" /\ cancelled = FALSE
    /\ applied = 0 /\ partitions = "none"

----------------------------------------------------------------------------

\* An RPC bound to a context that has ended does not succeed.
CanSucceed == deadline # "passed" /\ ~cancelled

\* autocommitUsesPartitionedDML; RUN BATCH never asks.
UsesPartitionedDML ==
    stmt.mode = "partitioned" /\ stmt.form \in {"update", "updateReturning"}

\* captureMutationLimitFallback
CaptureFallback == stmt.mode = "fallback" /\ stmt.form = "update"

\* Mutant: an unavailable Commit is retried like an ABORTED one.
Deferred_Unavailable(e) == stmt.retryAborts /\ e \in {"aborted", "commit"}

\* shouldDeferAbortOwnerFailure: the owner outlives the failure.
Deferred(e) == stmt.retryAborts /\ e = "aborted"

\* Mutant: the attempt that reached the bound is repeated once more.
ShouldRetry_OffByOne == Deferred(err) /\ attempt <= MaxAttempts

\* shouldRetryImplicitAbort
ShouldRetry == Deferred(err) /\ attempt < MaxAttempts

\* Mutant: the phase of the failure is not looked at.
FallbackApplies_AnyPhase ==
    captured /\ err = "mutationLimit" /\ ~inTxn /\ CanSucceed

\* The conditions of finishMutationLimitFallback.
FallbackApplies ==
    captured /\ phase = "userSQL" /\ err = "mutationLimit" /\ ~inTxn /\ CanSucceed

\* The statement ends with e, and no owner is left.
Stop(e) == pc' = "return" /\ err' = e /\ inTxn' = FALSE

\* finalizeImplicitAbortLocked; a failure that was not deferred has no owner.
Finalize == Stop(err)

\* reconstructImplicitPhysicalLocked: the next attempt of the same owner.
Reconstruct ==
    \/ CanSucceed /\ pc' = "backoff" /\ UNCHANGED <<err, inTxn>>
    \/ Stop("other")

----------------------------------------------------------------------------

\* A DML statement, or RUN BATCH with DML, outside a transaction.
Submit(s) ==
    /\ pc = "prompt" /\ pc' = "buffer"
    /\ stmt' = s
    /\ captured' = FALSE /\ inTxn' = FALSE
    /\ attempt' = 0 /\ phase' = "none" /\ err' = "none"
    /\ deadline' = "none" /\ cancelled' = FALSE
    /\ applied' = 0 /\ partitions' = "none"

\* bufferOrExecuteDML
Buffer ==
    /\ pc = "buffer"
    /\ pc' = IF UsesPartitionedDML THEN "partitioned" ELSE "begin"
    /\ captured' = CaptureFallback
    /\ UNCHANGED <<stmt, inTxn, attempt, phase, err, environment, server>>

\* BeginReadWriteTransactionLocked: the deadline is armed before the RPC.
Begin ==
    /\ pc = "begin"
    /\ deadline' = IF stmt.timeout THEN "armed" ELSE "none"
    /\ \/ /\ ~cancelled
          /\ pc' = "sql" /\ inTxn' = TRUE /\ attempt' = 1
          /\ UNCHANGED err
       \/ Stop("other") /\ UNCHANGED attempt
    /\ UNCHANGED <<stmt, captured, phase, cancelled, server>>

\* executeRwTxAttemptLocked up to the callback's end, which includes the
\* rendering of THEN RETURN rows; an error that is not deferred rolls back.
ExecuteSQL ==
    /\ pc = "sql"
    /\ \/ /\ CanSucceed
          /\ pc' = "commit" /\ phase' = "commit"
          /\ UNCHANGED <<inTxn, err>>
       \/ \E e \in {"aborted", "mutationLimit", "other"} :
            /\ pc' = "failed" /\ phase' = "userSQL"
            /\ err' = e
            /\ inTxn' = Deferred(e)
    /\ UNCHANGED <<stmt, captured, attempt, environment, server>>

\* The rest of executeRwTxAttemptLocked.  ABORTED says that nothing took
\* effect; any other answer, also one about mutations, is no proof of that.
Commit ==
    /\ pc = "commit"
    /\ \/ /\ CanSucceed
          /\ pc' = "display" /\ err' = "none" /\ inTxn' = FALSE
          /\ applied' = applied + 1
       \/ \E e \in {"aborted", "mutationLimit", "commit"} :
            /\ pc' = "failed"
            /\ err' = e
            /\ inTxn' = Deferred(e)
            /\ applied' \in IF e = "aborted" THEN {applied} ELSE {applied, applied + 1}
    /\ UNCHANGED <<stmt, captured, attempt, phase, environment, partitions>>

\* Mutant: the deferred failure of the last attempt is nobody's.
HandleFailure_NoFinalize ==
    /\ pc = "failed"
    /\ IF ~ShouldRetry THEN pc' = "return" /\ UNCHANGED <<err, inTxn>>
       ELSE IF deadline = "passed" THEN Stop("timeout")
       ELSE Reconstruct
    /\ UNCHANGED <<stmt, captured, attempt, phase, environment, server>>

\* runInNewOrExistRwTxLocked after a failed attempt: the last one is final,
\* an exhausted deadline ends the statement, otherwise it is tried again.
HandleFailure ==
    /\ pc = "failed"
    /\ IF ~ShouldRetry THEN Finalize
       ELSE IF deadline = "passed" THEN Stop("timeout")
       ELSE Reconstruct
    /\ UNCHANGED <<stmt, captured, attempt, phase, environment, server>>

\* The budget is read again, tm.mu is released, and waitAbortRetry begins.
Backoff ==
    /\ pc = "backoff"
    /\ IF deadline = "passed" THEN Stop("timeout")
       ELSE IF cancelled THEN Stop("cancelled")
       ELSE pc' = "waiting" /\ UNCHANGED <<err, inTxn>>
    /\ UNCHANGED <<stmt, captured, attempt, phase, environment, server>>

\* The delay is over or the wait was interrupted (the timer may win that
\* race); tm.mu is held again.
Resume ==
    /\ pc = "waiting"
    /\ \/ deadline = "passed" /\ Stop("timeout") /\ UNCHANGED attempt
       \/ cancelled /\ Stop("cancelled") /\ UNCHANGED attempt
       \/ /\ deadline # "passed"
          /\ pc' = "sql" /\ attempt' = attempt + 1
          /\ UNCHANGED <<err, inTxn>>
    /\ UNCHANGED <<stmt, captured, phase, environment, server>>

\* executePreparedDML after the commit: the plan may fail to render.
Display ==
    /\ pc = "display"
    /\ \/ pc' = "prompt" /\ UNCHANGED <<err, inTxn>>
       \/ Stop("display")
    /\ UNCHANGED <<stmt, captured, attempt, phase, environment, server>>

\* finishMutationLimitFallback
Finish ==
    /\ pc = "return"
    /\ pc' = IF FallbackApplies THEN "partitioned" ELSE "prompt"
    /\ UNCHANGED <<stmt, captured, inTxn, attempt, phase, err, environment, server>>

\* executePartitionedUpdate: partitions are changed one by one, and an error
\* may come after any of them.
Partitioned ==
    /\ pc = "partitioned" /\ pc' = "prompt"
    /\ \/ CanSucceed /\ partitions' = "all" /\ err' = "none"
       \/ partitions' \in {"none", "some", "all"} /\ err' = "partitioned"
    /\ UNCHANGED <<stmt, captured, inTxn, attempt, phase, environment, applied>>

\* The clock, and the user's Ctrl+C.
DeadlinePasses ==
    /\ pc # "prompt" /\ deadline = "armed" /\ deadline' = "passed"
    /\ UNCHANGED <<program, cancelled, server>>

Cancel ==
    /\ pc # "prompt" /\ ~cancelled /\ cancelled' = TRUE
    /\ UNCHANGED <<program, deadline, server>>

Step ==
    \/ Buffer \/ Begin \/ ExecuteSQL \/ Commit \/ HandleFailure \/ Backoff
    \/ Resume \/ Display \/ Finish \/ Partitioned

Next ==
    \/ \E s \in Statement : Submit(s)
    \/ Step
    \/ DeadlinePasses
    \/ Cancel

Spec == Init /\ [][Next]_vars

\* Every RPC returns and every delay ends.
LiveSpec == Spec /\ WF_vars(Step)

----------------------------------------------------------------------------

\* A statement takes effect at most once, and partitioned DML runs only where
\* nothing took effect before: neither a retry nor the fallback repeats work
\* that may be durable (retry_aborts.go, dml_mutation_limit.go).
AppliedOnce == applied <= 1 /\ (partitions # "none" => applied = 0)

\* The errors that say nothing took effect: everything but the Commit's own,
\* that of partitioned DML, and a plan that could not be rendered.
SaysNothingApplied ==
    err \in {"aborted", "other", "timeout", "cancelled"}
    \/ (err = "mutationLimit" /\ phase = "userSQL")

\* What the user is told is what happened, whatever the earlier attempts did:
\* such an error means that nothing took effect, and a statement that began a
\* transaction and succeeded took effect exactly once.
ToldTruth ==
    pc = "prompt" =>
        /\ SaysNothingApplied => applied = 0 /\ partitions = "none"
        /\ attempt > 0 /\ err = "none" => (applied = 1 <=> partitions # "all")

\* No statement leaves its implicit owner behind: the next one would join it
\* and not commit (the deferral of handleOwnerFailureLocked, finalize).
NoImplicitOwnerLeft == pc = "prompt" => ~inTxn

\* However often it is aborted, the statement ends.
StatementEnds == pc # "prompt" ~> pc = "prompt"

=============================================================================
