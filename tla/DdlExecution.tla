---------------------------- MODULE DdlExecution ----------------------------
(***************************************************************************)
(* DDL statements: manual batches, the admission of DDL while a            *)
(* transaction is open (CLI_DDL_IN_TRANSACTION_MODE), UpdateDatabaseDdl    *)
(* and the wait for its long-running operation in the three modes of       *)
(* CLI_DDL_EXECUTION_MODE, and the repair of a missing default sequence    *)
(* kind, which runs the part of a failed request that was not applied.     *)
(*                                                                         *)
(* A DDL statement is its number in the order it was typed.  One action    *)
(* is one RPC, or the code between two.  The server applies the            *)
(* statements of its operations while the program waits, and goes on when  *)
(* it no longer does.  How owners end is OwnerLifetime's.                  *)
(***************************************************************************)
EXTENDS Naturals, Sequences, FiniteSets

CONSTANTS
    MaxDdl,     \* bound: DDL statements typed
    MaxOps      \* bound: operations the server accepts

ASSUME DdlAssumption == MaxDdl \in Nat /\ MaxOps \in Nat

VARIABLES
    pc,         \* where the CLI goroutine is
    owner,      \* tm.tc, as far as DDL asks
    batch,      \* session.batch.current
    typed,      \* DDL statements typed so far
    req,        \* the request being executed
    committed,  \* prep.committed, the transaction's receipt
    budget,     \* what is left of the ASYNC_WAIT budget
    cancelled,  \* the statement's context has ended
    seen,       \* the client's copy of the operation's outcome
    outcome,    \* what the last statement said
    ops,        \* the operations the server accepted
    stale       \* a schema change of this request that no cache was told of

session == <<owner, batch>>
wait == <<budget, cancelled, seen>>
vars == <<pc, session, typed, req, committed, wait, outcome, ops, stale>>

Policies == {"FAIL", "ALLOW_IN_EMPTY", "AUTO_COMMIT"}
Modes == {"SYNC", "ASYNC", "ASYNC_WAIT"}
Ids == 0..MaxDdl                  \* 0 is the ALTER DATABASE of the repair
Failures == {"missingKind", "cancelStatus"}

Idle == [mode |-> "none", work |-> FALSE, recovery |-> FALSE, policy |-> "FAIL"]
NoBatch == [mode |-> "none", ddls |-> <<>>, dml |-> FALSE]
NoRequest == [ddls |-> <<>>, mode |-> "SYNC", kind |-> FALSE, phase |-> "main",
              suffix |-> <<>>, cur |-> 0, first |-> 1, bulk |-> FALSE]

TypeOK ==
    /\ pc \in {"prompt", "admit", "submit", "response", "poll", "sleep", "repair"}
    /\ owner.mode \in {"none", "pending", "rw", "ro"}
    /\ owner.mode = "none" => owner = Idle
    /\ batch.mode \in {"none", "ddl", "dml"}
    /\ batch.mode # "ddl" => batch.ddls = <<>>
    /\ typed \in 0..MaxDdl
    /\ committed \in BOOLEAN
    /\ budget \in {"none", "left", "spent"} /\ cancelled \in BOOLEAN
    /\ seen \in {"pending", "ok"} \cup Failures
    /\ outcome.kind \in {"none", "ok", "async", "handoff", "refused", "error", "phaseError"}
    /\ Len(ops) <= MaxOps
    /\ \A o \in 1..Len(ops) :
          /\ ops[o].done \subseteq 1..Len(ops[o].ddls)
          /\ ops[o].state \in {"running", "ok"} \cup Failures
    /\ stale \in BOOLEAN

Init ==
    /\ pc = "prompt"
    /\ owner = Idle /\ batch = NoBatch
    /\ typed = 0 /\ req = NoRequest /\ committed = FALSE
    /\ budget = "none" /\ cancelled = FALSE /\ seen = "pending"
    /\ outcome = [kind |-> "none", toldCommit |-> FALSE]
    /\ ops = <<>> /\ stale = FALSE

----------------------------------------------------------------------------
\* How a statement ends

\* The statement returns to the prompt; what it had is gone.
End(kind, told) ==
    /\ pc' = "prompt"
    /\ outcome' = [kind |-> kind, toldCommit |-> told]
    /\ req' = NoRequest /\ committed' = FALSE
    /\ budget' = "none" /\ cancelled' = FALSE /\ seen' = "pending"

Return(kind) == End(kind, FALSE)

\* The statement goes on.
Continue(next) == pc' = next /\ UNCHANGED outcome

\* Mutant: the receipt of the preparation is dropped.
Fail_NoReceipt(kind) == Return(kind)

\* annotateDDLAfterCommit: a later failure reports both outcomes.
Fail(kind) == End(kind, committed)

\* IncrementSchemaGeneration
Invalidate == stale' = FALSE

----------------------------------------------------------------------------
\* The owner between DDL statements

\* applyLocalDdlInTransactionMode: only before user work.
SetLocalPolicy ==
    /\ pc = "prompt" /\ owner.mode # "none" /\ ~owner.work
    /\ Return("ok")
    /\ \E p \in Policies : owner' = [owner EXCEPT !.policy = p]
    /\ UNCHANGED <<batch, typed, ops, stale>>

\* snapshotDdlInTransactionModeLocked: an owner captures the policy that is
\* set when it is created.
Begin ==
    /\ pc = "prompt" /\ owner.mode = "none"
    /\ Return("ok")
    /\ \E m \in {"pending", "rw", "ro"}, p \in Policies :
          owner' = [Idle EXCEPT !.mode = m, !.policy = p]
    /\ UNCHANGED <<batch, typed, ops, stale>>

\* markUserWorkLocked: DML, mutations, queued DML, SAVEPOINT, also when it
\* fails; a marker's journal may turn out to need recovery.
UserWork ==
    /\ pc = "prompt" /\ owner.mode \in {"pending", "rw"}
    /\ Return("ok")
    /\ \E r \in BOOLEAN :
          owner' = [owner EXCEPT !.work = TRUE, !.mode = "rw", !.recovery = r]
    /\ UNCHANGED <<batch, typed, ops, stale>>

\* COMMIT, ROLLBACK, CLOSE
EndOwner ==
    /\ pc = "prompt" /\ owner.mode # "none" /\ owner' = Idle
    /\ Return("ok")
    /\ UNCHANGED <<batch, typed, ops, stale>>

----------------------------------------------------------------------------
\* Batches (batch_manager.go).  READONLY, and descriptors that do not
\* marshal, may refuse a statement before anything else is touched.

\* START BATCH DML, and DML statements appended to it.
StartBatchDML ==
    /\ pc = "prompt"
    /\ IF batch.mode # "none" THEN Return("refused") /\ UNCHANGED batch
       ELSE Return("ok") /\ batch' = [NoBatch EXCEPT !.mode = "dml"]
    /\ UNCHANGED <<owner, typed, ops, stale>>

\* bufferOrExecuteDML inside a batch; DML outside one is UserWork.
BufferDML ==
    /\ pc = "prompt" /\ batch.mode # "none"
    /\ IF batch.mode = "dml"
       THEN /\ Return("ok") /\ batch' = [batch EXCEPT !.dml = TRUE]
            /\ owner' = IF owner.mode = "none" THEN owner ELSE [owner EXCEPT !.work = TRUE]
       ELSE Return("refused") /\ UNCHANGED session
    /\ UNCHANGED <<typed, ops, stale>>

\* ABORT BATCH
AbortBatch ==
    /\ pc = "prompt" /\ batch.mode # "none"
    /\ Return("ok") /\ batch' = NoBatch
    /\ UNCHANGED <<owner, typed, ops, stale>>

\* A request of its own, with the settings that submitDdlStatements reads.
Execute(ddls, bulk) ==
    /\ pc' = "admit" /\ outcome' = [kind |-> "none", toldCommit |-> FALSE]
    /\ \E m \in Modes, k \in BOOLEAN, b \in {"left", "spent"} :
          /\ req' = [NoRequest EXCEPT !.ddls = ddls, !.mode = m, !.bulk = bulk,
                                      !.kind = k, !.first = Len(ops) + 1]
          /\ budget' = IF m = "ASYNC_WAIT" THEN b ELSE "none"
    /\ UNCHANGED <<batch, committed, cancelled, seen>>

\* bufferOrExecuteDdlStatements, the path of a DDL statement that is typed.
\* marshalDDLProtoDescriptors refuses before a transaction is touched.
Ddl ==
    /\ pc = "prompt" /\ typed < MaxDdl
    /\ typed' = typed + 1
    /\ \/ Return("refused") /\ UNCHANGED batch
       \/ /\ batch.mode = "ddl" /\ Return("ok")
          /\ batch' = [batch EXCEPT !.ddls = Append(@, typed + 1)]
       \/ batch.mode = "none" /\ Execute(<<typed + 1>>, FALSE)
    /\ UNCHANGED <<owner, ops, stale>>

\* BulkDdlStatement.Execute: consecutive DDL statements of a script, which
\* buildCommands joins, and which do not ask for the batch.
BulkDdl ==
    /\ pc = "prompt"
    /\ \E n \in 1..2 :
          /\ typed + n <= MaxDdl
          /\ typed' = typed + n
          /\ \/ Return("refused") /\ UNCHANGED batch
             \/ Execute([i \in 1..n |-> typed + i], TRUE)
    /\ UNCHANGED <<owner, ops, stale>>

\* A DML batch is taken, and executed like any DML.
RunDML ==
    /\ batch' = NoBatch
    /\ \/ /\ owner.mode # "ro" /\ Return("ok")
          /\ owner' = IF owner.mode = "none" THEN owner
                      ELSE [owner EXCEPT !.work = TRUE, !.mode = "rw"]
       \/ Return("error") /\ owner' \in {owner, Idle}

\* runBatch.  The DDL batch stays in place until it is admitted.
RunBatch ==
    /\ pc = "prompt"
    /\ \/ Return("refused") /\ UNCHANGED session
       \/ batch.mode = "dml" /\ RunDML
       \/ /\ batch.mode = "ddl" /\ UNCHANGED owner
          /\ IF batch.ddls = <<>> THEN Return("ok") /\ batch' = NoBatch
             ELSE Execute(batch.ddls, FALSE)
    /\ UNCHANGED <<typed, ops, stale>>

----------------------------------------------------------------------------
\* prepareDDLInTransaction

\* No admitted work, queued DML or journal.
Empty == ~owner.work

\* The outcomes of applyDDLInTransactionPolicy: admitted or not, the owner
\* that is left, and whether its work was committed.  A Commit that fails
\* ends the owner, unless a journal can repeat it.  The Rollback of an empty
\* owner only fails for one that is gone or has lost its attempt, and while a
\* statement runs neither happens to an owner that needs no recovery
\* (OwnerLifetime's WatchDeadline and IdleExpiryNeedsQuiet).
Admissions ==
    LET stays(v) == {[verdict |-> v, owner |-> owner, committed |-> FALSE]}
        ends(v, c) == {[verdict |-> v, owner |-> Idle, committed |-> c]}
    IN CASE owner.mode = "none" -> stays("admitted")
         [] owner.mode = "ro" \/ owner.recovery -> stays("refused")
         [] owner.mode \in {"pending", "rw"} /\ ~owner.recovery ->
              CASE owner.policy = "FAIL" -> stays("refused")
                [] owner.policy = "ALLOW_IN_EMPTY"
                   \/ (owner.policy = "AUTO_COMMIT" /\ owner.mode = "pending") ->
                     IF Empty THEN ends("admitted", FALSE) ELSE stays("refused")
                [] owner.policy = "AUTO_COMMIT" /\ owner.mode = "rw" ->
                     ends("admitted", TRUE) \cup ends("error", FALSE)
                     \cup {[verdict |-> "error", committed |-> FALSE,
                            owner |-> [owner EXCEPT !.recovery = TRUE]]}

\* StartBatchStatement for DDL: the admission comes before the batch.
StartBatchDDL ==
    /\ pc = "prompt"
    /\ IF batch.mode # "none" THEN Return("refused") /\ UNCHANGED session
       ELSE \E a \in Admissions :
              /\ owner' = a.owner
              /\ IF a.verdict = "admitted"
                 THEN Return("ok") /\ batch' = [NoBatch EXCEPT !.mode = "ddl"]
                 ELSE Return(a.verdict) /\ UNCHANGED batch
    /\ UNCHANGED <<typed, ops, stale>>

\* prepareDDLInTransaction for a request; TakeForExecution follows where the
\* request is the batch's own.
AdmitRequest ==
    /\ pc = "admit"
    /\ IF batch.mode = "dml" THEN Return("refused") /\ UNCHANGED session
       ELSE \E a \in Admissions :
              /\ owner' = a.owner
              /\ IF a.verdict = "admitted"
                 THEN /\ Continue("submit") /\ committed' = a.committed
                      /\ batch' = (IF req.bulk THEN batch ELSE NoBatch)
                      /\ UNCHANGED <<req, wait>>
                 ELSE Return(a.verdict) /\ UNCHANGED batch
    /\ UNCHANGED <<typed, ops, stale>>

----------------------------------------------------------------------------
\* submitDdlStatements and the server

\* What the current phase asks the server to run.
Statements ==
    CASE req.phase = "main" -> req.ddls
      [] req.phase = "alter" -> <<0>>
      [] req.phase = "suffix" -> req.suffix

Request(known) ==
    [ddls |-> Statements, done |-> {}, state |-> "running", known |-> known]

\* tryDefaultSequenceKindRepair applies to a SYNC request only, and never to
\* one of the repair's own.
Repairable == req.phase = "main" /\ req.mode = "SYNC" /\ req.kind /\ ~cancelled

\* UpdateDatabaseDdl is accepted or refused; when the answer is lost the
\* server may have accepted it.
Submit ==
    /\ pc = "submit"
    /\ \/ /\ ~cancelled /\ Len(ops) < MaxOps
          /\ Continue("response")
          /\ ops' = Append(ops, Request(TRUE)) /\ req' = [req EXCEPT !.cur = Len(ops) + 1]
          /\ UNCHANGED <<committed, wait>>
       \/ /\ Repairable /\ Continue("repair")       \* the missing sequence kind
          /\ UNCHANGED <<req, committed, wait, ops>>
       \/ /\ Fail(IF req.phase = "main" THEN "error" ELSE "phaseError")
          /\ \/ UNCHANGED ops
             \/ Len(ops) < MaxOps /\ ops' = Append(ops, Request(FALSE))
    /\ UNCHANGED <<session, typed, stale>>

\* What the operation's state is to a client that asks now.
View == LET s == ops[req.cur].state IN IF s = "running" THEN "pending" ELSE s

\* formatAsyncDdlResult: the operation's metadata may not be readable, and
\* that is an error of the statement.
HandOver(kind) == Return(kind) \/ Fail("error")

\* The accepted operation's first state; ASYNC hands it over at once.
Response ==
    /\ pc = "response"
    /\ IF req.mode = "ASYNC" THEN HandOver("async") /\ Invalidate
       ELSE Continue("poll") /\ seen' = View
            /\ UNCHANGED <<req, committed, budget, cancelled, stale>>
    /\ UNCHANGED <<session, typed, ops>>

\* The operations run one after the other; a statement that finds no
\* sequence kind, or a cancelled operation, ends its operation.
Runs(o) ==
    /\ o \in 1..Len(ops) /\ ops[o].state = "running"
    /\ \A p \in 1..(o - 1) : ops[p].state # "running"

Apply(o) ==
    /\ Runs(o)
    /\ \E i \in 1..Len(ops[o].ddls) \ ops[o].done :
          ops' = [ops EXCEPT ![o].done = @ \cup {i}]
    /\ stale' = (stale \/ (pc # "prompt" /\ ops[o].known /\ o >= req.first))
    /\ UNCHANGED <<pc, session, typed, req, committed, wait, outcome>>

Complete(o) ==
    /\ Runs(o)
    /\ \/ ops[o].done = 1..Len(ops[o].ddls) /\ ops' = [ops EXCEPT ![o].state = "ok"]
       \/ /\ ops[o].done # 1..Len(ops[o].ddls)
          /\ \E f \in Failures : ops' = [ops EXCEPT ![o].state = f]
    /\ UNCHANGED <<pc, session, typed, req, committed, wait, outcome, stale>>

\* The statement timeout or Ctrl+C, and the ASYNC_WAIT budget.
Cancel ==
    /\ pc # "prompt" /\ ~cancelled /\ cancelled' = TRUE
    /\ UNCHANGED <<pc, session, typed, req, committed, budget, seen, outcome, ops, stale>>

BudgetRunsOut ==
    /\ pc # "prompt" /\ budget = "left" /\ budget' = "spent"
    /\ UNCHANGED <<pc, session, typed, req, committed, cancelled, seen, outcome, ops, stale>>

----------------------------------------------------------------------------
\* waitForDdlOperation

\* finishWaitErr: the operation is handed over when the budget is spent and
\* its outcome is not known; the caller's own cancellation comes first.
HandsOff(view, cancelError) ==
    view = "pending" /\ ~cancelled /\ cancelError /\ budget = "spent"

\* Mutant: only a wait that succeeded tells the caches.
WaitFailed_Quiet(view, cancelError) ==
    /\ UNCHANGED stale
    /\ IF HandsOff(view, cancelError) THEN HandOver("handoff")
       ELSE IF Repairable /\ view = "missingKind"
       THEN Continue("repair") /\ UNCHANGED <<req, committed, wait>>
       ELSE Fail(IF req.phase = "main" THEN "error" ELSE "phaseError")

\* handleDdlWaitError, or the hand-over of the operation's ID.
WaitFailed(view, cancelError) ==
    /\ Invalidate
    /\ IF HandsOff(view, cancelError) THEN HandOver("handoff")
       ELSE IF Repairable /\ view = "missingKind"
       THEN Continue("repair") /\ UNCHANGED <<req, committed, wait>>
       ELSE Fail(IF req.phase = "main" THEN "error" ELSE "phaseError")

\* The wait succeeded: the request is done, or the repair's rest follows.
WaitSucceeded ==
    /\ Invalidate
    /\ IF req.phase = "alter"
       THEN /\ Continue("submit") /\ req' = [req EXCEPT !.phase = "suffix"]
            /\ seen' = "pending" /\ UNCHANGED <<committed, budget, cancelled>>
       ELSE Return("ok")

\* pollDdlWithWaitBudget: a known outcome needs no RPC and no budget; that of
\* an operation whose metadata cannot be read is an error.
Observe(view) ==
    CASE view = "pending" -> Continue("sleep") /\ UNCHANGED <<req, committed, wait, stale>>
      [] view = "ok" -> WaitSucceeded \/ WaitFailed("ok", FALSE)
      [] view \in Failures -> WaitFailed(view, view = "cancelStatus")

Poll ==
    /\ pc = "poll"
    /\ \/ seen # "pending" /\ Observe(seen)
       \/ seen = "pending" /\ ~cancelled /\ budget # "spent" /\ Observe(View)
       \/ seen = "pending" /\ (cancelled \/ budget = "spent") /\ WaitFailed("pending", TRUE)
       \/ seen = "pending" /\ WaitFailed("pending", FALSE)      \* the RPC failed
    /\ UNCHANGED <<session, typed, ops>>

\* waitForNextDdlPoll: the tick may win against the other two.
Sleep ==
    /\ pc = "sleep"
    /\ \/ Continue("poll") /\ UNCHANGED <<req, committed, wait, stale>>
       \/ (cancelled \/ budget = "spent") /\ WaitFailed("pending", TRUE)
    /\ UNCHANGED <<session, typed, ops>>

----------------------------------------------------------------------------
\* default_sequence_kind.go

\* The commit timestamps of a failed operation: one for each statement,
\* empty where it was not applied, and the trailing empty ones may be absent.
Reports(op) ==
    LET applied(n) == [i \in 1..n |-> i \in op.done]
    IN {applied(n) : n \in {k \in 0..Len(op.ddls) : op.done \subseteq 1..k}}

\* provenSuccessfulPrefix; n, the whole request, where nothing is proven.
ProvenPrefix(report, n) ==
    LET applied == {i \in 1..Len(report) : report[i]}
        prefix == Cardinality(applied)
    IN IF Len(report) > n \/ applied # 1..prefix \/ prefix = n THEN n ELSE prefix

\* tryDefaultSequenceKindRepair.  Nothing of a request that was refused was
\* applied; metadata that proves nothing, or is not readable, leaves the
\* original error.
RepairFrom(prefix) ==
    /\ Continue("submit")
    /\ req' = [req EXCEPT !.phase = "alter",
                          !.suffix = SubSeq(req.ddls, prefix + 1, Len(req.ddls))]
    /\ seen' = "pending"
    /\ UNCHANGED <<committed, budget, cancelled>>

Repair ==
    /\ pc = "repair"
    /\ \/ req.cur = 0 /\ RepairFrom(0)
       \/ /\ req.cur # 0
          /\ \E r \in Reports(ops[req.cur]) :
                LET n == Len(req.ddls)
                    prefix == ProvenPrefix(r, n)
                IN IF prefix = n THEN Fail("error") ELSE RepairFrom(prefix)
       \/ Fail("error")
    /\ UNCHANGED <<session, typed, ops, stale>>

----------------------------------------------------------------------------

Prompt ==
    \/ SetLocalPolicy \/ Begin \/ UserWork \/ EndOwner
    \/ StartBatchDML \/ BufferDML \/ StartBatchDDL \/ AbortBatch
    \/ Ddl \/ BulkDdl \/ RunBatch

Work ==
    \/ AdmitRequest \/ Submit \/ Response
    \/ Poll \/ Sleep \/ Repair

Next ==
    \/ Prompt
    \/ Work
    \/ Cancel \/ BudgetRunsOut
    \/ \E o \in 1..MaxOps : Apply(o) \/ Complete(o)

Spec == Init /\ [][Next]_vars

----------------------------------------------------------------------------

\* How often statement id took effect.
Applied(id) ==
    Cardinality(UNION {{o} \X {i \in ops[o].done : ops[o].ddls[i] = id} : o \in 1..Len(ops)})

\* No DDL statement takes effect twice: neither the repair, which runs the
\* rest of a failed request, nor RUN BATCH after a failure repeats one
\* (provenSuccessfulPrefix, TakeForExecution).
DdlOnce == \A id \in 1..MaxDdl : Applied(id) <= 1

\* A DDL statement that waited and succeeded took effect with everything that
\* was submitted with it, the part before a repair included.
OkMeansApplied ==
    pc = "poll" /\ pc' = "prompt" /\ outcome'.kind = "ok"
      => \A i \in 1..Len(req.ddls) : Applied(req.ddls[i]) = 1

\* When DDL committed the transaction and then failed, the error says that
\* the transaction is committed, whichever later step failed.
CommitIsTold ==
    pc # "prompt" /\ pc' = "prompt" /\ committed
      /\ outcome'.kind \in {"refused", "error", "phaseError"}
      => outcome'.toldCommit

\* DDL never discards a transaction's work: it commits it, reports that the
\* Commit failed, or leaves it alone.
WorkKept ==
    pc # "prompt" /\ owner.work /\ owner' = Idle
      => committed' \/ outcome'.kind = "error"

\* Buffered DDL leaves the batch by ABORT BATCH, or for the request that runs
\* it: a refused RUN BATCH keeps it.
BatchKept ==
    batch.ddls # <<>> /\ batch'.ddls = <<>>
      => pc = "prompt" \/ (pc' = "submit" /\ req.ddls = batch.ddls)

\* A schema change of a request is not missed by the caches that ask the
\* schema generation, however the wait for it ended (handleDdlWaitError).
\* (An operation whose acceptance was never answered is not counted: nothing
\* tells the caches of it, and their entries only expire.)
CachesTold == pc = "prompt" => ~stale

\* An operation whose outcome the client has is not handed over as one that
\* still runs: a failed operation stays a failure when the budget is spent too.
HandoffIsPending ==
    pc # "prompt" /\ pc' = "prompt" /\ seen # "pending" => outcome'.kind # "handoff"

\* README: between START BATCH DDL and RUN BATCH, DDL statements are batched.
BatchedDdlWaits ==
    [][pc = "prompt" /\ batch.mode = "ddl" /\ pc' = "admit"
         => req'.ddls = batch.ddls]_vars

\* Between the steps: nothing was done twice, and no cache missed a change.
DdlSound == TypeOK /\ DdlOnce /\ CachesTold

\* What a DDL request may do to the transaction, the batch and the user's
\* knowledge of both.
DdlStep == OkMeansApplied /\ CommitIsTold /\ WorkKept /\ BatchKept /\ HandoffIsPending

=============================================================================
