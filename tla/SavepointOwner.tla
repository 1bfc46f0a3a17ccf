--------------------------- MODULE SavepointOwner ---------------------------
(***************************************************************************)
(* An explicit transaction with the owner journal (replayState): SAVEPOINT *)
(* by replay, automatic retry of ABORTED, and automatic DML batches.       *)
(*                                                                         *)
(* The server transaction (phys) is lost with its physical attempt; the    *)
(* journal, the queue, the markers and the retry budget stay with the      *)
(* logical owner (tc).  One action is one critical section of tm.mu.  A    *)
(* retry leaves the lock for its backoff; a SELECT is iterated, and every  *)
(* result is displayed, without it: meanwhile the deadline watcher may     *)
(* expire the owner.                                                       *)
(***************************************************************************)
EXTENDS Integers, Sequences, Functions

CONSTANTS
    Names,         \* savepoint names
    Observations,  \* what a fingerprint tells apart
    Savepoints,    \* CLI_SAVEPOINT_SUPPORT is ENABLED
    MaxRetries,    \* maxExplicitAbortRetries
    JournalLimit,  \* savepointJournalLimit
    MaxOps,        \* bound on the statements of one owner
    MaxAttempt     \* bound on the physical attempts before a ROLLBACK TO

ASSUME SavepointsAssumption == Savepoints \in BOOLEAN
ASSUME BoundAssumption ==
    MaxRetries \in Nat /\ JournalLimit \in Nat /\ MaxOps \in Nat /\ MaxAttempt \in Nat

VARIABLES
    pc,       \* where the CLI goroutine is
    st,       \* the statement it executes
    back,     \* the critical section an abort retry returns to
    tc,       \* *tm.tc with its replayState, or NoOwner
    phys,     \* what the server transaction has executed and answered
    held,     \* automatic DML taken from the queue by a flush being retried
    tok,      \* the capture token of the result in hand
    ops,      \* statements of this owner so far
    durable,  \* what the latest commit made durable
    lost      \* markers of an owner that its exhausted retry budget ended

vars == <<pc, st, back, tc, phys, held, tok, ops, durable, lost>>

Ops == 1..MaxOps

NoOwner ==
    [mode |-> "none", retry |-> FALSE, live |-> FALSE, attempt |-> 0, aborts |-> 0,
     expired |-> FALSE,
     inFlight |-> 0, reserved |-> 0,
     entries |-> <<>>, marks |-> <<>>, retained |-> 0, nextID |-> 0,
     recovering |-> FALSE, queued |-> <<>>, autoDML |-> <<>>]

Entry == [id: Nat, ops: Seq(Ops), obs: Observations]
Marker == [name: Names, pos: Nat]
Answer == [ops: Seq(Ops), obs: Observations]

OwnerType ==
    [mode: {"none", "pending", "rw", "ro"}, retry: BOOLEAN, live: BOOLEAN, attempt: Nat,
     aborts: 0..MaxRetries, expired: BOOLEAN,
     inFlight: 0..1, reserved: Nat,
     entries: Seq(Entry), marks: Seq(Marker), retained: 0..JournalLimit, nextID: Nat,
     recovering: BOOLEAN, queued: Seq(Ops), autoDML: Seq(Ops)]

NoTok == [attempt |-> 0, id |-> 0, plan |-> FALSE]

Kinds == {"dml", "enqueue", "mutate", "select", "plan", "savepoint",
          "runBatch", "abortBatch", "commit", "ddl"}
NoStatement == [kind |-> "savepoint", op |-> 0, name |-> "none"]

PCs == {"prompt", "determine", "enqueue", "flush", "exec", "query", "iterate",
        "savepoint", "commit", "backoff", "leave", "display"}

TypeOK ==
    /\ pc \in PCs /\ back \in PCs
    /\ st \in [kind: Kinds, op: 0..MaxOps, name: Names \cup {"none"}]
    /\ tc \in OwnerType
    /\ phys \in Seq(Answer)
    /\ held \in Seq(Ops)
    /\ tok \in [attempt: Nat, id: Nat, plan: BOOLEAN]
    /\ ops \in 0..MaxOps
    /\ durable \in Seq(Seq(Ops))
    /\ lost \in Nat

----------------------------------------------------------------------------
(* The journal.                                                            *)

InTxn == tc.mode # "none"

\* accountedBytes: a constant (the fingerprint) and the statements
Bytes(os) == 1 + Len(os)
MarkerBytes == 1

\* queuedAccounted: an empty queue reserves nothing
QueueBytes(q) == IF q = <<>> THEN 0 ELSE Bytes(q)

\* reserve
Room(o, n) == o.retained + n <= JournalLimit
Reserve(o, n) == [o EXCEPT !.retained = @ + n]

\* commitPrepared: the payload was reserved before
Journal(o, os, v) ==
    [o EXCEPT !.nextID = @ + 1,
              !.entries = Append(@, [id |-> o.nextID + 1, ops |-> os, obs |-> v])]

\* The bytes of entries i, i+1, ... of a journal
BytesFrom(es, i) ==
    LET sum[j \in 1..(Len(es) + 1)] ==
            IF j > Len(es) THEN 0 ELSE Bytes(es[j].ops) + sum[j + 1]
    IN  sum[i]

\* dropQueued
DropQueued(o) == [o EXCEPT !.retained = @ - QueueBytes(o.queued), !.queued = <<>>]

\* The pending query's reservation is given back.
ReleasePending(o) ==
    [o EXCEPT !.retained = @ - o.reserved, !.reserved = 0, !.inFlight = 0]

Marked(o, n) == \E i \in DOMAIN o.marks : o.marks[i].name = n

\* The loop of truncateAfter over the first i markers: those up to p are kept.
KeptMarks(ms, p) ==
    LET kept[i \in 0..Len(ms)] ==
            IF i = 0 THEN <<>>
            ELSE IF ms[i].pos <= p THEN Append(kept[i - 1], ms[i]) ELSE kept[i - 1]
    IN  kept[Len(ms)]

\* Mutant: markers at the position of the retracted entry go with it.
TruncateAfter_Early(o, p) ==
    LET kept == KeptMarks(o.marks, p - 1)
    IN  [o EXCEPT !.entries = SubSeq(@, 1, p),
                  !.marks = kept,
                  !.retained = @ - BytesFrom(o.entries, p + 1)
                                 - MarkerBytes * (Len(o.marks) - Len(kept))]

\* truncateAfter
TruncateAfter(o, p) ==
    LET kept == KeptMarks(o.marks, p)
    IN  [o EXCEPT !.entries = SubSeq(@, 1, p),
                  !.marks = kept,
                  !.retained = @ - BytesFrom(o.entries, p + 1)
                                 - MarkerBytes * (Len(o.marks) - Len(kept))]

\* rollbackToMarker
RollbackToMarker(o, i) ==
    LET p == o.marks[i].pos
    IN  [o EXCEPT !.entries = SubSeq(@, 1, p),
                  !.marks = SubSeq(@, 1, i),
                  !.retained = @ - BytesFrom(o.entries, p + 1)
                                 - MarkerBytes * (Len(o.marks) - i)]

\* retract
Retract(o, id) ==
    IF \E i \in DOMAIN o.entries : o.entries[i].id = id
    THEN TruncateAfter(o, (CHOOSE i \in DOMAIN o.entries : o.entries[i].id = id) - 1)
    ELSE o

Answers(es) == [i \in DOMAIN es |-> [ops |-> es[i].ops, obs |-> es[i].obs]]
Batches(as) == [i \in DOMAIN as |-> as[i].ops]

----------------------------------------------------------------------------
(* The owner's failure handling, as functions of the state a critical      *)
(* section works on.                                                       *)

S == [tc |-> tc, phys |-> phys, held |-> held, durable |-> durable]

\* retireTransactionContextLocked
End(s) == [s EXCEPT !.tc = NoOwner, !.phys = <<>>, !.held = <<>>]

\* enterRecoveryLocked; the automatic queue itself is left to ROLLBACK TO.
EnterRecovery(s) ==
    [s EXCEPT !.tc = [ReleasePending(DropQueued(s.tc)) EXCEPT
                        !.live = FALSE, !.recovering = TRUE],
              !.phys = <<>>, !.held = <<>>]

\* handleOwnerFailureLocked, for a read-write owner
HandleFailure(s) ==
    IF s.tc.marks # <<>> /\ ~s.tc.recovering THEN EnterRecovery(s) ELSE End(s)

Outcome(s, r) == {[s |-> s, r |-> r]}

\* Mutant: a reconstruction does not count.
Reconstruct_Free(s) ==
    [s EXCEPT !.tc = [ReleasePending(s.tc) EXCEPT !.live = TRUE], !.phys = <<>>]

\* reconstructExplicitPhysicalLocked: a new, empty attempt
Reconstruct(s) ==
    [s EXCEPT !.tc = [ReleasePending(s.tc) EXCEPT !.live = TRUE, !.attempt = @ + 1,
                                                  !.aborts = @ + 1],
              !.phys = <<>>]

\* Mutant: one reconstruction too many.
Recover_OneMore(s) ==
    IF s.tc.aborts > MaxRetries THEN Outcome(HandleFailure(s), "exhausted")
    ELSE Outcome(End(s), "failed")
         \cup (IF s.tc.expired THEN {} ELSE Outcome(Reconstruct(s), "wait"))

\* recoverExplicitAbortLocked up to the backoff.  The caller's context may be
\* cancelled and the constructor may fail.
Recover(s) ==
    IF s.tc.aborts >= MaxRetries THEN Outcome(HandleFailure(s), "exhausted")
    ELSE Outcome(End(s), "failed")
         \cup (IF s.tc.expired THEN {} ELSE Outcome(Reconstruct(s), "wait"))

\* ABORTED where the retry is eligible, or not captured by the owner
Aborted(s) == IF s.tc.retry THEN Recover(s) ELSE Outcome(HandleFailure(s), "failed")

----------------------------------------------------------------------------
(* The critical sections that a retry may repeat: the possible outcomes.   *)
(* An expired owner's RPCs do not succeed.                                 *)

\* executeRwTxAttemptLocked for one DML, Batch DML or MUTATE: admission,
\* execution with its observation, capture.
ExecOutcomes(s, os) ==
    IF ~Room(s.tc, Bytes(os)) THEN Outcome(s, "failed")
    ELSE Outcome(HandleFailure(s), "failed")
         \cup (IF s.tc.expired THEN {}
               ELSE Aborted(s)
                    \cup {[s |-> [s EXCEPT !.tc = Journal(Reserve(s.tc, Bytes(os)), os, v),
                                           !.phys = Append(@, [ops |-> os, obs |-> v])],
                           r |-> "ok"] : v \in Observations})

\* flushAutomaticDMLCaptureLocked: the queue is cleared before the RPC.  A
\* verified update count that differs is a failure like any other.
FlushOutcomes(s) ==
    LET q == s.tc.autoDML
        taken == [s EXCEPT !.tc.autoDML = <<>>, !.tc.queued = <<>>]
        released == [taken EXCEPT !.tc.retained = @ - QueueBytes(s.tc.queued), !.held = q]
    IN  IF q = <<>> THEN Outcome(s, "ok")
        ELSE Outcome(HandleFailure(released), "failed")
             \cup (IF s.tc.expired THEN {}
                   ELSE Aborted(released)
                        \cup {[s |-> [taken EXCEPT !.tc = Journal(taken.tc, s.tc.queued, v),
                                                   !.phys = Append(@, [ops |-> q, obs |-> v])],
                               r |-> "ok"] : v \in Observations})

\* The Commit RPC.  A Commit that failed retires the owner, whatever it did:
\* it may have taken effect, with the answer lost.
CommitOutcomes(s) ==
    LET committed == [End(s) EXCEPT !.durable = Batches(s.phys)]
    IN  Outcome(End(s), "failed")
        \cup (IF s.tc.expired THEN {}
              ELSE Outcome(committed, "ok") \cup Outcome(committed, "failed")
                   \cup (IF s.tc.retry THEN Recover(s) ELSE {}))

\* Mutant: the reservation of a failed SAVEPOINT is kept.
Settle_Leaks(p, n, f) ==
    CASE p = "savepoint" /\ f.r = "ok" ->
            {[f EXCEPT !.s.tc.marks = Append(@, [name |-> n, pos |-> Len(f.s.tc.entries)])]}
      [] p = "commit" /\ f.r = "ok" -> CommitOutcomes(f.s)
      [] p = "commit" /\ f.r = "exhausted" /\ f.s.tc.mode # "none" ->
            Outcome(HandleFailure(f.s), "exhausted")
      [] OTHER -> {f}

\* What the section p makes of the outcome of its flush.  CreateSavepoint adds
\* its marker, or gives the reservation back, also in recovery.  Commit goes on
\* to the RPC; a flush that exhausted the retry budget left an error that is
\* still ABORTED, which is offered to recoverExplicitAbortLocked once more.
Settle(p, n, f) ==
    CASE p = "savepoint" /\ f.r = "ok" ->
            {[f EXCEPT !.s.tc.marks = Append(@, [name |-> n, pos |-> Len(f.s.tc.entries)])]}
      [] p = "savepoint" /\ f.r \in {"failed", "exhausted"} /\ f.s.tc.mode # "none" ->
            {[f EXCEPT !.s.tc.retained = @ - MarkerBytes]}
      [] p = "commit" /\ f.r = "ok" -> CommitOutcomes(f.s)
      [] p = "commit" /\ f.r = "exhausted" /\ f.s.tc.mode # "none" ->
            Outcome(HandleFailure(f.s), "exhausted")
      [] OTHER -> {f}

Outcomes(p, s) ==
    CASE p = "exec" -> ExecOutcomes(s, <<st.op>>)
      [] p = "query" -> Outcome(s, "ok")
      [] OTHER -> UNION {Settle(p, st.name, f) : f \in FlushOutcomes(s)}

----------------------------------------------------------------------------
(* Steps.                                                                  *)

Become(s) ==
    /\ tc' = s.tc /\ phys' = s.phys /\ held' = s.held /\ durable' = s.durable
    /\ ops' = IF s.tc.mode = "none" THEN 0 ELSE ops
    /\ lost' = 0

Init ==
    /\ pc = "prompt" /\ back = "prompt"
    /\ st = NoStatement
    /\ tc = NoOwner /\ phys = <<>> /\ held = <<>>
    /\ tok = NoTok /\ ops = 0 /\ durable = <<>> /\ lost = 0

\* The token of the entry a section has just journaled
LatestTok(o) == [attempt |-> o.attempt, id |-> o.nextID, plan |-> FALSE]

\* Where the statement goes on after a section that succeeded
After(p) ==
    CASE p = "flush" /\ st.kind = "dml" -> "exec"
      [] p = "flush" /\ st.kind \in {"select", "plan"} -> "query"
      [] p = "flush" /\ st.kind = "commit" -> "commit"
      [] p = "query" -> "query"
      [] OTHER -> "leave"

Displayed(p) == p = "exec" \/ (p = "flush" /\ st.kind = "runBatch")

Finish(p, f) ==
    /\ tc' = f.s.tc /\ phys' = f.s.phys /\ durable' = f.s.durable
    /\ held' = IF f.r = "wait" THEN f.s.held ELSE <<>>
    /\ ops' = IF f.s.tc.mode = "none" THEN 0 ELSE ops
    /\ lost' = IF f.r = "exhausted" /\ f.s.tc.mode = "none" THEN Len(tc.marks) ELSE 0
    /\ back' = IF f.r = "wait" THEN p ELSE "prompt"
    /\ \/ f.r = "ok" /\ pc' = After(p)
       \/ f.r = "wait" /\ pc' = "backoff"
       \/ f.r \in {"failed", "exhausted"} /\ pc' = "leave"
    /\ tok' = IF f.r = "ok" /\ Displayed(p) THEN LatestTok(f.s.tc) ELSE NoTok
    /\ UNCHANGED st

\* Admitted in recovery: ROLLBACK, ROLLBACK TO (savepointRecoverySafeStatement).
Accepts == pc = "prompt" /\ InTxn /\ ~tc.recovering

\* executeStatement on a statement of several critical sections
Submit(k, n, p) ==
    /\ Accepts
    /\ ops < MaxOps
    /\ st' = [kind |-> k, op |-> ops + 1, name |-> n]
    /\ ops' = ops + 1
    /\ pc' = p
    /\ UNCHANGED <<back, tc, phys, held, tok, durable, lost>>

SubmitDML == \E k \in {"dml", "mutate", "enqueue", "select", "plan"} : Submit(k, "none", "determine")

SubmitEnd == \E k \in {"runBatch", "commit", "ddl"} :
    /\ Accepts /\ tc.mode = "rw"
    /\ k = "runBatch" => tc.autoDML # <<>>
    /\ st' = [kind |-> k, op |-> 0, name |-> "none"]
    /\ pc' = IF k = "ddl" THEN "commit" ELSE "flush"
    /\ UNCHANGED <<back, tc, phys, held, tok, ops, durable, lost>>

\* CreateSavepoint: duplicates and a full journal are refused, then the
\* marker is reserved and the queue flushed in the same section.
SubmitSavepoint ==
    /\ Accepts /\ Savepoints
    /\ \E n \in Names :
        /\ ~Marked(tc, n) /\ Room(tc, MarkerBytes)
        /\ st' = [kind |-> "savepoint", op |-> 0, name |-> n]
        /\ tc' = Reserve(tc, MarkerBytes)
    /\ pc' = "savepoint"
    /\ UNCHANGED <<back, phys, held, tok, ops, durable, lost>>

\* BEGIN, BEGIN RW, BEGIN RO.  RETRY_ABORTS_INTERNALLY is captured by a
\* pending or read-write owner; with neither capture there is no journal.
Begin ==
    /\ pc = "prompt" /\ ~InTxn
    /\ \/ \E r \in BOOLEAN :
            /\ Savepoints \/ r
            /\ \/ Become([S EXCEPT !.tc = [NoOwner EXCEPT !.mode = "pending", !.retry = r]])
               \/ Become([S EXCEPT !.tc = [NoOwner EXCEPT !.mode = "rw", !.retry = r,
                                                          !.live = TRUE, !.attempt = 1]])
       \/ Savepoints /\ Become([S EXCEPT !.tc = [NoOwner EXCEPT !.mode = "ro", !.live = TRUE,
                                                                !.attempt = 1]])
    /\ UNCHANGED <<pc, st, back, tok>>

\* DetermineTransaction: the first database statement of a pending owner
\* begins its read-write transaction.
Determine ==
    /\ pc = "determine"
    /\ \/ /\ tc.mode = "pending" /\ ~tc.expired
          /\ Become([S EXCEPT !.tc.mode = "rw", !.tc.live = TRUE, !.tc.attempt = 1])
          /\ pc' = CASE st.kind = "mutate" -> "exec" [] st.kind = "enqueue" -> "enqueue"
                     [] OTHER -> "flush"
       \/ tc.mode = "pending" /\ Become(S) /\ pc' = "leave"
       \/ /\ tc.mode = "rw" /\ Become(S)
          /\ pc' = CASE st.kind = "mutate" -> "exec" [] st.kind = "enqueue" -> "enqueue"
                     [] OTHER -> "flush"
       \/ tc.mode = "ro" /\ Become(S) /\ pc' = "leave"
    /\ UNCHANGED <<st, back, tok>>

\* TryEnqueueAutomaticDML
Enqueue ==
    /\ pc = "enqueue"
    /\ LET q == Append(tc.queued, st.op)
           n == QueueBytes(q) - QueueBytes(tc.queued)
       IN  IF Room(tc, n)
           THEN Become([S EXCEPT !.tc = [Reserve(tc, n) EXCEPT
                                            !.queued = q, !.autoDML = Append(@, st.op)]])
           ELSE Become(S)
    /\ pc' = "leave"
    /\ UNCHANGED <<st, back, tok>>

\* FlushAutomaticDML, executeRwTxAttemptLocked, CreateSavepoint, Commit.  The
\* restore barrier of the second retires an expired owner first: the
\* statement then runs on its own.
Section ==
    /\ pc \in {"flush", "exec", "savepoint", "commit"}
    /\ IF pc = "exec" /\ tc.expired
       THEN Become(End(S)) /\ pc' = "leave" /\ UNCHANGED <<st, back, tok>>
       ELSE \E f \in Outcomes(pc, S) : Finish(pc, f)

\* tryQueryInTransaction: admission and reservation; a PLAN reserves nothing.
Query ==
    /\ pc = "query"
    /\ LET n == IF st.kind = "plan" THEN 0 ELSE Bytes(<<st.op>>)
       IN  IF Room(tc, n)
           THEN /\ Become([S EXCEPT !.tc = [Reserve(tc, n) EXCEPT !.inFlight = 1, !.reserved = n]])
                /\ tok' = [attempt |-> tc.attempt, id |-> 0, plan |-> st.kind = "plan"]
                /\ pc' = "iterate"
           ELSE Become(S) /\ tok' = NoTok /\ pc' = "leave"
    /\ UNCHANGED <<st, back>>

\* completeAdmittedQuery on success
QueryDone ==
    /\ pc = "iterate" /\ ~tc.expired
    /\ LET done == [tc EXCEPT !.inFlight = 0, !.reserved = 0]
       IN  IF tok.plan THEN Become([S EXCEPT !.tc = done]) /\ UNCHANGED tok
           ELSE \E v \in Observations :
                 /\ Become([S EXCEPT !.tc = Journal(done, <<st.op>>, v),
                                     !.phys = Append(@, [ops |-> <<st.op>>, obs |-> v])])
                 /\ tok' = [tok EXCEPT !.id = tc.nextID + 1]
    /\ pc' = "leave"
    /\ UNCHANGED <<st, back>>

\* HandleOwnerFailure: without a marker only ABORTED ends the owner.
QueryFailed ==
    /\ pc = "iterate"
    /\ LET s == [S EXCEPT !.tc = ReleasePending(tc)]
       IN  Become(IF tc.marks # <<>> THEN EnterRecovery(s) ELSE s)
    /\ pc' = "leave" /\ tok' = NoTok
    /\ UNCHANGED <<st, back>>

\* tryExplicitAbortRetry: not for a PLAN, and not after output was delivered.
\* The ABORTED answer may be older than the expiry.
QueryAborted ==
    /\ pc = "iterate"
    /\ LET s == [S EXCEPT !.tc = ReleasePending(tc)]
       IN  \/ \E f \in Outcome(HandleFailure(s), "failed") : Finish("query", f)
           \/ /\ tc.retry /\ ~tok.plan
              /\ \E f \in Recover(s) : Finish("query", f)

\* Mutant: only the last answer of the prefix is compared.
Matches_LastOnly(es, seen) == \A i \in DOMAIN es : i = Len(es) => seen[i] = es[i].obs

\* replayPrefix: every fingerprint is compared
Matches(es, seen) == \A i \in DOMAIN es : seen[i] = es[i].obs

\* What a replay of es leaves on the server if it is accepted
Replayed(es, seen) == [i \in DOMAIN es |-> [ops |-> es[i].ops, obs |-> seen[i]]]

\* Mutant: the flush is repeated without its statements.
Restored_Forgets(s) == [s EXCEPT !.held = <<>>]

\* restoreAutomaticDMLForRetryLocked
Restored(s) ==
    IF s.held = <<>> THEN s
    ELSE [s EXCEPT !.tc = [Reserve(s.tc, QueueBytes(s.held)) EXCEPT
                             !.autoDML = s.held, !.queued = s.held],
                   !.held = <<>>]

\* The rest of recoverExplicitAbortLocked, with the lock held again: the
\* journal is replayed and the section repeated, or the attempt is replaced
\* again, or the owner ends.
Resume ==
    /\ pc = "backoff"
    /\ \/ \E f \in Outcome(End(S), "failed") : Finish(back, f)
       \/ /\ ~tc.expired
          /\ \E seen \in [DOMAIN tc.entries -> Observations] :
                /\ Matches(tc.entries, seen)
                /\ \E f \in Outcomes(back, Restored([S EXCEPT !.phys = Replayed(tc.entries, seen)])) :
                      Finish(back, f)
       \/ /\ ~tc.expired
          /\ \E f \in Recover(S) :
             \E g \in IF held = <<>> THEN {f} ELSE Settle(back, st.name, f) : Finish(back, g)

Release ==
    /\ Accepts /\ Savepoints
    /\ \E i \in DOMAIN tc.marks :
        Become([S EXCEPT !.tc.marks = SubSeq(@, 1, i - 1),
                         !.tc.retained = @ - MarkerBytes * (Len(tc.marks) - i + 1)])
    /\ pc' = "leave"
    /\ UNCHANGED <<st, back, tok>>

\* rollbackToSavepointLocked: the prefix is replayed on a new attempt before
\* it replaces the old one; any failure ends the owner.
RollbackTo ==
    /\ pc = "prompt" /\ InTxn /\ Savepoints /\ tc.attempt < MaxAttempt
    /\ \E i \in DOMAIN tc.marks :
        LET o == [RollbackToMarker(DropQueued(tc), i) EXCEPT !.autoDML = <<>>, !.recovering = FALSE]
        IN  \/ tc.mode # "rw" /\ Become([S EXCEPT !.tc = o])
            \/ /\ tc.mode = "rw"
               /\ \E seen \in [DOMAIN o.entries -> Observations] :
                    /\ Matches(o.entries, seen)
                    /\ Become([S EXCEPT !.tc = [o EXCEPT !.live = TRUE, !.attempt = @ + 1],
                                        !.phys = Replayed(o.entries, seen)])
            \/ tc.mode = "rw" /\ Become(End(S))
    /\ pc' = "leave"
    /\ UNCHANGED <<st, back, tok>>

\* ROLLBACK and CLOSE; COMMIT of an owner without a read-write transaction
Rollback ==
    /\ pc = "prompt" /\ InTxn
    /\ Become(End(S))
    /\ pc' = "leave"
    /\ UNCHANGED <<st, back, tok>>

\* ABORT BATCH: DiscardAutomaticDML
AbortBatch ==
    /\ Accepts /\ tc.autoDML # <<>>
    /\ Become([S EXCEPT !.tc = [DropQueued(tc) EXCEPT !.autoDML = <<>>]])
    /\ pc' = "leave"
    /\ st' = [kind |-> "abortBatch", op |-> 0, name |-> "none"]
    /\ UNCHANGED <<back, tok>>

\* leaveStatement
Leave ==
    /\ pc = "leave"
    /\ Become(IF tc.expired THEN End(S) ELSE S)
    /\ pc' = IF tok = NoTok THEN "prompt" ELSE "display"
    /\ st' = NoStatement
    /\ UNCHANGED <<back, tok>>

Belongs == InTxn /\ tok.attempt = tc.attempt

\* handleBufferedOutputFailure
DisplayFailed ==
    /\ pc = "display"
    /\ LET s == [S EXCEPT !.tc = IF tok.plan THEN tc ELSE Retract(tc, tok.id)]
       IN  Become(IF ~Belongs THEN S ELSE HandleFailure(s))
    /\ pc' = "prompt" /\ tok' = NoTok
    /\ UNCHANGED <<st, back>>

DisplayDone ==
    /\ pc = "display"
    /\ Become(S)
    /\ pc' = "prompt" /\ tok' = NoTok
    /\ UNCHANGED <<st, back>>

\* retireMatchingOwner, called by the watcher of TRANSACTION_TIMEOUT
Expire ==
    /\ InTxn /\ ~tc.expired
    /\ Become(IF pc \in {"prompt", "display"} THEN End(S) ELSE [S EXCEPT !.tc.expired = TRUE])
    /\ UNCHANGED <<pc, st, back, tok>>

Statement ==
    \/ Determine \/ Enqueue \/ Section \/ Query \/ QueryDone \/ QueryFailed
    \/ QueryAborted \/ Resume \/ Leave \/ DisplayFailed \/ DisplayDone

Next ==
    \/ SubmitDML \/ SubmitEnd \/ SubmitSavepoint \/ Begin
    \/ Release \/ RollbackTo \/ Rollback \/ AbortBatch
    \/ Statement \/ Expire

Spec == Init /\ [][Next]_vars

\* RPCs, the backoff and the display end: the caller's context has a timeout.
LiveSpec == Spec /\ WF_vars(Statement)

----------------------------------------------------------------------------
(* Properties.                                                             *)

\* As long as the attempt is not being replaced, the server transaction has
\* executed exactly the journal, with the answers the user was given: replay
\* at ROLLBACK TO or after ABORTED neither repeats, nor drops, nor reorders a
\* statement, and accepts no other answer.
PhysicalMatchesJournal ==
    tc.mode = "rw" /\ tc.live /\ pc # "backoff" => phys = Answers(tc.entries)

\* The journal's byte count is the sum of what it holds at every moment:
\* through a retraction, a truncation, a failed flush, recovery and retry
\* nothing is charged twice, leaked or given back twice.
RetainedExact ==
    LET inSavepoint == st.kind = "savepoint" /\ (pc = "savepoint" \/ back = "savepoint")
    IN  InTxn => tc.retained = BytesFrom(tc.entries, 1) + MarkerBytes * Len(tc.marks)
                               + QueueBytes(tc.queued) + tc.reserved
                               + (IF inSavepoint THEN MarkerBytes ELSE 0)

\* An owner in recovery has a marker to return to and nothing in flight; any
\* other owner's frozen queue is its automatic queue.
RecoveryShape ==
    IF tc.recovering
    THEN tc.marks # <<>> /\ ~tc.live /\ tc.queued = <<>> /\ tc.inFlight = 0
    ELSE tc.queued = tc.autoDML

\* Statements accepted and not yet executed: the automatic queue, or what a
\* retried flush has taken of it.
Waiting == (IF tc.recovering THEN <<>> ELSE tc.autoDML) \o held

\* No statement is journaled or queued twice in one transaction, whatever was
\* flushed, aborted, restored and repeated.
StatementsOnce ==
    /\ \A i, j \in DOMAIN tc.entries :
         \A k \in DOMAIN tc.entries[i].ops, l \in DOMAIN tc.entries[j].ops :
            tc.entries[i].ops[k] = tc.entries[j].ops[l] => i = j /\ k = l
    /\ IsInjective(Waiting)
    /\ \A i \in DOMAIN tc.entries : Range(tc.entries[i].ops) \cap Range(Waiting) = {}

\* A marker that a failed display of the latest statement does not retract
UsableMarker ==
    \E i \in DOMAIN tc.marks : pc = "display" => tc.marks[i].pos < Len(tc.entries)

\* Without automatic retry, an owner with a usable marker outlives any failure
\* of a statement or of its display: only the end of the transaction itself
\* (COMMIT, ROLLBACK, a failed ROLLBACK TO, TRANSACTION_TIMEOUT) ends it.
MarkersSurvive ==
    [][~tc.retry /\ ~tc.expired /\ pc \notin {"prompt", "commit"} /\ ~Expire /\ UsableMarker
       => tc'.mode # "none"]_vars

\* docs/savepoint.md: "An exhausted attempt budget falls back to the existing
\* valid-marker recovery behavior".
ExhaustionKeepsMarkers == lost = 0

\* Every statement ends: the retry budget is finite also when every flush,
\* replay and commit is aborted again.
StatementEnds == pc # "prompt" ~> pc = "prompt"

\* The journal is what the physical attempt would have to repeat, whatever the
\* retries and rollbacks: its bytes, its markers and its statements.
JournalExact == RetainedExact /\ RecoveryShape /\ StatementsOnce

==============================================================================
