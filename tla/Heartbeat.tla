------------------------------ MODULE Heartbeat ------------------------------
(***************************************************************************)
(* Keepalive of an explicit read-write transaction: the goroutines started *)
(* by EnableHeartbeat, each of which belongs to one physical attempt of    *)
(* one logical owner, against the CLI goroutine that replaces the attempt  *)
(* (ROLLBACK TO, abort retry), retires the owner or installs another one,  *)
(* and the timer goroutines that expire it.                                *)
(*                                                                         *)
(* One action is one critical section of tm.mu.  A statement is a frame    *)
(* (statementDepth > 0) in which critical sections follow one another;     *)
(* OwnerLifetime has their order, which keepalive does not depend on.      *)
(***************************************************************************)
EXTENDS Naturals, FiniteSets

CONSTANTS
    Owners,      \* identities of *transactionContext values
    Beats,       \* heartbeat goroutines that may exist at once
    Nil,         \* the nil pointer
    MaxAttempt   \* bound on the physical attempts of one owner

ASSUME NilAssumption == Nil \notin Owners /\ Nil \notin Beats
ASSUME AttemptAssumption == MaxAttempt \in Nat \ {0}

VARIABLES
    pc,         \* prompt, inside a statement, or in an abort retry's backoff
    tc,         \* *tm.tc, or NoOwner
    beat,       \* the heartbeat goroutines
    keepAlive,  \* KEEP_TRANSACTION_ALIVE
    queried     \* the goroutine and the attempt of the latest step's SELECT 1

vars == <<pc, tc, beat, keepAlive, queried>>

\* "asked" is a history field: KEEP_TRANSACTION_ALIVE when tc was created.
NoOwner ==
    [id |-> Nil, mode |-> "none", live |-> FALSE, attempt |-> 0,
     sendHeartbeat |-> FALSE, keepAliveDisabled |-> FALSE, cancel |-> Nil,
     expirePending |-> FALSE, asked |-> TRUE]

OwnerType ==
    [id: Owners \cup {Nil}, mode: {"none", "pending", "rw"}, live: BOOLEAN,
     attempt: 0..MaxAttempt, sendHeartbeat: BOOLEAN, keepAliveDisabled: BOOLEAN,
     cancel: Beats \cup {Nil}, expirePending: BOOLEAN, asked: BOOLEAN]

Off == [stage |-> "off", owner |-> Nil, attempt |-> 0, cancelled |-> FALSE]

BeatType ==
    [stage: {"off", "select", "acquire"}, owner: Owners \cup {Nil},
     attempt: 0..MaxAttempt, cancelled: BOOLEAN]

NoAttempt == <<Nil, 0>>
Attempts == {NoAttempt} \cup (Owners \X (1..MaxAttempt))
NoQuery == [by |-> NoAttempt, on |-> NoAttempt]

TypeOK ==
    /\ pc \in {"prompt", "body", "backoff", "implicitBackoff"}
    /\ tc \in OwnerType
    /\ beat \in [Beats -> BeatType]
    /\ keepAlive \in BOOLEAN
    /\ queried \in [by: Attempts, on: Attempts]

----------------------------------------------------------------------------
(* The owner and its goroutine are changed together under tm.mu: the       *)
(* operators below map such a pair to the next one.                        *)

State(o, b) == [tc |-> o, beat |-> b]
Now == State(tc, beat)
Become(s) == tc' = s.tc /\ beat' = s.beat /\ queried' = NoQuery

InTxn == tc.id # Nil
Physical == tc.mode = "rw" /\ tc.live
Idle == {b \in Beats : beat[b].stage = "off"}

\* A new owner has an identity no goroutine still refers to.
Fresh == Owners \ ({tc.id} \cup {beat[b].owner : b \in Beats})

\* EnableHeartbeat, with h for the goroutine it starts.
Enable(s, h) ==
    IF s.tc.mode # "rw" \/ s.tc.keepAliveDisabled THEN s
    ELSE IF s.tc.cancel # Nil THEN State([s.tc EXCEPT !.sendHeartbeat = TRUE], s.beat)
    ELSE State([s.tc EXCEPT !.sendHeartbeat = TRUE, !.cancel = h],
               [s.beat EXCEPT ![h] = [stage |-> "select", owner |-> s.tc.id,
                                      attempt |-> s.tc.attempt, cancelled |-> FALSE]])

\* Keepalive restarts only if this owner had it.
EnableAgain(s, h) == IF s.tc.sendHeartbeat THEN Enable(s, h) ELSE s

\* Mutant: the handle is dropped without cancelling the goroutine.
Stop_Forgets(s) == State([s.tc EXCEPT !.cancel = Nil], s.beat)

\* stopPhysicalHeartbeat; Close does the same for the keepalive.
Stop(s) ==
    IF s.tc.cancel = Nil THEN s
    ELSE State([s.tc EXCEPT !.cancel = Nil],
               [s.beat EXCEPT ![s.tc.cancel].cancelled = TRUE])

\* retireTransactionContextLocked
Retired(s) == State(NoOwner, Stop(s).beat)

\* Mutant: a replacement attempt keeps the goroutine of the previous one.
DiscardPhysical_KeepsBeat(s) == State([s.tc EXCEPT !.live = FALSE], s.beat)

\* discardPhysicalLocked, discardPhysicalKeepBudgetLocked
DiscardPhysical(s) == State([Stop(s).tc EXCEPT !.live = FALSE], Stop(s).beat)

\* Mutant: an attempt is counted by the constructor and again here.
Publish_Twice(s) == State([s.tc EXCEPT !.live = TRUE, !.attempt = @ + 2], s.beat)

\* publishPhysical
Publish(s) == State([s.tc EXCEPT !.live = TRUE, !.attempt = @ + 1], s.beat)

Init ==
    /\ pc = "prompt"
    /\ tc = NoOwner
    /\ beat = [b \in Beats |-> Off]
    /\ keepAlive \in BOOLEAN
    /\ queried = NoQuery

----------------------------------------------------------------------------
(* Statements.                                                             *)

\* enterStatement
Enter ==
    /\ pc = "prompt" /\ pc' = "body"
    /\ Become(Now)
    /\ UNCHANGED keepAlive

\* leaveStatement
Leave ==
    /\ pc = "body" /\ pc' = "prompt"
    /\ Become(IF tc.expirePending THEN Retired(Now) ELSE Now)
    /\ UNCHANGED keepAlive

\* syncExpiredOwnerRestore: the barrier before an owner is installed.
Sync ==
    /\ pc = "body" /\ tc.expirePending
    /\ Become(Retired(Now))
    /\ UNCHANGED <<pc, keepAlive>>

\* SET KEEP_TRANSACTION_ALIVE
SetKeepAlive ==
    /\ pc = "body"
    /\ keepAlive' \in BOOLEAN
    /\ Become(Now)
    /\ UNCHANGED pc

\* BeginPendingTransaction
BeginPending ==
    /\ pc = "body" /\ ~InTxn
    /\ \E p \in Fresh :
        Become(State([NoOwner EXCEPT !.id = p, !.mode = "pending", !.asked = keepAlive], beat))
    /\ UNCHANGED <<pc, keepAlive>>

\* activateTransactionLocked on o, and the policy frozen for it
Activated(o) ==
    LET s == Publish(State([o EXCEPT !.mode = "rw", !.sendHeartbeat = FALSE], beat))
    IN  State([s.tc EXCEPT !.keepAliveDisabled = ~keepAlive], s.beat)

New(p) == [NoOwner EXCEPT !.id = p, !.asked = keepAlive]

\* BeginReadWriteTransactionLocked on the pending owner or a new one; a
\* failed constructor leaves the pending owner as it was.
BeginReadWrite ==
    /\ pc = "body" /\ ~tc.expirePending
    /\ \/ tc.mode = "pending" /\ Become(Activated(tc))
       \/ ~InTxn /\ \E p \in Fresh : Become(Activated(New(p)))
       \/ Become(Now)
    /\ UNCHANGED <<pc, keepAlive>>

\* User SQL admitted on the physical transaction: tryQueryInTransaction,
\* executeRwTxAttemptLocked, TryEnqueueAutomaticDML and the flush.  It starts
\* the keepalive, and on failure the owner is kept (SELECT), rolled back
\* (DML), or kept for ROLLBACK TO without its physical transaction.  Unlike
\* the installing statements, a SELECT does not look at expirePending.
UserSQL ==
    /\ pc = "body" /\ Physical
    /\ \E h \in Idle : LET s == Enable(Now, h) IN
        \/ Become(s)
        \/ Become(Retired(s))
        \/ Become(DiscardPhysical(s))
    /\ UNCHANGED <<pc, keepAlive>>

\* ABORTED, on a statement that started the keepalive or on COMMIT: the
\* attempt is replaced and the goroutine waits without tm.mu.
Aborted ==
    /\ pc = "body" /\ Physical
    /\ \E h \in Idle : \E s \in {Now, Enable(Now, h)} :
        IF tc.expirePending
        THEN Become(Retired(s)) /\ UNCHANGED pc
        ELSE \/ Become(Retired(DiscardPhysical(s))) /\ UNCHANGED pc
             \/ /\ tc.attempt < MaxAttempt
                /\ Become(Publish(DiscardPhysical(s)))
                /\ pc' = "backoff"
    /\ UNCHANGED keepAlive

\* The wait is over: the journal is replayed on the new attempt, which may be
\* aborted again.
Resume ==
    /\ pc = "backoff"
    /\ \E h \in Idle :
        \/ Become(Retired(Now)) /\ pc' = "body"
        \/ /\ ~tc.expirePending
           /\ Become(EnableAgain(Now, h))
           /\ pc' = "body"
        \/ /\ ~tc.expirePending /\ tc.attempt < MaxAttempt
           /\ Become(Publish(DiscardPhysical(Now)))
           /\ UNCHANGED pc
    /\ UNCHANGED keepAlive

\* rollbackToSavepointLocked, from a live or from a discarded attempt
RollbackTo ==
    /\ pc = "body" /\ tc.mode = "rw" /\ tc.attempt < MaxAttempt
    /\ \E h \in Idle :
        \/ ~tc.expirePending /\ Become(EnableAgain(Publish(DiscardPhysical(Now)), h))
        \/ Become(Retired(Now))
    /\ UNCHANGED <<pc, keepAlive>>

\* COMMIT, ROLLBACK, CLOSE
EndTransaction ==
    /\ pc = "body" /\ InTxn
    /\ Become(Retired(Now))
    /\ UNCHANGED <<pc, keepAlive>>

\* DML outside a transaction commits in the critical section that began it,
\* unless it is ABORTED and retried: then its owner is visible meanwhile.
ImplicitDML ==
    /\ pc = "body" /\ ~InTxn /\ 1 < MaxAttempt
    /\ \E p \in Fresh : Become(Publish(DiscardPhysical(Activated(New(p)))))
    /\ pc' = "implicitBackoff"
    /\ UNCHANGED keepAlive

ResumeImplicit ==
    /\ pc = "implicitBackoff"
    /\ \/ Become(Retired(Now)) /\ pc' = "body"
       \/ /\ ~tc.expirePending /\ tc.attempt < MaxAttempt
          /\ Become(Publish(DiscardPhysical(Now)))
          /\ UNCHANGED pc
    /\ UNCHANGED keepAlive

----------------------------------------------------------------------------
(* Other goroutines.                                                       *)

\* retireMatchingOwner: at the prompt the owner is retired, inside a
\* statement it is marked and closed.  A watcher fires once.
Expire ==
    /\ InTxn /\ ~tc.expirePending
    /\ IF pc = "prompt" THEN Become(Retired(Now))
       ELSE LET s == Stop(Now) IN Become(State([s.tc EXCEPT !.expirePending = TRUE], s.beat))
    /\ UNCHANGED <<pc, keepAlive>>

\* A tick of startHeartbeat reads the attributes of whatever owner there is.
\* A cancelled goroutine may still take a tick: select has no order.
Tick(b) ==
    /\ beat[b].stage = "select"
    /\ beat' = IF ~InTxn THEN [beat EXCEPT ![b] = Off]
               ELSE IF tc.mode = "rw" /\ tc.sendHeartbeat
                    THEN [beat EXCEPT ![b].stage = "acquire"]
                    ELSE beat
    /\ queried' = NoQuery
    /\ UNCHANGED <<pc, tc, keepAlive>>

Current(b) ==
    /\ ~beat[b].cancelled
    /\ beat[b].owner = tc.id /\ beat[b].attempt = tc.attempt
    /\ ~tc.keepAliveDisabled

\* Mutant: the goroutine uses whatever read-write transaction there is.
Acquire_AnyOwner(b) ==
    /\ beat[b].stage = "acquire"
    /\ IF Physical
       THEN /\ beat' = [beat EXCEPT ![b].stage = "select"]
            /\ queried' = [by |-> <<beat[b].owner, beat[b].attempt>>,
                           on |-> <<tc.id, tc.attempt>>]
       ELSE beat' = [beat EXCEPT ![b] = Off] /\ queried' = NoQuery
    /\ UNCHANGED <<pc, tc, keepAlive>>

\* withReadWriteTransactionContext: SELECT 1 on the attempt it was started
\* for, or the end of the goroutine.
Acquire(b) ==
    /\ beat[b].stage = "acquire"
    /\ IF Physical /\ Current(b)
       THEN /\ beat' = [beat EXCEPT ![b].stage = "select"]
            /\ queried' = [by |-> <<beat[b].owner, beat[b].attempt>>,
                           on |-> <<tc.id, tc.attempt>>]
       ELSE beat' = [beat EXCEPT ![b] = Off] /\ queried' = NoQuery
    /\ UNCHANGED <<pc, tc, keepAlive>>

\* Mutant: the goroutine looks for the end of every transaction instead.
Done_NoTransaction(b) ==
    /\ beat[b].stage = "select" /\ ~InTxn
    /\ beat' = [beat EXCEPT ![b] = Off]
    /\ queried' = NoQuery
    /\ UNCHANGED <<pc, tc, keepAlive>>

\* ctx.Done()
Done(b) ==
    /\ beat[b].stage = "select" /\ beat[b].cancelled
    /\ beat' = [beat EXCEPT ![b] = Off]
    /\ queried' = NoQuery
    /\ UNCHANGED <<pc, tc, keepAlive>>

Next ==
    \/ Enter \/ Leave \/ Sync \/ SetKeepAlive
    \/ BeginPending \/ BeginReadWrite \/ UserSQL \/ Aborted \/ Resume
    \/ RollbackTo \/ EndTransaction \/ ImplicitDML \/ ResumeImplicit
    \/ Expire
    \/ \E b \in Beats : Tick(b) \/ Acquire(b) \/ Done(b)

Spec == Init /\ [][Next]_vars

\* Every goroutine is scheduled; tm.mu is released between any two critical
\* sections, and a select whose Done case stays ready takes it in the end.
Fairness ==
    \A b \in Beats : WF_vars(Tick(b)) /\ WF_vars(Acquire(b)) /\ SF_vars(Done(b))

LiveSpec == Spec /\ Fairness

----------------------------------------------------------------------------
(* Properties.                                                             *)

Running(b) == beat[b].stage # "off" /\ ~beat[b].cancelled

\* The owner's SQL has started a keepalive that is still owed: neither
\* replaced (backoff), nor expired, nor discarded for ROLLBACK TO.
Covered == Physical /\ tc.sendHeartbeat /\ ~tc.expirePending /\ pc # "backoff"

\* A goroutine that nobody cancelled is the one whose handle the owner holds,
\* was started for the owner's current attempt, and the owner asked for it:
\* no path that replaces or retires an attempt leaks the goroutine of the
\* previous one (stopPhysicalHeartbeat, Close).
SoleHeartbeat ==
    \A b \in Beats : Running(b) =>
        /\ tc.cancel = b
        /\ beat[b].owner = tc.id /\ beat[b].attempt = tc.attempt
        /\ tc.sendHeartbeat /\ ~tc.keepAliveDisabled

\* A transaction whose keepalive is owed has a goroutine that will pass the
\* checks of its next tick, also after ROLLBACK TO and abort retry replaced
\* the attempt (the restart through sendHeartbeat).
KeepaliveCovered == Covered => \E b \in Beats : Running(b) /\ Current(b)

\* SELECT 1 is never issued on another owner's transaction or on a later
\* attempt than the goroutine was started for (#922, the comments of
\* startHeartbeat), however late the tick is.
HeartbeatSparesReplacement == queried.by = queried.on

\* A cancelled goroutine ends: none is left over to tick for ever.
CancelledHeartbeatEnds ==
    \A b \in Beats : beat[b].cancelled ~> beat[b].stage = "off"

\* While the keepalive is owed, the server sees SELECT 1 again and again.
KeepaliveContinues ==
    \A p \in Owners :
        (Covered /\ tc.id = p) ~> (queried.on[1] = p \/ ~(Covered /\ tc.id = p))

\* A cancelled heartbeat ends, and the keepalive an owner is due goes on.
KeepaliveLives == CancelledHeartbeatEnds /\ KeepaliveContinues

==============================================================================
