--------------------------- MODULE OwnerLifetime ---------------------------
(***************************************************************************)
(* The life of one logical transaction owner (transactionContext) of a     *)
(* TransactionManager, from the statement that installs it to its          *)
(* retirement, while two kinds of timer goroutine (TRANSACTION_TIMEOUT and *)
(* IDLE_TRANSACTION_TIMEOUT watchers) race the single CLI goroutine.       *)
(*                                                                         *)
(* One action is one critical section of tm.mu (or the lock-free step      *)
(* between two of them), so every interleaving of the watchers with a      *)
(* statement is a behaviour.  RPCs issued under tm.mu are part of the      *)
(* action; their outcome is a nondeterministic choice.  SAVEPOINT capture, *)
(* explicit abort retry and automatic DML are off here: SavepointOwner     *)
(* models them.                                                            *)
(***************************************************************************)
EXTENDS Integers, Sequences

CONSTANTS
    Owners,      \* identities of *transactionContext values
    Nil,         \* the nil pointer
    Autocommit,  \* AUTOCOMMIT, fixed for a session of the model
    ReadOnly,    \* READONLY, fixed for a session of the model
    MaxGen,      \* bound on idle timer generations of one owner
    MaxUndo      \* bound on the SET LOCAL undo entries of one owner

ASSUME NilAssumption == Nil \notin Owners
ASSUME FlagAssumption == Autocommit \in BOOLEAN /\ ReadOnly \in BOOLEAN
ASSUME BoundAssumption == MaxGen \in Nat /\ MaxUndo \in Nat

VARIABLES
    pc,        \* where the CLI goroutine is
    ret,       \* where it continues after the restore barrier
    stmt,      \* the statement it executes
    depth,     \* tm.statementDepth
    hold,      \* tm.idleCLIHold
    owner,     \* *tm.tc, or NoOwner when tm.tc is nil
    pend,      \* tm.pendingLocalVarRestore
    sysVars,   \* the two duration variables of the registry
    saved,     \* SET LOCAL's oldValue between the setter and the push
    dlFired,   \* owners whose deadline watcher waits for tm.mu
    idleFired, \* (owner, generation) whose idle watcher waits for tm.mu
    notice     \* tm.idleNotice # nil

vars == <<pc, ret, stmt, depth, hold, owner, pend, sysVars, saved,
          dlFired, idleFired, notice>>

VarNames == {"timeout", "idle"}  \* TRANSACTION_TIMEOUT, IDLE_TRANSACTION_TIMEOUT
Durations == {0, 1}              \* 0 is NULL or 0: no timer

\* An entry of the undo log.  A deleted entry leaves a slot that names no
\* variable: replay passes over it.
NoName == "none"
LocalVar == [name: VarNames \cup {NoName}, old: Durations]
Deleted == [name |-> NoName, old |-> 0]

Kinds == {"begin", "beginRW", "beginRO", "setTxnRW", "setTxnRO", "dml", "select",
          "commit", "rollback", "set", "setLocal", "show", "dump", "runBatch"}

SetKinds == {"set", "setLocal"}
Statement == [kind: Kinds, name: VarNames, val: Durations]
Statements == {s \in Statement :
                 s.kind \notin SetKinds => s.name = "timeout" /\ s.val = 0}

NoStatement == [kind |-> "show", name |-> "timeout", val |-> 0]

MutationKinds == {"beginRW", "dml"}     \* MutationStatement
LazyKinds == {"dml", "select", "runBatch"}
AckKinds == {"begin", "beginRW", "beginRO", "rollback"}
UserWorkKinds == Kinds \ {"commit", "rollback", "set", "setLocal", "show"}

PendingModes == {"none", "pending"}
OwnerModes == {"none", "pending", "rw", "ro"}
TimerStates == {"off", "running", "elapsed"}

OwnerType ==
    [id: Owners \cup {Nil}, mode: OwnerModes,
     timeout: Durations, firstUse: BOOLEAN, armed: BOOLEAN, passed: BOOLEAN,
     expirePending: BOOLEAN, undo: Seq(LocalVar),
     idle: Durations, work: BOOLEAN, rearm: BOOLEAN, held: BOOLEAN,
     gen: Nat, timer: TimerStates, quiet: BOOLEAN]

\* tm.tc = nil.  "quiet" is a history field: the idle interval elapsed with
\* no admitted user work since.
NoOwner ==
    [id |-> Nil, mode |-> "none",
     timeout |-> 0, firstUse |-> FALSE, armed |-> FALSE, passed |-> FALSE,
     expirePending |-> FALSE, undo |-> <<>>,
     idle |-> 0, work |-> FALSE, rearm |-> FALSE, held |-> FALSE,
     gen |-> 0, timer |-> "off", quiet |-> FALSE]

InstallPoints == {"installPending", "installRW", "installRO", "installDump", "runDml"}
PCs == {"prompt", "enter", "entry", "sync", "restore", "notice", "lazy", "determine",
        "body", "beginBody", "setVar", "setLocalApply", "setLocalPush", "query",
        "iterate", "queryAbort", "dumpClose", "leave", "unhold"} \cup InstallPoints

IdleFiring == [id: Owners, gen: Nat]

TypeOK ==
    /\ pc \in PCs /\ ret \in PCs
    /\ stmt \in Statement
    /\ depth \in 0..2 /\ hold \in 0..1
    /\ owner \in OwnerType
    /\ pend \in Seq(LocalVar)
    /\ sysVars \in [VarNames -> Durations]
    /\ saved \in Seq(LocalVar)
    /\ dlFired \subseteq Owners
    /\ idleFired \subseteq IdleFiring
    /\ notice \in BOOLEAN

----------------------------------------------------------------------------
(* The undo log.                                                           *)

\* Replaying a log backwards through the setters: the first entry of a name
\* is applied last, so its value stands.
Replay(vals, log) ==
    [v \in VarNames |->
        IF \E i \in DOMAIN log : log[i].name = v
        THEN log[CHOOSE i \in DOMAIN log :
                    /\ log[i].name = v
                    /\ \A j \in 1..(i - 1) : log[j].name # v].old
        ELSE vals[v]]

\* retireLocalVarUndo
DropName(log, v) == [i \in DOMAIN log |-> IF log[i].name = v THEN Deleted ELSE log[i]]

\* The session's durable values: the registry with every LOCAL value undone.
SessionValues == Replay(sysVars, pend \o owner.undo \o saved)

----------------------------------------------------------------------------
(* The owner's timers.                                                     *)

InTxn == owner.id # Nil
Blocked == depth > 0 \/ hold > 0

\* armTransactionDeadlineLocked
Arm(o) ==
    IF o.mode = "ro" THEN o
    ELSE [o EXCEPT !.firstUse = TRUE, !.armed = o.armed \/ o.timeout > 0]

\* rearmIdleLocked, for an owner with a duration and user work
Rearm(o) ==
    [o EXCEPT !.rearm = FALSE, !.held = FALSE, !.gen = o.gen + 1, !.timer = "running"]

\* noteIdleUserWorkLocked.  Every caller is inside a statement, where the
\* owner is blocked: the timer is cancelled without a new generation.
NoteWork(o) ==
    [o EXCEPT !.work = TRUE, !.held = FALSE, !.timer = "off",
              !.rearm = o.idle > 0, !.quiet = FALSE]

\* The armed deadline has passed, so an RPC bound to it cannot succeed.
CanSucceed(o) == ~o.passed

\* retireTransactionContextLocked: Close cancels the watchers that have not
\* fired, the undo log is detached for the CLI goroutine to replay.
Retire ==
    /\ owner' = NoOwner
    /\ pend' = pend \o owner.undo

\* restoreLocalVarsIfIdle
RestoreLocalVars ==
    IF InTxn THEN UNCHANGED <<pend, sysVars>>
    ELSE sysVars' = Replay(sysVars, pend) /\ pend' = <<>>

\* expirePendingBlocksLocked, pendingRestoreBlocksNewOwnerLocked
InstallBlocked == owner.expirePending \/ (~InTxn /\ pend # <<>>)

\* A new owner has an identity no goroutine still refers to.
Fresh == Owners \ (dlFired \cup {f.id : f \in idleFired})

\* Mutant: one duration is not captured.
NewOwner_NoIdle(p, m) ==
    [NoOwner EXCEPT !.id = p, !.mode = m, !.timeout = sysVars["timeout"]]

\* A new owner with its captured durations; SHOW, SET and buffering leave
\* it as it is.
NewOwner(p, m) ==
    [NoOwner EXCEPT !.id = p, !.mode = m,
                    !.timeout = sysVars["timeout"], !.idle = sysVars["idle"]]

\* activateTransactionLocked on the pending owner, or on a new one.  A new
\* read-only owner snapshots its durations at activation.
Activated(o) ==
    IF InTxn THEN o = owner ELSE \E p \in Fresh : o = NewOwner(p, "none")

----------------------------------------------------------------------------
(* The CLI frame around a statement.                                       *)

Goto(p) == pc' = p /\ UNCHANGED ret
Barrier(p) == pc' = "sync" /\ ret' = p         \* syncExpiredOwnerRestore, then p
Exit == pc' = "restore" /\ ret' = "leave"      \* the deferred restore, then leave
Decremented(n) == IF n > 0 THEN n - 1 ELSE 0

Init ==
    /\ pc = "prompt" /\ ret = "prompt"
    /\ stmt = NoStatement
    /\ depth = 0 /\ hold = 0
    /\ owner = NoOwner
    /\ pend = <<>> /\ saved = <<>>
    /\ sysVars \in [VarNames -> Durations]
    /\ dlFired = {} /\ idleFired = {}
    /\ notice = FALSE

\* beginIdleResultHold.  The bounds: user work needs a timer generation left,
\* SET LOCAL needs room in the undo log.
Submit(s) ==
    /\ pc = "prompt"
    /\ s.kind \in UserWorkKinds => owner.gen < MaxGen
    /\ s.kind = "setLocal" => Len(owner.undo) < MaxUndo
    /\ stmt' = s
    /\ hold' = hold + 1
    /\ Goto("enter")
    /\ UNCHANGED <<depth, owner, pend, sysVars, saved, dlFired, idleFired, notice>>

\* enterStatement
Enter ==
    /\ pc = "enter"
    /\ depth' = depth + 1
    /\ Goto("entry")
    /\ UNCHANGED <<stmt, hold, owner, pend, sysVars, saved, dlFired, idleFired, notice>>

\* The restore at the entry of Session.executeStatement.
EntryRestore ==
    /\ pc = "entry"
    /\ RestoreLocalVars
    /\ Barrier("notice")
    /\ UNCHANGED <<stmt, depth, hold, owner, saved, dlFired, idleFired, notice>>

\* syncExpiredOwnerRestore, first half: retire an expired owner under tm.mu.
Sync ==
    /\ pc = "sync"
    /\ IF owner.expirePending THEN Retire ELSE UNCHANGED <<owner, pend>>
    /\ Goto("restore")
    /\ UNCHANGED <<stmt, depth, hold, sysVars, saved, dlFired, idleFired, notice>>

\* restoreLocalVarsIfIdle, then the point the barrier was called from.
Restore ==
    /\ pc = "restore"
    /\ RestoreLocalVars
    /\ Goto(ret)
    /\ UNCHANGED <<stmt, depth, hold, owner, saved, dlFired, idleFired, notice>>

\* Mutant: the early return on a notice skips leaveStatement.
ConsumeNotice_SkipsLeave ==
    /\ pc = "notice"
    /\ notice' = FALSE
    /\ Goto(IF notice /\ stmt.kind \notin AckKinds THEN "unhold" ELSE "lazy")
    /\ UNCHANGED <<stmt, depth, hold, owner, pend, sysVars, saved, dlFired, idleFired>>

\* consumeIdleNotice(acksIdleNotice(stmt))
ConsumeNotice ==
    /\ pc = "notice"
    /\ notice' = FALSE
    /\ Goto(IF notice /\ stmt.kind \notin AckKinds THEN "leave" ELSE "lazy")
    /\ UNCHANGED <<stmt, depth, hold, owner, pend, sysVars, saved, dlFired, idleFired>>

NeedsLazyOwner == ~Autocommit /\ ~InTxn /\ stmt.kind \in LazyKinds

\* ensureLazyAutocommitOwner
EnsureLazyOwner ==
    /\ pc = "lazy"
    /\ IF ~NeedsLazyOwner THEN Goto("determine")
       ELSE IF ReadOnly /\ stmt.kind \in MutationKinds THEN Goto("leave")
       ELSE Barrier("installPending")
    /\ UNCHANGED <<stmt, depth, hold, owner, pend, sysVars, saved, dlFired, idleFired, notice>>

\* Mutant: the final frame drops the depth and leaves the marked owner.
Leave_KeepsExpired ==
    /\ pc = "leave"
    /\ depth' = Decremented(depth)
    /\ pc' = "restore" /\ ret' = IF depth' = 0 THEN "unhold" ELSE "leave"
    /\ UNCHANGED <<stmt, hold, owner, pend, sysVars, saved, dlFired, idleFired, notice>>

\* leaveStatement: the depth transition and the retirement of an owner that
\* expired during the statement share one critical section.  A CLI frame is
\* still held, so the idle timer is not touched.
Leave ==
    /\ pc = "leave"
    /\ depth' = Decremented(depth)
    /\ IF depth' = 0 /\ owner.expirePending THEN Retire ELSE UNCHANGED <<owner, pend>>
    /\ pc' = "restore" /\ ret' = IF depth' = 0 THEN "unhold" ELSE "leave"
    /\ UNCHANGED <<stmt, hold, sysVars, saved, dlFired, idleFired, notice>>

\* Mutant: the release rearms, but forgets an interval that elapsed meanwhile.
Unhold_ForgetsHeld ==
    /\ pc = "unhold"
    /\ hold' = Decremented(hold)
    /\ owner' = IF owner.rearm THEN Rearm(owner) ELSE owner
    /\ stmt' = NoStatement
    /\ pc' = "restore" /\ ret' = "prompt"
    /\ UNCHANGED <<depth, pend, sysVars, saved, dlFired, idleFired, notice>>

\* endIdleResultHold with maybeRearmOrExpireIdleLocked: the pager and the
\* output are done, so work recorded during the statement starts a new
\* interval and an interval that elapsed meanwhile ends the transaction.
Unhold ==
    /\ pc = "unhold"
    /\ hold' = Decremented(hold)
    /\ \/ /\ owner.rearm
          /\ owner' = Rearm(owner)
          /\ UNCHANGED <<pend, notice>>
       \/ /\ ~owner.rearm /\ owner.held
          /\ Retire
          /\ notice' = TRUE
       \/ /\ ~owner.rearm /\ ~owner.held
          /\ UNCHANGED <<owner, pend, notice>>
    /\ stmt' = NoStatement
    /\ pc' = "restore" /\ ret' = "prompt"
    /\ UNCHANGED <<depth, sysVars, saved, dlFired, idleFired>>

----------------------------------------------------------------------------
(* Opening a transaction.  An RPC's failure leaves the owner it was for.   *)

\* BeginReadWriteTransactionLocked on owner o: arm before the constructor,
\* then activate; a constructor failure keeps a pending owner (armed) and
\* discards a fresh one.
BeginReadWrite(onOk, onFail) ==
    \E o \in {owner} \cup {NewOwner(p, "none") : p \in Fresh} :
        /\ Activated(o)
        /\ \/ /\ CanSucceed(Arm(o))
              /\ owner' = NoteWork([Arm(o) EXCEPT !.mode = "rw"])
              /\ onOk
           \/ /\ owner' = IF InTxn THEN Arm(o) ELSE NoOwner
              /\ onFail

\* BeginReadOnlyTransactionLocked: the query that starts it is not bound to
\* the deadline, and a failure changes nothing.
BeginReadOnly(onOk, onFail) ==
    \/ \E o \in {owner} \cup {NewOwner(p, "none") : p \in Fresh} :
        /\ Activated(o)
        /\ owner' = NoteWork([o EXCEPT !.mode = "ro"])
        /\ onOk
    \/ UNCHANGED owner /\ onFail

\* DetermineTransactionLocked
DetermineTransaction(onOk, onFail) ==
    IF owner.mode # "pending" THEN UNCHANGED owner /\ onOk
    ELSE IF ReadOnly THEN BeginReadOnly(onOk, onFail)
    ELSE BeginReadWrite(onOk, onFail)

\* A mutation statement settles a pending transaction before its handler runs.
Determine ==
    /\ pc = "determine"
    /\ IF stmt.kind \notin MutationKinds THEN UNCHANGED owner /\ Goto("body")
       ELSE IF ReadOnly THEN UNCHANGED owner /\ Exit
       ELSE DetermineTransaction(Goto("body"), Exit)
    /\ UNCHANGED <<stmt, depth, hold, pend, sysVars, saved, dlFired, idleFired, notice>>

\* withOwnerInstallAfterRestore and runInNewOrExistRwTxPolicy: an owner that
\* expired, or undo it left behind, sends the caller back to the barrier.
InstallRetry ==
    /\ pc \in InstallPoints
    /\ InstallBlocked
    /\ Barrier(pc)
    /\ UNCHANGED <<stmt, depth, hold, owner, pend, sysVars, saved, dlFired, idleFired, notice>>

\* BeginPendingTransaction, for BEGIN and for a lazy AUTOCOMMIT=FALSE owner;
\* both have seen that there is none, and only the CLI goroutine installs one.
InstallPending ==
    /\ pc = "installPending" /\ ~InstallBlocked
    /\ ~InTxn
    /\ \E p \in Fresh : owner' = NewOwner(p, "pending")
    /\ IF stmt.kind = "begin" THEN Exit ELSE Goto("determine")
    /\ UNCHANGED <<stmt, depth, hold, pend, sysVars, saved, dlFired, idleFired, notice>>

\* BeginReadWriteTransaction
InstallRW ==
    /\ pc = "installRW" /\ ~InstallBlocked
    /\ BeginReadWrite(Exit, Exit)
    /\ UNCHANGED <<stmt, depth, hold, pend, sysVars, saved, dlFired, idleFired, notice>>

\* BeginReadOnlyTransaction
InstallRO ==
    /\ pc = "installRO" /\ ~InstallBlocked
    /\ BeginReadOnly(Exit, Exit)
    /\ UNCHANGED <<stmt, depth, hold, pend, sysVars, saved, dlFired, idleFired, notice>>

----------------------------------------------------------------------------
(* The statement handlers.                                                 *)

Body(kinds) == pc = "body" /\ stmt.kind \in kinds

\* ShowTransactionStatement, and any statement that only reads.
ShowStatement ==
    /\ Body({"show"}) /\ Exit
    /\ UNCHANGED <<stmt, depth, hold, owner, pend, sysVars, saved, dlFired, idleFired, notice>>

\* BeginStatement: its own barrier comes first.
BeginStatement ==
    /\ Body({"begin"}) /\ Barrier("beginBody")
    /\ UNCHANGED <<stmt, depth, hold, owner, pend, sysVars, saved, dlFired, idleFired, notice>>

BeginDispatch ==
    /\ pc = "beginBody"
    /\ IF InTxn THEN Exit
       ELSE Barrier(IF ReadOnly THEN "installRO" ELSE "installPending")
    /\ UNCHANGED <<stmt, depth, hold, owner, pend, sysVars, saved, dlFired, idleFired, notice>>

\* BeginRwStatement: Determine has already settled a pending owner.
BeginRwStatement ==
    /\ Body({"beginRW"})
    /\ IF owner.mode \in {"rw", "ro"} THEN Exit ELSE Barrier("installRW")
    /\ UNCHANGED <<stmt, depth, hold, owner, pend, sysVars, saved, dlFired, idleFired, notice>>

\* BeginRoStatement closes a read-only transaction and promotes a pending one.
BeginRoStatement ==
    /\ Body({"beginRO"})
    /\ \/ /\ owner.mode = "rw" /\ Exit /\ UNCHANGED <<owner, pend>>
       \/ /\ owner.mode = "ro" /\ Barrier("installRO") /\ Retire
       \/ /\ owner.mode \in PendingModes /\ Barrier("installRO")
          /\ UNCHANGED <<owner, pend>>
    /\ UNCHANGED <<stmt, depth, hold, sysVars, saved, dlFired, idleFired, notice>>

\* SetTransactionStatement reads the attributes, then begins through the
\* install barrier with what it read.
SetTransactionStatement ==
    /\ Body({"setTxnRW", "setTxnRO"})
    /\ IF owner.mode # "pending" THEN Exit
       ELSE Barrier(IF stmt.kind = "setTxnRO" THEN "installRO" ELSE "installRW")
    /\ UNCHANGED <<stmt, depth, hold, owner, pend, sysVars, saved, dlFired, idleFired, notice>>

\* CommitStatement and RollbackStatement.  Without SAVEPOINT an attempted
\* Commit retires the owner whatever its outcome.
EndTransaction ==
    /\ Body({"commit", "rollback"})
    /\ IF InTxn THEN Retire ELSE UNCHANGED <<owner, pend>>
    /\ Exit
    /\ UNCHANGED <<stmt, depth, hold, sysVars, saved, dlFired, idleFired, notice>>

\* DmlStatement enters runInNewOrExistRwTxPolicy, whose loop begins with the
\* barrier; RUN BATCH reaches the same handler in a nested frame.
DmlStatement ==
    /\ Body({"dml"}) /\ Barrier("runDml")
    /\ UNCHANGED <<stmt, depth, hold, owner, pend, sysVars, saved, dlFired, idleFired, notice>>

\* runInNewOrExistRwTxLocked in a transaction: the RPC, then rearm on success
\* or the rollback of handleOwnerFailureLocked.
RunDmlInTransaction ==
    /\ pc = "runDml" /\ ~InstallBlocked /\ InTxn
    /\ Exit
    /\ \/ /\ owner.mode = "rw" /\ CanSucceed(owner)
          /\ owner' = NoteWork(Arm(owner)) /\ UNCHANGED pend
       \/ /\ owner.mode = "rw" /\ Retire
       \/ /\ owner.mode # "rw" /\ UNCHANGED <<owner, pend>>
    /\ UNCHANGED <<stmt, depth, hold, sysVars, saved, dlFired, idleFired, notice>>

\* runInNewOrExistRwTxLocked with no owner: an implicit transaction begins,
\* runs and commits or rolls back without releasing tm.mu.  A deadline watcher
\* of that owner can fire but finds it gone.
RunDmlImplicit ==
    /\ pc = "runDml" /\ ~InstallBlocked /\ ~InTxn
    /\ Exit
    /\ \/ UNCHANGED dlFired
       \/ /\ sysVars["timeout"] > 0
          /\ \E p \in Fresh : dlFired' = dlFired \cup {p}
    /\ UNCHANGED <<stmt, depth, hold, owner, pend, sysVars, saved, idleFired, notice>>

\* SelectStatement: DetermineTransactionAndState
SelectStatement ==
    /\ Body({"select"})
    /\ DetermineTransaction(Goto("query"), Exit)
    /\ UNCHANGED <<stmt, depth, hold, pend, sysVars, saved, dlFired, idleFired, notice>>

\* tryQueryInTransaction; outside a transaction the query is single-use.
TryQuery ==
    /\ pc = "query"
    /\ IF owner.mode \in {"rw", "ro"}
       THEN owner' = Arm(owner) /\ Goto("iterate")
       ELSE UNCHANGED owner /\ Exit
    /\ UNCHANGED <<stmt, depth, hold, pend, sysVars, saved, dlFired, idleFired, notice>>

\* The iterator is consumed without tm.mu; completeAdmittedQuery counts it.
CompleteQuery ==
    /\ pc = "iterate"
    /\ owner' = IF InTxn THEN NoteWork(owner) ELSE owner
    /\ Exit \/ Goto("queryAbort")
    /\ UNCHANGED <<stmt, depth, hold, pend, sysVars, saved, dlFired, idleFired, notice>>

\* rollbackReadWriteIfAborted
QueryAborted ==
    /\ pc = "queryAbort"
    /\ IF owner.mode = "rw" THEN Retire ELSE UNCHANGED <<owner, pend>>
    /\ Exit
    /\ UNCHANGED <<stmt, depth, hold, sysVars, saved, dlFired, idleFired, notice>>

\* RunBatchStatement executes the batch in a nested ExecuteStatement frame.
RunBatchStatement ==
    /\ Body({"runBatch"})
    /\ IF ReadOnly THEN Exit /\ UNCHANGED <<stmt, depth>>
       ELSE /\ Goto("entry")
            /\ depth' = depth + 1
            /\ stmt' = [stmt EXCEPT !.kind = "dml"]
    /\ UNCHANGED <<hold, owner, pend, sysVars, saved, dlFired, idleFired, notice>>

\* DUMP: withReadOnlyTransactionOrStart
DumpStatement ==
    /\ Body({"dump"})
    /\ IF owner.mode = "ro" THEN Exit ELSE Barrier("installDump")
    /\ UNCHANGED <<stmt, depth, hold, owner, pend, sysVars, saved, dlFired, idleFired, notice>>

InstallDump ==
    /\ pc = "installDump" /\ ~InstallBlocked
    /\ IF owner.mode = "rw" THEN UNCHANGED owner /\ Exit
       ELSE BeginReadOnly(Goto("dumpClose"), Exit)
    /\ UNCHANGED <<stmt, depth, hold, pend, sysVars, saved, dlFired, idleFired, notice>>

\* The dump's rows are read under tm.mu; the deferred close then retires it.
DumpClose ==
    /\ pc = "dumpClose"
    /\ IF owner.mode = "ro" THEN Retire ELSE UNCHANGED <<owner, pend>>
    /\ Exit
    /\ UNCHANGED <<stmt, depth, hold, sysVars, saved, dlFired, idleFired, notice>>

\* SetStatement: its own barrier first, so undo of an expired owner cannot
\* overwrite the new value, then the setter and retireLocalVarUndo.
SetStatement ==
    /\ Body({"set"}) /\ Barrier("setVar")
    /\ UNCHANGED <<stmt, depth, hold, owner, pend, sysVars, saved, dlFired, idleFired, notice>>

\* Mutant: SET leaves the variable's undo entries behind.
SetVar_KeepsUndo ==
    /\ pc = "setVar"
    /\ sysVars' = [sysVars EXCEPT ![stmt.name] = stmt.val]
    /\ Exit
    /\ UNCHANGED <<stmt, depth, hold, owner, pend, saved, dlFired, idleFired, notice>>

SetVar ==
    /\ pc = "setVar"
    /\ sysVars' = [sysVars EXCEPT ![stmt.name] = stmt.val]
    /\ owner' = [owner EXCEPT !.undo = DropName(owner.undo, stmt.name)]
    /\ Exit
    /\ UNCHANGED <<stmt, depth, hold, pend, saved, dlFired, idleFired, notice>>

\* SetLocalStatement: the setter runs outside tm.mu ...
SetLocalStatement ==
    /\ Body({"setLocal"})
    /\ IF InTxn
       THEN /\ saved' = <<[name |-> stmt.name, old |-> sysVars[stmt.name]]>>
            /\ sysVars' = [sysVars EXCEPT ![stmt.name] = stmt.val]
            /\ Goto("setLocalApply")
       ELSE UNCHANGED <<saved, sysVars>> /\ Exit
    /\ UNCHANGED <<stmt, depth, hold, owner, pend, dlFired, idleFired, notice>>

RestoreSaved == sysVars' = Replay(sysVars, saved) /\ saved' = <<>> /\ Exit

\* The captured duration is frozen by first database use, or user work.
Frozen ==
    \/ stmt.name = "timeout" /\ owner.firstUse /\ owner.timeout # stmt.val
    \/ stmt.name = "idle" /\ owner.work /\ owner.idle # stmt.val

\* ... then applyLocalTransactionTimeout or applyLocalIdleTimeout under it ...
SetLocalApply ==
    /\ pc = "setLocalApply"
    /\ IF ~InTxn \/ Frozen
       THEN RestoreSaved /\ UNCHANGED owner
       ELSE /\ owner' = [owner EXCEPT ![stmt.name] = stmt.val]
            /\ Goto("setLocalPush") /\ UNCHANGED <<sysVars, saved>>
    /\ UNCHANGED <<stmt, depth, hold, pend, dlFired, idleFired, notice>>

\* ... and pushLocalVarUndo last, in a critical section of its own.
SetLocalPush ==
    /\ pc = "setLocalPush"
    /\ IF InTxn
       THEN /\ owner' = [owner EXCEPT !.undo = owner.undo \o saved]
            /\ saved' = <<>> /\ Exit /\ UNCHANGED sysVars
       ELSE RestoreSaved /\ UNCHANGED owner
    /\ UNCHANGED <<stmt, depth, hold, pend, dlFired, idleFired, notice>>

----------------------------------------------------------------------------
(* The timer goroutines.                                                   *)

CLIUnchanged == UNCHANGED <<pc, ret, stmt, depth, hold, sysVars, saved>>

\* The owner's total budget runs out: its context fires, the watcher heads
\* for tm.mu.  Close before this cancels the watcher instead.
DeadlinePasses ==
    /\ owner.armed /\ ~owner.passed
    /\ owner' = [owner EXCEPT !.passed = TRUE]
    /\ dlFired' = dlFired \cup {owner.id}
    /\ UNCHANGED <<pend, idleFired, notice>> /\ CLIUnchanged

\* Mutant: the watcher retires its owner in the middle of a statement.
WatchDeadline_IgnoresDepth(p) ==
    /\ p \in dlFired
    /\ dlFired' = dlFired \ {p}
    /\ IF owner.id = p THEN Retire ELSE UNCHANGED <<owner, pend>>
    /\ UNCHANGED <<idleFired, notice>> /\ CLIUnchanged

\* Mutant: the watcher retires whatever owner it finds.
WatchDeadline_AnyOwner(p) ==
    /\ p \in dlFired
    /\ dlFired' = dlFired \ {p}
    /\ IF depth > 0
       THEN owner' = [owner EXCEPT !.expirePending = InTxn] /\ UNCHANGED pend
       ELSE Retire
    /\ UNCHANGED <<idleFired, notice>> /\ CLIUnchanged

\* retireMatchingOwner: only the owner the watcher was started for; during a
\* statement it is marked, so the statement can restore SET LOCAL first.
WatchDeadline(p) ==
    /\ p \in dlFired
    /\ dlFired' = dlFired \ {p}
    /\ \/ owner.id # p /\ UNCHANGED <<owner, pend>>
       \/ /\ owner.id = p /\ depth > 0
          /\ owner' = [owner EXCEPT !.expirePending = TRUE, !.timer = "off"]
          /\ UNCHANGED pend
       \/ owner.id = p /\ depth = 0 /\ Retire
    /\ UNCHANGED <<idleFired, notice>> /\ CLIUnchanged

\* The quiet interval of the current generation elapses.
IdleElapses ==
    /\ owner.timer = "running"
    /\ owner' = [owner EXCEPT !.timer = "elapsed", !.quiet = TRUE]
    /\ idleFired' = idleFired \cup {[id |-> owner.id, gen |-> owner.gen]}
    /\ UNCHANGED <<pend, dlFired, notice>> /\ CLIUnchanged

\* Mutant: a rearmed timer does not disown the watcher of the old interval.
Current_AnyGeneration(f) == owner.id = f.id /\ owner.idle > 0 /\ owner.work

\* The watcher's owner and generation are still the current ones.
Current(f) == owner.id = f.id /\ owner.gen = f.gen /\ owner.idle > 0 /\ owner.work

\* Mutant: the interval ends the transaction wherever the statement is.
WatchIdle_IgnoresBlocked(f) ==
    /\ f \in idleFired
    /\ idleFired' = idleFired \ {f}
    /\ IF Current(f) THEN Retire /\ notice' = TRUE ELSE UNCHANGED <<owner, pend, notice>>
    /\ UNCHANGED dlFired /\ CLIUnchanged

\* tryIdleExpire
WatchIdle(f) ==
    /\ f \in idleFired
    /\ idleFired' = idleFired \ {f}
    /\ \/ ~Current(f) /\ UNCHANGED <<owner, pend, notice>>
       \/ /\ Current(f) /\ Blocked
          /\ owner' = [owner EXCEPT !.held = TRUE]
          /\ UNCHANGED <<pend, notice>>
       \/ /\ Current(f) /\ ~Blocked
          /\ Retire /\ notice' = TRUE
    /\ UNCHANGED dlFired /\ CLIUnchanged

----------------------------------------------------------------------------
Frame == Enter \/ EntryRestore \/ Sync \/ Restore \/ ConsumeNotice
            \/ EnsureLazyOwner \/ Leave \/ Unhold

Install == Determine \/ InstallRetry \/ InstallPending \/ InstallRW \/ InstallRO \/ InstallDump

Handler == ShowStatement \/ BeginStatement \/ BeginDispatch \/ BeginRwStatement
              \/ BeginRoStatement \/ SetTransactionStatement \/ EndTransaction
              \/ DmlStatement \/ RunDmlInTransaction \/ RunDmlImplicit
              \/ SelectStatement \/ TryQuery \/ CompleteQuery \/ QueryAborted
              \/ RunBatchStatement \/ DumpStatement \/ DumpClose
              \/ SetStatement \/ SetVar \/ SetLocalStatement \/ SetLocalApply \/ SetLocalPush

Next ==
    \/ \E s \in Statements : Submit(s)
    \/ Frame \/ Install \/ Handler
    \/ DeadlinePasses \/ IdleElapses
    \/ \E p \in Owners : WatchDeadline(p)
    \/ \E f \in idleFired : WatchIdle(f)

Spec == Init /\ [][Next]_vars

\* A submitted statement runs to its end: every RPC is bound to a statement
\* timeout.  A goroutine whose context fired gets tm.mu.  Nothing obliges the
\* user to type, nor a deadline to pass.
Fairness ==
    /\ WF_vars(Frame \/ Install \/ Handler)
    /\ \A p \in Owners : WF_vars(WatchDeadline(p))
    /\ WF_vars(\E f \in idleFired : WatchIdle(f))

FairSpec == Spec /\ Fairness

----------------------------------------------------------------------------
(* Properties.                                                             *)

\* The deadline watcher's mark never outlives the statement it was made in
\* (leaveStatement retires in the same critical section that drops the
\* depth), and only marks an owner whose budget is spent.
ExpirePendingScoped ==
    owner.expirePending => depth > 0 /\ owner.passed

\* A transaction captures the session's durable durations: an owner is never
\* installed while a dead owner's SET LOCAL values are still in the registry.
CapturesSessionValues ==
    [][\A v \in VarNames :
          owner'.id \notin {Nil, owner.id} => owner'[v] = SessionValues[v]]_vars

\* SET LOCAL never loses the owner between the setter and its undo entry,
\* although it releases tm.mu twice on the way.
SetLocalKeepsOwner ==
    pc \in {"setLocalApply", "setLocalPush"} => InTxn

\* No statement does its work while the notice of an idle expiry is unread.
NoticeBeforeWork ==
    notice => pc \in {"prompt", "enter", "entry", "sync", "restore", "notice", "unhold"}
                 /\ depth <= 1

\* An idle transaction is only rolled back at rest and after a whole quiet
\* interval with no work admitted since, however late a watcher gets tm.mu.
IdleExpiryNeedsQuiet ==
    [][notice' /\ ~notice => depth = 0 /\ hold' = 0 /\ owner.quiet]_vars

\* A watcher goroutine ends only the owner whose timer it is: the transaction
\* that replaced it never dies of a late watcher.
WatcherSparesReplacement ==
    [][pc' = pc /\ owner'.id # owner.id => owner.passed \/ owner.quiet]_vars

\* With AUTOCOMMIT=FALSE, DML never runs as an implicit transaction of its own.
AutocommitOffGroups ==
    pc = "runDml" /\ ~InstallBlocked /\ ~Autocommit => InTxn

\* A spent budget, and an elapsed interval, are always acted upon.
SpentOwnerRetires ==
    \A p \in Owners : (owner.id = p /\ owner.passed) ~> (owner.id # p)

HeldExpiryResolves == owner.held ~> ~owner.held

\* No owner is held for ever: a spent one retires, and an expiry that waits for
\* a statement to end takes place.
OwnerEnds == SpentOwnerRetires /\ HeldExpiryResolves

=============================================================================
