--------------------------- MODULE SystemVariables ---------------------------
(***************************************************************************)
(* The system variable registry: the table of variables with the flags     *)
(* that say how each may change, SET, SET LOCAL, RESET and RESET ALL       *)
(* against a transaction owner and a manual batch, and the startup values  *)
(* that RESET restores.                                                    *)
(*                                                                         *)
(* A value is 0, the default (for TRANSACTION_TAG the empty slot), or 1.   *)
(* How owners end while a statement runs is OwnerLifetime's; here an owner *)
(* ends between two statements.                                            *)
(***************************************************************************)
EXTENDS Naturals, Sequences

CONSTANTS
    Vars,     \* the variables that statements name
    MaxUndo   \* bound: SET LOCAL statements of one owner

Values == {0, 1}

\* var_defs.go, by scope.  Startup, connection and result variables, and
\* UnimplementedVar, are read-only to SET.
ReadOnlyVars ==
    {"CLI_SKIP_SYSTEM_COMMAND", "CLI_HISTORY_FILE", "CLI_HOST", "CLI_PORT",
     "CLI_EMULATOR_PLATFORM", "CLI_IMPERSONATE_SERVICE_ACCOUNT", "CLI_ENDPOINT"}
ConnectionVars == {"CLI_PROJECT", "CLI_INSTANCE", "CLI_DATABASE", "CLI_ROLE"}
ResultVars ==
    {"CLI_VERSION", "CLI_CURRENT_WIDTH", "READ_TIMESTAMP", "COMMIT_TIMESTAMP",
     "COMMIT_RESPONSE"}
StartupVars ==
    {"CLI_MCP", "CLI_INSECURE", "CLI_CA_CERT_FILE", "CLI_CLIENT_CERT_FILE",
     "CLI_CLIENT_CERT_KEY", "CLI_WITHOUT_AUTHENTICATION", "CLI_LOG_GRPC",
     "CLI_SPANNER_METRICS_EXPORTER", "CLI_SPANNER_METRICS_ENDPOINT",
     "CLI_SPANNER_TRACES_EXPORTER", "CLI_SPANNER_TRACES_ENDPOINT",
     "CLI_SPANNER_TRACES_SAMPLE_RATIO"}

\* Session variables with no flag.
SwitchVars ==
    {"AUTO_PARTITION_MODE", "DATA_BOOST_ENABLED", "AUTO_BATCH_DML",
     "AUTO_BATCH_DML_UPDATE_COUNT", "AUTO_BATCH_DML_UPDATE_COUNT_VERIFICATION",
     "EXCLUDE_TXN_FROM_CHANGE_STREAMS", "RETURN_COMMIT_STATS", "CLI_VERBOSE",
     "CLI_PROFILE", "CLI_LINT_PLAN", "CLI_USE_PAGER", "CLI_AUTOWRAP", "CLI_ELLIPSIS",
     "CLI_ENABLE_HIGHLIGHT", "CLI_PROTOTEXT_MULTILINE", "CLI_MARKDOWN_CODEBLOCK",
     "CLI_TRY_PARTITION_QUERY", "CLI_ECHO_EXECUTED_DDL", "CLI_ECHO_INPUT",
     "CLI_AUTO_CONNECT_AFTER_CREATE", "CLI_ENABLE_PROGRESS_BAR"}
DisplayVars ==
    {"DDL_EXECUTION_MODE", "DDL_ASYNC_WAIT_TIMEOUT", "DEFAULT_SEQUENCE_KIND",
     "CLI_TAB_VISUALIZE", "CLI_SKIP_COLUMN_NAMES", "CLI_STRING_QUOTE_MODE",
     "CLI_EXPLAIN_HANGING_INDENT", "CLI_EXPLAIN_CONCISE_METADATA",
     "CLI_FUZZY_FINDER_KEY", "CLI_FUZZY_FINDER_OPTIONS", "CLI_TABLE_STREAMING",
     "CLI_STYLED_OUTPUT", "CLI_WIDTH_STRATEGY", "OPTIMIZER_VERSION",
     "OPTIMIZER_STATISTICS_PACKAGE", "TRANSACTION_TAG", "STATEMENT_TAG"}
LimitVars ==
    {"CLI_PROMPT", "CLI_PROMPT2", "MAX_PARTITIONS", "MAX_PARTITIONED_PARALLELISM",
     "CLI_TAB_WIDTH", "CLI_EXPLAIN_WRAP_WIDTH", "CLI_TABLE_PREVIEW_ROWS",
     "CLI_SQL_TABLE_NAME", "CLI_SQL_BATCH_SIZE", "CLI_SUPPRESS_RESULT_LINES",
     "MAX_COMMIT_DELAY", "STATEMENT_TIMEOUT"}
PolicyVars ==
    {"CLI_FIXED_WIDTH", "RPC_PRIORITY", "TRANSACTION_TIMEOUT",
     "CLI_IDLE_TRANSACTION_TIMEOUT", "CLI_DDL_IN_TRANSACTION_MODE",
     "DEFAULT_ISOLATION_LEVEL", "READ_LOCK_MODE", "CLI_DATABASE_DIALECT",
     "CLI_QUERY_MODE", "AUTOCOMMIT_DML_MODE", "CLI_FORMAT", "CLI_PARSE_MODE"}
PlanVars ==
    {"CLI_EXPLAIN_FORMAT", "CLI_EXPLAIN_OPERATOR_HEADER", "CLI_EXPLAIN_PRINT_SECTIONS",
     "CLI_LOG_LEVEL", "READ_ONLY_STALENESS"}
OtherVars ==
    {"CLI_DUMP_CYCLIC_MODE", "CLI_DUMP_CYCLIC_MAX_BYTES", "CLI_TYPE_STYLES",
     "CLI_ANALYZE_COLUMNS", "CLI_INLINE_STATS", "RETRY_ABORTS_INTERNALLY"}

\* Session variables with a flag.
TxnGuarded == {"READONLY", "DIRECTED_READ", "CLI_SAVEPOINT_SUPPORT"}
BatchGuarded == {"CLI_SAVEPOINT_SUPPORT"}
InitOnly == {"CLI_ENABLE_ADC_PLUS"}
FileBacked == {"PROTO_DESCRIPTORS_FILE_PATH", "PROTO_DESCRIPTORS",   \* noReset
               "CLI_OUTPUT_TEMPLATE_FILE"}
NoLocal == {"DIRECTED_READ", "COMMIT_PRIORITY", "KEEP_TRANSACTION_ALIVE", "AUTOCOMMIT",
            "CLI_SAVEPOINT_SUPPORT"} \cup FileBacked

Settable ==
    SwitchVars \cup DisplayVars \cup LimitVars \cup PolicyVars \cup PlanVars
    \cup OtherVars \cup TxnGuarded \cup InitOnly \cup NoLocal

\* localAllowed, resettable
LocalAllowed == Settable \ (InitOnly \cup TxnGuarded \cup NoLocal)
Resettable == Settable \ (InitOnly \cup FileBacked)

\* Variables whose SET LOCAL also changes the owner.
Hooked == {"TRANSACTION_TIMEOUT", "CLI_IDLE_TRANSACTION_TIMEOUT",
           "CLI_DDL_IN_TRANSACTION_MODE", "RETRY_ABORTS_INTERNALLY"}

VARIABLES
    val,      \* the writable settings (of TRANSACTION_TAG, the next owner's slot)
    snap,     \* startupSnapshots
    owner,    \* tm.tc, as far as variables ask
    undo,     \* its localVarUndo
    batch,    \* session.batch.IsActive()
    ok,       \* whether the last statement succeeded
    base      \* history: what the settings are without SET LOCAL

vars == <<val, snap, owner, undo, batch, ok, base>>

NoOwner == [mode |-> "none", used |-> FALSE, work |-> FALSE, caught |-> <<>>]
Tag == "TRANSACTION_TAG"

\* No variable is called "none".
NoName == "none"
ASSUME VarsAssumption == NoName \notin Vars

\* An entry of the undo log.  A deleted entry leaves a slot that names no
\* variable: replay passes over it.
LocalVar == [name: (Vars \cap LocalAllowed) \cup {NoName}, old: Values]
Deleted == [name |-> NoName, old |-> 0]

TypeOK ==
    /\ val \in [Vars -> Values] /\ base \in [Vars -> Values]
    /\ snap \in [Vars \cap Resettable -> Values]
    /\ owner.mode \in {"none", "pending", "rw", "ro"}
    /\ owner.mode = "none" => owner = NoOwner /\ undo = <<>>
    /\ owner.mode # "none" => owner.caught \in [Vars \cap Hooked -> Values]
    /\ undo \in Seq(LocalVar)
    /\ batch \in BOOLEAN

\* CaptureStartupSnapshots: after flags, configuration and --set.
Capture(v) == [x \in Vars \cap Resettable |-> v[x]]

\* Bound: the startup gives every variable its default, or none.
Init ==
    /\ \E x \in Values : val = [v \in Vars |-> x]
    /\ base = val
    /\ snap = Capture(val)
    /\ owner = NoOwner /\ undo = <<>> /\ batch = FALSE
    /\ ok = TRUE

----------------------------------------------------------------------------
\* The registry

InTransaction == owner.mode # "none"

\* checkSetPolicy
Admitted(v) ==
    /\ v \in Settable \ InitOnly
    /\ v \in TxnGuarded => ~InTransaction
    /\ v \in BatchGuarded => ~batch

\* What a handler refuses of a value that parses: setTransactionTagSlot, and
\* rejectToggle of AUTOCOMMIT.
HandlerAdmits(v, x) ==
    /\ v = Tag => owner.mode # "rw"
    /\ (v = "AUTOCOMMIT" /\ val[v] # x) => (~InTransaction /\ ~batch)

\* Registry.Set of a value that parses.
CanSet(v, x) ==
    /\ Admitted(v) /\ HandlerAdmits(v, x)

\* retireLocalVarUndo
Supersede(names) ==
    [i \in DOMAIN undo |-> IF undo[i].name \in names THEN Deleted ELSE undo[i]]

\* SET; a value that does not parse is refused too.  PROTO_DESCRIPTORS is
\* also guarded by an open batch.
Set(v, x) ==
    /\ \/ /\ CanSet(v, x) /\ ~(v = "PROTO_DESCRIPTORS" /\ batch)
          /\ val' = [val EXCEPT ![v] = x] /\ base' = [base EXCEPT ![v] = x]
          /\ undo' = Supersede({v})
          /\ ok' = TRUE
       \/ ok' = FALSE /\ UNCHANGED <<val, base, undo>>
    /\ UNCHANGED <<snap, owner, batch>>

\* The owner has started to use v: firstUse, or idleUserWork for the idle
\* timeout, which a constructor of either kind counts as.
InUse(v) ==
    IF v = "CLI_IDLE_TRANSACTION_TIMEOUT" THEN owner.mode \in {"rw", "ro"} ELSE owner.used

\* checkLocalRetryAborts, applyLocalTransactionTimeout, applyLocalIdleTimeout,
\* applyLocalDdlInTransactionMode: what the owner has started to use stays.
HookAdmits(v, x) ==
    CASE v = "RETRY_ABORTS_INTERNALLY" ->
           owner.mode = "pending" /\ ~owner.used /\ ~owner.work
      [] v \in {"TRANSACTION_TIMEOUT", "CLI_IDLE_TRANSACTION_TIMEOUT"} ->
           InUse(v) => owner.caught[v] = x
      [] v = "CLI_DDL_IN_TRANSACTION_MODE" -> ~owner.work
      [] OTHER -> TRUE

\* Registry.Set(upperName, oldValue): the setting is as it was.
Refused(v, x) == val' = val

\* SET LOCAL: the value is set, the owner takes it over, or the value goes.
SetLocal(v, x) ==
    /\ InTransaction
    /\ IF v \in LocalAllowed /\ CanSet(v, x)
       THEN IF HookAdmits(v, x)
            THEN /\ Len(undo) < MaxUndo
                 /\ val' = [val EXCEPT ![v] = x]
                 /\ undo' = Append(undo, [name |-> v, old |-> val[v]])
                 /\ owner' = IF v \in Hooked THEN [owner EXCEPT !.caught[v] = x] ELSE owner
                 /\ ok' = TRUE
            ELSE Refused(v, x) /\ ok' = FALSE /\ UNCHANGED <<undo, owner>>
       ELSE ok' = FALSE /\ UNCHANGED <<val, undo, owner>>
    /\ UNCHANGED <<snap, batch, base>>

----------------------------------------------------------------------------
\* RESET (var_reset.go)

\* Mutant: RESET ALL asks for each permission only when it is needed.
Prepared_Resettable(names) == names \subseteq Resettable

\* prepareReset: every name is checked before any is changed; a setting that
\* has its startup value needs no permission.
Prepared(names) ==
    /\ names \subseteq Resettable
    /\ \A v \in names : val[v] = snap[v] \/ CanSet(v, snap[v])

\* commitReset sets one variable after the other and stops at the first that
\* cannot be set.
Committed(names) ==
    {v \in names : val[v] # snap[v] => CanSet(v, snap[v])}

\* commitPersistentReset: the reset values, and the end of their SET LOCAL.
CommitReset(names) ==
    LET done == Committed(names)
        all == done = names
    IN /\ val' = [v \in Vars |-> IF v \in done THEN snap[v] ELSE val[v]]
       /\ base' = [v \in Vars |-> IF v \in done THEN snap[v] ELSE base[v]]
       /\ undo' = IF all THEN Supersede(names) ELSE undo
       /\ ok' = all

ResetNames(names) ==
    /\ IF Prepared(names) THEN CommitReset(names)
       ELSE ok' = FALSE /\ UNCHANGED <<val, base, undo>>
    /\ UNCHANGED <<snap, owner, batch>>

Reset(v) == ResetNames({v})
ResetAll == ResetNames(Vars \cap Resettable)

----------------------------------------------------------------------------
\* The owner and the batch

\* What an owner takes from the settings when it is created.
Fresh(mode) ==
    [NoOwner EXCEPT !.mode = mode, !.caught = [v \in Vars \cap Hooked |-> val[v]]]

\* A pending owner, a read-only one, or a read-write one, which consumes the
\* tag once its constructor succeeded.
Begin(mode) ==
    /\ ~InTransaction
    /\ owner' = [Fresh(mode) EXCEPT !.used = (mode = "rw")]
    /\ IF mode = "rw"
       THEN val' = [val EXCEPT ![Tag] = 0] /\ base' = [base EXCEPT ![Tag] = 0]
       ELSE UNCHANGED <<val, base>>
    /\ ok' = TRUE
    /\ UNCHANGED <<snap, undo, batch>>

\* The slot is empty after the constructor; a value that SET LOCAL replaced
\* comes back when the owner ends.
Consume(done) ==
    IF done
    THEN /\ val' = [val EXCEPT ![Tag] = 0]
         /\ base' = IF \A i \in 1..Len(undo) : undo[i].name # Tag
                    THEN [base EXCEPT ![Tag] = 0] ELSE base
    ELSE UNCHANGED <<val, base>>

\* BeginReadWriteTransactionLocked on a pending owner.
Promote(done) ==
    /\ owner.mode = "pending"
    /\ owner' = IF done THEN [owner EXCEPT !.mode = "rw", !.used = TRUE]
                ELSE [owner EXCEPT !.used = TRUE]
    /\ Consume(done) /\ ok' = done
    /\ UNCHANGED <<snap, undo, batch>>

Work ==
    /\ owner.mode = "rw" /\ ~owner.work
    /\ owner' = [owner EXCEPT !.work = TRUE] /\ ok' = TRUE
    /\ UNCHANGED <<val, snap, undo, batch, base>>

\* Mutant: the entries are replayed in the order they were made, and the last
\* one of a name stands.
Replayed_Forward(entries) ==
    [v \in Vars |->
        IF \E i \in DOMAIN entries : entries[i].name = v
        THEN entries[CHOOSE i \in DOMAIN entries :
                        /\ entries[i].name = v
                        /\ \A j \in DOMAIN entries : j > i => entries[j].name # v].old
        ELSE val[v]]

\* restoreLocalVarsIfIdle, when no owner is left: the entries go back through
\* the setters from last to first, so the first entry of a name stands.
Replayed(entries) ==
    [v \in Vars |->
        IF \E i \in DOMAIN entries : entries[i].name = v
        THEN entries[CHOOSE i \in DOMAIN entries :
                        /\ entries[i].name = v
                        /\ \A j \in 1..(i - 1) : entries[j].name # v].old
        ELSE val[v]]

End ==
    /\ InTransaction
    /\ owner' = NoOwner /\ undo' = <<>>
    /\ val' = Replayed(undo)
    /\ ok' = TRUE
    /\ UNCHANGED <<snap, batch, base>>

ToggleBatch ==
    /\ batch' = ~batch /\ ok' = TRUE
    /\ UNCHANGED <<val, snap, owner, undo, base>>

Next ==
    \/ \E v \in Vars, x \in Values : Set(v, x) \/ SetLocal(v, x)
    \/ \E v \in Vars : Reset(v)
    \/ ResetAll
    \/ \E m \in {"pending", "rw", "ro"} : Begin(m)
    \/ \E done \in BOOLEAN : Promote(done)
    \/ Work \/ End \/ ToggleBatch

Spec == Init /\ [][Next]_vars

----------------------------------------------------------------------------

\* Between transactions the settings are what SET, RESET and the consumption
\* of the tag made them: no SET LOCAL, and no RESET or SET after one, leaves a
\* trace or is lost (retireLocalVarUndo, restoreLocalVarsIfIdle).
SettingsReturn == ~InTransaction => val = base

\* A statement that fails changed no setting: RESET ALL checks every variable
\* before it changes one, SET LOCAL takes a value back that the owner refuses,
\* and a constructor that fails keeps the tag.
FailedChangesNothing == ~ok' => val' = val /\ undo' = undo

\* What SET LOCAL says is what the owner uses, as long as nothing superseded
\* it: the registry and the owner never disagree about a captured policy.
LocalInForce ==
    \A i \in 1..Len(undo) :
        undo[i].name \in Hooked => owner.caught[undo[i].name] = val[undo[i].name]

\* While a transaction is open its mode, its savepoints and autocommit stay,
\* by whichever statement; with an open batch, savepoints and autocommit.
GuardsHold ==
    \A v \in Vars :
       /\ v \in TxnGuarded \cup {"AUTOCOMMIT"} /\ owner.mode # "none" /\ owner'.mode # "none"
          => val'[v] = val[v]
       /\ v \in {"AUTOCOMMIT", "CLI_SAVEPOINT_SUPPORT"} /\ batch /\ batch'
          => val'[v] = val[v]
       /\ v \notin Settable \ InitOnly => val'[v] = val[v]

\* A policy that an owner has started to use does not change under it.
FrozenStays ==
    \A v \in Vars \cap (Hooked \ {"CLI_DDL_IN_TRANSACTION_MODE"}) :
       InUse(v) /\ owner'.mode # "none" => owner'.caught[v] = owner.caught[v]

\* The settings, the undo of SET LOCAL and the owner's captured policies agree.
VariablesSound == TypeOK /\ SettingsReturn /\ LocalInForce

\* What no statement may do to a setting.
VariablesStep == FailedChangesNothing /\ GuardsHold /\ FrozenStays
SettingsSteps == [][VariablesStep]_vars

=============================================================================
