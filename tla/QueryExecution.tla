-------------------------- MODULE QueryExecution --------------------------
(***************************************************************************)
(* One SELECT from its text to its answer: the options frozen for all its  *)
(* executions, the transaction it is sent to, its iterator, the sink its   *)
(* rows go to, the receipt that makes it an entry of the owner's journal,  *)
(* the query cache, and what a failure does to the owner, automatic retry  *)
(* after ABORTED included.  The journal itself is SavepointOwner's; here   *)
(* an entry is what its fingerprint covers.  Between the steps the timeout *)
(* of the owner may retire it.                                             *)
(***************************************************************************)
EXTENDS Naturals, Sequences, FiniteSets

CONSTANTS MaxRows,      \* rows a query may return
          PreviewRows,  \* rows a table is held back for, to choose its widths
          MaxRetries,   \* maxExplicitAbortRetries
          MaxJournal    \* entries the journal has room for

VARIABLES pc, owner, stmt, token, iter, total, rows, held, shown, presented,
          exec, err, frozen, tag, sent, cache, answer

vars == <<pc, owner, stmt, token, iter, total, rows, held, shown, presented,
          exec, err, frozen, tag, sent, cache, answer>>

Kinds == {"ordinary", "single", "dump"}
Sinks == {"buffer", "writer", "preview"}
Errors == {"none", "aborted", "failed"}
NoOwner == [mode |-> "none"]
NoToken == [kind |-> "none"]
NoStatement == [kind |-> "none", sink |-> "buffer", given |-> FALSE]
NoCache == [kind |-> "none", whole |-> TRUE]

NewOwner(mode, capture, retry, marker) ==
    [mode |-> mode, capture |-> capture, retry |-> retry, marker |-> marker,
     recovering |-> FALSE, lost |-> FALSE, retries |-> 0, journal |-> <<>>,
     answered |-> 0, pending |-> FALSE]

InTransaction == owner.mode \in {"rw", "ro"}
Capturing == owner.mode = "rw" /\ owner.capture

TypeOK ==
    /\ pc \in {"idle", "prepare", "start", "decide", "read", "complete",
               "settle", "reconstruct", "replay"}
    /\ owner = NoOwner \/ /\ owner.mode \in {"rw", "ro"}
                          /\ owner.retries \in 0..MaxRetries
                          /\ Len(owner.journal) <= MaxJournal
                          /\ owner.answered \in Nat
    /\ stmt.kind \in Kinds \union {"none"} /\ stmt.sink \in Sinks
    /\ token = NoToken \/ /\ token.current \in BOOLEAN
                          /\ token.receipt \in {"open", "observed", "failed"}
    /\ total \in 0..MaxRows /\ rows \in 0..total /\ held \in 0..rows
    /\ held < PreviewRows \/ held = 0
    /\ exec \in 0..(MaxRetries + 1)
    /\ err \in Errors /\ frozen \in {{}, {TRUE}, {FALSE}}
    /\ {iter, presented, tag} \subseteq BOOLEAN /\ sent \subseteq BOOLEAN
    /\ answer \in {"none", "ok", "aborted", "failed"}

---------------------------------------------------------------------------
(* The owner. *)

Init ==
    /\ pc = "idle" /\ owner = NoOwner /\ stmt = NoStatement /\ token = NoToken
    /\ iter = FALSE /\ total = 0 /\ rows = 0 /\ held = 0 /\ shown = {}
    /\ presented = FALSE /\ exec = 0 /\ err = "none" /\ frozen = {}
    /\ tag = FALSE /\ sent = {} /\ cache = NoCache /\ answer = "none"

\* retry implies a journal; without savepoint support there are no markers
OpenOwner ==
    /\ pc = "idle" /\ owner = NoOwner
    /\ \E mode \in {"rw", "ro"}, capture, retry, marker \in BOOLEAN :
         /\ retry => capture
         /\ marker => capture
         /\ mode = "ro" => ~capture
         /\ owner' = NewOwner(mode, capture, retry, marker)
    /\ UNCHANGED <<pc, stmt, token, iter, total, rows, held, shown, presented,
                   exec, err, frozen, tag, sent, cache, answer>>

SetTag ==
    /\ pc = "idle" /\ tag' = TRUE
    /\ UNCHANGED <<pc, owner, stmt, token, iter, total, rows, held, shown,
                   presented, exec, err, frozen, sent, cache, answer>>

Stale(t) == IF t = NoToken THEN t ELSE [t EXCEPT !.current = FALSE]

\* COMMIT, ROLLBACK, or the transaction's timeout, which waits for nobody
Retire ==
    /\ owner # NoOwner
    /\ owner' = NoOwner /\ token' = Stale(token)
    /\ UNCHANGED <<pc, stmt, iter, total, rows, held, shown, presented, exec,
                   err, frozen, tag, sent, cache, answer>>

---------------------------------------------------------------------------
(* Before the query is sent. *)

Submit ==
    /\ pc = "idle"
    /\ \E kind \in Kinds, sink \in Sinks :
         stmt' = [kind |-> kind, sink |-> sink, given |-> FALSE]
    /\ pc' = "prepare" /\ answer' = "none"
    /\ shown' = {}
    /\ UNCHANGED <<owner, token, iter, total, rows, held, presented, exec, err,
                   frozen, tag, sent, cache>>

Forgotten ==
    /\ stmt' = NoStatement /\ token' = NoToken /\ err' = "none"
    /\ total' = 0 /\ rows' = 0 /\ held' = 0 /\ exec' = 0 /\ sent' = {}
    /\ presented' = FALSE

\* the deferred endFrozenSQLQuery runs on every return
Unfrozen == frozen' = {}

Answered(a) == pc' = "idle" /\ answer' = a /\ Unfrozen /\ Forgotten

PrepareFails ==
    /\ pc = "prepare" /\ Answered("failed")
    /\ UNCHANGED <<owner, iter, shown, tag, cache>>

\* STATEMENT_TAG is used up once, however often the query is sent
Prepare ==
    /\ pc = "prepare" /\ pc' = "start"
    /\ IF stmt.kind = "dump"
       THEN UNCHANGED <<frozen, tag, stmt>>
       ELSE /\ frozen' = {tag} /\ tag' = FALSE
            /\ stmt' = [stmt EXCEPT !.given = tag]
    /\ UNCHANGED <<owner, token, iter, total, rows, held, shown, presented,
                   exec, err, sent, cache, answer>>

TagSent == IF stmt.kind = "dump" THEN {FALSE} ELSE frozen

Refused ==
    /\ stmt.kind = "ordinary" /\ InTransaction
    /\ \/ owner.recovering
       \/ Capturing /\ (owner.pending \/ Len(owner.journal) = MaxJournal)

StartRefused ==
    /\ pc = "start" /\ Refused /\ Answered("failed")
    /\ UNCHANGED <<owner, iter, shown, tag, cache>>

\* DUMP brings its own read-only transaction; a single-use query never joins
Start ==
    /\ pc = "start" /\ ~Refused /\ pc' = "decide"
    /\ LET capture == stmt.kind = "ordinary" /\ Capturing IN
       /\ token' = IF capture
                   THEN [kind |-> "sql", current |-> TRUE, receipt |-> "open"]
                   ELSE NoToken
       /\ owner' = IF capture THEN [owner EXCEPT !.pending = TRUE] ELSE owner
    /\ iter' = TRUE /\ total' \in 0..MaxRows /\ rows' = 0 /\ held' = 0
    /\ exec' = IF exec > MaxRetries THEN exec ELSE exec + 1
    /\ sent' = sent \union TagSent
    /\ UNCHANGED <<stmt, shown, presented, err, frozen, tag, cache, answer>>

---------------------------------------------------------------------------
(* Reading. *)

ReceiptNow(r) == IF token = NoToken THEN token ELSE [token EXCEPT !.receipt = r]

Stopped_Leaked == iter' = (pc = "decide")

Stopped == iter' = FALSE

Fail(e) ==
    /\ pc' = "complete" /\ err' = e /\ Stopped
    /\ token' = ReceiptNow("failed")

DecideFails ==
    /\ pc = "decide" /\ stmt.sink # "buffer" /\ Fail("failed")
    /\ UNCHANGED <<owner, stmt, total, rows, held, shown, presented, exec,
                   frozen, tag, sent, cache, answer>>

Shows(ns) == shown' = shown \union ({exec} \X ns)

\* headers; the table that is held back counts as presented from here on
Metadata ==
    /\ pc = "decide" /\ pc' = "read"
    /\ presented' = (presented \/ stmt.sink # "buffer")
    /\ Shows(IF stmt.sink = "writer" THEN {0} ELSE {})
    /\ UNCHANGED <<owner, stmt, token, iter, total, rows, held, exec, err,
                   frozen, tag, sent, cache, answer>>

\* a table's first rows wait until there are enough to choose its widths
Process(n) ==
    LET waits == stmt.sink = "preview" /\ rows - held = 0 IN
    IF waits /\ held + 1 < PreviewRows
    THEN held' = held + 1 /\ UNCHANGED shown
    ELSE /\ held' = 0
         /\ Shows(CASE stmt.sink = "buffer" -> {}
                    [] stmt.sink = "writer" -> {n}
                    [] OTHER -> IF waits THEN 0..n ELSE {n})

ReadRow ==
    /\ pc = "read" /\ rows < total /\ rows' = rows + 1
    /\ Process(rows + 1)
    /\ presented' = (presented \/ stmt.sink # "buffer")
    /\ UNCHANGED <<pc, owner, stmt, token, iter, total, exec, err, frozen, tag,
                   sent, cache, answer>>

\* part of the row may have been written
SinkFails ==
    /\ pc = "read" /\ stmt.sink # "buffer" /\ Fail("failed")
    /\ UNCHANGED <<owner, stmt, total, rows, held, shown, presented, exec,
                   frozen, tag, sent, cache, answer>>

\* an ABORTED read-write attempt is lost on the server, whatever we do here
ServerFails ==
    /\ pc \in {"decide", "read"}
    /\ \E e \in {"aborted", "failed"} :
         /\ Fail(e)
         /\ owner' = IF e = "aborted" /\ stmt.kind = "ordinary" /\ owner.mode = "rw"
                     THEN [owner EXCEPT !.lost = TRUE] ELSE owner
    /\ UNCHANGED <<stmt, total, rows, held, shown, presented, exec, frozen,
                   tag, sent, cache, answer>>

Finished_HeldLost == Shows({})

Finished == Shows(IF held > 0 \/ (stmt.sink = "preview" /\ total = 0)
                  THEN 0..held ELSE {})

Published == IF stmt.kind = "dump"
             THEN cache
             ELSE [kind |-> stmt.kind, whole |-> rows = total]

\* the cache is replaced before the plan is rendered, which may still fail
EndRows ==
    /\ pc = "read" /\ rows = total /\ pc' = "complete" /\ Stopped
    /\ Finished /\ held' = 0
    /\ cache' = Published
    /\ token' = ReceiptNow("observed")
    /\ err' \in {"none", "failed"}
    /\ UNCHANGED <<owner, stmt, total, rows, presented, exec, frozen, tag,
                   sent, answer>>

---------------------------------------------------------------------------
(* After the query: its journal entry, its retry, its owner. *)

Belongs == token # NoToken /\ token.current
Entry == [whole |-> rows = total]

\* finishQueryCaptureLocked: the entry is made, or its reservation released
Captured ==
    IF err = "none" /\ token.receipt = "observed"
    THEN [owner EXCEPT !.pending = FALSE, !.journal = Append(@, Entry)]
    ELSE [owner EXCEPT !.pending = FALSE]

Complete ==
    /\ pc = "complete" /\ pc' = "settle"
    /\ owner' = IF Belongs THEN Captured ELSE owner
    /\ UNCHANGED <<stmt, token, iter, total, rows, held, shown, presented,
                   exec, err, frozen, tag, sent, cache, answer>>

\* the caller prints what was collected
SettleOk ==
    /\ pc = "settle" /\ err = "none" /\ Answered("ok")
    /\ Shows(IF stmt.sink = "buffer" THEN 0..total ELSE {})
    /\ owner' = IF Belongs THEN [owner EXCEPT !.answered = @ + 1] ELSE owner
    /\ UNCHANGED <<iter, tag, cache>>

Recovering(o) == [o EXCEPT !.recovering = TRUE, !.lost = FALSE, !.pending = FALSE]

\* handleOwnerFailureLocked
Failed(o) == IF o.marker /\ ~o.recovering THEN Recovering(o) ELSE NoOwner

\* applyOwnerQueryFailure
AfterFailure ==
    CASE Belongs ->
           IF owner.marker \/ err = "aborted" THEN Failed(owner) ELSE owner
      [] token = NoToken /\ stmt.kind = "ordinary" ->
           IF owner.mode = "rw" /\ err = "aborted" THEN NoOwner ELSE owner
      [] OTHER -> owner

Eligible == err = "aborted" /\ owner.mode = "rw" /\ owner.retry /\ Belongs

MayRetry == ~presented /\ owner.retries < MaxRetries

SettleRetry ==
    /\ pc = "settle" /\ Eligible /\ MayRetry
    /\ pc' = "reconstruct"
    /\ UNCHANGED <<owner, stmt, token, iter, total, rows, held, shown,
                   presented, exec, err, frozen, tag, sent, cache, answer>>

SettleFailed ==
    /\ pc = "settle" /\ err # "none" /\ ~(Eligible /\ MayRetry)
    /\ owner' = IF Eligible THEN Failed(owner) ELSE AfterFailure
    /\ Answered(err)
    /\ UNCHANGED <<iter, shown, tag, cache>>

RetryEnds(o, a) ==
    /\ owner' = o /\ Answered(a)
    /\ UNCHANGED <<iter, shown, tag, cache>>

\* cancelled, out of time, no new attempt to be had, or the owner is gone
ReconstructFails ==
    /\ pc \in {"reconstruct", "replay"}
    /\ RetryEnds(NoOwner, "failed")

Counted(n) == n + 1

\* a new physical attempt; then the backoff, without the lock
Reconstruct ==
    /\ pc = "reconstruct" /\ owner # NoOwner /\ pc' = "replay"
    /\ owner' = [owner EXCEPT !.retries = Counted(@), !.lost = FALSE,
                              !.pending = FALSE]
    /\ token' = Stale(token)
    /\ UNCHANGED <<stmt, iter, total, rows, held, shown, presented, exec, err,
                   frozen, tag, sent, cache, answer>>

Replayed ==
    /\ pc = "replay" /\ owner # NoOwner /\ pc' = "start" /\ err' = "none"
    /\ UNCHANGED <<owner, stmt, token, iter, total, rows, held, shown,
                   presented, exec, frozen, tag, sent, cache, answer>>

\* the replay may be aborted too, if it has anything to send
ReplayAborted ==
    /\ pc = "replay" /\ owner # NoOwner /\ owner.journal # <<>>
    /\ IF owner.retries >= MaxRetries
       THEN RetryEnds(Failed(owner), "aborted")
       ELSE /\ pc' = "reconstruct" /\ owner' = [owner EXCEPT !.lost = TRUE]
            /\ UNCHANGED <<stmt, token, iter, total, rows, held, shown,
                           presented, exec, err, frozen, tag, sent, cache,
                           answer>>

---------------------------------------------------------------------------
Query ==
    \/ PrepareFails \/ Prepare \/ StartRefused \/ Start \/ DecideFails
    \/ Metadata \/ ReadRow \/ SinkFails \/ ServerFails \/ EndRows \/ Complete
    \/ SettleOk \/ SettleRetry \/ SettleFailed \/ ReconstructFails
    \/ Reconstruct \/ Replayed \/ ReplayAborted

Next == OpenOwner \/ SetTag \/ Retire \/ Submit \/ Query

Spec == Init /\ [][Next]_vars

\* the reader goes on reading, the server goes on answering
LiveSpec == Spec /\ WF_vars(Query)

---------------------------------------------------------------------------
\* Whatever the retries, all the user sees of one query comes from one of
\* its executions.
OneExecutionShown == \A a, b \in shown : a[1] = b[1]

\* "ok" means every row of the execution that answered reached the output,
\* those a table was holding back included.
OkMeansAllShown ==
    pc = "settle" /\ answer' = "ok" => {exec} \X (0..total) \subseteq shown'

\* The journal holds the queries that were read to their end and answered,
\* and all of them: what a replay compares is what the user was told.
JournalIsWhole ==
    owner # NoOwner =>
        /\ \A i \in DOMAIN owner.journal : owner.journal[i].whole
        /\ pc = "idle" /\ Capturing => Len(owner.journal) = owner.answered

\* EXPLAIN LAST QUERY explains a query that was read to its end, never one
\* that DUMP made.
CacheIsAQuery == cache.kind # "dump" /\ cache.whole

\* No statement leaves an iterator open, a capture pending, or its options
\* in force for the next one.
NothingLeftOpen ==
    pc = "idle" => /\ ~iter /\ frozen = {}
                   /\ owner # NoOwner => ~owner.pending

\* Every execution of a statement carries the tag the user set for it.
OneTag == stmt.kind # "dump" => sent \subseteq {stmt.given}

\* After an ABORTED query the lost attempt is never what the next statement
\* would run in.
NoLostAttempt == pc = "idle" /\ owner # NoOwner => ~owner.lost

\* A query outside the transaction fails without taking it along.
OutsiderKeepsOwner ==
    stmt.kind \in {"single", "dump"} /\ pc' # pc /\ pc # "idle" => owner' = owner

\* Every query is answered, however often it is aborted.
QueryEnds == (pc # "idle") ~> (pc = "idle")

\* What a query leaves on the screen, in the journal and in the caches is of
\* one execution that was read to its end, however often it was aborted.
QuerySound ==
    /\ TypeOK
    /\ OneExecutionShown /\ OneTag
    /\ JournalIsWhole /\ CacheIsAQuery
    /\ NothingLeftOpen /\ NoLostAttempt

\* What the end of a query says and does to the owner.
QueryStep == OkMeansAllShown /\ OutsiderKeepsOwner

===========================================================================
