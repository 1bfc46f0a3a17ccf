--------------------------- MODULE PartitionedQuery ---------------------------
(***************************************************************************)
(* RUN PARTITIONED QUERY: a pool of workers reads the partitions, and      *)
(* either one consumer merges their rows through an unbuffered channel     *)
(* (runPartitionedRowSeq) or they are collected (bufferPartitionedQuery).  *)
(*                                                                         *)
(* Workers, the submitting goroutine and the consumer run concurrently;    *)
(* the statement's context may end at any time, a partition and the writer *)
(* may fail.                                                               *)
(***************************************************************************)
EXTENDS Naturals, Sequences, FiniteSets

CONSTANTS
    N,             \* partitions
    MaxRows,       \* bound: rows of a partition
    Parallelism    \* MAX_PARTITIONED_PARALLELISM, or the number of CPUs

Partitions == 1..N

VARIABLES
    mode,     \* stream | buffer
    size,     \* Partitions -> rows of the partition
    left,     \* Partitions -> rows not read yet
    worker,   \* Partitions -> new | run | send | sendErr | ok | failed | canceled
    sub,      \* the submitter: check | go | wait | done
    next,     \* partitions submitted
    closed,   \* the channel is closed
    ctx,      \* the statement's context has ended
    cancel,   \* the consumer called cancel
    cons,     \* the consumer: first | rows | ok | failed | returned
    got,      \* partitions of the rows handed to the writer
    md,       \* capturedMD
    mdSeen,   \* what consume was given
    result    \* none | ok | error

vars == <<mode, size, left, worker, sub, next, closed, ctx, cancel, cons, got, md, mdSeen, result>>

Active == {p \in Partitions : worker[p] \in {"run", "send", "sendErr"}}
Ended == {"ok", "failed", "canceled"}

TypeOK ==
    /\ worker \in [Partitions -> {"new", "run", "send", "sendErr"} \cup Ended]
    /\ left \in [Partitions -> 0..MaxRows] /\ \A p \in Partitions : left[p] <= size[p]
    /\ sub \in {"check", "go", "wait", "done"} /\ next \in 0..N
    /\ {closed, ctx, cancel, md, mdSeen} \subseteq BOOLEAN
    /\ cons \in {"first", "rows", "ok", "failed", "returned"}
    /\ result \in {"none", "ok", "error"}
    /\ Cardinality(Active) <= Parallelism

Init ==
    /\ mode \in {"stream", "buffer"}
    /\ size \in [Partitions -> 0..MaxRows] /\ left = size
    /\ worker = [p \in Partitions |-> "new"]
    /\ sub = "check" /\ next = 0 /\ closed = FALSE
    /\ ctx = FALSE /\ cancel = FALSE
    /\ cons = "first" /\ got = <<>>
    /\ md = FALSE /\ mdSeen = FALSE /\ result = "none"

\* childCtx, and workerCtx under it, is done.
ChildDone == ctx \/ cancel

EndContext ==
    /\ ~ctx /\ cons # "returned"
    /\ ctx' = TRUE
    /\ UNCHANGED <<mode, size, left, worker, sub, next, closed, cancel, cons, got, md, mdSeen, result>>

----------------------------------------------------------------------------
\* The submitter

\* A canceled context stops the fan-in from scheduling; the pool itself does
\* not look, and bufferPartitionedQuery submits them all.
Check ==
    /\ sub = "check"
    /\ sub' = IF next = N \/ (mode = "stream" /\ ChildDone) THEN "wait" ELSE "go"
    /\ UNCHANGED <<mode, size, left, worker, next, closed, ctx, cancel, cons, got, md, mdSeen, result>>

\* pool.Go blocks at MaxGoroutines.
Slot == Cardinality(Active) < Parallelism

Go ==
    /\ sub = "go" /\ Slot
    /\ next' = next + 1
    /\ worker' = [worker EXCEPT ![next + 1] = "run"]
    /\ sub' = "check"
    /\ UNCHANGED <<mode, size, left, closed, ctx, cancel, cons, got, md, mdSeen, result>>

\* pool.Wait, then close(ch)
CloseChannel ==
    /\ sub = "wait" /\ Active = {}
    /\ sub' = "done" /\ closed' = TRUE
    /\ UNCHANGED <<mode, size, left, worker, next, ctx, cancel, cons, got, md, mdSeen, result>>

----------------------------------------------------------------------------
\* A worker

\* captureMetadata comes before the row is sent; a collected row is kept.
ReadRow(p) ==
    /\ worker[p] = "run" /\ left[p] > 0
    /\ left' = [left EXCEPT ![p] = @ - 1]
    /\ worker' = [worker EXCEPT ![p] = IF mode = "stream" THEN "send" ELSE "run"]
    /\ md' = TRUE
    /\ UNCHANGED <<mode, size, sub, next, closed, ctx, cancel, cons, got, mdSeen, result>>

EndRows(p) ==
    /\ worker[p] = "run" /\ left[p] = 0
    /\ worker' = [worker EXCEPT ![p] = "ok"]
    /\ md' = TRUE
    /\ UNCHANGED <<mode, size, left, sub, next, closed, ctx, cancel, cons, got, mdSeen, result>>

\* The partition fails, or its read was canceled; metadata may have arrived.
ReadError(p) ==
    /\ worker[p] = "run"
    /\ worker' = [worker EXCEPT ![p] = IF mode = "stream" THEN "sendErr" ELSE "failed"]
    /\ md' \in {md, TRUE}
    /\ UNCHANGED <<mode, size, left, sub, next, closed, ctx, cancel, cons, got, mdSeen, result>>

\* select: workerCtx.Done.  A worker that held a row returns the context's
\* error, one that held an error returns that, canceled or not.
GiveUp(p) ==
    /\ worker[p] \in {"send", "sendErr"} /\ ChildDone
    /\ \E e \in {"failed", "canceled"} :
        /\ worker[p] = "send" => e = "canceled"
        /\ worker' = [worker EXCEPT ![p] = e]
    /\ UNCHANGED <<mode, size, left, sub, next, closed, ctx, cancel, cons, got, md, mdSeen, result>>

----------------------------------------------------------------------------
\* The consumer

Consuming == cons \in {"first", "rows"}

\* consume is given the metadata known when the first item is there.
MetadataNow == IF cons = "first" THEN md ELSE mdSeen

\* A row, or an error that ends the sequence, from a worker that is sending.
Receive(p) ==
    /\ mode = "stream" /\ Consuming
    /\ worker[p] \in {"send", "sendErr"}
    /\ mdSeen' = MetadataNow
    /\ IF worker[p] = "send"
       THEN /\ got' = Append(got, p)
            /\ worker' = [worker EXCEPT ![p] = "run"]
            /\ cons' = "rows"
       ELSE /\ worker' = [worker EXCEPT ![p] = "failed"]
            /\ cons' = "failed"
            /\ UNCHANGED got
    /\ UNCHANGED <<mode, size, left, sub, next, closed, ctx, cancel, md, result>>

\* The channel is closed: the sequence ends and consume returns nil, unless
\* there was no metadata.
Exhausted ==
    /\ mode = "stream" /\ Consuming /\ closed
    /\ mdSeen' = MetadataNow
    /\ cons' = IF mdSeen' THEN "ok" ELSE "failed"
    /\ UNCHANGED <<mode, size, left, worker, sub, next, closed, ctx, cancel, got, md, result>>

\* The writer fails.
WriterFails ==
    /\ mode = "stream" /\ cons = "rows"
    /\ cons' = "failed"
    /\ UNCHANGED <<mode, size, left, worker, sub, next, closed, ctx, cancel, got, md, mdSeen, result>>

Cancel ==
    /\ mode = "stream" /\ cons \in {"ok", "failed"} /\ ~cancel
    /\ cancel' = TRUE
    /\ UNCHANGED <<mode, size, left, worker, sub, next, closed, ctx, cons, got, md, mdSeen, result>>

\* for range ch: what is still sent is thrown away.
Drain(p) ==
    /\ cancel /\ cons \in {"ok", "failed"}
    /\ worker[p] \in {"send", "sendErr"}
    /\ worker' = [worker EXCEPT ![p] = IF @ = "send" THEN "run" ELSE "failed"]
    /\ UNCHANGED <<mode, size, left, sub, next, closed, ctx, cancel, cons, got, md, mdSeen, result>>

\* errors.Is looks into the joined errors: one canceled worker is enough.
ProducerError ==
    /\ \E p \in Partitions : worker[p] = "failed"
    /\ \A p \in Partitions : worker[p] # "canceled"

\* Mutant: the context is not asked once the producers have ended.
Verdict_NoCtx == IF cons = "failed" \/ ProducerError THEN "error" ELSE "ok"

\* The consumer's error, the producers', and last the parent context's.
Verdict == IF cons = "failed" \/ ProducerError \/ ctx THEN "error" ELSE "ok"

\* The producers' error is there once the channel is closed.
Drained == closed

Return ==
    /\ mode = "stream" /\ cancel /\ cons \in {"ok", "failed"} /\ Drained
    /\ result' = Verdict
    /\ cons' = "returned"
    /\ UNCHANGED <<mode, size, left, worker, sub, next, closed, ctx, cancel, got, md, mdSeen>>

\* bufferPartitionedQuery after p.Wait: any error is the statement's, and
\* otherwise the rows follow the order of the partitions.
Collect ==
    /\ mode = "buffer" /\ closed /\ cons = "first"
    /\ result' = IF \E p \in Partitions : worker[p] = "failed" THEN "error" ELSE "ok"
    /\ cons' = "returned"
    /\ UNCHANGED <<mode, size, left, worker, sub, next, closed, ctx, cancel, got, md, mdSeen>>

Returned == cons = "returned" /\ UNCHANGED vars

Submitter == Check \/ Go \/ CloseChannel
Worker(p) == ReadRow(p) \/ EndRows(p) \/ GiveUp(p)
Consumer == (\E p \in Partitions : Receive(p) \/ Drain(p)) \/ Exhausted \/ Cancel \/ Return \/ Collect

Next ==
    \/ EndContext \/ WriterFails
    \/ Check \/ Go \/ CloseChannel
    \/ \E p \in Partitions :
        ReadRow(p) \/ EndRows(p) \/ ReadError(p) \/ GiveUp(p) \/ Receive(p) \/ Drain(p)
    \/ Exhausted \/ Cancel \/ Return \/ Collect
    \/ Returned

\* Goroutines run, and the iterator answers.
Fairness == WF_vars(Submitter) /\ WF_vars(Consumer) /\ \A p \in Partitions : WF_vars(Worker(p))

Spec == Init /\ [][Next]_vars
LiveSpec == Spec /\ Fairness

----------------------------------------------------------------------------
\* Properties

\* A truncated result is never a success: a query that succeeds has handed over
\* every row of every partition, however the end of its context races with the
\* end of its workers.
OkMeansAllRows ==
    result = "ok" =>
        \A p \in Partitions :
            /\ worker[p] = "ok" /\ left[p] = 0
            /\ mode = "stream" => Cardinality({i \in DOMAIN got : got[i] = p}) = size[p]

\* A query that has returned leaves no goroutine of its own behind.
NothingLeftReading == cons = "returned" => (closed /\ Active = {})

\* The writer has the row type before the first row.
MetadataFirst == (mode = "stream" /\ got # <<>>) => mdSeen

\* Every query returns: workers that hold a row, the submitter waiting for a
\* worker and the consumer waiting for a row never wait for each other.
QueryReturns == <>(cons = "returned")

\* A partitioned query says OK for all rows only, the row type comes first,
\* and no worker outlives the query.
PartitionedQuerySound == TypeOK /\ OkMeansAllRows /\ NothingLeftReading /\ MetadataFirst

=============================================================================
