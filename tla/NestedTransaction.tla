-------------------------- MODULE NestedTransaction --------------------------
(***************************************************************************)
(* What SAVEPOINT, ROLLBACK TO, RELEASE and automatic DML promise: a       *)
(* transaction is its accepted work (a sequence of batches of statements), *)
(* a queue of statements accepted but not yet executed, and a stack of     *)
(* named snapshots of the work.  A broken transaction has lost its work    *)
(* for good unless it returns to a snapshot.  Exactly the work and the     *)
(* queue become durable, only where a commit was asked for and only of a   *)
(* transaction that is not broken; the queue is dropped only by ABORT      *)
(* BATCH, ROLLBACK TO and the end of the transaction.                      *)
(***************************************************************************)
EXTENDS Naturals, Sequences

CONSTANTS Statements, Names

\* request, the statement being served, is an input.
VARIABLES request, inTxn, broken, work, queue, marks, durable

vars == <<inTxn, broken, work, queue, marks, durable>>

Prefixes(s) == {SubSeq(s, 1, n) : n \in 0..Len(s)}
AsBatch(q) == IF q = <<>> THEN <<>> ELSE <<q>>
Flushed == work \o AsBatch(queue)

Idle == /\ broken = FALSE /\ work = <<>> /\ queue = <<>> /\ marks = <<>>

Init == inTxn = FALSE /\ Idle /\ durable = <<>>

Ended == /\ inTxn' = FALSE /\ broken' = FALSE
         /\ work' = <<>> /\ queue' = <<>> /\ marks' = <<>>

Begin == ~inTxn /\ inTxn' = TRUE /\ UNCHANGED <<broken, work, queue, marks, durable>>

Usable == inTxn /\ ~broken /\ UNCHANGED <<inTxn, broken, durable>>

\* One statement is executed, after the queue or before it.
Execute ==
    /\ Usable
    /\ \E x \in Statements : work' = Append(work, <<x>>)
    /\ UNCHANGED <<queue, marks>>

Enqueue ==
    /\ Usable
    /\ \E x \in Statements : queue' = Append(queue, x)
    /\ UNCHANGED <<work, marks>>

Flush == Usable /\ work' = Flushed /\ queue' = <<>> /\ UNCHANGED marks

DropQueue == Usable /\ request' = "abortBatch" /\ queue' = <<>> /\ UNCHANGED <<work, marks>>

Mark ==
    /\ Usable
    /\ work' = Flushed /\ queue' = <<>>
    /\ \E n \in Names :
        /\ \A i \in DOMAIN marks : marks[i].name # n
        /\ marks' = Append(marks, [name |-> n, work |-> work'])

Release ==
    /\ Usable
    /\ \E i \in DOMAIN marks : marks' = SubSeq(marks, 1, i - 1)
    /\ UNCHANGED <<work, queue>>

RollbackTo ==
    /\ inTxn
    /\ \E i \in DOMAIN marks : work' = marks[i].work /\ marks' = SubSeq(marks, 1, i)
    /\ queue' = <<>> /\ broken' = FALSE
    /\ UNCHANGED <<inTxn, durable>>

\* The transaction breaks; work of the latest statement may be taken back,
\* and only snapshots of what is left stay usable.
Break ==
    /\ inTxn /\ ~broken
    /\ broken' = TRUE /\ queue' = <<>>
    /\ work' \in Prefixes(Flushed)
    /\ marks' \in Prefixes(marks) \ {<<>>}
    /\ \A i \in DOMAIN marks : i \in DOMAIN marks' <=> Len(marks[i].work) <= Len(work')
    /\ UNCHANGED <<inTxn, durable>>

Commit == inTxn /\ ~broken /\ request \in {"commit", "ddl"} /\ durable' = Flushed /\ Ended

Abandon == inTxn /\ Ended /\ UNCHANGED durable

Next == \/ Begin \/ Execute \/ Enqueue \/ Flush \/ DropQueue
        \/ Mark \/ Release \/ RollbackTo \/ Break \/ Commit \/ Abandon

Spec == Init /\ [][Next]_vars
==============================================================================
