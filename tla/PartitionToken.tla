----------------------------- MODULE PartitionToken -----------------------------
(***************************************************************************)
(* PARTITION exports a query's partitions as tokens; RUN PARTITION reads   *)
(* one of them, in this session or in another one whose clock may differ.  *)
(* A token carries the database, the times it is good for, and the native  *)
(* blobs of the transaction and of the partition.  It is not signed: a     *)
(* token may reach RUN PARTITION with parts of another one.                *)
(***************************************************************************)
EXTENDS Integers, FiniteSets

CONSTANTS
    Databases,
    Validity,   \* partitionTokenValidity
    Skew,       \* partitionTokenForwardClockSkew
    MaxTime     \* bound: the issuer's clock

VARIABLES
    now,      \* the issuer's clock
    ahead,    \* how far it is ahead of the consumer's
    token,    \* the token at hand, or NoToken
    made,     \* history: the query it comes from
    session,  \* the consumer: database, whether a transaction is open, a batch is active
    outcome   \* of the last RUN PARTITION

vars == <<now, ahead, token, made, session, outcome>>

\* The snapshots the tool has exported: one per database.
NoToken == [db |-> "none", issued |-> 0, notAfter |-> 0, tx |-> "none", part |-> "none", kind |-> "query"]
Sessions == [db : Databases, txn : BOOLEAN, batch : BOOLEAN]

TypeOK ==
    /\ now \in 0..MaxTime /\ ahead \in -Skew - 1..Skew + 1
    /\ token.issued \in 0..MaxTime /\ token.notAfter - token.issued \in 0..Validity
    /\ session \in Sessions
    /\ outcome \in {"none", "read", "refused"}

Init ==
    /\ now = 0 /\ ahead \in -Skew - 1..Skew + 1
    /\ token = NoToken /\ made = NoToken
    /\ session \in Sessions
    /\ outcome = "none"

\* The consumer's clock.
Here == now - ahead

\* encodePartitionToken
Encoded(d) ==
    [db |-> d, issued |-> now, notAfter |-> now + Validity, tx |-> d, part |-> d, kind |-> "query"]

\* PartitionStatement: a token for every partition of one query.
Export ==
    /\ \E d \in Databases : token' = Encoded(d)
    /\ made' = token'
    /\ outcome' = "none"
    /\ UNCHANGED <<now, ahead, session>>

\* A token put together from two: one of its parts is another database's, or
\* its partition is of a read.
Mix ==
    /\ token # NoToken /\ token = made
    /\ \E d \in Databases \ {token.db} :
        token' \in {[token EXCEPT !.db = d], [token EXCEPT !.tx = d], [token EXCEPT !.part = d],
                    [token EXCEPT !.db = d, !.tx = d], [token EXCEPT !.tx = d, !.part = d],
                    [token EXCEPT !.kind = "read"]}
    /\ outcome' = "none"
    /\ UNCHANGED <<now, ahead, made, session>>

Tick ==
    /\ now < MaxTime
    /\ now' = now + 1
    /\ outcome' = "none"
    /\ UNCHANGED <<ahead, token, made, session>>

\* USE, BEGIN, START BATCH and their ends (CliSession, OwnerLifetime).
Elsewhere ==
    /\ session' \in Sessions
    /\ outcome' = "none"
    /\ UNCHANGED <<now, ahead, token, made>>

\* validatePartitionTokenTimes
TimesValid(t) ==
    /\ t.notAfter > t.issued
    /\ t.notAfter - t.issued <= Validity
    /\ t.issued <= Here + Skew
    /\ t.notAfter <= Here + Validity + Skew
    /\ t.notAfter > Here

\* decodePartitionToken
Decodes(t) == t # NoToken /\ TimesValid(t)

\* inspectNativePartition: a query partition, of the transaction of the token,
\* in a session of the database.
NativeValid(t) ==
    /\ t.kind = "query"
    /\ t.part = t.tx
    /\ t.part = session.db

\* rejectRunPartitionAdmission
Admits == ~session.batch /\ ~session.txn

\* RunPartitionStatement
Run ==
    /\ outcome' = IF Admits /\ Decodes(token) /\ token.db = session.db /\ NativeValid(token)
                  THEN "read" ELSE "refused"
    /\ UNCHANGED <<now, ahead, token, made, session>>

Next == Export \/ Mix \/ Tick \/ Elsewhere \/ Run
Spec == Init /\ [][Next]_vars

----------------------------------------------------------------------------
\* Properties

\* What is read is the partition of one exported query, of the database the
\* session is in: no mix of two tokens gets through, and a session with work of
\* its own is not given rows of another snapshot.
ReadsOneSnapshot ==
    outcome = "read" =>
        /\ token = made /\ made.db = session.db
        /\ ~session.txn /\ ~session.batch

\* A token is good for its hour on the clock of whoever reads it, give or take
\* the minute its issuer may be ahead.
ReadsInTime == outcome = "read" => now - ahead < made.notAfter /\ made.issued <= now - ahead + Skew

\* A token used within its hour in an idle session of its database is accepted
\* whenever the clocks agree to within the tolerance.
FreshIsAccepted ==
    (outcome = "refused" /\ token = made /\ session = [db |-> made.db, txn |-> FALSE, batch |-> FALSE]
        /\ ahead <= Skew)
        => now - ahead >= made.notAfter

\* A token that is accepted reads the snapshot it was made from, in time, and
\* a fresh one is accepted.
PartitionTokenSound == TypeOK /\ ReadsOneSnapshot /\ ReadsInTime /\ FreshIsAccepted

=============================================================================
