---------------------------- MODULE StatementsProofs ----------------------------
(***************************************************************************)
(* The safety properties of the modules about the course of one statement, *)
(* for every bound: the token of a partition, the partitioned query's      *)
(* workers, submitter and consumer, the execution of one query after       *)
(* another, implicit DML, the calls of an MCP session, and a statement's   *)
(* output.                                                                 *)
(***************************************************************************)
EXTENDS MCStatements, TLAPS, FiniteSetTheorems, SequenceTheorems

-----------------------------------------------------------------------------
\* PartitionToken: what a token can be.

\* What PARTITION makes.
Exported(t) ==
    \E d \in {d1, d2}, i \in 0..now :
        t = [db |-> d, issued |-> i, notAfter |-> i + Validity, tx |-> d, part |-> d,
             kind |-> "query"]

\* A token put together from two has its times, and a part that does not fit.
Mixed(t) ==
    /\ t.issued = made.issued /\ t.notAfter = made.notAfter
    /\ ~(t.kind = "query" /\ t.db = t.part /\ t.part = t.tx)

TokenInv ==
    /\ Token!PartitionTokenSound
    /\ \/ made = Token!NoToken /\ partToken = Token!NoToken
       \/ Exported(made) /\ (partToken = made \/ Mixed(partToken))
    /\ partToken.db \in {d1, d2, "none"}

\* Before PARTITION there is no token.
LEMMA TokenInit == Token!Init => TokenInv
PROOF
  <1> SUFFICES ASSUME Token!Init PROVE TokenInv
    OBVIOUS
  <1>1. /\ now = 0 /\ partToken = Token!NoToken /\ made = Token!NoToken /\ outcome = "none"
        /\ partToken.issued = 0 /\ partToken.notAfter = 0 /\ partToken.db = "none"
    BY DEF Token!Init, Token!NoToken
  <1>2. Token!TypeOK
    BY <1>1, StatementsAssumption DEF Token!Init, Token!TypeOK
  <1> QED BY <1>1, <1>2
          DEF TokenInv, Token!PartitionTokenSound, Token!ReadsOneSnapshot, Token!ReadsInTime,
              Token!FreshIsAccepted

\* The token as it is, or another one that came from the same snapshot, while
\* nothing is read.
LEMMA TokenStays ==
    ASSUME TokenInv, outcome' = "none", ahead' = ahead, now \in 0..MaxTime, now' \in {now, now + 1},
           now' <= MaxTime, session' \in Token!Sessions,
           \/ made' = made /\ partToken' = partToken
           \/ made' = made /\ Exported(made) /\ Mixed(partToken)' /\ partToken'.db \in {d1, d2}
           \/ Exported(made)' /\ partToken' = made'
    PROVE  TokenInv'
PROOF
  <1>1. /\ Token!TypeOK /\ now \in Nat /\ MaxTime \in Nat /\ Validity \in Nat \ {0}
        /\ partToken.issued \in 0..MaxTime /\ partToken.notAfter - partToken.issued \in 0..Validity
    BY StatementsAssumption DEF TokenInv, Token!PartitionTokenSound, Token!TypeOK
  <1>2. now' \in 0..MaxTime
    BY <1>1
  <1>3. \/ made' = Token!NoToken /\ partToken' = Token!NoToken
        \/ Exported(made)' /\ (partToken' = made' \/ Mixed(partToken)')
    <2>1. ASSUME Exported(made), made' = made PROVE Exported(made)'
      <3>1. PICK d \in {d1, d2}, i \in 0..now :
              made = [db |-> d, issued |-> i, notAfter |-> i + Validity, tx |-> d, part |-> d,
                      kind |-> "query"]
        BY <2>1 DEF Exported
      <3>2. i \in 0..now'
        BY <1>1
      <3> QED BY <2>1, <3>1, <3>2 DEF Exported
    <2>2. CASE made' = made /\ partToken' = partToken
      <3>1. Mixed(partToken) => Mixed(partToken)'
        BY <2>2 DEF Mixed
      <3> QED BY <2>1, <2>2, <3>1 DEF TokenInv
    <2> QED BY <2>1, <2>2
  <1>4. ASSUME Exported(made)'
        PROVE  made'.issued \in 0..MaxTime /\ made'.notAfter - made'.issued \in 0..Validity
               /\ made'.db \in {d1, d2}
    <2>1. PICK d \in {d1, d2}, i \in 0..now' :
            made' = [db |-> d, issued |-> i, notAfter |-> i + Validity, tx |-> d, part |-> d,
                     kind |-> "query"]
      BY <1>4 DEF Exported
    <2>2. i \in 0..MaxTime /\ (i + Validity) - i \in 0..Validity
      BY <1>1, <1>2
    <2> QED BY <2>1, <2>2
  <1>5. Token!TypeOK'
    <2>1. partToken'.issued \in 0..MaxTime /\ partToken'.notAfter - partToken'.issued \in 0..Validity
      <3>1. CASE partToken' = Token!NoToken
        <4>1. partToken'.issued = 0 /\ partToken'.notAfter = 0
          BY <3>1 DEF Token!NoToken
        <4> QED BY <1>1, <4>1
      <3>2. CASE Exported(made)' /\ partToken' = made'
        BY <1>4, <3>2
      <3>3. CASE Exported(made)' /\ Mixed(partToken)'
        BY <1>4, <3>3 DEF Mixed
      <3> QED BY <1>3, <3>1, <3>2, <3>3
    <2> QED BY <1>1, <1>2, <2>1 DEF Token!TypeOK
  <1>6. partToken'.db \in {d1, d2, "none"}
    BY <1>4 DEF TokenInv
  <1> QED BY <1>3, <1>5, <1>6
          DEF TokenInv, Token!PartitionTokenSound, Token!ReadsOneSnapshot, Token!ReadsInTime,
              Token!FreshIsAccepted

\* What RUN PARTITION accepts, and what it does not.
LEMMA RunToken ==
    ASSUME TokenInv, Token!Run
    PROVE  TokenInv'
PROOF
  <1>1. /\ now' = now /\ ahead' = ahead /\ partToken' = partToken /\ made' = made
        /\ session' = session
        /\ outcome' = IF Token!Admits /\ Token!Decodes(partToken) /\ partToken.db = session.db
                         /\ Token!NativeValid(partToken)
                      THEN "read" ELSE "refused"
    BY DEF Token!Run
  <1>2. /\ Token!TypeOK /\ now \in Nat /\ ahead \in Int /\ Skew \in Nat /\ Validity \in Nat \ {0}
        /\ session.db \in {d1, d2} /\ session.txn \in BOOLEAN /\ session.batch \in BOOLEAN
    BY StatementsAssumption
       DEF TokenInv, Token!PartitionTokenSound, Token!TypeOK, Token!Sessions
  <1>3. Token!TypeOK'
    BY <1>1, <1>2 DEF Token!TypeOK
  <1>4. Exported(made)' <=> Exported(made)
    BY <1>1 DEF Exported
  <1>5. Mixed(partToken)' <=> Mixed(partToken)
    BY <1>1 DEF Mixed
  <1>6. CASE made = Token!NoToken /\ partToken = Token!NoToken
    <2>1. outcome' = "refused"
      BY <1>1, <1>6 DEF Token!Decodes
    <2>2. session.db # made.db
      BY <1>2, <1>6, StatementsAssumption DEF Token!NoToken
    <2>3. Token!ReadsOneSnapshot' /\ Token!ReadsInTime' /\ Token!FreshIsAccepted'
      BY <1>1, <2>1, <2>2 DEF Token!ReadsOneSnapshot, Token!ReadsInTime, Token!FreshIsAccepted
    <2> QED BY <1>1, <1>3, <1>6, <2>3 DEF TokenInv, Token!PartitionTokenSound
  <1>7. CASE Exported(made) /\ (partToken = made \/ Mixed(partToken))
    <2>1. PICK d \in {d1, d2}, i \in 0..now :
            made = [db |-> d, issued |-> i, notAfter |-> i + Validity, tx |-> d, part |-> d,
                    kind |-> "query"]
      BY <1>7 DEF Exported
    <2>2. /\ made.db = d /\ made.issued = i /\ made.notAfter = i + Validity /\ made.tx = d
          /\ made.part = d /\ made.kind = "query" /\ i \in Nat /\ i <= now
      BY <1>2, <2>1
    <2>3. Token!ReadsOneSnapshot' /\ Token!ReadsInTime'
      <3> SUFFICES ASSUME outcome' = "read"
                   PROVE  /\ partToken = made /\ made.db = session.db
                          /\ ~session.txn /\ ~session.batch
                          /\ now - ahead < made.notAfter /\ made.issued <= now - ahead + Skew
        BY <1>1 DEF Token!ReadsOneSnapshot, Token!ReadsInTime
      <3>1. Token!Admits /\ Token!Decodes(partToken) /\ partToken.db = session.db
            /\ Token!NativeValid(partToken)
        BY <1>1
      <3>2. ~Mixed(partToken)
        BY <3>1 DEF Mixed, Token!NativeValid
      <3>3. partToken = made
        BY <1>7, <3>2
      <3>4. /\ made.issued <= now - ahead + Skew /\ made.notAfter > now - ahead
        BY <3>1, <3>3 DEF Token!Decodes, Token!TimesValid, Token!Here
      <3>5. now - ahead < made.notAfter
        BY <1>2, <2>2, <3>4
      <3> QED BY <3>1, <3>3, <3>4, <3>5 DEF Token!Admits
    <2>4. Token!FreshIsAccepted'
      <3> SUFFICES ASSUME outcome' = "refused", partToken = made,
                          session = [db |-> made.db, txn |-> FALSE, batch |-> FALSE],
                          ahead <= Skew, ~(now - ahead >= made.notAfter)
                   PROVE  FALSE
        BY <1>1 DEF Token!FreshIsAccepted
      <3>1. Token!Admits /\ Token!NativeValid(partToken) /\ partToken.db = session.db
        BY <2>2 DEF Token!Admits, Token!NativeValid
      <3>2. partToken # Token!NoToken
        <4>1. made.db # "none"
          BY <2>2, StatementsAssumption
        <4> QED BY <4>1 DEF Token!NoToken
      <3>3. /\ i + Validity > i /\ (i + Validity) - i <= Validity
            /\ i <= now - ahead + Skew
            /\ i + Validity <= now - ahead + Validity + Skew
            /\ i + Validity > now - ahead
        BY <1>2, <2>2
      <3>4. Token!TimesValid(partToken)
        BY <2>2, <3>3 DEF Token!TimesValid, Token!Here
      <3> QED BY <1>1, <3>1, <3>2, <3>4 DEF Token!Decodes
    <2> QED BY <1>1, <1>3, <1>4, <1>5, <1>7, <2>3, <2>4
            DEF TokenInv, Token!PartitionTokenSound
  <1> QED BY <1>6, <1>7 DEF TokenInv

\* A token is what PARTITION made, or put together from two; what runs it checks it.
LEMMA TokenNext == TokenInv /\ [Token!Next]_tokenVars => TokenInv'
PROOF
  <1> SUFFICES ASSUME TokenInv, [Token!Next]_tokenVars PROVE TokenInv'
    OBVIOUS
  <1>1. now \in 0..MaxTime /\ MaxTime \in Nat /\ Validity \in Nat /\ session \in Token!Sessions
    BY StatementsAssumption DEF TokenInv, Token!PartitionTokenSound, Token!TypeOK
  <1>2. CASE Token!Export
    <2>1. PICK d \in {d1, d2} : partToken' = Token!Encoded(d)
      BY <1>2 DEF Token!Export
    <2>2. /\ made' = partToken' /\ outcome' = "none" /\ now' = now /\ ahead' = ahead
          /\ session' = session
      BY <1>2 DEF Token!Export
    <2>3. now \in 0..now'
      BY <1>1, <2>2
    <2>4. Exported(made)'
      BY <2>1, <2>2, <2>3 DEF Exported, Token!Encoded
    <2> QED BY <1>1, <2>2, <2>4, TokenStays
  <1>3. CASE Token!Mix
    <2>1. partToken # Token!NoToken /\ partToken = made /\ made' = made /\ outcome' = "none"
          /\ now' = now /\ ahead' = ahead /\ session' = session
      BY <1>3 DEF Token!Mix
    <2>2. Exported(made)
      BY <2>1 DEF TokenInv
    <2>3. PICK e \in {d1, d2}, i \in 0..now :
            made = [db |-> e, issued |-> i, notAfter |-> i + Validity, tx |-> e, part |-> e,
                    kind |-> "query"]
      BY <2>2 DEF Exported
    <2>4. PICK d \in {d1, d2} \ {partToken.db} :
            partToken' \in {[partToken EXCEPT !.db = d], [partToken EXCEPT !.tx = d],
                            [partToken EXCEPT !.part = d],
                            [partToken EXCEPT !.db = d, !.tx = d],
                            [partToken EXCEPT !.tx = d, !.part = d],
                            [partToken EXCEPT !.kind = "read"]}
      BY <1>3 DEF Token!Mix
    <2>5. d # e /\ d \in {d1, d2}
      BY <2>1, <2>3, <2>4
    <2>6. /\ partToken'.issued = i /\ partToken'.notAfter = i + Validity
          /\ ~(partToken'.kind = "query" /\ partToken'.db = partToken'.part
               /\ partToken'.part = partToken'.tx)
          /\ partToken'.db \in {d1, d2}
      BY <2>1, <2>3, <2>4, <2>5
    <2>7. Mixed(partToken)'
      BY <2>1, <2>3, <2>6 DEF Mixed
    <2> QED BY <1>1, <2>1, <2>2, <2>6, <2>7, TokenStays
  <1>4. CASE Token!Tick \/ Token!Elsewhere
    <2>1. /\ made' = made /\ partToken' = partToken /\ outcome' = "none" /\ ahead' = ahead
          /\ session' \in Token!Sessions /\ now' \in {now, now + 1} /\ now' <= MaxTime
      BY <1>1, <1>4 DEF Token!Tick, Token!Elsewhere
    <2> QED BY <1>1, <2>1, TokenStays
  <1>5. CASE UNCHANGED tokenVars
    <2>1. now' = now /\ ahead' = ahead /\ partToken' = partToken /\ made' = made
          /\ session' = session /\ outcome' = outcome
      BY <1>5 DEF tokenVars
    <2>2. /\ Exported(made)' <=> Exported(made)
          /\ Mixed(partToken)' <=> Mixed(partToken)
      BY <2>1 DEF Exported, Mixed
    <2>3. Token!PartitionTokenSound'
      BY <2>1 DEF TokenInv, Token!PartitionTokenSound, Token!TypeOK, Token!ReadsOneSnapshot,
                  Token!ReadsInTime, Token!FreshIsAccepted
    <2> QED BY <2>1, <2>2, <2>3 DEF TokenInv
  <1> QED BY <1>2, <1>3, <1>4, <1>5, RunToken DEF Token!Next

-----------------------------------------------------------------------------
\* PartitionedQuery: its workers, submitter and consumer.

Received(p) == Cardinality({i \in DOMAIN got : got[i] = p})

\* A worker has what it has not read; what it has read was received, but the
\* row it is sending, unless its query has given up.
PartTypes ==
    /\ Part!TypeOK
    /\ mode \in {"stream", "buffer"}
    /\ size \in [1..PartitionCount -> 0..PartitionRows]
    /\ got \in Seq(1..PartitionCount)

WorkersInv ==
    \A p \in 1..PartitionCount :
        /\ p <= next <=> worker[p] # "new"
        /\ worker[p] = "ok" => left[p] = 0
        /\ worker[p] = "send" => md
        /\ mode = "buffer" => worker[p] \notin {"send", "sendErr", "canceled"}
        /\ worker[p] = "canceled" => ctx \/ cons = "failed" \/ partResult = "error"
        /\ mode = "stream" /\ cons \notin {"failed", "returned"} =>
             /\ worker[p] \in {"new", "run", "ok"} => Received(p) + left[p] = size[p]
             /\ worker[p] = "send" => Received(p) + 1 + left[p] = size[p]

SubmitInv ==
    /\ sub = "go" => next < PartitionCount
    /\ sub \in {"wait", "done"} =>
         \/ next = PartitionCount
         \/ mode = "stream" /\ (ctx \/ cons = "failed" \/ partResult = "error")
    /\ closed <=> sub = "done"
    /\ closed => Part!Active = {}

ConsumerInv ==
    /\ mode = "buffer" => cons \in {"first", "returned"}
    /\ cancel => cons \in {"ok", "failed", "returned"} /\ mode = "stream"
    /\ cons \in {"ok", "returned"} => closed
    /\ mode = "stream" /\ cons = "rows" => mdSeen
    /\ cons = "first" => got = <<>>
    /\ cons # "returned" => partResult = "none"

PartInv ==
    /\ PartTypes /\ WorkersInv /\ SubmitInv /\ ConsumerInv
    /\ Part!OkMeansAllRows /\ Part!MetadataFirst

Places == {"new", "run", "send", "sendErr", "ok", "failed", "canceled"}
Works(w) == w \in {"run", "send", "sendErr"}

\* What the bounds are.
LEMMA PartConstants ==
    /\ PartitionCount \in Nat /\ PartitionRows \in Nat /\ Parallelism \in Nat \ {0}
BY StatementsAssumption

\* PartitionedQuery counts as this module does.
LEMMA SameCount == \A S : Part!Cardinality(S) = Cardinality(S)
BY DEF Part!Cardinality, Cardinality

\* The workers at work are finitely many.
LEMMA ActiveFacts ==
    ASSUME PartInv
    PROVE  /\ Part!Active \subseteq 1..PartitionCount
           /\ IsFiniteSet(Part!Active) /\ Cardinality(Part!Active) \in Nat
           /\ Cardinality(Part!Active) <= Parallelism
PROOF
  <1>1. Part!Active \subseteq 1..PartitionCount
    BY DEF Part!Active, Part!Partitions
  <1>2. IsFiniteSet(Part!Active) /\ Cardinality(Part!Active) \in Nat
    <2>1. IsFiniteSet(1..PartitionCount)
      BY PartConstants, FS_Interval
    <2> QED BY <1>1, <2>1, FS_Subset, FS_CardinalityType
  <1>3. Part!Cardinality(Part!Active) <= Parallelism
    BY DEF PartInv, PartTypes, Part!TypeOK
  <1> QED BY <1>1, <1>2, <1>3, SameCount

\* One worker moves on, none begins.
LEMMA WorkerMoves ==
    ASSUME PartInv, NEW p \in 1..PartitionCount, NEW w \in Places,
           worker' = [worker EXCEPT ![p] = w], Works(w) => Works(worker[p])
    PROVE  /\ worker' \in [1..PartitionCount -> Places] /\ worker'[p] = w
           /\ \A q \in 1..PartitionCount : q # p => worker'[q] = worker[q]
           /\ Cardinality(Part!Active') <= Parallelism
           /\ Part!Active = {} => Part!Active' = {}
PROOF
  <1>1. worker \in [1..PartitionCount -> Places]
    BY DEF PartInv, PartTypes, Part!TypeOK, Part!Partitions, Part!Ended, Places
  <1>2. /\ worker' \in [1..PartitionCount -> Places] /\ worker'[p] = w
        /\ \A q \in 1..PartitionCount : q # p => worker'[q] = worker[q]
    BY <1>1
  <1>3. Part!Active' \subseteq Part!Active
    BY <1>2 DEF Part!Active, Part!Partitions, Works
  <1>4. Cardinality(Part!Active') <= Cardinality(Part!Active)
        /\ Cardinality(Part!Active') \in Nat
    BY <1>3, ActiveFacts, FS_Subset, FS_CardinalityType
  <1>5. Cardinality(Part!Active') <= Parallelism
    BY <1>4, ActiveFacts, PartConstants
  <1> QED BY <1>2, <1>3, <1>5

\* The rows received are counted.
LEMMA ReceivedFacts ==
    ASSUME PartInv, NEW q \in 1..PartitionCount
    PROVE  /\ Received(q) \in Nat /\ size[q] \in 0..PartitionRows /\ left[q] \in 0..PartitionRows
           /\ left[q] <= size[q] /\ worker[q] \in Places
PROOF
  <1>1. got \in Seq(1..PartitionCount) /\ Len(got) \in Nat
    BY DEF PartInv, PartTypes
  <1>2. {i \in DOMAIN got : got[i] = q} \subseteq 1..Len(got)
    BY <1>1
  <1>3. Received(q) \in Nat
    <2>1. IsFiniteSet(1..Len(got))
      BY <1>1, FS_Interval
    <2> QED BY <1>2, <2>1, FS_Subset, FS_CardinalityType DEF Received
  <1> QED BY <1>3 DEF PartInv, PartTypes, Part!TypeOK, Part!Partitions, Part!Ended, Places

\* A row received is counted for its partition and for no other.
LEMMA ReceiveCounts ==
    ASSUME PartInv, NEW p \in 1..PartitionCount, got' = Append(got, p)
    PROVE  /\ Received(p)' = Received(p) + 1 /\ got' \in Seq(1..PartitionCount) /\ got' # <<>>
           /\ \A q \in 1..PartitionCount : q # p => Received(q)' = Received(q)
PROOF
  <1> DEFINE At(q) == {i \in DOMAIN got : got[i] = q}
             AtNext(q) == {i \in DOMAIN got' : got'[i] = q}
  <1>1. got \in Seq(1..PartitionCount) /\ Len(got) \in Nat
    BY DEF PartInv, PartTypes
  <1>2. PICK n : n = Len(got) + 1
    OBVIOUS
  <1>3. /\ got' \in Seq(1..PartitionCount) /\ Len(got') = n /\ got'[n] = p
        /\ \A i \in 1..Len(got) : got'[i] = got[i]
    BY <1>1, <1>2
  <1>4. IsFiniteSet(At(p)) /\ n \notin At(p)
    <2>1. IsFiniteSet(1..Len(got))
      BY <1>1, FS_Interval
    <2>2. At(p) \subseteq 1..Len(got)
      BY <1>1
    <2>3. n \notin 1..Len(got)
      BY <1>1, <1>2
    <2> QED BY <2>1, <2>2, <2>3, FS_Subset
  <1>5. AtNext(p) = At(p) \cup {n}
    BY <1>1, <1>2, <1>3
  <1>6. \A q : q # p => AtNext(q) = At(q)
    BY <1>1, <1>2, <1>3
  <1>7. /\ Received(p) = Cardinality(At(p)) /\ Received(p)' = Cardinality(AtNext(p))
        /\ \A q : Received(q) = Cardinality(At(q)) /\ Received(q)' = Cardinality(AtNext(q))
    BY DEF Received
  <1>8. got' # <<>>
    BY <1>1, <1>2, <1>3
  <1> HIDE DEF At, AtNext
  <1>9. Cardinality(At(p) \cup {n}) = Cardinality(At(p)) + 1
    BY <1>4, FS_AddElement
  <1>10. Received(p)' = Received(p) + 1
    BY <1>5, <1>7, <1>9
  <1>11. \A q \in 1..PartitionCount : q # p => Received(q)' = Received(q)
    BY <1>6, <1>7
  <1> QED BY <1>3, <1>8, <1>10, <1>11

\* Nothing is read before the first worker is submitted.
LEMMA PartInit == Part!Init => PartInv
PROOF
  <1> SUFFICES ASSUME Part!Init PROVE PartInv
    OBVIOUS
  <1>1. /\ mode \in {"stream", "buffer"} /\ size \in [1..PartitionCount -> 0..PartitionRows]
        /\ left = size /\ worker = [p \in 1..PartitionCount |-> "new"]
        /\ sub = "check" /\ next = 0 /\ closed = FALSE /\ ctx = FALSE /\ cancel = FALSE
        /\ cons = "first" /\ got = <<>> /\ md = FALSE /\ mdSeen = FALSE /\ partResult = "none"
    BY DEF Part!Init, Part!Partitions
  <1>2. Part!Active = {}
    BY <1>1 DEF Part!Active, Part!Partitions
  <1>3. Part!TypeOK
    <2>1. Part!Cardinality(Part!Active) <= Parallelism
      BY <1>2, FS_EmptySet, PartConstants, SameCount
    <2>2. worker \in [Part!Partitions -> {"new", "run", "send", "sendErr"} \cup Part!Ended]
      BY <1>1 DEF Part!Partitions
    <2>3. left \in [Part!Partitions -> 0..PartitionRows]
          /\ \A p \in Part!Partitions : left[p] <= size[p]
      BY <1>1, PartConstants DEF Part!Partitions
    <2>4. next \in 0..PartitionCount
      BY <1>1, PartConstants
    <2>5. {closed, ctx, cancel, md, mdSeen} \subseteq BOOLEAN
      BY <1>1
    <2> QED BY <1>1, <2>1, <2>2, <2>3, <2>4, <2>5 DEF Part!TypeOK
  <1>4. \A p : Received(p) = 0
    <2>1. \A p : {i \in DOMAIN got : got[i] = p} = {}
      BY <1>1
    <2> QED BY <2>1, FS_EmptySet DEF Received
  <1>5. WorkersInv
    BY <1>1, <1>4, PartConstants DEF WorkersInv
  <1> QED BY <1>1, <1>2, <1>3, <1>5
          DEF PartInv, PartTypes, SubmitInv, ConsumerInv, Part!OkMeansAllRows,
              Part!MetadataFirst, Part!Partitions

\* A query that has returned does nothing more.
LEMMA ReturnedStays ==
    ASSUME PartInv, Part!Next, cons = "returned"
    PROVE  UNCHANGED partVars
PROOF
  <1>1. closed /\ sub = "done" /\ \A p \in 1..PartitionCount : ~Works(worker[p])
    BY DEF PartInv, ConsumerInv, SubmitInv, Part!Active, Part!Partitions, Works
  <1> QED
    BY <1>1 DEF Part!Next, Part!EndContext, Part!WriterFails, Part!Check, Part!Go,
         Part!CloseChannel, Part!ReadRow, Part!EndRows, Part!ReadError, Part!GiveUp,
         Part!Receive, Part!Drain, Part!Exhausted, Part!Consuming, Part!Cancel, Part!Return,
         Part!Collect, Part!Returned, Part!vars, partVars, Part!Partitions, Works

\* The types, conjunct by conjunct.
LEMMA PartTypesOf ==
    ASSUME PartInv
    PROVE  /\ mode \in {"stream", "buffer"} /\ size \in [1..PartitionCount -> 0..PartitionRows]
           /\ left \in [1..PartitionCount -> 0..PartitionRows]
           /\ \A p \in 1..PartitionCount : left[p] <= size[p]
           /\ worker \in [1..PartitionCount -> Places]
           /\ sub \in {"check", "go", "wait", "done"} /\ next \in 0..PartitionCount
           /\ closed \in BOOLEAN /\ ctx \in BOOLEAN /\ cancel \in BOOLEAN
           /\ md \in BOOLEAN /\ mdSeen \in BOOLEAN
           /\ cons \in {"first", "rows", "ok", "failed", "returned"}
           /\ partResult \in {"none", "ok", "error"} /\ got \in Seq(1..PartitionCount)
BY DEF PartInv, PartTypes, Part!TypeOK, Part!Partitions, Part!Ended, Places

\* The types of the next state, from its parts.
LEMMA TypesNext ==
    ASSUME mode' \in {"stream", "buffer"}, size' \in [1..PartitionCount -> 0..PartitionRows],
           left' \in [1..PartitionCount -> 0..PartitionRows],
           \A p \in 1..PartitionCount : left'[p] <= size'[p],
           worker' \in [1..PartitionCount -> Places],
           sub' \in {"check", "go", "wait", "done"}, next' \in 0..PartitionCount,
           closed' \in BOOLEAN, ctx' \in BOOLEAN, cancel' \in BOOLEAN,
           md' \in BOOLEAN, mdSeen' \in BOOLEAN,
           cons' \in {"first", "rows", "ok", "failed", "returned"},
           partResult' \in {"none", "ok", "error"}, got' \in Seq(1..PartitionCount),
           Cardinality(Part!Active') <= Parallelism
    PROVE  PartTypes'
PROOF
  <1>1. Part!Cardinality(Part!Active') <= Parallelism
    BY SameCount
  <1>2. worker' \in [1..PartitionCount -> {"new", "run", "send", "sendErr"}
                                           \cup {"ok", "failed", "canceled"}]
    BY DEF Places
  <1>3. {closed', ctx', cancel', md', mdSeen'} \subseteq BOOLEAN
    OBVIOUS
  <1>4. Part!TypeOK'
    BY <1>1, <1>2, <1>3 DEF Part!TypeOK, Part!Partitions, Part!Ended
  <1> QED BY <1>4 DEF PartTypes

\* A worker at work moves on: it reads, ends, fails, gives up, or is drained.
LEMMA WorkerStep ==
    ASSUME PartInv, cons # "returned",
           NEW p \in 1..PartitionCount, NEW w \in Places \ {"new"}, Works(worker[p]),
           worker' = [worker EXCEPT ![p] = w],
           left' \in [1..PartitionCount -> 0..PartitionRows], left'[p] <= left[p],
           \A q \in 1..PartitionCount : q # p => left'[q] = left[q],
           md' \in {md, TRUE},
           UNCHANGED <<mode, size, sub, next, closed, ctx, cancel, cons, got, mdSeen, partResult>>,
           w = "ok" => left'[p] = 0, w = "send" => md',
           mode = "buffer" => w \notin {"send", "sendErr", "canceled"},
           w = "canceled" => ctx \/ cons = "failed",
           mode = "stream" /\ cons # "failed" =>
             /\ w \in {"run", "ok"} => Received(p) + left'[p] = size[p]
             /\ w = "send" => Received(p) + 1 + left'[p] = size[p]
    PROVE  PartInv'
PROOF
  <1>1. /\ mode' = mode /\ size' = size /\ sub' = sub /\ next' = next /\ closed' = closed
        /\ ctx' = ctx /\ cancel' = cancel /\ cons' = cons /\ got' = got /\ mdSeen' = mdSeen
        /\ partResult' = partResult
    OBVIOUS
  <1>2. /\ worker' \in [1..PartitionCount -> Places] /\ worker'[p] = w
        /\ \A q \in 1..PartitionCount : q # p => worker'[q] = worker[q]
        /\ Cardinality(Part!Active') <= Parallelism
    BY WorkerMoves, PartTypesOf DEF Works
  <1>3. \A q \in 1..PartitionCount : left'[q] <= size'[q]
    <2> TAKE q \in 1..PartitionCount
    <2>1. CASE q = p
      <3>1. left'[p] <= left[p] /\ left[p] <= size[p] /\ size[p] \in 0..PartitionRows
            /\ left'[p] \in 0..PartitionRows /\ left[p] \in 0..PartitionRows
        BY PartTypesOf
      <3> QED BY <1>1, <2>1, <3>1, PartConstants
    <2>2. CASE q # p
      BY <1>1, <2>2, PartTypesOf
    <2> QED BY <2>1, <2>2
  <1>4. md' \in BOOLEAN /\ (md => md')
    <2>1. CASE md' = md
      BY <2>1, PartTypesOf
    <2>2. CASE md' = TRUE
      BY <2>2
    <2> QED BY <2>1, <2>2
  <1>5. PartTypes'
    BY <1>1, <1>2, <1>3, <1>4, PartTypesOf, TypesNext
  <1>6. ~closed /\ p \in Part!Active
    BY DEF PartInv, SubmitInv, Part!Active, Part!Partitions, Works
  <1>7. worker[p] # "new" /\ WorkersInv
    BY DEF PartInv, Works
  <1>8. WorkersInv'
    <2> SUFFICES ASSUME NEW q \in 1..PartitionCount
                 PROVE  /\ q <= next' <=> worker'[q] # "new"
                        /\ worker'[q] = "ok" => left'[q] = 0
                        /\ worker'[q] = "send" => md'
                        /\ mode' = "buffer" => worker'[q] \notin {"send", "sendErr", "canceled"}
                        /\ worker'[q] = "canceled" =>
                             ctx' \/ cons' = "failed" \/ partResult' = "error"
                        /\ mode' = "stream" /\ cons' \notin {"failed", "returned"} =>
                             /\ worker'[q] \in {"new", "run", "ok"} =>
                                  Received(q)' + left'[q] = size'[q]
                             /\ worker'[q] = "send" => Received(q)' + 1 + left'[q] = size'[q]
      BY DEF WorkersInv
    <2>1. Received(q)' = Received(q)
      BY <1>1 DEF Received
    <2>2. CASE q = p
      BY <1>1, <1>2, <1>7, <2>1, <2>2 DEF WorkersInv
    <2>3. CASE q # p
      BY <1>1, <1>2, <1>4, <1>7, <2>1, <2>3 DEF WorkersInv
    <2> QED BY <2>2, <2>3
  <1>9. SubmitInv' /\ ConsumerInv'
    BY <1>1, <1>6 DEF PartInv, SubmitInv, ConsumerInv
  <1>10. partResult' = "none"
    BY <1>1 DEF PartInv, ConsumerInv
  <1> QED BY <1>1, <1>5, <1>8, <1>9, <1>10
          DEF PartInv, Part!OkMeansAllRows, Part!MetadataFirst

\* Steps that leave the workers and the rows alone.
LEMMA OthersStep ==
    ASSUME PartInv, UNCHANGED <<mode, size, left, worker, next, got, md>>,
           sub' \in {"check", "go", "wait", "done"}, closed' \in BOOLEAN, ctx' \in BOOLEAN,
           cancel' \in BOOLEAN, mdSeen' \in BOOLEAN,
           cons' \in {"first", "rows", "ok", "failed", "returned"},
           partResult' \in {"none", "ok", "error"},
           ctx \/ cons = "failed" \/ partResult = "error" =>
               ctx' \/ cons' = "failed" \/ partResult' = "error",
           cons \in {"failed", "returned"} => cons' \in {"failed", "returned"},
           SubmitInv', ConsumerInv', Part!OkMeansAllRows', Part!MetadataFirst'
    PROVE  PartInv'
PROOF
  <1>1. /\ mode' = mode /\ size' = size /\ left' = left /\ worker' = worker /\ next' = next
        /\ got' = got /\ md' = md
    OBVIOUS
  <1>2. Part!Active' = Part!Active
    BY <1>1 DEF Part!Active, Part!Partitions
  <1>3. Cardinality(Part!Active') <= Parallelism
    BY <1>2, ActiveFacts
  <1>4. PartTypes'
    BY <1>1, <1>3, PartTypesOf, TypesNext
  <1>5. WorkersInv'
    <2>1. \A q : Received(q)' = Received(q)
      BY <1>1 DEF Received
    <2>2. WorkersInv
      BY DEF PartInv
    <2>3. cons' \notin {"failed", "returned"} => cons \notin {"failed", "returned"}
      OBVIOUS
    <2> QED BY <1>1, <2>1, <2>2, <2>3 DEF WorkersInv
  <1> QED BY <1>4, <1>5 DEF PartInv

\* A step of one worker touches no other worker's place.
LEMMA PartWorker ==
    ASSUME PartInv, cons # "returned", NEW p \in 1..PartitionCount,
           Part!ReadRow(p) \/ Part!EndRows(p) \/ Part!ReadError(p) \/ Part!GiveUp(p)
             \/ Part!Drain(p)
    PROVE  PartInv'
PROOF
  <1>1. /\ left[p] \in 0..PartitionRows /\ left[p] <= size[p] /\ size[p] \in 0..PartitionRows
        /\ left \in [1..PartitionCount -> 0..PartitionRows] /\ Received(p) \in Nat
        /\ mode \in {"stream", "buffer"}
    BY PartTypesOf, ReceivedFacts
  <1>2. /\ Works(worker[p]) => ~closed
        /\ WorkersInv /\ ConsumerInv /\ SubmitInv
        /\ partResult = "none"
    BY DEF PartInv, ConsumerInv, SubmitInv, Part!Active, Part!Partitions, Works
  <1>3. /\ worker[p] = "send" => md
        /\ mode = "buffer" => worker[p] \notin {"send", "sendErr", "canceled"}
        /\ mode = "stream" /\ cons \notin {"failed", "returned"} =>
             /\ worker[p] \in {"new", "run", "ok"} => Received(p) + left[p] = size[p]
             /\ worker[p] = "send" => Received(p) + 1 + left[p] = size[p]
    BY <1>2 DEF WorkersInv
  <1>4. CASE Part!ReadRow(p)
    <2>1. /\ worker[p] = "run" /\ left[p] > 0 /\ left' = [left EXCEPT ![p] = left[p] - 1]
          /\ md' = TRUE
          /\ UNCHANGED <<mode, size, sub, next, closed, ctx, cancel, cons, got, mdSeen,
                         partResult>>
      BY <1>4 DEF Part!ReadRow
    <2>2. left[p] - 1 \in 0..PartitionRows /\ left[p] - 1 <= left[p]
      BY <1>1, <2>1, PartConstants
    <2>3. /\ left' \in [1..PartitionCount -> 0..PartitionRows] /\ left'[p] = left[p] - 1
          /\ \A q \in 1..PartitionCount : q # p => left'[q] = left[q]
      BY <1>1, <2>1, <2>2
    <2>4. CASE mode = "stream"
      <3>1. worker' = [worker EXCEPT ![p] = "send"]
        BY <1>4, <2>4 DEF Part!ReadRow
      <3>2. cons # "failed" => Received(p) + 1 + left'[p] = size[p]
        <4> SUFFICES ASSUME cons # "failed" PROVE Received(p) + 1 + left'[p] = size[p]
          OBVIOUS
        <4>1. Received(p) + left[p] = size[p]
          BY <1>3, <2>1, <2>4
        <4> QED BY <1>1, <2>3, <4>1, PartConstants
      <3> QED BY <2>1, <2>2, <2>3, <2>4, <3>1, <3>2, WorkerStep DEF Works, Places
    <2>5. CASE mode = "buffer"
      <3>1. worker' = [worker EXCEPT ![p] = "run"]
        BY <1>4, <2>5 DEF Part!ReadRow
      <3> QED BY <2>1, <2>2, <2>3, <2>5, <3>1, WorkerStep DEF Works, Places
    <2> QED BY <1>1, <2>4, <2>5
  <1>5. CASE Part!EndRows(p)
    <2>1. /\ worker[p] = "run" /\ left[p] = 0 /\ left' = left /\ md' = TRUE
          /\ worker' = [worker EXCEPT ![p] = "ok"]
          /\ UNCHANGED <<mode, size, sub, next, closed, ctx, cancel, cons, got, mdSeen,
                         partResult>>
      BY <1>5 DEF Part!EndRows
    <2>2. mode = "stream" /\ cons # "failed" => Received(p) + left'[p] = size[p]
      BY <1>3, <2>1
    <2>3. left'[p] <= left[p]
      BY <1>1, <2>1
    <2> QED BY <1>1, <2>1, <2>2, <2>3, WorkerStep DEF Works, Places
  <1>6. CASE Part!ReadError(p)
    <2>1. /\ worker[p] = "run" /\ left' = left /\ md' \in {md, TRUE}
          /\ UNCHANGED <<mode, size, sub, next, closed, ctx, cancel, cons, got, mdSeen,
                         partResult>>
      BY <1>6 DEF Part!ReadError
    <2>2. PICK w \in {"sendErr", "failed"} :
            /\ worker' = [worker EXCEPT ![p] = w]
            /\ mode = "buffer" => w = "failed"
      BY <1>6 DEF Part!ReadError
    <2>3. left'[p] <= left[p]
      BY <1>1, <2>1, PartConstants
    <2> QED BY <1>1, <2>1, <2>2, <2>3, WorkerStep DEF Works, Places
  <1>7. CASE Part!GiveUp(p)
    <2>1. /\ worker[p] \in {"send", "sendErr"} /\ (ctx \/ cancel) /\ left' = left /\ md' = md
          /\ UNCHANGED <<mode, size, sub, next, closed, ctx, cancel, cons, got, mdSeen,
                         partResult>>
      BY <1>7 DEF Part!GiveUp, Part!ChildDone
    <2>2. PICK w \in {"failed", "canceled"} : worker' = [worker EXCEPT ![p] = w]
      BY <1>7 DEF Part!GiveUp
    <2>3. left'[p] <= left[p]
      BY <1>1, <2>1, PartConstants
    <2>4. mode = "stream" /\ (ctx \/ cons = "failed")
      BY <1>1, <1>2, <1>3, <2>1 DEF ConsumerInv, Works
    <2> QED BY <1>1, <2>1, <2>2, <2>3, <2>4, WorkerStep DEF Works, Places
  <1>8. CASE Part!Drain(p)
    <2>1. /\ cancel /\ cons \in {"ok", "failed"} /\ worker[p] \in {"send", "sendErr"}
          /\ left' = left /\ md' = md
          /\ UNCHANGED <<mode, size, sub, next, closed, ctx, cancel, cons, got, mdSeen,
                         partResult>>
      BY <1>8 DEF Part!Drain
    <2>2. PICK w \in {"run", "failed"} : worker' = [worker EXCEPT ![p] = w]
      BY <1>8 DEF Part!Drain
    <2>3. left'[p] <= left[p]
      BY <1>1, <2>1, PartConstants
    <2>4. cons = "failed"
      BY <1>2, <2>1 DEF ConsumerInv, Works
    <2> QED BY <1>1, <2>1, <2>2, <2>3, <2>4, WorkerStep DEF Works, Places
  <1> QED BY <1>4, <1>5, <1>6, <1>7, <1>8

\* A row is handed over, or the error that ends the rows.
LEMMA PartReceive ==
    ASSUME PartInv, NEW p \in 1..PartitionCount, Part!Receive(p)
    PROVE  PartInv'
PROOF
  <1>1. /\ mode = "stream" /\ cons \in {"first", "rows"} /\ worker[p] \in {"send", "sendErr"}
        /\ mdSeen' = IF cons = "first" THEN md ELSE mdSeen
        /\ UNCHANGED <<mode, size, left, sub, next, closed, ctx, cancel, md, partResult>>
    BY DEF Part!Receive, Part!Consuming, Part!MetadataNow
  <1>2. /\ WorkersInv /\ SubmitInv /\ ConsumerInv /\ ~closed /\ partResult = "none" /\ ~cancel
        /\ Part!MetadataFirst
    BY <1>1 DEF PartInv, SubmitInv, ConsumerInv, Part!Active, Part!Partitions
  <1>3. mdSeen' \in BOOLEAN
    BY <1>1, PartTypesOf
  <1>4. worker[p] = "send" => mdSeen'
    <2>1. worker[p] = "send" => md
      BY <1>2 DEF WorkersInv
    <2>2. cons = "rows" => mdSeen
      BY <1>1, <1>2 DEF ConsumerInv
    <2> QED BY <1>1, <2>1, <2>2
  <1>5. CASE worker[p] = "send"
    <2>1. got' = Append(got, p) /\ worker' = [worker EXCEPT ![p] = "run"] /\ cons' = "rows"
      BY <1>5 DEF Part!Receive
    <2>2. /\ worker' \in [1..PartitionCount -> Places] /\ worker'[p] = "run"
          /\ \A q \in 1..PartitionCount : q # p => worker'[q] = worker[q]
          /\ Cardinality(Part!Active') <= Parallelism
      BY <1>5, <2>1, WorkerMoves DEF Works, Places
    <2>3. /\ Received(p)' = Received(p) + 1 /\ got' \in Seq(1..PartitionCount)
          /\ \A q \in 1..PartitionCount : q # p => Received(q)' = Received(q)
      BY <2>1, ReceiveCounts
    <2>4. PartTypes'
      BY <1>1, <1>3, <2>1, <2>2, <2>3, PartTypesOf, TypesNext
    <2>5. Received(p) + 1 + left[p] = size[p]
      BY <1>1, <1>2, <1>5 DEF WorkersInv
    <2>6. WorkersInv'
      <3> SUFFICES ASSUME NEW q \in 1..PartitionCount
                   PROVE  /\ q <= next' <=> worker'[q] # "new"
                          /\ worker'[q] = "ok" => left'[q] = 0
                          /\ worker'[q] = "send" => md'
                          /\ worker'[q] = "canceled" =>
                               ctx' \/ cons' = "failed" \/ partResult' = "error"
                          /\ worker'[q] \in {"new", "run", "ok"} =>
                               Received(q)' + left'[q] = size'[q]
                          /\ worker'[q] = "send" => Received(q)' + 1 + left'[q] = size'[q]
        BY <1>1 DEF WorkersInv
      <3>1. CASE q = p
        <4>1. p <= next
          BY <1>2, <1>5 DEF WorkersInv
        <4> QED BY <1>1, <2>2, <2>3, <2>5, <3>1, <4>1
      <3>2. CASE q # p
        BY <1>1, <1>2, <2>2, <2>3, <3>2 DEF WorkersInv
      <3> QED BY <3>1, <3>2
    <2>7. SubmitInv' /\ ConsumerInv'
      BY <1>1, <1>2, <1>4, <1>5, <2>1 DEF SubmitInv, ConsumerInv
    <2> QED BY <1>1, <1>2, <1>4, <1>5, <2>4, <2>6, <2>7
            DEF PartInv, Part!OkMeansAllRows, Part!MetadataFirst
  <1>6. CASE worker[p] = "sendErr"
    <2>1. got' = got /\ worker' = [worker EXCEPT ![p] = "failed"] /\ cons' = "failed"
      BY <1>6 DEF Part!Receive
    <2>2. /\ worker' \in [1..PartitionCount -> Places] /\ worker'[p] = "failed"
          /\ \A q \in 1..PartitionCount : q # p => worker'[q] = worker[q]
          /\ Cardinality(Part!Active') <= Parallelism
      BY <1>6, <2>1, WorkerMoves DEF Works, Places
    <2>3. PartTypes'
      BY <1>1, <1>3, <2>1, <2>2, PartTypesOf, TypesNext
    <2>4. WorkersInv'
      <3> SUFFICES ASSUME NEW q \in 1..PartitionCount
                   PROVE  /\ q <= next' <=> worker'[q] # "new"
                          /\ worker'[q] = "ok" => left'[q] = 0
                          /\ worker'[q] = "send" => md'
        BY <1>1, <2>1 DEF WorkersInv
      <3>1. CASE q = p
        <4>1. p <= next
          BY <1>2, <1>6 DEF WorkersInv
        <4> QED BY <1>1, <2>2, <3>1, <4>1
      <3>2. CASE q # p
        BY <1>1, <1>2, <2>2, <3>2 DEF WorkersInv
      <3> QED BY <3>1, <3>2
    <2>5. SubmitInv' /\ ConsumerInv'
      BY <1>1, <1>2, <2>1 DEF SubmitInv, ConsumerInv
    <2>6. got # <<>> => mdSeen'
      <3> SUFFICES ASSUME got # <<>> PROVE mdSeen'
        OBVIOUS
      <3>1. mdSeen /\ cons # "first"
        BY <1>1, <1>2 DEF Part!MetadataFirst, ConsumerInv
      <3> QED BY <1>1, <3>1
    <2> QED BY <1>1, <1>2, <2>1, <2>3, <2>4, <2>5, <2>6
            DEF PartInv, Part!OkMeansAllRows, Part!MetadataFirst
  <1> QED BY <1>1, <1>5, <1>6

\* The pool takes the next partition.
LEMMA PartGo ==
    ASSUME PartInv, Part!Go, cons # "returned"
    PROVE  PartInv'
PROOF
  <1>1. /\ sub = "go" /\ Part!Cardinality(Part!Active) < Parallelism
        /\ worker' = [worker EXCEPT ![next + 1] = "run"] /\ next' = next + 1 /\ sub' = "check"
        /\ mode' = mode /\ size' = size /\ left' = left /\ closed' = closed /\ ctx' = ctx
        /\ cancel' = cancel /\ cons' = cons /\ got' = got /\ md' = md /\ mdSeen' = mdSeen
        /\ partResult' = partResult
    BY DEF Part!Go, Part!Slot
  <1>2. /\ WorkersInv /\ SubmitInv /\ ConsumerInv /\ ~closed /\ partResult = "none"
        /\ next \in 0..PartitionCount /\ next < PartitionCount
    BY <1>1, PartTypesOf DEF PartInv, SubmitInv, ConsumerInv
  <1>3. PICK p : p = next + 1
    OBVIOUS
  <1>4. p \in 1..PartitionCount /\ next' \in 0..PartitionCount /\ next \in Nat
    BY <1>1, <1>2, <1>3, PartConstants
  <1>5. worker[p] = "new"
    <2>1. ~(p <= next)
      BY <1>3, <1>4
    <2> QED BY <1>2, <1>4, <2>1 DEF WorkersInv
  <1>6. /\ worker' \in [1..PartitionCount -> Places] /\ worker'[p] = "run"
        /\ \A q \in 1..PartitionCount : q # p => worker'[q] = worker[q]
    <2>1. worker' = [worker EXCEPT ![p] = "run"]
      BY <1>1, <1>3
    <2> QED BY <1>4, <2>1, PartTypesOf DEF Places
  <1>7. Cardinality(Part!Active') <= Parallelism
    <2>1. Part!Active' = Part!Active \cup {p} /\ p \notin Part!Active
      BY <1>4, <1>5, <1>6 DEF Part!Active, Part!Partitions
    <2>2. Cardinality(Part!Active \cup {p}) = Cardinality(Part!Active) + 1
      BY <2>1, ActiveFacts, FS_AddElement
    <2>3. Cardinality(Part!Active) < Parallelism
      BY <1>1, SameCount
    <2> QED BY <2>1, <2>2, <2>3, ActiveFacts, PartConstants
  <1>8. PartTypes'
    BY <1>1, <1>4, <1>6, <1>7, PartTypesOf, TypesNext
  <1>9. WorkersInv'
    <2> SUFFICES ASSUME NEW q \in 1..PartitionCount
                 PROVE  /\ q <= next' <=> worker'[q] # "new"
                        /\ worker'[q] = "ok" => left'[q] = 0
                        /\ worker'[q] = "send" => md'
                        /\ mode' = "buffer" => worker'[q] \notin {"send", "sendErr", "canceled"}
                        /\ worker'[q] = "canceled" =>
                             ctx' \/ cons' = "failed" \/ partResult' = "error"
                        /\ mode' = "stream" /\ cons' \notin {"failed", "returned"} =>
                             /\ worker'[q] \in {"new", "run", "ok"} =>
                                  Received(q)' + left'[q] = size'[q]
                             /\ worker'[q] = "send" => Received(q)' + 1 + left'[q] = size'[q]
      BY DEF WorkersInv
    <2>1. Received(q)' = Received(q)
      BY <1>1 DEF Received
    <2>2. CASE q = p
      <3>1. q <= next'
        BY <1>1, <1>3, <1>4, <2>2
      <3>2. mode = "stream" /\ cons \notin {"failed", "returned"} => Received(p) + left[p] = size[p]
        BY <1>2, <1>4, <1>5 DEF WorkersInv
      <3> QED BY <1>1, <1>6, <2>1, <2>2, <3>1, <3>2
    <2>3. CASE q # p
      <3>1. q <= next' <=> q <= next
        BY <1>1, <1>3, <1>4, <2>3
      <3> QED BY <1>1, <1>2, <1>6, <2>1, <2>3, <3>1 DEF WorkersInv
    <2> QED BY <2>2, <2>3
  <1>10. SubmitInv' /\ ConsumerInv'
    BY <1>1, <1>2 DEF SubmitInv, ConsumerInv
  <1> QED BY <1>1, <1>2, <1>8, <1>9, <1>10
          DEF PartInv, Part!OkMeansAllRows, Part!MetadataFirst

\* The submitter, the end of the context, the writer's failure and cancel.
LEMMA PartOthers ==
    ASSUME PartInv, cons # "returned",
           Part!EndContext \/ Part!Check \/ Part!CloseChannel \/ Part!WriterFails \/ Part!Cancel
    PROVE  PartInv'
PROOF
  <1>1. /\ SubmitInv /\ ConsumerInv /\ partResult = "none" /\ Part!MetadataFirst
        /\ next \in 0..PartitionCount
    BY PartTypesOf DEF PartInv, ConsumerInv
  <1>2. CASE Part!EndContext
    <2>1. /\ UNCHANGED <<mode, size, left, worker, next, got, md, sub, closed, cancel, mdSeen,
                         cons, partResult>>
          /\ ctx' = TRUE
      BY <1>2 DEF Part!EndContext
    <2>2. Part!Active' = Part!Active
      BY <2>1 DEF Part!Active, Part!Partitions
    <2>3. SubmitInv' /\ ConsumerInv' /\ Part!OkMeansAllRows' /\ Part!MetadataFirst'
      BY <1>1, <2>1, <2>2 DEF SubmitInv, ConsumerInv, Part!OkMeansAllRows, Part!MetadataFirst
    <2> QED BY <2>1, <2>3, PartTypesOf, OthersStep
  <1>3. CASE Part!Check
    <2>1. /\ UNCHANGED <<mode, size, left, worker, next, got, md, ctx, closed, cancel, mdSeen,
                         cons, partResult>>
          /\ sub = "check"
          /\ sub' = IF next = PartitionCount \/ (mode = "stream" /\ (ctx \/ cancel))
                    THEN "wait" ELSE "go"
      BY <1>3 DEF Part!Check, Part!ChildDone
    <2>2. Part!Active' = Part!Active
      BY <2>1 DEF Part!Active, Part!Partitions
    <2>3. next # PartitionCount => next < PartitionCount
      BY <1>1, PartConstants
    <2>4. ~closed /\ (cancel => cons = "failed")
      BY <1>1, <2>1 DEF SubmitInv, ConsumerInv
    <2>5. SubmitInv'
      BY <2>1, <2>3, <2>4 DEF SubmitInv
    <2>6. ConsumerInv' /\ Part!OkMeansAllRows' /\ Part!MetadataFirst'
      BY <1>1, <2>1 DEF ConsumerInv, Part!OkMeansAllRows, Part!MetadataFirst
    <2> QED BY <2>1, <2>5, <2>6, PartTypesOf, OthersStep
  <1>4. CASE Part!CloseChannel
    <2>1. /\ UNCHANGED <<mode, size, left, worker, next, got, md, ctx, cancel, mdSeen, cons,
                         partResult>>
          /\ sub = "wait" /\ Part!Active = {} /\ sub' = "done" /\ closed' = TRUE
      BY <1>4 DEF Part!CloseChannel
    <2>2. Part!Active' = Part!Active
      BY <2>1 DEF Part!Active, Part!Partitions
    <2>3. SubmitInv' /\ ConsumerInv' /\ Part!OkMeansAllRows' /\ Part!MetadataFirst'
      BY <1>1, <2>1, <2>2 DEF SubmitInv, ConsumerInv, Part!OkMeansAllRows, Part!MetadataFirst
    <2> QED BY <2>1, <2>3, PartTypesOf, OthersStep
  <1>5. CASE Part!WriterFails
    <2>1. /\ UNCHANGED <<mode, size, left, worker, next, got, md, sub, closed, ctx, cancel,
                         mdSeen, partResult>>
          /\ mode = "stream" /\ cons = "rows" /\ cons' = "failed"
      BY <1>5 DEF Part!WriterFails
    <2>2. Part!Active' = Part!Active
      BY <2>1 DEF Part!Active, Part!Partitions
    <2>3. SubmitInv' /\ ConsumerInv' /\ Part!OkMeansAllRows' /\ Part!MetadataFirst'
      BY <1>1, <2>1, <2>2 DEF SubmitInv, ConsumerInv, Part!OkMeansAllRows, Part!MetadataFirst
    <2> QED BY <2>1, <2>3, PartTypesOf, OthersStep
  <1>6. CASE Part!Cancel
    <2>1. /\ UNCHANGED <<mode, size, left, worker, next, got, md, sub, closed, ctx, mdSeen, cons,
                         partResult>>
          /\ mode = "stream" /\ cons \in {"ok", "failed"} /\ cancel' = TRUE
      BY <1>6 DEF Part!Cancel
    <2>2. Part!Active' = Part!Active
      BY <2>1 DEF Part!Active, Part!Partitions
    <2>3. SubmitInv' /\ ConsumerInv' /\ Part!OkMeansAllRows' /\ Part!MetadataFirst'
      BY <1>1, <2>1, <2>2 DEF SubmitInv, ConsumerInv, Part!OkMeansAllRows, Part!MetadataFirst
    <2> QED BY <2>1, <2>3, PartTypesOf, OthersStep
  <1> QED BY <1>2, <1>3, <1>4, <1>5, <1>6

\* The channel ran out.
LEMMA PartExhausted ==
    ASSUME PartInv, Part!Exhausted
    PROVE  PartInv'
PROOF
  <1>1. /\ UNCHANGED <<mode, size, left, worker, next, got, md, sub, closed, ctx, cancel,
                       partResult>>
        /\ mode = "stream" /\ cons \in {"first", "rows"} /\ closed
        /\ mdSeen' = IF cons = "first" THEN md ELSE mdSeen
        /\ cons' = IF mdSeen' THEN "ok" ELSE "failed"
    BY DEF Part!Exhausted, Part!Consuming, Part!MetadataNow
  <1>2. SubmitInv /\ ConsumerInv /\ partResult = "none" /\ Part!MetadataFirst
    BY <1>1 DEF PartInv, ConsumerInv
  <1>3. Part!Active' = Part!Active
    BY <1>1 DEF Part!Active, Part!Partitions
  <1>4. mdSeen' \in BOOLEAN
    BY <1>1, PartTypesOf
  <1>5. SubmitInv' /\ ConsumerInv' /\ Part!OkMeansAllRows'
    BY <1>1, <1>2, <1>3 DEF SubmitInv, ConsumerInv, Part!OkMeansAllRows
  <1>6. Part!MetadataFirst'
    BY <1>1, <1>2 DEF ConsumerInv, Part!MetadataFirst
  <1> QED BY <1>1, <1>4, <1>5, <1>6, PartTypesOf, OthersStep

\* The verdict: OK means that no worker failed or gave up, that all were
\* submitted, and that all rows were received.
LEMMA PartReturn ==
    ASSUME PartInv, Part!Return \/ Part!Collect
    PROVE  PartInv'
PROOF
  <1>1. /\ UNCHANGED <<mode, size, left, worker, next, got, md, sub, closed, ctx, cancel, mdSeen>>
        /\ cons # "returned" /\ closed /\ cons' = "returned"
        /\ partResult' \in {"ok", "error"}
    BY DEF Part!Return, Part!Collect, Part!Drained, Part!Verdict
  <1>2. /\ WorkersInv /\ SubmitInv /\ ConsumerInv /\ partResult = "none" /\ Part!MetadataFirst
        /\ next \in 0..PartitionCount /\ mode \in {"stream", "buffer"}
    BY <1>1, PartTypesOf DEF PartInv, ConsumerInv
  <1>3. Part!Active' = Part!Active /\ Part!Active = {} /\ sub = "done"
    BY <1>1, <1>2 DEF SubmitInv, Part!Active, Part!Partitions
  <1>4. partResult' = "ok" => /\ \A p \in 1..PartitionCount : worker[p] # "failed"
                              /\ mode = "buffer" \/ (~ctx /\ cons = "ok")
    <2>1. CASE Part!Return
      <3>1. partResult' = "ok" => cons # "failed" /\ ~ctx /\ cons \in {"ok", "failed"}
                                  /\ ~Part!ProducerError
        BY <2>1 DEF Part!Return, Part!Verdict
      <3>2. cons # "failed" /\ ~ctx => \A p \in 1..PartitionCount : worker[p] # "canceled"
        BY <1>2 DEF WorkersInv
      <3> QED BY <3>1, <3>2 DEF Part!ProducerError, Part!Partitions
    <2>2. CASE Part!Collect
      BY <2>2 DEF Part!Collect, Part!Partitions
    <2> QED BY <2>1, <2>2
  <1>5. ctx \/ cons = "failed" => partResult' = "error" \/ mode = "buffer"
    BY <1>1, <1>2, <1>4
  <1>6. partResult' = "ok" =>
          \A p \in 1..PartitionCount :
            worker[p] = "ok" /\ left[p] = 0 /\ (mode = "stream" => Received(p) = size[p])
    <2> SUFFICES ASSUME partResult' = "ok", NEW p \in 1..PartitionCount
                 PROVE  worker[p] = "ok" /\ left[p] = 0 /\ (mode = "stream" => Received(p) = size[p])
      OBVIOUS
    <2>1. next = PartitionCount
      BY <1>2, <1>3, <1>4 DEF SubmitInv
    <2>2. worker[p] \in Places /\ worker[p] # "new" /\ worker[p] # "failed"
      <3>1. p <= next
        BY <2>1
      <3> QED BY <1>2, <1>4, <3>1, ReceivedFacts DEF WorkersInv
    <2>3. worker[p] \notin {"run", "send", "sendErr"}
      BY <1>3 DEF Part!Active, Part!Partitions
    <2>4. worker[p] # "canceled"
      BY <1>2, <1>4 DEF WorkersInv
    <2>5. worker[p] = "ok" /\ left[p] = 0
      BY <1>2, <2>2, <2>3, <2>4 DEF WorkersInv, Places
    <2>6. mode = "stream" => Received(p) + left[p] = size[p]
      BY <1>2, <1>4, <2>5 DEF WorkersInv
    <2> QED BY <2>5, <2>6, ReceivedFacts
  <1>7. Part!OkMeansAllRows'
    <2> SUFFICES ASSUME partResult' = "ok", NEW p \in 1..PartitionCount
                 PROVE  /\ worker'[p] = "ok" /\ left'[p] = 0
                        /\ mode' = "stream" =>
                             Part!Cardinality({i \in DOMAIN got' : got'[i] = p}) = size'[p]
      BY DEF Part!OkMeansAllRows, Part!Partitions
    <2> QED BY <1>1, <1>6, SameCount DEF Received
  <1>8. WorkersInv'
    <2>1. \A p : worker[p] = "canceled" => mode # "buffer" \/ p \notin 1..PartitionCount
      BY <1>2 DEF WorkersInv
    <2>2. \A p \in 1..PartitionCount : worker[p] = "canceled" => partResult' = "error"
      BY <1>2, <1>5, <2>1 DEF WorkersInv
    <2> QED BY <1>1, <1>2, <2>2 DEF WorkersInv
  <1>9. SubmitInv'
    <2>1. mode = "stream" /\ (ctx \/ cons = "failed") => partResult' = "error"
      BY <1>5
    <2> QED BY <1>1, <1>2, <1>3, <2>1 DEF SubmitInv
  <1>10. ConsumerInv' /\ Part!MetadataFirst'
    BY <1>1, <1>2 DEF ConsumerInv, Part!MetadataFirst
  <1>11. PartTypes'
    <2>1. Cardinality(Part!Active') <= Parallelism
      BY <1>3, ActiveFacts
    <2> QED BY <1>1, <2>1, PartTypesOf, TypesNext
  <1> QED BY <1>7, <1>8, <1>9, <1>10, <1>11 DEF PartInv

\* No step of worker, submitter, consumer or context breaks the accounts.
LEMMA PartNext == PartInv /\ [Part!Next]_partVars => PartInv'
PROOF
  <1> SUFFICES ASSUME PartInv, [Part!Next]_partVars PROVE PartInv'
    OBVIOUS
  <1>1. CASE UNCHANGED partVars
    <2>1. /\ UNCHANGED <<mode, size, left, worker, next, got, md>> /\ sub' = sub
          /\ closed' = closed /\ ctx' = ctx /\ cancel' = cancel /\ mdSeen' = mdSeen
          /\ cons' = cons /\ partResult' = partResult
      BY <1>1 DEF partVars
    <2>2. SubmitInv' /\ ConsumerInv' /\ Part!OkMeansAllRows' /\ Part!MetadataFirst'
      BY <2>1 DEF PartInv, SubmitInv, ConsumerInv, Part!OkMeansAllRows, Part!MetadataFirst,
                  Part!Active, Part!Partitions
    <2> QED BY <2>1, <2>2, PartTypesOf, OthersStep
  <1>2. CASE Part!Next /\ cons = "returned"
    BY <1>1, <1>2, ReturnedStays
  <1>3. CASE Part!Next /\ cons # "returned"
    <2>1. CASE \E p \in Part!Partitions :
                 Part!ReadRow(p) \/ Part!EndRows(p) \/ Part!ReadError(p) \/ Part!GiveUp(p)
                   \/ Part!Receive(p) \/ Part!Drain(p)
      BY <1>3, <2>1, PartWorker, PartReceive DEF Part!Partitions
    <2>2. CASE Part!EndContext \/ Part!WriterFails \/ Part!Check \/ Part!CloseChannel
               \/ Part!Cancel
      BY <1>3, <2>2, PartOthers
    <2>3. CASE Part!Go \/ Part!Exhausted \/ Part!Return \/ Part!Collect
      BY <1>3, <2>3, PartGo, PartExhausted, PartReturn
    <2> QED BY <1>3, <2>1, <2>2, <2>3 DEF Part!Next, Part!Returned
  <1> QED BY <1>1, <1>2, <1>3

\* The properties TLC checks follow from the invariant.
LEMMA PartIsSound == PartInv => Part!PartitionedQuerySound
PROOF
  <1> SUFFICES ASSUME PartInv PROVE Part!PartitionedQuerySound
    OBVIOUS
  <1>1. Part!NothingLeftReading
    BY DEF PartInv, ConsumerInv, SubmitInv, Part!NothingLeftReading
  <1> QED BY <1>1 DEF PartInv, PartTypes, Part!PartitionedQuerySound

-----------------------------------------------------------------------------
\* QueryExecution: the owner, the query in hand and what it has shown.

\* The owners that can be: retry and markers need the journal.
Owners ==
    [mode: {"rw", "ro"}, capture: BOOLEAN, retry: BOOLEAN, marker: BOOLEAN, recovering: BOOLEAN,
     lost: BOOLEAN, retries: 0..MaxRetries, journal: Seq([whole: BOOLEAN]), answered: Nat,
     pending: BOOLEAN]

Queries == [kind: Query!Kinds \cup {"none"}, sink: Query!Sinks, given: BOOLEAN]

Tokens == [kind: {"sql"}, current: BOOLEAN, receipt: {"open", "observed", "failed"}]

NoOwner == Query!NoOwner
NoToken == Query!NoToken

QueryTypes ==
    /\ Query!TypeOK
    /\ owner = NoOwner \/ owner \in Owners
    /\ owner # NoOwner =>
         /\ owner.mode = "ro" => ~owner.capture
         /\ owner.retry => owner.capture
         /\ owner.marker => owner.capture
    /\ query \in Queries
    /\ token = NoToken \/ token \in Tokens
    /\ queryShown \subseteq Nat \X Nat

\* Row 0 stands for the headers.
ShownTo(n) == {exec} \X (0..n) \subseteq queryShown

\* Between two queries nothing of the last one is left but what it showed.
RestInv ==
    /\ queryPc = "idle" =>
         /\ query = Query!NoStatement /\ token = NoToken /\ queryErr = "none" /\ exec = 0
         /\ sent = {} /\ frozen = {} /\ ~presented /\ total = 0 /\ rows = 0 /\ held = 0
    /\ queryPc # "idle" => query.kind # "none" /\ answer = "none"
    /\ iter => queryPc \in {"decide", "read"}
    /\ queryErr # "none" => queryPc \in {"complete", "settle", "reconstruct", "replay"}

\* Only the part of one execution is shown; an execution that may be repeated
\* has shown nothing.
PresentedInv ==
    /\ queryPc # "idle" => \A a \in queryShown : a[1] = exec
    /\ queryPc # "idle" /\ ~presented => queryShown = {}
    /\ queryPc \in {"prepare", "start", "decide", "reconstruct", "replay"} => ~presented
    /\ queryPc = "read" /\ query.sink # "buffer" => presented

\* Rows are shown as they come, but those a table holds back.
RowsInv ==
    /\ queryPc = "decide" => rows = 0 /\ held = 0
    /\ queryPc = "read" =>
         /\ query.sink = "buffer" => held = 0
         /\ query.sink = "writer" => held = 0 /\ ShownTo(rows)
         /\ query.sink = "preview" =>
              rows = held \/ (held = 0 /\ ShownTo(rows))
    /\ queryPc \in {"complete", "settle"} /\ queryErr = "none" =>
         /\ rows = total
         /\ token # NoToken => token.receipt = "observed"
         /\ query.sink # "buffer" => ShownTo(total)

\* The options are those of the prompt, once.
TagInv ==
    /\ query.kind # "dump" => sent \subseteq {query.given}
    /\ queryPc = "prepare" => sent = {}
    /\ queryPc \notin {"idle", "prepare"} /\ query.kind # "dump" => frozen = {query.given}

\* A receipt is the current attempt's, of a query that is journaled.
ReceiptInv ==
    /\ token # NoToken => query.kind = "ordinary"
    /\ token # NoToken /\ token.current => owner # NoOwner /\ owner.mode = "rw" /\ owner.capture
    /\ queryPc \in {"decide", "read", "complete", "settle"} /\ token # NoToken /\ ~token.current
         => owner = NoOwner
    /\ queryPc \in {"start", "prepare", "replay"} => token = NoToken \/ ~token.current
    /\ queryPc \in {"reconstruct", "replay"} => query.kind = "ordinary"
    /\ owner # NoOwner /\ owner.pending =>
         queryPc \in {"decide", "read", "complete"} /\ token # NoToken /\ token.current

\* A journal has the answered queries, and the one whose answer is on its way.
JournalInv ==
    owner # NoOwner =>
        /\ \A i \in DOMAIN owner.journal : owner.journal[i].whole
        /\ owner.mode = "rw" /\ owner.capture =>
             Len(owner.journal) =
                 owner.answered + IF queryPc = "settle" /\ queryErr = "none" /\ token # NoToken
                                     /\ token.current THEN 1 ELSE 0
        /\ queryPc \in {"decide", "read", "complete"} /\ token # NoToken /\ token.current
             => Len(owner.journal) < MaxJournal

\* A lost attempt is that of the query in hand, which ends the owner or gets
\* it a new one.
LostInv ==
    owner # NoOwner =>
        /\ owner.lost =>
             \/ /\ queryPc \in {"complete", "settle"} /\ queryErr = "aborted"
                /\ query.kind = "ordinary" /\ owner.mode = "rw"
             \/ queryPc = "reconstruct"
        /\ queryPc = "reconstruct" => owner.retries < MaxRetries

QueryInv ==
    /\ QueryTypes /\ RestInv /\ PresentedInv /\ RowsInv /\ TagInv /\ ReceiptInv /\ JournalInv
    /\ LostInv
    /\ Query!OneExecutionShown /\ Query!CacheIsAQuery

\* What the bounds are.
LEMMA QueryConstants ==
    MaxRows \in Nat /\ PreviewRows \in Nat /\ MaxRetries \in Nat /\ MaxJournal \in Nat
BY StatementsAssumption

\* The owner in hand has its fields.
LEMMA OwnerFields ==
    ASSUME NEW o \in Owners
    PROVE  /\ o.mode \in {"rw", "ro"} /\ o.capture \in BOOLEAN /\ o.retry \in BOOLEAN
           /\ o.marker \in BOOLEAN /\ o.recovering \in BOOLEAN /\ o.lost \in BOOLEAN
           /\ o.retries \in 0..MaxRetries /\ o.journal \in Seq([whole: BOOLEAN])
           /\ o.answered \in Nat /\ o.pending \in BOOLEAN
           /\ o # NoOwner
PROOF
  <1>1. NoOwner.mode = "none"
    BY DEF NoOwner, Query!NoOwner
  <1>2. o.mode \in {"rw", "ro"}
    BY DEF Owners
  <1>3. o # NoOwner
    BY <1>1, <1>2
  <1> QED BY <1>3 DEF Owners

\* The same owner, but for what may change of it.
Same(o, u) ==
    /\ u.mode = o.mode /\ u.capture = o.capture /\ u.retry = o.retry /\ u.marker = o.marker

\* Each change of an owner leaves an owner: an answer is pending,
LEMMA OwnerWaits ==
    ASSUME NEW o \in Owners, NEW u, u = [o EXCEPT !.pending = TRUE]
    PROVE  /\ u \in Owners /\ Same(o, u) /\ u.pending = TRUE /\ u.recovering = o.recovering
           /\ u.lost = o.lost /\ u.retries = o.retries /\ u.journal = o.journal
           /\ u.answered = o.answered
BY DEF Owners, Same

\* is no longer pending,
LEMMA OwnerReleases ==
    ASSUME NEW o \in Owners, NEW u, u = [o EXCEPT !.pending = FALSE]
    PROVE  /\ u \in Owners /\ Same(o, u) /\ u.pending = FALSE /\ u.recovering = o.recovering
           /\ u.lost = o.lost /\ u.retries = o.retries /\ u.journal = o.journal
           /\ u.answered = o.answered
BY DEF Owners, Same

\* is journaled,
LEMMA OwnerRecords ==
    ASSUME NEW o \in Owners, NEW e \in [whole: BOOLEAN], NEW u,
           u = [o EXCEPT !.pending = FALSE, !.journal = Append(o.journal, e)]
    PROVE  /\ u \in Owners /\ Same(o, u) /\ u.pending = FALSE /\ u.recovering = o.recovering
           /\ u.lost = o.lost /\ u.retries = o.retries /\ u.journal = Append(o.journal, e)
           /\ u.answered = o.answered
PROOF
  <1>1. o.journal \in Seq([whole: BOOLEAN])
    BY OwnerFields
  <1>2. Append(o.journal, e) \in Seq([whole: BOOLEAN])
    BY <1>1
  <1> QED BY <1>2 DEF Owners, Same

\* is of an attempt that was lost,
LEMMA OwnerLoses ==
    ASSUME NEW o \in Owners, NEW u, u = [o EXCEPT !.lost = TRUE]
    PROVE  /\ u \in Owners /\ Same(o, u) /\ u.pending = o.pending
           /\ u.recovering = o.recovering
           /\ u.lost = TRUE /\ u.retries = o.retries /\ u.journal = o.journal
           /\ u.answered = o.answered
BY DEF Owners, Same

\* is given,
LEMMA OwnerAnswers ==
    ASSUME NEW o \in Owners, NEW u, u = [o EXCEPT !.answered = o.answered + 1]
    PROVE  /\ u \in Owners /\ Same(o, u) /\ u.pending = o.pending
           /\ u.recovering = o.recovering
           /\ u.lost = o.lost /\ u.retries = o.retries /\ u.journal = o.journal
           /\ u.answered = o.answered + 1
PROOF
  <1>1. o.answered + 1 \in Nat
    BY OwnerFields
  <1> QED BY <1>1 DEF Owners, Same

\* recovery begins,
LEMMA OwnerRecovers ==
    ASSUME NEW o \in Owners, NEW u, u = Query!Recovering(o)
    PROVE  /\ u \in Owners /\ Same(o, u) /\ u.pending = FALSE
           /\ u.lost = FALSE /\ u.retries = o.retries /\ u.journal = o.journal
           /\ u.answered = o.answered
BY DEF Owners, Same, Query!Recovering

\* and one more retry is spent.
LEMMA OwnerRetries ==
    ASSUME NEW o \in Owners, o.retries < MaxRetries, NEW u,
           u = [o EXCEPT !.retries = o.retries + 1, !.lost = FALSE, !.pending = FALSE]
    PROVE  /\ u \in Owners /\ Same(o, u) /\ u.pending = FALSE
           /\ u.recovering = o.recovering
           /\ u.lost = FALSE /\ u.retries = o.retries + 1 /\ u.journal = o.journal
           /\ u.answered = o.answered
PROOF
  <1>1. o.retries + 1 \in 0..MaxRetries
    BY OwnerFields, QueryConstants
  <1> QED BY <1>1 DEF Owners, Same

\* What is shown is of the execution that shows it.
LEMMA ShownMore ==
    ASSUME NEW e \in Nat, NEW n \in Nat, NEW S, NEW T,
           {e} \X (0..n) \subseteq S
    PROVE  {e} \X (0..(n + 1)) \subseteq S \cup ({e} \X {n + 1})
PROOF
  <1> SUFFICES ASSUME NEW i \in 0..(n + 1)
               PROVE  <<e, i>> \in S \cup ({e} \X {n + 1})
    OBVIOUS
  <1>1. i \in 0..n \/ i = n + 1
    OBVIOUS
  <1> QED BY <1>1

\* The state of a query, taken apart.
LEMMA QueryTypesOf ==
    ASSUME QueryInv
    PROVE  /\ queryPc \in {"idle", "prepare", "start", "decide", "read", "complete",
                           "settle", "reconstruct", "replay"}
           /\ owner = NoOwner \/ owner \in Owners
           /\ owner # NoOwner => Len(owner.journal) <= MaxJournal
           /\ token = NoToken \/ token \in Tokens
           /\ total \in 0..MaxRows /\ rows \in 0..total /\ held \in 0..rows
           /\ held < PreviewRows \/ held = 0
           /\ exec \in 0..(MaxRetries + 1)
           /\ queryErr \in {"none", "aborted", "failed"} /\ frozen \in {{}, {TRUE}, {FALSE}}
           /\ iter \in BOOLEAN /\ presented \in BOOLEAN /\ tag \in BOOLEAN
           /\ sent \subseteq BOOLEAN /\ answer \in {"none", "ok", "aborted", "failed"}
           /\ query.kind \in {"none", "ordinary", "single", "dump"}
           /\ query.sink \in {"buffer", "writer", "preview"} /\ query.given \in BOOLEAN
           /\ query \in Queries /\ queryShown \subseteq Nat \X Nat
PROOF
  <1>1. owner \in Owners => owner # NoOwner
    BY OwnerFields
  <1> QED BY <1>1 DEF QueryInv, QueryTypes, Query!TypeOK, Query!Errors, Query!Kinds, Query!Sinks, NoOwner, Queries

\* A receipt has its fields.
LEMMA TokenFields ==
    ASSUME NEW t \in Tokens
    PROVE  /\ t # NoToken /\ t.current \in BOOLEAN /\ t.receipt \in {"open", "observed", "failed"}
           /\ Query!Stale(t) \in Tokens /\ Query!Stale(t).receipt = t.receipt
           /\ Query!Stale(t).current = FALSE
PROOF
  <1>1. t.kind = "sql" /\ NoToken.kind = "none"
    BY DEF Tokens, NoToken, Query!NoToken
  <1>2. t # NoToken
    BY <1>1
  <1>3. Query!Stale(t) = [t EXCEPT !.current = FALSE]
    BY <1>2 DEF Query!Stale, NoToken
  <1> QED BY <1>2, <1>3 DEF Tokens

\* A receipt that is told how its query ended remains a receipt.
LEMMA TokenReceipt ==
    ASSUME token = NoToken \/ token \in Tokens, NEW r \in {"open", "observed", "failed"}
    PROVE  \/ token = NoToken /\ Query!ReceiptNow(r) = NoToken
           \/ /\ token \in Tokens /\ Query!ReceiptNow(r) \in Tokens
              /\ token # NoToken /\ Query!ReceiptNow(r) # NoToken
              /\ Query!ReceiptNow(r).current = token.current
              /\ Query!ReceiptNow(r).receipt = r
PROOF
  <1>1. CASE token = NoToken
    BY <1>1 DEF Query!ReceiptNow, NoToken
  <1>2. CASE token \in Tokens
    <2>1. token # NoToken
      BY <1>2, TokenFields
    <2>2. Query!ReceiptNow(r) = [token EXCEPT !.receipt = r]
      BY <2>1 DEF Query!ReceiptNow, NoToken
    <2>3. /\ Query!ReceiptNow(r) \in Tokens /\ Query!ReceiptNow(r).current = token.current
          /\ Query!ReceiptNow(r).receipt = r
      BY <1>2, <2>2 DEF Tokens
    <2> QED BY <1>2, <2>1, <2>3, TokenFields
  <1> QED BY <1>1, <1>2

\* What the kind of an owner allows.
Fits(o) ==
    /\ o.mode = "ro" => ~o.capture
    /\ o.retry => o.capture
    /\ o.marker => o.capture

\* The types after a step, from the types of what changed.
LEMMA QueryTypesNext ==
    ASSUME queryPc' \in {"idle", "prepare", "start", "decide", "read", "complete",
                         "settle", "reconstruct", "replay"},
           owner' = NoOwner \/ (owner' \in Owners /\ Fits(owner)' /\ Len(owner'.journal) <= MaxJournal),
           token' = NoToken \/ token' \in Tokens,
           total' \in 0..MaxRows, rows' \in 0..total', held' \in 0..rows',
           held' < PreviewRows \/ held' = 0, exec' \in 0..(MaxRetries + 1),
           queryErr' \in {"none", "aborted", "failed"}, frozen' \in {{}, {TRUE}, {FALSE}},
           iter' \in BOOLEAN, presented' \in BOOLEAN, tag' \in BOOLEAN, sent' \subseteq BOOLEAN,
           answer' \in {"none", "ok", "aborted", "failed"},
           query' \in Queries,
           queryShown' \subseteq Nat \X Nat
    PROVE  QueryTypes'
PROOF
  <1>1. owner' = NoOwner \/ /\ owner'.mode \in {"rw", "ro"}
                            /\ owner'.retries \in 0..MaxRetries
                            /\ Len(owner'.journal) <= MaxJournal /\ owner'.answered \in Nat
    BY OwnerFields
  <1>2. token' = NoToken \/ /\ token'.current \in BOOLEAN
                            /\ token'.receipt \in {"open", "observed", "failed"}
    BY TokenFields
  <1>3. {iter', presented', tag'} \subseteq BOOLEAN
    OBVIOUS
  <1>4. query'.kind \in Query!Kinds \union {"none"} /\ query'.sink \in Query!Sinks
    BY DEF Queries
  <1>5. Query!TypeOK'
    BY <1>1, <1>2, <1>3, <1>4 DEF Query!TypeOK, Query!Errors, NoOwner, NoToken
  <1> QED BY <1>5 DEF QueryTypes, Fits

\* No query, no owner.
LEMMA QueryInit == Query!Init => QueryInv
PROOF
  <1> SUFFICES ASSUME Query!Init PROVE QueryInv
    OBVIOUS
  <1>1. /\ queryPc = "idle" /\ owner = NoOwner /\ query = Query!NoStatement /\ token = NoToken
        /\ iter = FALSE /\ total = 0 /\ rows = 0 /\ held = 0 /\ queryShown = {}
        /\ presented = FALSE /\ exec = 0 /\ queryErr = "none" /\ frozen = {}
        /\ tag = FALSE /\ sent = {} /\ cache = Query!NoCache /\ answer = "none"
    BY DEF Query!Init, NoOwner, NoToken
  <1>2. QueryTypes
    <2>1. query \in Queries
      BY <1>1 DEF Query!NoStatement, Query!Sinks, Queries
    <2>2. {iter, presented, tag} \subseteq BOOLEAN
      BY <1>1
    <2>3. query.kind \in Query!Kinds \union {"none"} /\ query.sink \in Query!Sinks
      BY <2>1 DEF Queries
    <2>4. 0 \in 0..MaxRows /\ 0 \in 0..0 /\ 0 \in 0..(MaxRetries + 1)
      BY QueryConstants
    <2> QED BY <1>1, <2>1, <2>2, <2>3, <2>4
            DEF QueryTypes, Query!TypeOK, Query!Errors, NoOwner, NoToken
  <1>3. cache.kind # "dump" /\ cache.whole
    BY <1>1 DEF Query!NoCache
  <1>4. query.kind = "none"
    BY <1>1 DEF Query!NoStatement
  <1> QED BY <1>1, <1>2, <1>3, <1>4
          DEF QueryInv, RestInv, PresentedInv, RowsInv, TagInv, ReceiptInv, JournalInv, LostInv,
              Query!OneExecutionShown, Query!CacheIsAQuery

\* An owner between two queries.
AtRest(o) ==
    /\ o \in Owners /\ Fits(o) /\ Len(o.journal) <= MaxJournal /\ ~o.lost /\ ~o.pending
    /\ \A i \in DOMAIN o.journal : o.journal[i].whole
    /\ o.mode = "rw" /\ o.capture => Len(o.journal) = o.answered

\* Between two queries only the owner can change.
LEMMA IdleOwner ==
    ASSUME QueryInv, queryPc \in {"idle", "prepare", "start", "replay"}
    PROVE  owner = NoOwner \/ AtRest(owner)
PROOF
  <1> SUFFICES ASSUME owner # NoOwner PROVE AtRest(owner)
    OBVIOUS
  <1>1. owner \in Owners /\ Len(owner.journal) <= MaxJournal
    BY QueryTypesOf
  <1>2. ~owner.lost /\ ~owner.pending
    BY <1>1, OwnerFields DEF QueryInv, LostInv, ReceiptInv
  <1>3. owner.mode = "rw" /\ owner.capture => Len(owner.journal) = owner.answered
    <2>1. owner.answered + 0 = owner.answered
      BY <1>1, OwnerFields
    <2> QED BY <2>1 DEF QueryInv, JournalInv
  <1>4. \A i \in DOMAIN owner.journal : owner.journal[i].whole
    BY DEF QueryInv, JournalInv
  <1>5. Fits(owner)
    BY DEF QueryInv, QueryTypes, Fits
  <1> QED BY <1>1, <1>2, <1>3, <1>4, <1>5 DEF AtRest

\* A statement is answered, and nothing of it is left but what it showed.
LEMMA QueryAnswered ==
    ASSUME QueryInv, NEW a \in {"ok", "aborted", "failed"}, Query!Answered(a),
           ~iter, iter' = iter, tag' = tag, cache' = cache,
           Query!OneExecutionShown', queryShown' \subseteq Nat \X Nat,
           owner' = NoOwner \/ AtRest(owner)'
    PROVE  QueryInv'
PROOF
  <1>1. /\ queryPc' = "idle" /\ answer' = a /\ query' = Query!NoStatement /\ token' = NoToken
        /\ iter' = FALSE /\ total' = 0 /\ rows' = 0 /\ held' = 0
        /\ presented' = FALSE /\ exec' = 0 /\ queryErr' = "none" /\ frozen' = {}
        /\ sent' = {}
    BY QueryTypesOf DEF Query!Answered, Query!Forgotten, Query!Unfrozen, NoToken
  <1>2. QueryTypes'
    <2>1. query' \in Queries
      BY <1>1 DEF Query!NoStatement, Query!Sinks, Queries
    <2>2. 0 \in 0..MaxRows /\ 0 \in 0..0 /\ 0 \in 0..(MaxRetries + 1)
      BY QueryConstants
    <2>3. owner' = NoOwner \/ (owner' \in Owners /\ Fits(owner)' /\ Len(owner'.journal) <= MaxJournal)
      BY DEF AtRest
    <2>4. tag' \in BOOLEAN
      BY QueryTypesOf
    <2> QED BY <1>1, <2>1, <2>2, <2>3, <2>4, QueryTypesNext
  <1>3. JournalInv' /\ LostInv' /\ ReceiptInv'
    BY <1>1 DEF JournalInv, LostInv, ReceiptInv, AtRest
  <1>4. RestInv' /\ PresentedInv' /\ RowsInv' /\ TagInv'
    BY <1>1 DEF RestInv, PresentedInv, RowsInv, TagInv, Query!NoStatement, NoToken
  <1>5. Query!CacheIsAQuery'
    BY DEF QueryInv, Query!CacheIsAQuery
  <1> QED BY <1>2, <1>3, <1>4, <1>5 DEF QueryInv

\* The attempt fails: the iterator is stopped and the receipt says so.
LEMMA QueryFails ==
    ASSUME QueryInv, queryPc \in {"decide", "read"}, NEW e \in {"aborted", "failed"},
           Query!Fail(e),
           UNCHANGED <<query, total, rows, held, queryShown, presented, exec, frozen, tag, sent,
                       cache, answer>>,
           \/ owner' = owner
           \/ /\ e = "aborted" /\ query.kind = "ordinary" /\ owner.mode = "rw"
              /\ owner' = [owner EXCEPT !.lost = TRUE]
    PROVE  QueryInv'
PROOF
  <1>1. /\ queryPc' = "complete" /\ queryErr' = e /\ iter' = FALSE
        /\ query' = query /\ total' = total /\ rows' = rows /\ held' = held
        /\ queryShown' = queryShown /\ presented' = presented /\ exec' = exec
        /\ frozen' = frozen /\ tag' = tag /\ sent' = sent /\ cache' = cache /\ answer' = answer
    BY DEF Query!Fail, Query!Stopped
  <1>2. \/ token = NoToken /\ token' = NoToken
        \/ /\ token \in Tokens /\ token' \in Tokens /\ token # NoToken /\ token' # NoToken
           /\ token'.current = token.current
    <2>1. token' = Query!ReceiptNow("failed")
      BY DEF Query!Fail
    <2> QED BY <2>1, QueryTypesOf, TokenReceipt
  <1>3. \/ owner = NoOwner /\ owner' = NoOwner
        \/ /\ owner \in Owners /\ owner' \in Owners /\ Same(owner, owner')
           /\ owner # NoOwner /\ owner' # NoOwner
           /\ owner'.retries = owner.retries /\ owner'.journal = owner.journal
           /\ owner'.answered = owner.answered /\ owner'.pending = owner.pending
           /\ owner'.recovering = owner.recovering
           /\ \/ owner'.lost = owner.lost
              \/ e = "aborted" /\ query.kind = "ordinary" /\ owner.mode = "rw"
    <2>1. owner = NoOwner => owner.mode = "none"
      BY DEF NoOwner, Query!NoOwner
    <2>2. CASE owner' = owner
      BY <2>2, QueryTypesOf, OwnerFields DEF Same
    <2>3. CASE owner' # owner
      BY <2>1, <2>3, QueryTypesOf, OwnerLoses, OwnerFields
    <2> QED BY <2>2, <2>3
  <1>4. QueryTypes'
    <2>2. owner' = NoOwner \/ (owner' \in Owners /\ Fits(owner)' /\ Len(owner'.journal) <= MaxJournal)
      BY <1>3, QueryTypesOf DEF QueryInv, QueryTypes, Same, Fits
    <2> QED BY <1>1, <1>2, <2>2, QueryTypesOf, QueryTypesNext
  <1>5. RestInv' /\ PresentedInv' /\ RowsInv' /\ TagInv'
    BY <1>1, <1>2, QueryTypesOf DEF QueryInv, RestInv, PresentedInv, RowsInv, TagInv, ShownTo
  <1>6. ReceiptInv'
    BY <1>1, <1>2, <1>3 DEF QueryInv, ReceiptInv, Same
  <1>7. JournalInv'
    BY <1>1, <1>2, <1>3 DEF QueryInv, JournalInv, Same
  <1>8. LostInv'
    <2>1. owner # NoOwner => ~owner.lost
      BY OwnerFields, QueryTypesOf DEF QueryInv, LostInv
    <2> QED BY <1>1, <1>3, <2>1, OwnerFields DEF LostInv, Same
  <1> QED BY <1>1, <1>4, <1>5, <1>6, <1>7, <1>8
          DEF QueryInv, Query!OneExecutionShown, Query!CacheIsAQuery

\* BEGIN opens an owner with an empty journal.
LEMMA QueryOpenOwner == ASSUME QueryInv, Query!OpenOwner PROVE QueryInv'
PROOF
  <1>1. /\ queryPc = "idle" /\ queryPc' = queryPc /\ query' = query /\ token' = token /\ iter' = iter
        /\ total' = total /\ rows' = rows /\ held' = held /\ queryShown' = queryShown
        /\ presented' = presented /\ exec' = exec /\ queryErr' = queryErr /\ frozen' = frozen
        /\ tag' = tag /\ sent' = sent /\ cache' = cache /\ answer' = answer
    BY DEF Query!OpenOwner
  <1>2. PICK m \in {"rw", "ro"}, c \in BOOLEAN, r \in BOOLEAN, k \in BOOLEAN :
          /\ r => c
          /\ k => c
          /\ m = "ro" => ~c
          /\ owner' = Query!NewOwner(m, c, r, k)
    BY DEF Query!OpenOwner
  <1>3. AtRest(owner)'
    <2>1. owner' = [mode |-> m, capture |-> c, retry |-> r, marker |-> k,
                    recovering |-> FALSE, lost |-> FALSE, retries |-> 0, journal |-> <<>>,
                    answered |-> 0, pending |-> FALSE]
      BY <1>2 DEF Query!NewOwner
    <2>2. 0 \in 0..MaxRetries /\ 0 <= MaxJournal
      BY QueryConstants
    <2>3. owner' \in Owners
      BY <2>1, <2>2 DEF Owners
    <2> QED BY <1>2, <2>1, <2>2, <2>3 DEF AtRest, Fits
  <1>4. QueryTypes'
    <2>2. Fits(owner)' /\ Len(owner'.journal) <= MaxJournal /\ owner' \in Owners
      BY <1>3 DEF AtRest
    <2> QED BY <1>1, <2>2, QueryTypesOf, QueryTypesNext
  <1>5. JournalInv' /\ LostInv' /\ ReceiptInv'
    BY <1>1, <1>3 DEF QueryInv, RestInv, JournalInv, LostInv, ReceiptInv, AtRest
  <1> QED BY <1>1, <1>4, <1>5
          DEF QueryInv, RestInv, PresentedInv, RowsInv, TagInv, ShownTo,
              Query!OneExecutionShown, Query!CacheIsAQuery

\* SET changes the tag between two queries.
LEMMA QuerySetTag == ASSUME QueryInv, Query!SetTag PROVE QueryInv'
PROOF
  <1>1. /\ tag' = TRUE /\ queryPc' = queryPc /\ query' = query /\ token' = token /\ iter' = iter
        /\ total' = total /\ rows' = rows /\ held' = held /\ queryShown' = queryShown
        /\ presented' = presented /\ exec' = exec /\ queryErr' = queryErr /\ frozen' = frozen
        /\ owner' = owner /\ sent' = sent /\ cache' = cache /\ answer' = answer
    BY DEF Query!SetTag
  <1>2. QueryTypes'
    <2>2. owner = NoOwner \/ (owner \in Owners /\ Fits(owner) /\ Len(owner.journal) <= MaxJournal)
      BY QueryTypesOf DEF QueryInv, QueryTypes, Fits
    <2>3. owner' = NoOwner \/ (owner' \in Owners /\ Fits(owner)' /\ Len(owner'.journal) <= MaxJournal)
      BY <1>1, <2>2 DEF Fits
    <2>4. /\ total' \in 0..MaxRows /\ rows' \in 0..total' /\ held' \in 0..rows'
          /\ held' < PreviewRows \/ held' = 0
          /\ exec' \in 0..(MaxRetries + 1) /\ iter' \in BOOLEAN /\ presented' \in BOOLEAN
      BY <1>1, QueryTypesOf
    <2>5. tag' \in BOOLEAN
      BY <1>1
    <2> QED BY <1>1, <2>3, <2>4, <2>5, QueryTypesOf, QueryTypesNext
  <1> QED BY <1>1, <1>2
          DEF QueryInv, RestInv, PresentedInv, RowsInv, TagInv, ShownTo, ReceiptInv, JournalInv,
              LostInv, Query!OneExecutionShown, Query!CacheIsAQuery

\* The owner ends between two queries.
LEMMA QueryRetire == ASSUME QueryInv, Query!Retire PROVE QueryInv'
PROOF
  <1>1. /\ queryPc' = queryPc /\ query' = query /\ tag' = tag /\ iter' = iter
        /\ total' = total /\ rows' = rows /\ held' = held /\ queryShown' = queryShown
        /\ presented' = presented /\ exec' = exec /\ queryErr' = queryErr /\ frozen' = frozen
        /\ owner' = NoOwner /\ sent' = sent /\ cache' = cache /\ answer' = answer
    BY DEF Query!Retire, NoOwner
  <1>2. \/ token = NoToken /\ token' = NoToken
        \/ /\ token \in Tokens /\ token' \in Tokens /\ token # NoToken /\ token' # NoToken
           /\ token'.receipt = token.receipt /\ token'.current = FALSE
    <2>1. token' = Query!Stale(token)
      BY DEF Query!Retire
    <2>2. CASE token = NoToken
      BY <2>1, <2>2 DEF Query!Stale, NoToken
    <2>3. CASE token \in Tokens
      BY <2>1, <2>3, TokenFields
    <2> QED BY <2>2, <2>3, QueryTypesOf
  <1>3. QueryTypes'
    <2>1. /\ total' \in 0..MaxRows /\ rows' \in 0..total' /\ held' \in 0..rows'
          /\ held' < PreviewRows \/ held' = 0
          /\ exec' \in 0..(MaxRetries + 1) /\ iter' \in BOOLEAN /\ presented' \in BOOLEAN
          /\ tag' \in BOOLEAN
      BY <1>1, QueryTypesOf
    <2> QED BY <1>1, <1>2, <2>1, QueryTypesOf, QueryTypesNext
  <1> QED BY <1>1, <1>2, <1>3
          DEF QueryInv, RestInv, PresentedInv, RowsInv, TagInv, ShownTo, ReceiptInv, JournalInv,
              LostInv, Query!OneExecutionShown, Query!CacheIsAQuery

\* A query has shown nothing when it is submitted.
LEMMA QuerySubmit == ASSUME QueryInv, Query!Submit PROVE QueryInv'
PROOF
  <1>1. /\ queryPc = "idle" /\ queryPc' = "prepare" /\ answer' = "none" /\ queryShown' = {}
        /\ owner' = owner /\ token' = token /\ iter' = iter
        /\ total' = total /\ rows' = rows /\ held' = held
        /\ presented' = presented /\ exec' = exec /\ queryErr' = queryErr /\ frozen' = frozen
        /\ tag' = tag /\ sent' = sent /\ cache' = cache
    BY DEF Query!Submit
  <1>2. PICK kk \in Query!Kinds, sk \in Query!Sinks : query' = [kind |-> kk, sink |-> sk, given |-> FALSE]
    BY DEF Query!Submit
  <1>3. /\ query' \in Queries
        /\ query'.kind # "none"
    BY <1>2 DEF Query!Kinds, Queries
  <1>4. owner = NoOwner \/ AtRest(owner)
    BY <1>1, IdleOwner
  <1>5. QueryTypes'
    <2>1. owner' = NoOwner \/ (owner' \in Owners /\ Fits(owner)' /\ Len(owner'.journal) <= MaxJournal)
      BY <1>1, <1>4 DEF AtRest, Fits
    <2> QED BY <1>1, <1>3, <2>1, QueryTypesOf, QueryTypesNext
  <1>6. JournalInv' /\ LostInv' /\ ReceiptInv'
    <2>1. token' = NoToken
      BY <1>1 DEF QueryInv, RestInv
    <2> QED BY <1>1, <1>4, <2>1 DEF JournalInv, LostInv, ReceiptInv, AtRest
  <1> QED BY <1>1, <1>3, <1>5, <1>6
          DEF QueryInv, RestInv, PresentedInv, RowsInv, TagInv,
              Query!OneExecutionShown, Query!CacheIsAQuery

\* Preparing freezes the options and takes the receipt.
LEMMA QueryPrepare == ASSUME QueryInv, Query!Prepare PROVE QueryInv'
PROOF
  <1>1. /\ queryPc = "prepare" /\ queryPc' = "start" /\ queryShown' = queryShown /\ iter' = iter
        /\ owner' = owner /\ token' = token /\ answer' = answer
        /\ total' = total /\ rows' = rows /\ held' = held
        /\ presented' = presented /\ exec' = exec /\ queryErr' = queryErr
        /\ sent' = sent /\ cache' = cache
    BY DEF Query!Prepare
  <1>2. /\ tag' \in BOOLEAN /\ frozen' \in {{}, {TRUE}, {FALSE}}
        /\ query'.kind = query.kind /\ query'.sink = query.sink /\ query'.given \in BOOLEAN
        /\ query' \in Queries
        /\ query.kind # "dump" => frozen' = {query'.given}
    <2>1. tag \in BOOLEAN /\ query.given \in BOOLEAN /\ frozen \in {{}, {TRUE}, {FALSE}}
          /\ query \in Queries
      BY QueryTypesOf DEF QueryInv, QueryTypes
    <2>2. CASE query.kind = "dump"
      <3>1. frozen' = frozen /\ tag' = tag /\ query' = query
        BY <2>2 DEF Query!Prepare
      <3> QED BY <2>1, <2>2, <3>1
    <2>3. CASE query.kind # "dump"
      <3>1. frozen' = {tag} /\ tag' = FALSE /\ query' = [query EXCEPT !.given = tag]
        BY <2>3 DEF Query!Prepare
      <3>2. {tag} \in {{}, {TRUE}, {FALSE}}
        BY <2>1
      <3>3. /\ query'.kind = query.kind /\ query'.sink = query.sink /\ query'.given = tag
            /\ query' \in Queries
        BY <2>1, <3>1 DEF Queries
      <3> QED BY <2>1, <3>1, <3>2, <3>3
    <2> QED BY <2>2, <2>3
  <1>3. owner = NoOwner \/ AtRest(owner)
    BY <1>1, IdleOwner
  <1>4. QueryTypes'
    <2>1. owner' = NoOwner \/ (owner' \in Owners /\ Fits(owner)' /\ Len(owner'.journal) <= MaxJournal)
      BY <1>1, <1>3 DEF AtRest, Fits
    <2> QED BY <1>1, <1>2, <2>1, QueryTypesOf, QueryTypesNext
  <1>5. JournalInv' /\ LostInv' /\ ReceiptInv'
    BY <1>1, <1>2, <1>3 DEF QueryInv, JournalInv, LostInv, ReceiptInv, AtRest
  <1> QED BY <1>1, <1>2, <1>4, <1>5
          DEF QueryInv, RestInv, PresentedInv, RowsInv, TagInv,
              Query!OneExecutionShown, Query!CacheIsAQuery

\* An execution begins: nothing was shown of an earlier one.
LEMMA QueryRuns ==
    ASSUME QueryInv, queryPc = "start", queryPc' = "decide", iter' = TRUE,
           total' \in 0..MaxRows, rows' = 0, held' = 0,
           exec' = IF exec > MaxRetries THEN exec ELSE exec + 1,
           sent' = sent \union Query!TagSent,
           UNCHANGED <<query, queryShown, presented, queryErr, frozen, tag, cache, answer>>,
           token' = NoToken \/ token' \in Tokens,
           owner' = NoOwner \/ (owner' \in Owners /\ Fits(owner)' /\ Len(owner'.journal) <= MaxJournal),
           JournalInv', LostInv', ReceiptInv'
    PROVE  QueryInv'
PROOF
  <1>1. /\ query' = query /\ queryShown' = queryShown /\ presented' = presented
        /\ queryErr' = queryErr /\ frozen' = frozen /\ tag' = tag /\ cache' = cache
        /\ answer' = answer
    OBVIOUS
  <1>2. exec' \in 0..(MaxRetries + 1) /\ 0 \in 0..total' /\ 0 \in 0..0
    <2>1. exec \in Nat /\ exec <= MaxRetries + 1
      BY QueryTypesOf, QueryConstants
    <2> QED BY <2>1, QueryConstants
  <1>3. /\ sent' \subseteq BOOLEAN
        /\ query.kind # "dump" => sent' \subseteq {query.given}
    <2>1. /\ frozen \subseteq BOOLEAN /\ sent \subseteq BOOLEAN
          /\ query.kind # "dump" => sent \subseteq {query.given} /\ frozen = {query.given}
      BY QueryTypesOf DEF QueryInv, TagInv
    <2>2. sent' = sent \cup (IF query.kind = "dump" THEN {FALSE} ELSE frozen)
      BY DEF Query!TagSent
    <2> QED BY <2>1, <2>2
  <1>4. queryShown = {} /\ ~presented
    BY DEF QueryInv, PresentedInv
  <1>5. QueryTypes'
    BY <1>1, <1>2, <1>3, QueryTypesOf, QueryTypesNext
  <1>6. RestInv' /\ PresentedInv' /\ RowsInv' /\ TagInv'
    BY <1>1, <1>3, <1>4 DEF QueryInv, RestInv, PresentedInv, RowsInv, TagInv
  <1> QED BY <1>1, <1>5, <1>6 DEF QueryInv, Query!OneExecutionShown, Query!CacheIsAQuery

\* An execution sends the options and opens its iterator.
LEMMA QueryStart == ASSUME QueryInv, Query!Start PROVE QueryInv'
PROOF
  <1> DEFINE joins == query.kind = "ordinary" /\ owner.mode = "rw" /\ owner.capture
  <1>1. /\ queryPc = "start" /\ ~Query!Refused /\ queryPc' = "decide" /\ iter' = TRUE
        /\ total' \in 0..MaxRows /\ rows' = 0 /\ held' = 0
        /\ exec' = IF exec > MaxRetries THEN exec ELSE exec + 1
        /\ sent' = sent \union Query!TagSent
        /\ query' = query /\ queryShown' = queryShown /\ presented' = presented
        /\ queryErr' = queryErr /\ frozen' = frozen /\ tag' = tag /\ cache' = cache
        /\ answer' = answer
    BY DEF Query!Start
  <1>2. owner = NoOwner \/ AtRest(owner)
    BY <1>1, IdleOwner
  <1>3. owner = NoOwner => owner.mode = "none"
    BY DEF NoOwner, Query!NoOwner
  <1>4. CASE joins
    <2>1. /\ token' = [kind |-> "sql", current |-> TRUE, receipt |-> "open"]
          /\ owner' = [owner EXCEPT !.pending = TRUE]
      BY <1>4 DEF Query!Start, Query!Capturing
    <2>2. AtRest(owner) /\ owner # NoOwner
      BY <1>2, <1>3, <1>4
    <2>3. /\ owner' \in Owners /\ Same(owner, owner') /\ owner'.pending = TRUE
          /\ owner'.lost = owner.lost /\ owner'.journal = owner.journal
          /\ owner'.answered = owner.answered /\ owner' # NoOwner
      BY <2>1, <2>2, OwnerWaits, OwnerFields DEF AtRest
    <2>4. /\ token' \in Tokens /\ token' # NoToken /\ token'.current = TRUE
          /\ token'.receipt = "open"
      BY <2>1, TokenFields DEF Tokens
    <2>5. Len(owner.journal) < MaxJournal
      <3>1. Len(owner.journal) # MaxJournal
        BY <1>1, <1>4 DEF Query!Refused, Query!Capturing, Query!InTransaction
      <3>2. Len(owner.journal) <= MaxJournal /\ Len(owner.journal) \in Nat
        BY <2>2, OwnerFields DEF AtRest
      <3> QED BY <3>1, <3>2, QueryConstants
    <2>6. Fits(owner)'
      BY <2>2, <2>3 DEF AtRest, Same, Fits
    <2>7. JournalInv'
      <3>1. owner.answered + 0 = owner.answered
        BY <2>2, OwnerFields DEF AtRest
      <3> QED BY <1>1, <2>2, <2>3, <2>5, <3>1 DEF JournalInv, AtRest, Same
    <2>8. LostInv' /\ ReceiptInv'
      BY <1>1, <1>4, <2>2, <2>3, <2>4 DEF LostInv, ReceiptInv, AtRest, Same
    <2>9. Len(owner'.journal) <= MaxJournal
      BY <2>2, <2>3 DEF AtRest
    <2> HIDE DEF joins
    <2> QED BY <1>1, <2>3, <2>4, <2>6, <2>7, <2>8, <2>9, QueryRuns
  <1>5. CASE ~joins
    <2>1. token' = NoToken /\ owner' = owner
      BY <1>5 DEF Query!Start, Query!Capturing, NoToken
    <2>2. JournalInv' /\ LostInv' /\ ReceiptInv'
      BY <1>1, <1>2, <2>1 DEF JournalInv, LostInv, ReceiptInv, AtRest
    <2>3. owner' = NoOwner \/ (owner' \in Owners /\ Fits(owner)' /\ Len(owner'.journal) <= MaxJournal)
      BY <1>2, <2>1 DEF AtRest, Fits
    <2> HIDE DEF joins
    <2> QED BY <1>1, <2>1, <2>2, <2>3, QueryRuns
  <1> QED BY <1>4, <1>5

\* Preparing fails and nothing was sent.
LEMMA QueryPrepareFails == ASSUME QueryInv, Query!PrepareFails PROVE QueryInv'
PROOF
  <1>1. /\ queryPc = "prepare" /\ Query!Answered("failed") /\ owner' = owner /\ iter' = iter
        /\ queryShown' = queryShown /\ tag' = tag /\ cache' = cache
    BY DEF Query!PrepareFails
  <1>2. owner = NoOwner \/ AtRest(owner)
    BY <1>1, IdleOwner
  <1>3. owner' = NoOwner \/ AtRest(owner)'
    BY <1>1, <1>2 DEF AtRest, Fits
  <1>4. ~iter /\ Query!OneExecutionShown'
    BY <1>1 DEF QueryInv, RestInv, Query!OneExecutionShown
  <1> QED BY <1>1, <1>3, <1>4, QueryTypesOf, QueryAnswered

\* The journal has no place for the query.
LEMMA QueryStartRefused == ASSUME QueryInv, Query!StartRefused PROVE QueryInv'
PROOF
  <1>1. /\ queryPc = "start" /\ Query!Answered("failed") /\ owner' = owner /\ iter' = iter
        /\ queryShown' = queryShown /\ tag' = tag /\ cache' = cache
    BY DEF Query!StartRefused
  <1>2. owner = NoOwner \/ AtRest(owner)
    BY <1>1, IdleOwner
  <1>3. owner' = NoOwner \/ AtRest(owner)'
    BY <1>1, <1>2 DEF AtRest, Fits
  <1>4. ~iter /\ Query!OneExecutionShown'
    BY <1>1 DEF QueryInv, RestInv, Query!OneExecutionShown
  <1> QED BY <1>1, <1>3, <1>4, QueryTypesOf, QueryAnswered

\* A query that fails on the way settles what it has.
LEMMA QueryFailures ==
    ASSUME QueryInv, Query!DecideFails \/ Query!SinkFails \/ Query!ServerFails PROVE QueryInv'
PROOF
  <1>1. CASE Query!DecideFails \/ Query!SinkFails
    BY <1>1, QueryFails DEF Query!DecideFails, Query!SinkFails
  <1>2. CASE Query!ServerFails
    <2>1. PICK e \in {"aborted", "failed"} :
            /\ Query!Fail(e)
            /\ owner' = IF e = "aborted" /\ query.kind = "ordinary" /\ owner.mode = "rw"
                        THEN [owner EXCEPT !.lost = TRUE] ELSE owner
      BY <1>2 DEF Query!ServerFails
    <2>2. /\ queryPc \in {"decide", "read"}
          /\ UNCHANGED <<query, total, rows, held, queryShown, presented, exec, frozen, tag,
                         sent, cache, answer>>
      BY <1>2 DEF Query!ServerFails
    <2> QED BY <2>1, <2>2, QueryFails
  <1> QED BY <1>1, <1>2

\* While the rows come, the owner and the receipt stay.
LEMMA QueryReads ==
    ASSUME QueryInv, queryPc \in {"decide", "read"}, queryPc' = "read",
           UNCHANGED <<owner, query, token, iter, total, exec, queryErr, frozen, tag, sent,
                       cache, answer>>,
           presented' = (presented \/ query.sink # "buffer"),
           NEW S \in SUBSET Nat, queryShown' = queryShown \cup ({exec} \X S),
           query.sink = "buffer" => S = {},
           rows' \in 0..total, held' \in 0..rows', held' < PreviewRows \/ held' = 0,
           RowsInv'
    PROVE  QueryInv'
PROOF
  <1>1. /\ owner' = owner /\ query' = query /\ token' = token /\ iter' = iter
        /\ total' = total /\ exec' = exec /\ queryErr' = queryErr /\ frozen' = frozen
        /\ tag' = tag /\ sent' = sent /\ cache' = cache /\ answer' = answer
    OBVIOUS
  <1>2. QueryTypes'
    <2>1. owner' = NoOwner \/ (owner' \in Owners /\ Fits(owner)' /\ Len(owner'.journal) <= MaxJournal)
      BY <1>1, QueryTypesOf DEF QueryInv, QueryTypes, Fits
    <2>2. queryShown' \subseteq Nat \X Nat
      <3>1. exec \in Nat /\ queryShown \subseteq Nat \X Nat
        BY QueryTypesOf
      <3> QED BY <3>1
    <2>3. iter' \in BOOLEAN /\ presented' \in BOOLEAN /\ tag' \in BOOLEAN
      BY <1>1, QueryTypesOf
    <2> QED BY <1>1, <2>1, <2>2, <2>3, QueryTypesOf, QueryTypesNext
  <1>3. \A a \in queryShown' : a[1] = exec
    BY DEF QueryInv, PresentedInv
  <1>4. query.sink = "buffer" => queryShown' = queryShown
    OBVIOUS
  <1>5. PresentedInv'
    BY <1>1, <1>3, <1>4 DEF QueryInv, PresentedInv
  <1>6. Query!OneExecutionShown'
    BY <1>3 DEF Query!OneExecutionShown
  <1>7. ReceiptInv' /\ JournalInv' /\ LostInv'
    BY <1>1 DEF QueryInv, ReceiptInv, JournalInv, LostInv
  <1> QED BY <1>1, <1>2, <1>5, <1>6, <1>7
          DEF QueryInv, RestInv, TagInv, Query!CacheIsAQuery

\* The first answer decides how rows are shown.
LEMMA QueryMetadata == ASSUME QueryInv, Query!Metadata PROVE QueryInv'
PROOF
  <1> DEFINE S == IF query.sink = "writer" THEN {0} ELSE {}
  <1>1. /\ queryPc = "decide" /\ queryPc' = "read"
        /\ UNCHANGED <<owner, query, token, iter, total, exec, queryErr, frozen, tag, sent,
                       cache, answer>>
        /\ rows' = rows /\ held' = held /\ query' = query /\ exec' = exec
        /\ presented' = (presented \/ query.sink # "buffer")
        /\ queryShown' = queryShown \cup ({exec} \X S)
    BY DEF Query!Metadata, Query!Shows
  <1>2. rows = 0 /\ held = 0 /\ rows' \in 0..total /\ held' \in 0..rows'
    BY <1>1, QueryTypesOf DEF QueryInv, RowsInv
  <1>3. query.sink = "writer" => {exec} \X (0..0) \subseteq queryShown'
    <2>1. 0..0 = {0}
      OBVIOUS
    <2> QED BY <1>1, <2>1
  <1>4. RowsInv'
    BY <1>1, <1>2, <1>3 DEF RowsInv, ShownTo
  <1>5. S \in SUBSET Nat /\ (query.sink = "buffer" => S = {}) /\ held' = 0
    BY <1>1, <1>2
  <1> HIDE DEF S
  <1> QED BY <1>1, <1>2, <1>4, <1>5, QueryReads

\* A row is shown, or held back for the widths.
LEMMA QueryReadRow == ASSUME QueryInv, Query!ReadRow PROVE QueryInv'
PROOF
  <1>1. /\ queryPc = "read" /\ queryPc' = "read" /\ rows < total /\ rows' = rows + 1
        /\ UNCHANGED <<owner, query, token, iter, total, exec, queryErr, frozen, tag, sent,
                       cache, answer>>
        /\ query' = query /\ exec' = exec
        /\ presented' = (presented \/ query.sink # "buffer")
    BY DEF Query!ReadRow
  <1>2. PICK n : n = rows + 1
    OBVIOUS
  <1>3. /\ rows \in Nat /\ total \in Nat /\ held \in 0..rows /\ n \in 0..total /\ n # 0
        /\ exec \in Nat /\ (rows - held = 0 <=> rows = held)
        /\ held + 1 \in 0..(rows + 1) /\ 0 \in 0..n
        /\ query.sink \in {"buffer", "writer", "preview"}
    BY <1>1, <1>2, QueryTypesOf, QueryConstants
  <1>4. /\ query.sink = "writer" => held = 0 /\ {exec} \X (0..rows) \subseteq queryShown
        /\ query.sink = "preview" =>
             rows = held \/ (held = 0 /\ {exec} \X (0..rows) \subseteq queryShown)
    BY <1>1 DEF QueryInv, RowsInv, ShownTo
  <1>5. CASE query.sink = "preview" /\ rows = held /\ held + 1 < PreviewRows
    <2>1. held' = held + 1 /\ queryShown' = queryShown \cup ({exec} \X {})
      BY <1>1, <1>3, <1>5 DEF Query!ReadRow, Query!Process
    <2>2. RowsInv'
      BY <1>1, <1>5, <2>1 DEF RowsInv
    <2> QED BY <1>1, <1>2, <1>3, <1>5, <2>1, <2>2, QueryReads
  <1>6. CASE ~(query.sink = "preview" /\ rows = held /\ held + 1 < PreviewRows)
    <2> DEFINE S == CASE query.sink = "buffer" -> {}
                      [] query.sink = "writer" -> {n}
                      [] OTHER -> IF query.sink = "preview" /\ rows - held = 0 THEN 0..n ELSE {n}
    <2>1. held' = 0 /\ queryShown' = queryShown \cup ({exec} \X S)
      BY <1>1, <1>2, <1>3, <1>6 DEF Query!ReadRow, Query!Process, Query!Shows
    <2>2. CASE query.sink = "buffer"
      <3>1. S = {}
        BY <2>2
      <3>2. RowsInv'
        BY <1>1, <2>1, <2>2 DEF RowsInv
      <3> QED BY <1>1, <1>2, <1>3, <2>1, <3>1, <3>2, QueryReads
    <2>3. CASE query.sink = "preview" /\ rows = held
      <3>1. S = 0..n
        BY <1>3, <2>3
      <3>2. {exec} \X (0..n) \subseteq queryShown'
        BY <2>1, <3>1
      <3>3. RowsInv'
        BY <1>1, <1>2, <2>1, <2>3, <3>2 DEF RowsInv, ShownTo
      <3>4. S \in SUBSET Nat
        <4>1. 0..n \subseteq Nat
          OBVIOUS
        <4> QED BY <3>1, <4>1
      <3> HIDE DEF S
      <3> QED BY <1>1, <1>2, <1>3, <2>1, <2>3, <3>3, <3>4, QueryReads
    <2>4. CASE query.sink # "buffer" /\ ~(query.sink = "preview" /\ rows = held)
      <3>1. S = {n} /\ {exec} \X (0..rows) \subseteq queryShown
        BY <1>3, <1>4, <2>4
      <3>2. {exec} \X (0..n) \subseteq queryShown'
        BY <1>2, <1>3, <2>1, <3>1, ShownMore
      <3>3. RowsInv'
        BY <1>1, <1>2, <2>1, <3>2 DEF RowsInv, ShownTo
      <3>4. S \in SUBSET Nat
        BY <1>3, <3>1
      <3> HIDE DEF S
      <3> QED BY <1>1, <1>2, <1>3, <2>1, <2>4, <3>3, <3>4, QueryReads
    <2> QED BY <2>2, <2>3, <2>4
  <1> QED BY <1>5, <1>6

\* The last row was read: what was held back is shown, and the receipt says so.
LEMMA QueryEndRows == ASSUME QueryInv, Query!EndRows PROVE QueryInv'
PROOF
  <1> DEFINE S == IF held > 0 \/ (query.sink = "preview" /\ total = 0) THEN 0..held ELSE {}
  <1>1. /\ queryPc = "read" /\ queryPc' = "complete" /\ rows = total /\ iter' = FALSE
        /\ held' = 0 /\ queryErr' \in {"none", "failed"}
        /\ queryShown' = queryShown \cup ({exec} \X S)
        /\ owner' = owner /\ query' = query /\ total' = total /\ rows' = rows
        /\ presented' = presented /\ exec' = exec /\ frozen' = frozen /\ tag' = tag
        /\ sent' = sent /\ answer' = answer
    BY DEF Query!EndRows, Query!Finished, Query!Shows, Query!Stopped
  <1>2. \/ token = NoToken /\ token' = NoToken
        \/ /\ token \in Tokens /\ token' \in Tokens /\ token # NoToken /\ token' # NoToken
           /\ token'.current = token.current /\ token'.receipt = "observed"
    <2>1. token' = Query!ReceiptNow("observed")
      BY DEF Query!EndRows
    <2> QED BY <2>1, QueryTypesOf, TokenReceipt
  <1>3. cache'.kind # "dump" /\ cache'.whole
    <2>1. cache' = IF query.kind = "dump" THEN cache
                   ELSE [kind |-> query.kind, whole |-> rows = total]
      BY DEF Query!EndRows, Query!Published
    <2> QED BY <1>1, <2>1 DEF QueryInv, Query!CacheIsAQuery
  <1>4. /\ rows \in Nat /\ total \in Nat /\ held \in 0..rows /\ exec \in Nat
        /\ query.sink \in {"buffer", "writer", "preview"} /\ 0 \in 0..rows
    BY QueryTypesOf, QueryConstants
  <1>5. S \subseteq Nat
    BY <1>4
  <1>6. QueryTypes'
    <2>1. owner' = NoOwner \/ (owner' \in Owners /\ Fits(owner)' /\ Len(owner'.journal) <= MaxJournal)
      BY <1>1, QueryTypesOf DEF QueryInv, QueryTypes, Fits
    <2>2. queryShown' \subseteq Nat \X Nat
      <3>1. queryShown \subseteq Nat \X Nat
        BY QueryTypesOf
      <3> HIDE DEF S
      <3> QED BY <1>1, <1>4, <1>5, <3>1
    <2>3. iter' \in BOOLEAN /\ presented' \in BOOLEAN /\ tag' \in BOOLEAN
      BY <1>1, QueryTypesOf
    <2> HIDE DEF S
    <2> QED BY <1>1, <1>2, <1>4, <2>1, <2>2, <2>3, QueryTypesOf, QueryTypesNext
  <1>7. query.sink # "buffer" => {exec} \X (0..total) \subseteq queryShown'
    <2>1. query.sink = "preview" /\ rows = held => S = 0..total
      BY <1>1, <1>4
    <2>2. query.sink = "writer" \/ (query.sink = "preview" /\ rows # held)
            => {exec} \X (0..total) \subseteq queryShown
      BY <1>1 DEF QueryInv, RowsInv, ShownTo
    <2> HIDE DEF S
    <2> QED BY <1>1, <1>4, <2>1, <2>2
  <1>8. \A a \in queryShown' : a[1] = exec
    <2> HIDE DEF S
    <2> QED BY <1>1 DEF QueryInv, PresentedInv
  <1>9. ~presented => queryShown' = {}
    <2>1. ~presented => query.sink = "buffer" /\ queryShown = {}
      BY <1>1 DEF QueryInv, PresentedInv
    <2>2. query.sink = "buffer" => held = 0
      BY <1>1 DEF QueryInv, RowsInv
    <2>3. ~presented => S = {}
      BY <1>4, <2>1, <2>2
    <2> HIDE DEF S
    <2> QED BY <1>1, <2>1, <2>3
  <1> HIDE DEF S
  <1>10. PresentedInv' /\ Query!OneExecutionShown'
    BY <1>1, <1>8, <1>9 DEF PresentedInv, Query!OneExecutionShown
  <1>11. RowsInv' /\ RestInv' /\ TagInv'
    BY <1>1, <1>2, <1>7 DEF QueryInv, RowsInv, RestInv, TagInv, ShownTo
  <1>12. ReceiptInv' /\ JournalInv' /\ LostInv'
    <2>1. owner # NoOwner => ~owner.lost
      BY <1>1, QueryTypesOf, OwnerFields DEF QueryInv, LostInv
    <2> QED BY <1>1, <1>2, <2>1 DEF QueryInv, ReceiptInv, JournalInv, LostInv
  <1> QED BY <1>3, <1>6, <1>10, <1>11, <1>12 DEF QueryInv, Query!CacheIsAQuery

\* The entry is made, or its place given back.
LEMMA QueryComplete == ASSUME QueryInv, Query!Complete PROVE QueryInv'
PROOF
  <1> DEFINE Belongs == token # NoToken /\ token.current
             makes == queryErr = "none" /\ token.receipt = "observed"
  <1>1. /\ queryPc = "complete" /\ queryPc' = "settle" /\ query' = query /\ token' = token
        /\ iter' = iter /\ total' = total /\ rows' = rows /\ held' = held
        /\ queryShown' = queryShown /\ presented' = presented /\ exec' = exec
        /\ queryErr' = queryErr /\ frozen' = frozen /\ tag' = tag /\ sent' = sent
        /\ cache' = cache /\ answer' = answer
    BY DEF Query!Complete
  <1>2. Belongs => owner \in Owners /\ owner # NoOwner /\ Len(owner.journal) < MaxJournal
                   /\ owner.mode = "rw" /\ owner.capture
    BY <1>1, QueryTypesOf DEF QueryInv, ReceiptInv, JournalInv
  <1>3. \/ /\ ~Belongs /\ owner' = owner
        \/ /\ Belongs /\ makes /\ owner' \in Owners /\ owner' # NoOwner
           /\ Same(owner, owner') /\ owner'.pending = FALSE
           /\ owner'.lost = owner.lost /\ owner'.retries = owner.retries
           /\ owner'.answered = owner.answered
           /\ owner'.journal = Append(owner.journal, [whole |-> rows = total])
        \/ /\ Belongs /\ ~makes /\ owner' \in Owners /\ owner' # NoOwner
           /\ Same(owner, owner') /\ owner'.pending = FALSE
           /\ owner'.lost = owner.lost /\ owner'.retries = owner.retries
           /\ owner'.answered = owner.answered /\ owner'.journal = owner.journal
    <2>1. CASE ~Belongs
      BY <2>1 DEF Query!Complete, Query!Belongs, NoToken
    <2>2. CASE Belongs /\ makes
      <3>1. PICK e \in [whole: BOOLEAN] : e = [whole |-> rows = total]
        <4>1. [whole |-> rows = total] \in [whole: BOOLEAN]
          OBVIOUS
        <4> QED BY <4>1
      <3>2. owner' = [owner EXCEPT !.pending = FALSE, !.journal = Append(owner.journal, e)]
        BY <2>2, <3>1 DEF Query!Complete, Query!Belongs, NoToken, Query!Captured, Query!Entry
      <3>3. /\ owner' \in Owners /\ Same(owner, owner') /\ owner'.pending = FALSE
            /\ owner'.lost = owner.lost /\ owner'.retries = owner.retries
            /\ owner'.answered = owner.answered /\ owner'.journal = Append(owner.journal, e)
        <4>1. owner \in Owners
          BY <1>2, <2>2
        <4> HIDE DEF makes, Belongs
        <4> QED BY <3>2, <4>1, OwnerRecords
      <3>4. owner' # NoOwner
        BY <3>3, OwnerFields
      <3> HIDE DEF makes, Belongs
      <3> QED BY <2>2, <3>1, <3>3, <3>4
    <2>3. CASE Belongs /\ ~makes
      <3>1. owner' = [owner EXCEPT !.pending = FALSE]
        BY <2>3 DEF Query!Complete, Query!Belongs, NoToken, Query!Captured
      <3> QED BY <1>2, <2>3, <3>1, OwnerReleases, OwnerFields
    <2> QED BY <2>1, <2>2, <2>3
  <1>4. makes => rows = total
    BY <1>1 DEF QueryInv, RowsInv
  <1>5. Belongs /\ queryErr = "none" => makes
    BY <1>1 DEF QueryInv, RowsInv
  <1>6. owner # NoOwner => owner \in Owners /\ Len(owner.journal) <= MaxJournal
                           /\ Len(owner.journal) \in Nat /\ owner.journal \in Seq([whole: BOOLEAN])
                           /\ owner.answered \in Nat /\ owner.pending \in BOOLEAN
    BY QueryTypesOf, OwnerFields
  <1>7. owner' # NoOwner => Len(owner'.journal) <= MaxJournal
                            /\ \A i \in DOMAIN owner'.journal : owner'.journal[i].whole
    <2>1. owner # NoOwner => \A i \in DOMAIN owner.journal : owner.journal[i].whole
      BY DEF QueryInv, JournalInv
    <2>2. CASE ~Belongs
      BY <1>3, <1>6, <2>1, <2>2
    <2>3. CASE Belongs /\ makes
      <3>1. /\ owner'.journal = Append(owner.journal, [whole |-> rows = total])
            /\ Len(owner'.journal) = Len(owner.journal) + 1
        BY <1>2, <1>3, <1>6, <2>3
      <3>2. \A i \in 1..(Len(owner.journal) + 1) :
              owner'.journal[i] = IF i = Len(owner.journal) + 1 THEN [whole |-> rows = total]
                                  ELSE owner.journal[i]
        BY <1>2, <1>6, <2>3, <3>1
      <3>3. Len(owner'.journal) <= MaxJournal
        BY <1>2, <1>6, <2>3, <3>1, QueryConstants
      <3>4. DOMAIN owner'.journal = 1..(Len(owner.journal) + 1)
        <4>1. owner'.journal \in Seq([whole: BOOLEAN])
          BY <1>3, <2>3, OwnerFields
        <4> QED BY <3>1, <4>1
      <3>5. ASSUME NEW i \in 1..(Len(owner.journal) + 1) PROVE owner'.journal[i].whole
        <4>1. CASE i = Len(owner.journal) + 1
          <5>1. owner'.journal[i] = [whole |-> TRUE]
            <6>1. [whole |-> rows = total] = [whole |-> TRUE]
              BY <1>4, <2>3
            <6> QED BY <3>2, <4>1, <6>1
          <5> QED BY <5>1
        <4>2. CASE i # Len(owner.journal) + 1
          <5>1. i \in DOMAIN owner.journal
            BY <1>2, <1>6, <2>3, <4>2
          <5> QED BY <1>2, <2>1, <2>3, <3>2, <4>2, <5>1
        <4> QED BY <4>1, <4>2
      <3> QED BY <3>3, <3>4, <3>5
    <2>4. CASE Belongs /\ ~makes
      BY <1>2, <1>3, <1>6, <2>1, <2>4
    <2> QED BY <2>2, <2>3, <2>4
  <1>8. owner' # NoOwner => owner' \in Owners /\ Fits(owner)' /\ ~owner'.pending
                            /\ (owner # NoOwner /\ Same(owner, owner')
                                /\ owner'.lost = owner.lost /\ owner'.retries = owner.retries)
    <2>1. owner # NoOwner => Fits(owner)
      BY DEF QueryInv, QueryTypes, Fits
    <2>2. owner # NoOwner /\ ~Belongs => ~owner.pending
      BY DEF QueryInv, ReceiptInv
    <2> QED BY <1>2, <1>3, <1>6, <2>1, <2>2 DEF Fits, Same
  <1>9. QueryTypes'
    <2>1. iter' \in BOOLEAN /\ presented' \in BOOLEAN /\ tag' \in BOOLEAN
      BY <1>1, QueryTypesOf
    <2>2. owner' = NoOwner \/ (owner' \in Owners /\ Fits(owner)' /\ Len(owner'.journal) <= MaxJournal)
      BY <1>7, <1>8
    <2> QED BY <1>1, <2>1, <2>2, QueryTypesOf, QueryTypesNext
  <1>10. JournalInv'
    <2>1. ASSUME owner' # NoOwner, owner'.mode = "rw", owner'.capture
          PROVE  Len(owner'.journal) = owner'.answered + (IF queryErr = "none" /\ Belongs THEN 1 ELSE 0)
      <3>1. owner # NoOwner /\ owner.mode = "rw" /\ owner.capture
        BY <1>8, <2>1 DEF Same
      <3>2. Len(owner.journal) = owner.answered
        <4>1. owner.answered + 0 = owner.answered
          BY <1>6, <3>1
        <4> QED BY <1>1, <3>1, <4>1 DEF QueryInv, JournalInv
      <3>3. CASE Belongs /\ makes
        <4>1. Len(owner'.journal) = Len(owner.journal) + 1
          BY <1>2, <1>3, <1>6, <3>3
        <4> QED BY <1>3, <3>2, <3>3, <4>1
      <3>4. CASE ~(Belongs /\ makes)
        BY <1>3, <1>5, <1>6, <3>1, <3>2, <3>4
      <3> QED BY <3>3, <3>4
    <2> QED BY <1>1, <1>7, <2>1 DEF JournalInv
  <1>11. ReceiptInv'
    <2>1. token # NoToken /\ token.current => owner' # NoOwner /\ owner'.mode = "rw" /\ owner'.capture
      BY <1>2, <1>3 DEF Same
    <2>2. token # NoToken /\ ~token.current => owner' = NoOwner
      BY <1>1, <1>3 DEF QueryInv, ReceiptInv
    <2>3. token # NoToken => query.kind = "ordinary"
      BY DEF QueryInv, ReceiptInv
    <2> QED BY <1>1, <1>8, <2>1, <2>2, <2>3 DEF ReceiptInv
  <1>12. LostInv'
    BY <1>1, <1>8 DEF QueryInv, LostInv, Same
  <1>13. RestInv' /\ PresentedInv' /\ RowsInv' /\ TagInv'
    BY <1>1 DEF QueryInv, RestInv, PresentedInv, RowsInv, TagInv, ShownTo
  <1> QED BY <1>1, <1>9, <1>10, <1>11, <1>12, <1>13
          DEF QueryInv, Query!OneExecutionShown, Query!CacheIsAQuery

\* What a failed owner is after it: gone, or recovering and at rest.
LEMMA FailedRests ==
    ASSUME NEW o \in Owners, Fits(o), Len(o.journal) <= MaxJournal,
           \A i \in DOMAIN o.journal : o.journal[i].whole,
           o.mode = "rw" /\ o.capture => Len(o.journal) = o.answered
    PROVE  Query!Failed(o) = NoOwner \/ AtRest(Query!Failed(o))
PROOF
  <1>1. Query!Failed(o) = IF o.marker /\ ~o.recovering THEN Query!Recovering(o) ELSE NoOwner
    BY DEF Query!Failed, NoOwner
  <1>2. PICK u : u = Query!Recovering(o)
    OBVIOUS
  <1>3. AtRest(u)
    BY <1>2, OwnerRecovers DEF AtRest, Fits, Same
  <1> QED BY <1>1, <1>2, <1>3

\* An owner whose query has settled with an error.
LEMMA SettledOwner ==
    ASSUME QueryInv, owner # NoOwner,
           queryPc \in {"reconstruct", "replay"} \/ (queryPc = "settle" /\ queryErr # "none")
    PROVE  /\ owner \in Owners /\ Fits(owner) /\ Len(owner.journal) <= MaxJournal
           /\ \A i \in DOMAIN owner.journal : owner.journal[i].whole
           /\ owner.mode = "rw" /\ owner.capture => Len(owner.journal) = owner.answered
           /\ ~owner.pending
PROOF
  <1>1. owner \in Owners /\ Len(owner.journal) <= MaxJournal
    BY QueryTypesOf
  <1>2. owner.mode = "rw" /\ owner.capture => Len(owner.journal) = owner.answered
    <2>1. owner.answered + 0 = owner.answered
      BY <1>1, OwnerFields
    <2> QED BY <2>1 DEF QueryInv, JournalInv
  <1>3. Fits(owner)
    BY DEF QueryInv, QueryTypes, Fits
  <1>4. ~owner.pending
    BY DEF QueryInv, ReceiptInv
  <1> QED BY <1>1, <1>2, <1>3, <1>4 DEF QueryInv, JournalInv

\* A query that is answered is in the journal, whole.
LEMMA QuerySettleOk == ASSUME QueryInv, Query!SettleOk PROVE QueryInv'
PROOF
  <1> DEFINE Belongs == token # NoToken /\ token.current
             S == IF query.sink = "buffer" THEN 0..total ELSE {}
  <1>1. /\ queryPc = "settle" /\ queryErr = "none" /\ Query!Answered("ok")
        /\ queryShown' = queryShown \cup ({exec} \X S)
        /\ owner' = IF Belongs THEN [owner EXCEPT !.answered = owner.answered + 1] ELSE owner
        /\ iter' = iter /\ tag' = tag /\ cache' = cache
    BY DEF Query!SettleOk, Query!Shows, Query!Belongs, NoToken
  <1>2. S \subseteq Nat /\ exec \in Nat /\ queryShown \subseteq Nat \X Nat
    BY QueryTypesOf
  <1>3. queryShown' \subseteq Nat \X Nat /\ \A a \in queryShown' : a[1] = exec
    <2>1. \A a \in queryShown : a[1] = exec
      BY <1>1 DEF QueryInv, PresentedInv
    <2> HIDE DEF S
    <2> QED BY <1>1, <1>2, <2>1
  <1>4. Query!OneExecutionShown'
    BY <1>3 DEF Query!OneExecutionShown
  <1>5. owner # NoOwner => /\ owner \in Owners /\ Fits(owner) /\ Len(owner.journal) <= MaxJournal
                           /\ ~owner.lost /\ ~owner.pending
                           /\ \A i \in DOMAIN owner.journal : owner.journal[i].whole
                           /\ owner.mode = "rw" /\ owner.capture =>
                                Len(owner.journal) = owner.answered + (IF Belongs THEN 1 ELSE 0)
    <2>1. owner # NoOwner => ~owner.lost /\ ~owner.pending
      BY <1>1, QueryTypesOf, OwnerFields DEF QueryInv, LostInv, ReceiptInv
    <2> QED BY <1>1, <2>1, QueryTypesOf DEF QueryInv, QueryTypes, JournalInv, Fits
  <1>6. owner' = NoOwner \/ AtRest(owner)'
    <2>1. CASE Belongs
      <3>1. owner # NoOwner
        BY <2>1 DEF QueryInv, ReceiptInv
      <3>2. owner' = [owner EXCEPT !.answered = owner.answered + 1]
        BY <1>1, <2>1
      <3>3. /\ owner' \in Owners /\ Same(owner, owner') /\ owner'.pending = owner.pending
            /\ owner'.lost = owner.lost /\ owner'.journal = owner.journal
            /\ owner'.answered = owner.answered + 1
        BY <1>5, <3>1, <3>2, OwnerAnswers
      <3> QED BY <1>5, <2>1, <3>1, <3>3 DEF AtRest, Fits, Same
    <2>2. CASE ~Belongs
      <3>1. owner' = owner
        BY <1>1, <2>2
      <3>2. owner # NoOwner => owner.answered + 0 = owner.answered
        BY <1>5, OwnerFields
      <3> QED BY <1>5, <2>2, <3>1, <3>2 DEF AtRest, Fits
    <2> QED BY <2>1, <2>2
  <1>7. ~iter
    BY <1>1 DEF QueryInv, RestInv
  <1> QED BY <1>1, <1>3, <1>4, <1>6, <1>7, QueryAnswered

\* A lost attempt whose query showed nothing is repeated.
LEMMA QuerySettleRetry == ASSUME QueryInv, Query!SettleRetry PROVE QueryInv'
PROOF
  <1>1. /\ queryPc = "settle" /\ queryPc' = "reconstruct" /\ queryErr = "aborted"
        /\ owner.mode = "rw" /\ token # NoToken /\ token.current
        /\ ~presented /\ owner.retries < MaxRetries
        /\ owner' = owner /\ query' = query /\ token' = token
        /\ iter' = iter /\ total' = total /\ rows' = rows /\ held' = held
        /\ queryShown' = queryShown /\ presented' = presented /\ exec' = exec
        /\ queryErr' = queryErr /\ frozen' = frozen /\ tag' = tag /\ sent' = sent
        /\ cache' = cache /\ answer' = answer
    BY DEF Query!SettleRetry, Query!Eligible, Query!MayRetry, Query!Belongs, NoToken
  <1>2. QueryTypes'
    <2>1. iter' \in BOOLEAN /\ presented' \in BOOLEAN /\ tag' \in BOOLEAN
      BY <1>1, QueryTypesOf
    <2>2. owner' = NoOwner \/ (owner' \in Owners /\ Fits(owner)' /\ Len(owner'.journal) <= MaxJournal)
      BY <1>1, SettledOwner DEF Fits
    <2> QED BY <1>1, <2>1, <2>2, QueryTypesOf, QueryTypesNext
  <1>3. ReceiptInv' /\ JournalInv' /\ LostInv'
    BY <1>1 DEF QueryInv, ReceiptInv, JournalInv, LostInv
  <1> QED BY <1>1, <1>2, <1>3
          DEF QueryInv, RestInv, PresentedInv, RowsInv, TagInv, Query!OneExecutionShown,
              Query!CacheIsAQuery

\* A failed query leaves the owner usable, in recovery, or none.
LEMMA QuerySettleFailed == ASSUME QueryInv, Query!SettleFailed PROVE QueryInv'
PROOF
  <1>1. /\ queryPc = "settle" /\ queryErr # "none" /\ Query!Answered(queryErr)
        /\ queryShown' = queryShown /\ iter' = iter /\ tag' = tag /\ cache' = cache
        /\ owner' = IF Query!Eligible THEN Query!Failed(owner) ELSE Query!AfterFailure
    BY DEF Query!SettleFailed
  <1>2. owner = NoOwner => owner.mode = "none"
    BY DEF NoOwner, Query!NoOwner
  <1>3. owner # NoOwner => Query!Failed(owner) = NoOwner \/ AtRest(Query!Failed(owner))
    BY <1>1, SettledOwner, FailedRests
  <1>4. token # NoToken /\ token.current => owner # NoOwner
    BY DEF QueryInv, ReceiptInv
  <1>5. token # NoToken /\ ~token.current => owner = NoOwner
    BY <1>1 DEF QueryInv, ReceiptInv
  <1>6. owner # NoOwner /\ ~owner.lost => AtRest(owner)
    BY <1>1, SettledOwner DEF AtRest
  <1>7. owner # NoOwner /\ owner.lost =>
          queryErr = "aborted" /\ query.kind = "ordinary" /\ owner.mode = "rw"
    BY <1>1 DEF QueryInv, LostInv
  <1>8. \/ owner' = NoOwner
        \/ owner # NoOwner /\ owner' = Query!Failed(owner)
        \/ owner # NoOwner /\ ~owner.lost /\ owner' = owner
    <2>1. CASE Query!Eligible
      BY <1>1, <1>2, <2>1 DEF Query!Eligible
    <2>2. CASE ~Query!Eligible
      <3>1. owner' = CASE Query!Belongs ->
                            IF owner.marker \/ queryErr = "aborted" THEN Query!Failed(owner)
                            ELSE owner
                       [] token = NoToken /\ query.kind = "ordinary" ->
                            IF owner.mode = "rw" /\ queryErr = "aborted" THEN NoOwner ELSE owner
                       [] OTHER -> owner
        BY <1>1, <2>2 DEF Query!AfterFailure, NoToken, NoOwner
      <3>2. Query!Belongs <=> token # NoToken /\ token.current
        BY DEF Query!Belongs, NoToken
      <3> QED BY <1>4, <1>5, <1>7, <3>1, <3>2
    <2> QED BY <2>1, <2>2
  <1>9. owner' = NoOwner \/ AtRest(owner)'
    <2>1. CASE owner # NoOwner /\ owner' = Query!Failed(owner)
      <3>1. PICK u : u = Query!Failed(owner)
        OBVIOUS
      <3>2. u = NoOwner \/ AtRest(u)
        BY <1>3, <2>1, <3>1
      <3> QED BY <2>1, <3>1, <3>2 DEF AtRest, Fits
    <2>2. CASE owner # NoOwner /\ ~owner.lost /\ owner' = owner
      BY <1>6, <2>2 DEF AtRest, Fits
    <2> QED BY <1>8, <2>1, <2>2
  <1>10. ~iter /\ Query!OneExecutionShown'
    BY <1>1 DEF QueryInv, RestInv, Query!OneExecutionShown
  <1>11. queryErr \in {"aborted", "failed"}
    BY <1>1, QueryTypesOf
  <1> QED BY <1>1, <1>9, <1>10, <1>11, QueryTypesOf, QueryAnswered

\* The retry finds no new attempt.
LEMMA QueryReconstructFails == ASSUME QueryInv, Query!ReconstructFails PROVE QueryInv'
PROOF
  <1>1. /\ queryPc \in {"reconstruct", "replay"} /\ Query!Answered("failed")
        /\ queryShown' = queryShown /\ iter' = iter /\ tag' = tag /\ cache' = cache
        /\ owner' = NoOwner
    BY DEF Query!ReconstructFails, Query!RetryEnds, NoOwner
  <1>2. ~iter /\ Query!OneExecutionShown'
    BY <1>1 DEF QueryInv, RestInv, Query!OneExecutionShown
  <1> QED BY <1>1, <1>2, QueryTypesOf, QueryAnswered

\* The retry goes on: what it showed, read and froze stays as it is.
LEMMA QueryRetries ==
    ASSUME QueryInv, queryPc \in {"reconstruct", "replay"},
           queryPc' \in {"reconstruct", "replay", "start"},
           queryErr' = queryErr \/ queryErr' = "none", queryPc' = "start" => queryErr' = "none",
           UNCHANGED <<query, iter, total, rows, held, queryShown, presented, exec, frozen, tag,
                       sent, cache, answer>>,
           owner' \in Owners /\ Fits(owner)' /\ Len(owner'.journal) <= MaxJournal,
           \A i \in DOMAIN owner'.journal : owner'.journal[i].whole,
           owner'.mode = "rw" /\ owner'.capture => Len(owner'.journal) = owner'.answered,
           ~owner'.pending,
           owner'.lost => queryPc' = "reconstruct",
           queryPc' = "reconstruct" => owner'.retries < MaxRetries,
           token' = NoToken \/ token' \in Tokens,
           token' # NoToken => token # NoToken /\ (token'.current => token.current)
                               /\ (token'.current => owner'.mode = "rw" /\ owner'.capture),
           queryPc' # "reconstruct" => token' = NoToken \/ ~token'.current
    PROVE  QueryInv'
PROOF
  <1>1. /\ query' = query /\ iter' = iter /\ total' = total /\ rows' = rows /\ held' = held
        /\ queryShown' = queryShown /\ presented' = presented /\ exec' = exec
        /\ frozen' = frozen /\ tag' = tag /\ sent' = sent /\ cache' = cache /\ answer' = answer
    OBVIOUS
  <1>2. owner' # NoOwner /\ owner'.answered + 0 = owner'.answered
    BY OwnerFields
  <1>3. QueryTypes'
    <2>1. iter' \in BOOLEAN /\ presented' \in BOOLEAN /\ tag' \in BOOLEAN
      BY <1>1, QueryTypesOf
    <2>2. queryErr' \in {"none", "aborted", "failed"}
      BY QueryTypesOf
    <2> QED BY <1>1, <2>1, <2>2, QueryTypesOf, QueryTypesNext
  <1>4. ReceiptInv'
    BY <1>1, <1>2 DEF QueryInv, ReceiptInv
  <1>5. JournalInv' /\ LostInv'
    BY <1>1, <1>2 DEF JournalInv, LostInv
  <1>6. RestInv' /\ PresentedInv' /\ RowsInv' /\ TagInv'
    BY <1>1 DEF QueryInv, RestInv, PresentedInv, RowsInv, TagInv
  <1> QED BY <1>1, <1>3, <1>4, <1>5, <1>6
          DEF QueryInv, Query!OneExecutionShown, Query!CacheIsAQuery

\* The retry begins a new attempt.
LEMMA QueryReconstruct == ASSUME QueryInv, Query!Reconstruct PROVE QueryInv'
PROOF
  <1>1. /\ queryPc = "reconstruct" /\ owner # NoOwner /\ queryPc' = "replay"
        /\ owner' = [owner EXCEPT !.retries = owner.retries + 1, !.lost = FALSE,
                                  !.pending = FALSE]
        /\ token' = Query!Stale(token) /\ queryErr' = queryErr
        /\ UNCHANGED <<query, iter, total, rows, held, queryShown, presented, exec, frozen, tag,
                       sent, cache, answer>>
    BY DEF Query!Reconstruct, Query!Counted, NoOwner
  <1>2. /\ owner \in Owners /\ Fits(owner) /\ Len(owner.journal) <= MaxJournal
        /\ \A i \in DOMAIN owner.journal : owner.journal[i].whole
        /\ owner.mode = "rw" /\ owner.capture => Len(owner.journal) = owner.answered
    BY <1>1, SettledOwner
  <1>3. owner.retries < MaxRetries
    BY <1>1 DEF QueryInv, LostInv
  <1>4. /\ owner' \in Owners /\ Same(owner, owner') /\ owner'.pending = FALSE
        /\ owner'.lost = FALSE /\ owner'.journal = owner.journal
        /\ owner'.answered = owner.answered
    BY <1>1, <1>2, <1>3, OwnerRetries
  <1>5. \/ token' = NoToken
        \/ token # NoToken /\ token' \in Tokens /\ ~token'.current
    <2>1. CASE token = NoToken
      BY <1>1, <2>1 DEF Query!Stale, NoToken
    <2>2. CASE token \in Tokens
      BY <1>1, <2>2, TokenFields
    <2> QED BY <2>1, <2>2, QueryTypesOf
  <1>6. Fits(owner)'
    BY <1>2, <1>4 DEF Fits, Same
  <1> QED BY <1>1, <1>2, <1>4, <1>5, <1>6, QueryRetries DEF Same

\* The journal was replayed; the query starts again.
LEMMA QueryReplayed == ASSUME QueryInv, Query!Replayed PROVE QueryInv'
PROOF
  <1>1. /\ queryPc = "replay" /\ owner # NoOwner /\ queryPc' = "start" /\ queryErr' = "none"
        /\ owner' = owner /\ token' = token
        /\ UNCHANGED <<query, iter, total, rows, held, queryShown, presented, exec, frozen, tag,
                       sent, cache, answer>>
    BY DEF Query!Replayed, NoOwner
  <1>2. /\ AtRest(owner)
    BY <1>1, IdleOwner
  <1>3. token = NoToken \/ ~token.current
    BY <1>1 DEF QueryInv, ReceiptInv
  <1>4. /\ owner' \in Owners /\ Fits(owner)' /\ Len(owner'.journal) <= MaxJournal
        /\ \A i \in DOMAIN owner'.journal : owner'.journal[i].whole
        /\ owner'.mode = "rw" /\ owner'.capture => Len(owner'.journal) = owner'.answered
        /\ ~owner'.pending /\ ~owner'.lost
    BY <1>1, <1>2 DEF AtRest, Fits
  <1> QED BY <1>1, <1>3, <1>4, QueryTypesOf, QueryRetries

\* The new attempt is lost in turn.
LEMMA QueryReplayAborted == ASSUME QueryInv, Query!ReplayAborted PROVE QueryInv'
PROOF
  <1>1. queryPc = "replay" /\ owner # NoOwner
    BY DEF Query!ReplayAborted, NoOwner
  <1>2. /\ owner \in Owners /\ Fits(owner) /\ Len(owner.journal) <= MaxJournal
        /\ \A i \in DOMAIN owner.journal : owner.journal[i].whole
        /\ owner.mode = "rw" /\ owner.capture => Len(owner.journal) = owner.answered
        /\ ~owner.pending
    BY <1>1, SettledOwner
  <1>3. CASE owner.retries >= MaxRetries
    <2>1. /\ Query!Answered("aborted") /\ owner' = Query!Failed(owner)
          /\ queryShown' = queryShown /\ iter' = iter /\ tag' = tag /\ cache' = cache
      BY <1>3 DEF Query!ReplayAborted, Query!RetryEnds
    <2>2. PICK u : u = Query!Failed(owner)
      OBVIOUS
    <2>3. u = NoOwner \/ AtRest(u)
      BY <1>2, <2>2, FailedRests
    <2>4. owner' = NoOwner \/ AtRest(owner)'
      BY <2>1, <2>2, <2>3 DEF AtRest, Fits
    <2>5. ~iter /\ Query!OneExecutionShown'
      BY <1>1, <2>1 DEF QueryInv, RestInv, Query!OneExecutionShown
    <2> QED BY <2>1, <2>4, <2>5, QueryTypesOf, QueryAnswered
  <1>4. CASE ~(owner.retries >= MaxRetries)
    <2>1. /\ queryPc' = "reconstruct" /\ owner' = [owner EXCEPT !.lost = TRUE]
          /\ token' = token /\ queryErr' = queryErr
          /\ UNCHANGED <<query, iter, total, rows, held, queryShown, presented, exec, frozen, tag,
                         sent, cache, answer>>
      BY <1>4 DEF Query!ReplayAborted
    <2>2. /\ owner' \in Owners /\ Same(owner, owner') /\ owner'.pending = owner.pending
          /\ owner'.journal = owner.journal /\ owner'.retries = owner.retries
          /\ owner'.answered = owner.answered
      BY <1>2, <2>1, OwnerLoses
    <2>3. owner'.retries < MaxRetries
      BY <1>2, <1>4, <2>2, OwnerFields, QueryConstants
    <2>4. token = NoToken \/ ~token.current
      BY <1>1 DEF QueryInv, ReceiptInv
    <2>5. Fits(owner)'
      BY <1>2, <2>2 DEF Fits, Same
    <2> QED BY <1>1, <1>2, <2>1, <2>2, <2>3, <2>4, <2>5, QueryTypesOf, QueryRetries
  <1> QED BY <1>3, <1>4

\* Nothing of the query changes.
LEMMA QueryStays == ASSUME QueryInv, UNCHANGED queryVars PROVE QueryInv'
PROOF
  <1>1. /\ queryPc' = queryPc /\ owner' = owner /\ query' = query /\ token' = token /\ iter' = iter
        /\ total' = total /\ rows' = rows /\ held' = held /\ queryShown' = queryShown
        /\ presented' = presented /\ exec' = exec /\ queryErr' = queryErr /\ frozen' = frozen
        /\ tag' = tag /\ sent' = sent /\ cache' = cache /\ answer' = answer
    BY DEF queryVars
  <1>2. QueryTypes'
    <2>1. iter' \in BOOLEAN /\ presented' \in BOOLEAN /\ tag' \in BOOLEAN
      BY <1>1, QueryTypesOf
    <2>2. owner' = NoOwner \/ (owner' \in Owners /\ Fits(owner)' /\ Len(owner'.journal) <= MaxJournal)
      BY <1>1, QueryTypesOf DEF QueryInv, QueryTypes, Fits
    <2> QED BY <1>1, <2>1, <2>2, QueryTypesOf, QueryTypesNext
  <1> QED BY <1>1, <1>2
          DEF QueryInv, RestInv, PresentedInv, RowsInv, TagInv, ShownTo, ReceiptInv, JournalInv,
              LostInv, Query!OneExecutionShown, Query!CacheIsAQuery

\* No step of a query breaks the invariant.
LEMMA QueryNext == QueryInv /\ [Query!Next]_queryVars => QueryInv'
PROOF
  <1> SUFFICES ASSUME QueryInv, [Query!Next]_queryVars PROVE QueryInv'
    OBVIOUS
  <1>1. CASE UNCHANGED queryVars
    BY <1>1, QueryStays
  <1>2. CASE Query!OpenOwner \/ Query!SetTag \/ Query!Retire \/ Query!Submit
    BY <1>2, QueryOpenOwner, QuerySetTag, QueryRetire, QuerySubmit
  <1>3. CASE Query!PrepareFails \/ Query!Prepare \/ Query!StartRefused \/ Query!Start
             \/ Query!DecideFails \/ Query!SinkFails \/ Query!ServerFails
    BY <1>3, QueryPrepareFails, QueryPrepare, QueryStartRefused, QueryStart, QueryFailures
  <1>4. CASE Query!Metadata \/ Query!ReadRow \/ Query!EndRows \/ Query!Complete
    BY <1>4, QueryMetadata, QueryReadRow, QueryEndRows, QueryComplete
  <1>5. CASE Query!SettleOk \/ Query!SettleRetry \/ Query!SettleFailed
    BY <1>5, QuerySettleOk, QuerySettleRetry, QuerySettleFailed
  <1>6. CASE Query!ReconstructFails \/ Query!Reconstruct \/ Query!Replayed
             \/ Query!ReplayAborted
    BY <1>6, QueryReconstructFails, QueryReconstruct, QueryReplayed, QueryReplayAborted
  <1> QED BY <1>1, <1>2, <1>3, <1>4, <1>5, <1>6 DEF Query!Next, Query!Query

\* The properties TLC checks follow from the invariant.
LEMMA QueryIsSound == QueryInv => Query!QuerySound
PROOF
  <1> SUFFICES ASSUME QueryInv PROVE Query!QuerySound
    OBVIOUS
  <1>1. Query!TypeOK /\ Query!OneExecutionShown /\ Query!CacheIsAQuery
    BY DEF QueryInv, QueryTypes
  <1>2. Query!OneTag
    BY DEF QueryInv, TagInv, Query!OneTag
  <1>3. owner # NoOwner /\ queryPc = "idle" => AtRest(owner)
    BY IdleOwner
  <1>4. Query!JournalIsWhole
    BY <1>3 DEF QueryInv, JournalInv, AtRest, Query!JournalIsWhole, Query!Capturing, NoOwner
  <1>5. Query!NothingLeftOpen
    BY <1>3 DEF QueryInv, RestInv, AtRest, Query!NothingLeftOpen, NoOwner
  <1>6. Query!NoLostAttempt
    BY <1>3 DEF AtRest, Query!NoLostAttempt, NoOwner
  <1> QED BY <1>1, <1>2, <1>4, <1>5, <1>6 DEF Query!QuerySound

\* The answer is "ok" only when everything has been shown, and only an ordinary
\* query does anything to the owner on its way.
LEMMA QueryStepHolds == QueryInv /\ Query!Next => Query!QueryStep
PROOF
  <1> SUFFICES ASSUME QueryInv, Query!Next PROVE Query!QueryStep
    OBVIOUS
  <1>1. Query!OkMeansAllShown
    <2> SUFFICES ASSUME queryPc = "settle", answer' = "ok"
                 PROVE  {exec} \X (0..total) \subseteq queryShown'
      BY DEF Query!OkMeansAllShown
    <2>1. answer = "none" /\ queryErr \in {"none", "aborted", "failed"}
      BY QueryTypesOf DEF QueryInv, RestInv
    <2>2. Query!SettleOk
      BY <2>1 DEF Query!Next, Query!Query, Query!OpenOwner, Query!SetTag, Query!Retire,
           Query!Submit, Query!PrepareFails, Query!Prepare, Query!StartRefused, Query!Start,
           Query!DecideFails, Query!Metadata, Query!ReadRow, Query!SinkFails, Query!ServerFails,
           Query!EndRows, Query!Complete, Query!SettleRetry, Query!SettleFailed,
           Query!ReconstructFails, Query!Reconstruct, Query!Replayed, Query!ReplayAborted,
           Query!Answered
    <2>3. /\ queryErr = "none"
          /\ queryShown' = queryShown
               \cup ({exec} \X (IF query.sink = "buffer" THEN 0..total ELSE {}))
      BY <2>2 DEF Query!SettleOk, Query!Shows
    <2>4. query.sink # "buffer" => {exec} \X (0..total) \subseteq queryShown
      BY <2>3 DEF QueryInv, RowsInv, ShownTo
    <2> QED BY <2>3, <2>4
  <1>2. Query!OutsiderKeepsOwner
    <2> SUFFICES ASSUME query.kind \in {"single", "dump"}, queryPc' # queryPc, queryPc # "idle"
                 PROVE  owner' = owner
      BY DEF Query!OutsiderKeepsOwner
    <2>1. token = NoToken /\ queryPc \notin {"reconstruct", "replay"}
      BY DEF QueryInv, ReceiptInv
    <2>2. ~Query!Belongs
      BY <2>1 DEF Query!Belongs, NoToken
    <2>3. CASE Query!Start
      BY <2>3 DEF Query!Start
    <2>4. CASE Query!ServerFails
      BY <2>4 DEF Query!ServerFails
    <2>5. CASE Query!Complete \/ Query!SettleOk
      BY <2>2, <2>5 DEF Query!Complete, Query!SettleOk
    <2>6. CASE Query!SettleFailed
      BY <2>1, <2>2, <2>6 DEF Query!SettleFailed, Query!Eligible, Query!AfterFailure
    <2>7. CASE Query!ReconstructFails \/ Query!Reconstruct \/ Query!Replayed \/ Query!ReplayAborted
      BY <2>1, <2>7 DEF Query!ReconstructFails, Query!Reconstruct, Query!Replayed,
           Query!ReplayAborted
    <2>8. CASE Query!OpenOwner \/ Query!SetTag \/ Query!Retire \/ Query!Submit
      BY <2>8 DEF Query!OpenOwner, Query!SetTag, Query!Retire, Query!Submit
    <2>9. CASE Query!PrepareFails \/ Query!Prepare \/ Query!StartRefused \/ Query!DecideFails
               \/ Query!Metadata \/ Query!ReadRow \/ Query!SinkFails \/ Query!EndRows
               \/ Query!SettleRetry
      BY <2>9 DEF Query!PrepareFails, Query!Prepare, Query!StartRefused, Query!DecideFails,
           Query!Metadata, Query!ReadRow, Query!SinkFails, Query!EndRows, Query!SettleRetry
    <2> QED BY <2>3, <2>4, <2>5, <2>6, <2>7, <2>8, <2>9 DEF Query!Next, Query!Query
  <1> QED BY <1>1, <1>2 DEF Query!QueryStep

-----------------------------------------------------------------------------
\* ImplicitDml

Untouched == applied = 0 /\ partitions = "none"

\* Until a commit was answered, or an error that says so was, nothing took
\* effect; afterwards it is the answer that tells.
NothingApplied ==
    /\ pc \in {"buffer", "begin", "sql", "commit", "backoff", "waiting", "partitioned"}
            => Untouched
    /\ pc \in {"failed", "return", "prompt"} /\ SaysNothingApplied => Untouched

\* The owner exists between its begin and the statement's last attempt.
OwnerScoped ==
    pc \in {"prompt", "buffer", "begin", "return", "partitioned", "display"} => ~inTxn

\* What the points after an attempt know about it.
AttemptKnown ==
    /\ pc = "commit" => phase = "commit"
    /\ pc = "display" => applied = 1 /\ err = "none"
    /\ pc \in {"failed", "return"} => err # "none"
    /\ pc \in {"backoff", "waiting"} => attempt < MaxAttempts

\* Partitioned DML is the last thing a statement does.
PartitionsLast == partitions # "none" => pc = "prompt"

DmlInv ==
    /\ TypeOK
    /\ NothingApplied /\ OwnerScoped /\ AttemptKnown /\ PartitionsLast
    /\ AppliedOnce /\ ToldTruth

\* The initial state satisfies the invariant.
LEMMA DmlInitHolds == Init => DmlInv
<1> SUFFICES ASSUME Init PROVE DmlInv
    OBVIOUS
<1> USE AttemptsAssumption
<1>1. TypeOK
    <2>1. stmt \in Statement
        BY DEF Init, Statement, Forms, Modes
    <2>2. captured \in BOOLEAN /\ inTxn \in BOOLEAN /\ cancelled \in BOOLEAN
        BY DEF Init
    <2> QED
        BY <2>1, <2>2 DEF Init, TypeOK, Errors
<1>2. NothingApplied /\ OwnerScoped /\ AttemptKnown /\ PartitionsLast
    BY DEF Init, NothingApplied, Untouched, OwnerScoped, AttemptKnown, PartitionsLast
<1>3. AppliedOnce /\ ToldTruth
    BY DEF Init, AppliedOnce, ToldTruth, SaysNothingApplied
<1> QED
    BY <1>1, <1>2, <1>3 DEF DmlInv

\* Every step preserves the type.
LEMMA DmlTypeStep == DmlInv /\ [Next]_vars => TypeOK'
<1> SUFFICES ASSUME DmlInv, [Next]_vars PROVE TypeOK'
    OBVIOUS
<1> USE AttemptsAssumption DEF program, environment, server, Errors
<1>0. TypeOK /\ AttemptKnown
    BY DEF DmlInv
<1>1. ASSUME NEW s \in Statement, Submit(s) PROVE TypeOK'
    <2>1. captured' \in BOOLEAN /\ inTxn' \in BOOLEAN /\ cancelled' \in BOOLEAN
        BY <1>1 DEF Submit
    <2> QED BY <1>0, <1>1, <2>1 DEF Submit, TypeOK
<1>2. CASE Buffer
    <2>1. captured' \in BOOLEAN
        BY <1>2 DEF Buffer, CaptureFallback
    <2> QED BY <1>0, <1>2, <2>1 DEF Buffer, TypeOK
<1>3. CASE Begin
    <2>1. inTxn' \in BOOLEAN
        BY <1>0, <1>3 DEF Begin, Stop, TypeOK
    <2> QED BY <1>0, <1>3, <2>1 DEF Begin, Stop, TypeOK
<1>4. CASE ExecuteSQL
    <2>1. inTxn' \in BOOLEAN
        BY <1>0, <1>4 DEF ExecuteSQL, Deferred, TypeOK
    <2> QED BY <1>0, <1>4, <2>1 DEF ExecuteSQL, TypeOK
<1>5. CASE Commit
    <2>1. inTxn' \in BOOLEAN
        BY <1>0, <1>5 DEF Commit, Deferred, TypeOK
    <2>2. applied' \in Nat
        BY <1>0, <1>5 DEF Commit, TypeOK
    <2> QED BY <1>0, <1>5, <2>1, <2>2 DEF Commit, TypeOK
<1>6. CASE HandleFailure
    BY <1>0, <1>6 DEF HandleFailure, Finalize, Reconstruct, Stop, TypeOK
<1>7. CASE Backoff
    BY <1>0, <1>7 DEF Backoff, Stop, TypeOK
<1>8. CASE Resume
    <2>1. attempt' \in 0..MaxAttempts
        <3>1. pc = "waiting" /\ attempt' \in {attempt, attempt + 1}
            BY <1>8 DEF Resume
        <3>2. attempt \in 0..MaxAttempts /\ attempt < MaxAttempts
            BY <1>0, <3>1 DEF TypeOK, AttemptKnown
        <3> QED BY <3>1, <3>2
    <2>2. inTxn' \in BOOLEAN
        BY <1>0, <1>8 DEF Resume, Stop, TypeOK
    <2> QED BY <1>0, <1>8, <2>1, <2>2 DEF Resume, Stop, TypeOK
<1>9. CASE Display
    BY <1>0, <1>9 DEF Display, Stop, TypeOK
<1>10. CASE Finish
    BY <1>0, <1>10 DEF Finish, TypeOK
<1>11. CASE Partitioned
    BY <1>0, <1>11 DEF Partitioned, TypeOK
<1>12. CASE DeadlinePasses
    BY <1>0, <1>12 DEF DeadlinePasses, TypeOK
<1>13. CASE Cancel
    BY <1>0, <1>13 DEF Cancel, TypeOK
<1>14. CASE UNCHANGED vars
    BY <1>0, <1>14 DEF vars, TypeOK
<1> QED
    BY <1>1, <1>2, <1>3, <1>4, <1>5, <1>6, <1>7, <1>8, <1>9, <1>10, <1>11, <1>12,
       <1>13, <1>14 DEF Next, Step

\* What the proof carries besides the type.
Effects == NothingApplied /\ OwnerScoped /\ AttemptKnown /\ PartitionsLast
           /\ AppliedOnce /\ ToldTruth

\* Every step preserves what is known of the statement's effects.
LEMMA DmlEffectsStep == DmlInv /\ [Next]_vars => Effects'
<1> SUFFICES ASSUME DmlInv, [Next]_vars PROVE Effects'
    OBVIOUS
<1> USE AttemptsAssumption DEF program, environment, server
<1>0. TypeOK /\ Effects
    BY DEF DmlInv, Effects
<1> USE DEF Effects, NothingApplied, Untouched, OwnerScoped, AttemptKnown, PartitionsLast,
            AppliedOnce, ToldTruth, SaysNothingApplied, TypeOK, Errors
<1>1. ASSUME NEW s \in Statement, Submit(s) PROVE Effects'
    BY <1>0, <1>1 DEF Submit
<1>2. CASE Buffer
    BY <1>0, <1>2 DEF Buffer
<1>3. CASE Begin
    BY <1>0, <1>3 DEF Begin, Stop
<1>4. CASE ExecuteSQL
    BY <1>0, <1>4 DEF ExecuteSQL
<1>5. CASE Commit
    BY <1>0, <1>5 DEF Commit
<1>6. CASE HandleFailure
    BY <1>0, <1>6 DEF HandleFailure, ShouldRetry, Deferred, Finalize, Reconstruct, Stop
<1>7. CASE Backoff
    BY <1>0, <1>7 DEF Backoff, Stop
<1>8. CASE Resume
    BY <1>0, <1>8 DEF Resume, Stop
<1>9. CASE Display
    BY <1>0, <1>9 DEF Display, Stop
<1>10. CASE Finish
    BY <1>0, <1>10 DEF Finish, FallbackApplies
<1>11. CASE Partitioned
    BY <1>0, <1>11 DEF Partitioned
<1>12. CASE DeadlinePasses
    BY <1>0, <1>12 DEF DeadlinePasses
<1>13. CASE Cancel
    BY <1>0, <1>13 DEF Cancel
<1>14. CASE UNCHANGED vars
    BY <1>0, <1>14 DEF vars
<1> QED
    BY <1>1, <1>2, <1>3, <1>4, <1>5, <1>6, <1>7, <1>8, <1>9, <1>10, <1>11, <1>12,
       <1>13, <1>14 DEF Next, Step

\* The invariant holds in every reachable state.
THEOREM DmlInvariance == Spec => []DmlInv
<1>1. DmlInv /\ [Next]_vars => DmlInv'
    BY DmlTypeStep, DmlEffectsStep DEF DmlInv, Effects
<1> QED
    BY DmlInitHolds, <1>1, PTL DEF Spec

\* Every variable keeps its type; in particular no statement begins more than
\* MaxAttempts physical transactions (maxImplicitAbortAttempts).
THEOREM DmlTypeCorrect == Spec => []TypeOK
<1>1. DmlInv => TypeOK
    BY DEF DmlInv
<1> QED
    BY DmlInvariance, <1>1, PTL

\* Neither the retry nor the fallback repeats work that may be durable.
THEOREM EffectIsOnce == Spec => []AppliedOnce
<1>1. DmlInv => AppliedOnce
    BY DEF DmlInv
<1> QED
    BY DmlInvariance, <1>1, PTL

\* What the user is told of the statement is what happened to it.
THEOREM AnswerIsTrue == Spec => []ToldTruth
<1>1. DmlInv => ToldTruth
    BY DEF DmlInv
<1> QED
    BY DmlInvariance, <1>1, PTL

\* No statement leaves its implicit owner to the next one.
THEOREM OwnerIsGone == Spec => []NoImplicitOwnerLeft
<1>1. DmlInv => NoImplicitOwnerLeft
    BY DEF DmlInv, OwnerScoped, NoImplicitOwnerLeft
<1> QED
    BY DmlInvariance, <1>1, PTL

-----------------------------------------------------------------------------
\* McpServer: the gate, the cancellation check behind it, and the capture.

Results == [err : BOOLEAN, kept : Nat, notes : Nat, wrote : Nat, none : BOOLEAN]

\* McpTypeOK, with the results.
McpTyped ==
    /\ McpTypeOK
    /\ kept \in Nat /\ result \in [Calls -> Results]

\* A channel of capacity one.
OneInGate == \A c, d \in gate : c = d

\* The capture is what the running statement wrote, or its beginning and one
\* notice.
McpCaptured ==
    IF wrote <= Limit THEN kept = wrote /\ notes = 0 ELSE kept = Limit /\ notes = 1

\* CallsSound is not inductive: an answer is honest because the capture was.
McpInv ==
    /\ McpTyped
    /\ OneInGate
    /\ McpCaptured
    /\ CancelledNeverBegins /\ OnlyStatementsBegin /\ AnswerIsHonest

\* What every call that is answered needs: an honest result, and the gate freed.
LEMMA AnswerKeeps ==
    ASSUME McpInv, NEW c \in Calls, NEW r \in Results,
           r.err \/ (r.kept = kept /\ r.notes = notes /\ r.wrote = wrote),
           call[c] \in Early \cup {"running"}, Answer(c, r),
           UNCHANGED <<kind, done, kept, notes, wrote, writes, began>>
    PROVE  McpInv'
<1> USE DEF McpInv, McpTyped, McpTypeOK, Answer, Early
<1>1. McpTyped'
  <2>1. gate' = {d \in Calls : call'[d] \in {"gated", "running"}}
    OBVIOUS
  <2> QED BY <2>1
<1>2. OneInGate'
  BY DEF OneInGate
<1>3. McpCaptured'
  BY DEF McpCaptured
<1>4. CancelledNeverBegins' /\ OnlyStatementsBegin'
  BY DEF CancelledNeverBegins, OnlyStatementsBegin
<1>5. AnswerIsHonest'
  <2> SUFFICES ASSUME NEW d \in Calls, call'[d] = "answered", ~result'[d].err
               PROVE  IF result'[d].wrote <= Limit
                      THEN result'[d].kept = result'[d].wrote /\ result'[d].notes = 0
                      ELSE result'[d].kept = Limit /\ result'[d].notes = 1
    BY DEF AnswerIsHonest
  <2>1. CASE d = c
    BY <2>1 DEF McpCaptured
  <2>2. CASE d # c
    BY <2>2 DEF AnswerIsHonest
  <2> QED BY <2>1, <2>2
<1> QED BY <1>1, <1>2, <1>3, <1>4, <1>5

\* An error is a result.
LEMMA ErrorIsResult == Error \in Results /\ Error.err
BY DEF Error, None, Results

\* mcpOutputCapture.Write keeps the capture what was written, up to the limit.
LEMMA WriteCaptures ==
    ASSUME McpInv, NEW n \in Nat,
           kept' = kept + Taken(n), notes' = Noted(n), wrote' = wrote + n
    PROVE  McpCaptured' /\ kept' \in Nat /\ kept' <= Limit /\ notes' \in {0, 1} /\ wrote' \in Nat
<1> USE McpAssumption DEF McpInv, McpTyped, McpTypeOK, McpCaptured, Taken, Noted
<1>1. CASE wrote > Limit
  BY <1>1
<1>2. CASE wrote <= Limit /\ n <= Limit - kept
  BY <1>2
<1>3. CASE wrote <= Limit /\ n > Limit - kept
  BY <1>3
<1> QED BY <1>1, <1>2, <1>3

\* No call has entered.
LEMMA McpInitHolds == McpInit => McpInv
<1> SUFFICES ASSUME McpInit PROVE McpInv
  OBVIOUS
<1>1. McpTyped
  BY McpAssumption DEF McpInit, McpTyped, McpTypeOK, Early, None, Results
<1>2. OneInGate /\ McpCaptured
  BY McpAssumption DEF McpInit, OneInGate, McpCaptured
<1>3. CancelledNeverBegins /\ OnlyStatementsBegin /\ AnswerIsHonest
  BY DEF McpInit, CancelledNeverBegins, OnlyStatementsBegin, AnswerIsHonest
<1> QED BY <1>1, <1>2, <1>3 DEF McpInv

\* select: one caller at a time wins the slot.
LEMMA McpEnterKeeps == ASSUME McpInv, NEW c \in Calls, Enter(c) PROVE McpInv'
<1> USE DEF McpInv, McpTyped, McpTypeOK, Early, Enter, Free
<1>1. gate' = {d \in Calls : call'[d] \in {"gated", "running"}}
  OBVIOUS
<1>2. McpTyped'
  BY <1>1
<1>3. OneInGate' /\ McpCaptured'
  BY DEF OneInGate, McpCaptured
<1>4. CancelledNeverBegins' /\ OnlyStatementsBegin' /\ AnswerIsHonest'
  BY DEF CancelledNeverBegins, OnlyStatementsBegin, AnswerIsHonest
<1> QED BY <1>2, <1>3, <1>4

\* A withdrawn call leaves the gate to itself.
LEMMA WithdrawKeeps == ASSUME McpInv, NEW c \in Calls, Withdraw(c) PROVE McpInv'
<1> USE DEF McpInv, McpTyped, McpTypeOK, Early, Withdraw
<1>1. McpTyped'
  OBVIOUS
<1>2. OneInGate' /\ McpCaptured'
  BY DEF OneInGate, McpCaptured
<1>3. CancelledNeverBegins' /\ OnlyStatementsBegin' /\ AnswerIsHonest'
  BY DEF CancelledNeverBegins, OnlyStatementsBegin, AnswerIsHonest
<1> QED BY <1>1, <1>2, <1>3

\* The context is looked at again behind the gate, so what begins is alive.
LEMMA BeginKeeps == ASSUME McpInv, NEW c \in Calls, BeginCall(c) PROVE McpInv'
<1> USE DEF McpInv, McpTyped, McpTypeOK, Early, BeginCall
<1>1. gate' = {d \in Calls : call'[d] \in {"gated", "running"}}
  OBVIOUS
<1>2. McpTyped'
  BY <1>1, McpAssumption
<1>3. OneInGate' /\ McpCaptured'
  BY McpAssumption DEF OneInGate, McpCaptured
<1>4. CancelledNeverBegins'
  BY DEF CancelledNeverBegins, Dead
<1>5. OnlyStatementsBegin'
  BY DEF OnlyStatementsBegin, Runnable
<1>6. AnswerIsHonest'
  BY DEF AnswerIsHonest
<1> QED BY <1>2, <1>3, <1>4, <1>5, <1>6

\* A write goes to the capture of the one that runs.
LEMMA WriteKeeps == ASSUME McpInv, NEW c \in Calls, Write(c) PROVE McpInv'
<1>1. PICK n \in 0..Limit + 1 : kept' = kept + Taken(n) /\ notes' = Noted(n) /\ wrote' = wrote + n
  BY DEF Write
<1>2. McpCaptured' /\ kept' \in Nat /\ kept' <= Limit /\ notes' \in {0, 1} /\ wrote' \in Nat
  BY <1>1, WriteCaptures, McpAssumption
<1>3. McpTyped'
  <2>1. writes' \in 0..MaxWrites
    BY McpAssumption DEF Write, McpInv, McpTyped, McpTypeOK
  <2> QED BY <1>2, <2>1 DEF Write, McpInv, McpTyped, McpTypeOK
<1>4. OneInGate'
  BY DEF Write, McpInv, OneInGate
<1>5. CancelledNeverBegins' /\ OnlyStatementsBegin' /\ AnswerIsHonest'
  BY DEF Write, McpInv, CancelledNeverBegins, OnlyStatementsBegin, AnswerIsHonest
<1> QED BY <1>2, <1>3, <1>4, <1>5 DEF McpInv

\* A call is answered in one of three ways.
LEMMA ReturnKeeps ==
    ASSUME McpInv, NEW c \in Calls, Leave(c) \/ Refuse(c) \/ EndStatement(c) PROVE McpInv'
<1>1. CASE Leave(c)
  BY <1>1, ErrorIsResult, AnswerKeeps DEF Leave, Early
<1>2. CASE Refuse(c)
  BY <1>2, ErrorIsResult, AnswerKeeps DEF Refuse, Early
<1>3. CASE EndStatement(c)
  <2> DEFINE r == [err |-> FALSE, kept |-> kept, notes |-> notes, wrote |-> wrote, none |-> FALSE]
  <2>1. r \in Results /\ r.kept = kept /\ r.notes = notes /\ r.wrote = wrote
    BY DEF Results, McpInv, McpTyped, McpTypeOK
  <2>2. CASE Answer(c, r)
    BY <1>3, <2>1, <2>2, AnswerKeeps DEF EndStatement
  <2>3. CASE Answer(c, Error)
    BY <1>3, <2>3, ErrorIsResult, AnswerKeeps DEF EndStatement
  <2> QED BY <1>3, <2>2, <2>3 DEF EndStatement
<1> QED BY <1>1, <1>2, <1>3

\* Every step of every caller keeps the invariant.
LEMMA McpStepHolds == McpInv /\ [McpNext]_mcpVars => McpInv'
<1> SUFFICES ASSUME McpInv, [McpNext]_mcpVars PROVE McpInv'
  OBVIOUS
<1>1. ASSUME NEW c \in Calls, Withdraw(c) PROVE McpInv'
  BY <1>1, WithdrawKeeps
<1>2. ASSUME NEW c \in Calls, Enter(c) PROVE McpInv'
  BY <1>2, McpEnterKeeps
<1>3. ASSUME NEW c \in Calls, Leave(c) \/ Refuse(c) \/ EndStatement(c) PROVE McpInv'
  BY <1>3, ReturnKeeps
<1>4. ASSUME NEW c \in Calls, BeginCall(c) PROVE McpInv'
  BY <1>4, BeginKeeps
<1>5. ASSUME NEW c \in Calls, Write(c) PROVE McpInv'
  BY <1>5, WriteKeeps
<1>6. CASE UNCHANGED mcpVars
  BY <1>6 DEF mcpVars, McpInv, McpTyped, McpTypeOK, OneInGate, McpCaptured, CancelledNeverBegins,
              OnlyStatementsBegin, AnswerIsHonest
<1> QED BY <1>1, <1>2, <1>3, <1>4, <1>5, <1>6 DEF McpNext, McpIdle

\* The inductive invariant of the tool: one caller in the gate, the capture
\* what its statement wrote, every answer given so far honest.
THEOREM McpInvariance == McpSpec => []McpInv
<1>1. McpInit => McpInv
  BY McpInitHolds
<1>2. McpInv /\ [McpNext]_mcpVars => McpInv'
  BY McpStepHolds
<1> QED BY <1>1, <1>2, PTL DEF McpSpec

\* Concurrent calls are executed one at a time, a cancelled call never begins,
\* nothing but a statement reaches the session, and an answer says what was
\* written, however many callers there are and whatever the limit.
THEOREM CallsAreSound == McpSpec => []CallsSound
<1>1. McpInv => CallsSound
  <2> SUFFICES ASSUME McpInv PROVE CallsSound
    OBVIOUS
  <2>1. OneAtATime
    BY DEF McpInv, McpTyped, McpTypeOK, OneInGate, OneAtATime
  <2> QED BY <2>1 DEF McpInv, McpTyped, CallsSound
<1> QED BY <1>1, McpInvariance, PTL

-----------------------------------------------------------------------------
\* StatementOutput: what is written, on its way, and has arrived.

Bytes == {"row", "fence", "echo", "close", "newline"}

Tees == [file: Out!Opened \cup {0}, silent: BOOLEAN, warned: BOOLEAN]
SinkStates ==
    [out: {"none", "dst", "pager"}, then: {"row", "finish"}, fence: BOOLEAN,
     failed: BOOLEAN, broken: BOOLEAN, quit: BOOLEAN]
Pagers == [state: {"none", "running", "gone"}, quit: BOOLEAN, bad: BOOLEAN]

OutTypes ==
    /\ Out!TypeOK
    /\ tee \in Tees /\ sink \in SinkStates /\ pager \in Pagers
    /\ written \in Seq(Bytes) /\ pipe \in Seq(Bytes) /\ filed \in Seq(Bytes)
    /\ shown \in Seq(Bytes \cup {"mark"})

\* The mark is alone on the screen while the spinner runs, and never follows
\* anything.
MarkInv ==
    /\ \A i \in 2..Len(shown) : shown[i] # "mark"
    /\ spinner => /\ outPc \in {"run", "start", "abort", "reap"} /\ sink.out = "none"
                  /\ Len(shown) <= 1 /\ (Len(shown) = 1 => shown[1] = "mark")

\* Where the sink has been started, and what is there between statements.
PlaceInv ==
    /\ outPc = "start" => sink.out = "none"
    /\ outPc \in {"fence", "echo", "row", "close"} => sink.out # "none"
    /\ outPc # "prompt" => to = Out!Target /\ outResult = "none"
    /\ outPc \in {"prompt", "newline"} => pager = Out!NoPager /\ pipe = <<>> /\ ~spinner
    /\ outPc \notin {"prompt", "newline"} /\ sink.out = "pager" => pager.state # "none"
    /\ pager.state # "running" /\ ~pager.bad => pager.state = "none" \/ pager.quit
    /\ pager.state = "none" => pipe = <<>>
    /\ files \subseteq {tee.file}

FenceInv ==
    /\ Out!Count("fence") = Out!Count("close") + IF sink.fence THEN 1 ELSE 0
    /\ outPc \in {"start", "fence"} => ~sink.fence
    /\ outPc \in {"reap", "newline", "prompt"} => ~sink.fence \/ sink.broken

\* What was written has arrived, but for q, which is on its way.
Arrived(q) ==
    /\ to # "file" => Out!Unmarked \o q = written
    /\ to = "file" \/ (to = "both" /\ ~tee.warned) => filed \o q = written

ArrivedInv ==
    /\ sink.out # "pager" => Arrived(<<>>)
    /\ pager.state = "running" => Arrived(pipe)
    /\ outPc = "newline" /\ ~sink.quit => Arrived(<<>>)
    /\ outResult = "ok" /\ ~sink.quit => Arrived(<<>>)

OutInv == OutTypes /\ MarkInv /\ PlaceInv /\ FenceInv /\ ArrivedInv

NoTee == Out!NoTee
NoPager == Out!NoPager

\* A sequence of S whose elements are in T.
LEMMA SeqOf ==
    ASSUME NEW S, NEW T, NEW s \in Seq(S), \A i \in 1..Len(s) : s[i] \in T
    PROVE  s \in Seq(T)
PROOF
  <1>1. s \in [1..Len(s) -> S] /\ Len(s) \in Nat
    BY LenProperties
  <1>2. s = [i \in 1..Len(s) |-> s[i]]
    BY <1>1
  <1>3. s \in [1..Len(s) -> T]
    BY <1>2
  <1> QED BY <1>1, <1>3

\* What is read from the head of a queue goes to the end of what was read.
LEMMA QueueMoves ==
    ASSUME NEW S, NEW a \in Seq(S), NEW q \in Seq(S), q # <<>>
    PROVE  Append(a, Head(q)) \o Tail(q) = a \o q
PROOF
  <1> DEFINE h == Head(q)
             t == Tail(q)
             b == Append(a, h)
  <1>1. /\ h \in S /\ t \in Seq(S) /\ Len(t) = Len(q) - 1 /\ Len(q) \in Nat \ {0}
        /\ \A i \in 1..Len(t) : t[i] = q[i + 1]
        /\ h = q[1]
    BY HeadTailProperties, EmptySeq
  <1>2. /\ b \in Seq(S) /\ Len(b) = Len(a) + 1 /\ Len(a) \in Nat
        /\ \A i \in 1..Len(a) : b[i] = a[i]
        /\ b[Len(a) + 1] = h
    BY <1>1, AppendProperties, LenProperties
  <1> HIDE DEF h, t, b
  <1>3. /\ b \o t \in Seq(S) /\ Len(b \o t) = Len(b) + Len(t)
        /\ \A i \in 1..Len(b) + Len(t) :
             (b \o t)[i] = IF i <= Len(b) THEN b[i] ELSE t[i - Len(b)]
    BY <1>1, <1>2, ConcatProperties
  <1>4. /\ a \o q \in Seq(S) /\ Len(a \o q) = Len(a) + Len(q)
        /\ \A i \in 1..Len(a) + Len(q) :
             (a \o q)[i] = IF i <= Len(a) THEN a[i] ELSE q[i - Len(a)]
    BY ConcatProperties
  <1>5. Len(b \o t) = Len(a \o q)
    BY <1>1, <1>2, <1>3, <1>4
  <1>6. ASSUME NEW i \in 1..Len(b \o t) PROVE (b \o t)[i] = (a \o q)[i]
    <2>1. i \in 1..Len(b) + Len(t) /\ i \in 1..Len(a) + Len(q)
      BY <1>3, <1>4, <1>5
    <2>2. CASE i <= Len(a)
      BY <1>2, <1>3, <1>4, <2>1, <2>2
    <2>3. CASE i = Len(a) + 1
      <3>1. (b \o t)[i] = h
        BY <1>2, <1>3, <2>1, <2>3
      <3>2. (a \o q)[i] = q[1]
        <4>1. ~(i <= Len(a)) /\ i - Len(a) = 1
          BY <1>2, <2>3
        <4> QED BY <1>4, <2>1, <4>1
      <3> QED BY <1>1, <3>1, <3>2
    <2>4. CASE i > Len(a) + 1
      <3>1. PICK j : j = i - Len(b)
        OBVIOUS
      <3>2. j \in 1..Len(t) /\ i - Len(a) = j + 1 /\ ~(i <= Len(b)) /\ ~(i <= Len(a))
        BY <1>1, <1>2, <2>1, <2>4, <3>1
      <3>3. (b \o t)[i] = t[j]
        BY <1>3, <2>1, <3>1, <3>2
      <3>4. (a \o q)[i] = q[j + 1]
        BY <1>4, <2>1, <3>2
      <3> QED BY <1>1, <3>2, <3>3, <3>4
    <2>5. i <= Len(a) \/ i = Len(a) + 1 \/ i > Len(a) + 1
      BY <1>2, <2>1
    <2> QED BY <2>2, <2>3, <2>4, <2>5
  <1>7. b \o t = a \o q
    BY <1>3, <1>4, <1>5, <1>6, SeqEqual
  <1> QED BY <1>7 DEF b, h, t

\* What is added to the queue is added to the whole.
LEMMA QueueGrows ==
    ASSUME NEW S, NEW a \in Seq(S), NEW q \in Seq(S), NEW e \in S
    PROVE  a \o Append(q, e) = Append(a \o q, e)
PROOF
  <1>1. Append(q, e) = q \o <<e>> /\ <<e>> \in Seq(S)
    BY AppendIsConcat
  <1>2. a \o q \in Seq(S)
    BY ConcatProperties
  <1>3. Append(a \o q, e) = (a \o q) \o <<e>>
    BY <1>2, AppendIsConcat
  <1> QED BY <1>1, <1>3, ConcatAssociative

\* The screen without its mark has bytes only.
LEMMA UnmarkedSeq ==
    ASSUME NEW s \in Seq(Bytes \cup {"mark"}), \A i \in 2..Len(s) : s[i] # "mark"
    PROVE  (IF s # <<>> /\ s[1] = "mark" THEN Tail(s) ELSE s) \in Seq(Bytes)
PROOF
  <1>1. /\ Len(s) \in Nat
        /\ \A i \in 1..Len(s) : s[i] \in Bytes \cup {"mark"}
    BY LenProperties, ElementOfSeq
  <1>2. CASE s # <<>> /\ s[1] = "mark"
    <2>1. PICK t : t = Tail(s)
      OBVIOUS
    <2>2. /\ t \in Seq(Bytes \cup {"mark"}) /\ Len(t) = Len(s) - 1
          /\ \A i \in 1..Len(t) : t[i] = s[i + 1]
      BY <1>2, <2>1, HeadTailProperties
    <2>3. \A i \in 1..Len(t) : t[i] \in Bytes
      <3> TAKE i \in 1..Len(t)
      <3>1. i + 1 \in 2..Len(s) /\ i + 1 \in 1..Len(s)
        BY <1>1, <2>2
      <3> QED BY <1>1, <2>2, <3>1
    <2>4. t \in Seq(Bytes)
      BY <2>2, <2>3, SeqOf
    <2> QED BY <1>2, <2>1, <2>4
  <1>3. CASE ~(s # <<>> /\ s[1] = "mark")
    <2>1. \A i \in 1..Len(s) : s[i] \in Bytes
      <3> TAKE i \in 1..Len(s)
      <3>1. s # <<>> /\ (i = 1 \/ i \in 2..Len(s))
        BY <1>1
      <3> QED BY <1>1, <1>3, <3>1
    <2> QED BY <1>3, <2>1, SeqOf
  <1> QED BY <1>2, <1>3

\* The screen without the mark has bytes only, now
LEMMA UnmarkedType ==
    ASSUME shown \in Seq(Bytes \cup {"mark"}), \A i \in 2..Len(shown) : shown[i] # "mark"
    PROVE  Out!Unmarked \in Seq(Bytes)
BY UnmarkedSeq DEF Out!Unmarked

\* and after a step.
LEMMA UnmarkedNext ==
    ASSUME shown' \in Seq(Bytes \cup {"mark"}), \A i \in 2..Len(shown') : shown'[i] # "mark"
    PROVE  Out!Unmarked' \in Seq(Bytes)
BY UnmarkedSeq DEF Out!Unmarked

\* A byte on the screen comes after what is there.
LEMMA UnmarkedAppends ==
    ASSUME shown \in Seq(Bytes \cup {"mark"}), \A i \in 2..Len(shown) : shown[i] # "mark",
           NEW t \in Bytes, shown' = Append(shown, t)
    PROVE  /\ Out!Unmarked' = Append(Out!Unmarked, t)
           /\ shown' \in Seq(Bytes \cup {"mark"})
           /\ \A i \in 2..Len(shown') : shown'[i] # "mark"
PROOF
  <1>1. t # "mark" /\ t \in Bytes \cup {"mark"}
    BY DEF Bytes
  <1>2. /\ shown' \in Seq(Bytes \cup {"mark"}) /\ shown' # <<>> /\ Len(shown) \in Nat
        /\ Len(shown') = Len(shown) + 1
        /\ \A i \in 1..Len(shown) : shown'[i] = shown[i]
        /\ shown'[Len(shown) + 1] = t
    BY <1>1, AppendProperties, LenProperties
  <1>3. \A i \in 2..Len(shown') : shown'[i] # "mark"
    <2> TAKE i \in 2..Len(shown')
    <2>1. i \in 2..Len(shown) \/ i = Len(shown) + 1
      BY <1>2
    <2>2. i \in 2..Len(shown) => i \in 1..Len(shown)
      BY <1>2
    <2> QED BY <1>1, <1>2, <2>1, <2>2
  <1>4. CASE shown = <<>>
    <2>1. shown'[1] = t
      BY <1>2, <1>4
    <2> QED BY <1>1, <1>2, <1>3, <1>4, <2>1 DEF Out!Unmarked
  <1>5. CASE shown # <<>>
    <2>1. 1 \in 1..Len(shown)
      BY <1>2, <1>5, EmptySeq
    <2>2. shown'[1] = shown[1]
      BY <1>2, <2>1
    <2>3. Tail(Append(shown, t)) = Append(Tail(shown), t)
      BY <1>5, HeadTailAppend
    <2> QED BY <1>2, <1>3, <1>5, <2>2, <2>3 DEF Out!Unmarked
  <1> QED BY <1>4, <1>5

\* The types, conjunct by conjunct.
LEMMA OutTypesOf ==
    ASSUME OutInv
    PROVE  /\ outPc \in {"prompt", "run", "row", "start", "fence", "echo", "close", "reap",
                         "newline", "abort"}
           /\ tee \in Tees /\ (tee.file = 0 => tee = NoTee) /\ files \subseteq Out!Opened
           /\ to \in {"screen", "both", "file"}
           /\ sink \in SinkStates /\ (sink.fence => sink.out # "none")
           /\ pager \in Pagers /\ (pager.state # "none" => sink.out = "pager")
           /\ Len(pipe) <= MaxPipe /\ spinner \in BOOLEAN /\ outCancelled \in BOOLEAN
           /\ outResult \in {"none", "ok", "error"}
           /\ written \in Seq(Bytes) /\ pipe \in Seq(Bytes) /\ filed \in Seq(Bytes)
           /\ shown \in Seq(Bytes \cup {"mark"})
           /\ \A i \in 2..Len(shown) : shown[i] # "mark"
BY DEF OutInv, OutTypes, Out!TypeOK, MarkInv, NoTee

\* The types after a step, from the types of what changed.
LEMMA OutTypesNext ==
    ASSUME outPc' \in {"prompt", "run", "row", "start", "fence", "echo", "close", "reap",
                       "newline", "abort"},
           tee' \in Tees, tee'.file = 0 => tee' = NoTee, files' \subseteq Out!Opened,
           to' \in {"screen", "both", "file"},
           sink' \in SinkStates, sink'.fence => sink'.out # "none",
           pager' \in Pagers, pager'.state # "none" => sink'.out = "pager",
           Len(pipe') <= MaxPipe, spinner' \in BOOLEAN, outCancelled' \in BOOLEAN,
           outResult' \in {"none", "ok", "error"},
           written' \in Seq(Bytes), pipe' \in Seq(Bytes), filed' \in Seq(Bytes),
           shown' \in Seq(Bytes \cup {"mark"})
    PROVE  OutTypes'
PROOF
  <1>1. /\ tee'.file \in Out!Opened \cup {0} /\ sink'.out \in {"none", "dst", "pager"}
        /\ pager'.state \in {"none", "running", "gone"}
    BY DEF Tees, SinkStates, Pagers
  <1>2. Out!TypeOK'
    BY <1>1 DEF Out!TypeOK, NoTee
  <1> QED BY <1>2 DEF OutTypes

\* One Write that succeeds, and one that fails.
LEMMA Delivers ==
    ASSUME OutInv, to = Out!Target, NEW t \in Bytes, Out!Deliver(t, FALSE)
    PROVE  /\ shown' \in Seq(Bytes \cup {"mark"}) /\ filed' \in Seq(Bytes)
           /\ \A i \in 2..Len(shown') : shown'[i] # "mark"
           /\ to # "file" => Out!Unmarked' = Append(Out!Unmarked, t)
           /\ to = "file" \/ (to = "both" /\ ~tee'.warned) =>
                filed' = Append(filed, t) /\ (to = "both" => ~tee.warned)
           /\ tee' \in Tees /\ (tee'.file = 0 => tee' = NoTee)
           /\ tee'.file = tee.file /\ tee'.silent = tee.silent
PROOF
  <1> USE OutTypesOf
  <1>1. \/ /\ to = "screen" /\ shown' = Append(shown, t) /\ filed' = filed /\ tee' = tee
        \/ /\ to = "file" /\ filed' = Append(filed, t) /\ shown' = shown /\ tee' = tee
        \/ /\ to = "both" /\ shown' = Append(shown, t) /\ tee' = tee
           /\ filed' = IF tee.warned THEN filed ELSE Append(filed, t)
        \/ /\ to = "both" /\ shown' = Append(shown, t) /\ filed' = filed
           /\ tee' = [tee EXCEPT !.warned = TRUE]
    BY DEF Out!Deliver, Out!FileFailed
  <1>2. Append(filed, t) \in Seq(Bytes)
    BY AppendProperties
  <1>3. shown' = Append(shown, t) => /\ Out!Unmarked' = Append(Out!Unmarked, t)
                                     /\ shown' \in Seq(Bytes \cup {"mark"})
                                     /\ \A i \in 2..Len(shown') : shown'[i] # "mark"
    BY UnmarkedAppends
  <1>4. to = "both" => tee.file # 0
    BY DEF Out!Target
  <1>5. CASE to = "both" /\ tee' = [tee EXCEPT !.warned = TRUE]
    <2>1. /\ tee' \in Tees /\ tee'.file = tee.file /\ tee'.silent = tee.silent
          /\ tee'.warned = TRUE
      BY <1>5 DEF Tees
    <2> QED BY <1>1, <1>2, <1>3, <1>4, <1>5, <2>1
  <1>6. CASE tee' = tee
    <2>1. shown' = shown => \A i \in 2..Len(shown') : shown'[i] # "mark"
      OBVIOUS
    <2>2. /\ tee' \in Tees /\ (tee'.file = 0 => tee' = NoTee)
          /\ tee'.file = tee.file /\ tee'.silent = tee.silent
      BY <1>6
    <2>3. CASE to = "file"
      BY <1>1, <1>2, <2>1, <2>2, <2>3
    <2>4. CASE to = "screen"
      BY <1>1, <1>3, <2>2, <2>4
    <2>5. CASE to = "both" /\ tee.warned
      BY <1>1, <1>3, <1>6, <2>2, <2>5
    <2>6. CASE to = "both" /\ ~tee.warned
      <3>1. tee' # [tee EXCEPT !.warned = TRUE]
        BY <1>6, <2>6 DEF Tees
      <3> QED BY <1>1, <1>2, <1>3, <1>6, <2>2, <2>6, <3>1
    <2> QED BY <2>3, <2>4, <2>5, <2>6
  <1> QED BY <1>1, <1>5, <1>6

\* A Write that fails delivers nothing.
LEMMA DeliveryFails ==
    ASSUME NEW t, Out!Deliver(t, TRUE)
    PROVE  shown' = shown /\ filed' = filed /\ tee' = tee
BY DEF Out!Deliver, Out!FileFailed, Out!places

\* What was written is counted.
LEMMA CountFacts ==
    ASSUME written \in Seq(Bytes), NEW t
    PROVE  Out!Count(t) \in Nat
PROOF
  <1>1. {i \in DOMAIN written : written[i] = t} \subseteq 1..Len(written)
    BY LenProperties
  <1>2. IsFiniteSet(1..Len(written))
    BY LenProperties, FS_Interval
  <1>3. Cardinality({i \in DOMAIN written : written[i] = t}) \in Nat
    BY <1>1, <1>2, FS_Subset, FS_CardinalityType
  <1>4. \A S : Out!Cardinality(S) = Cardinality(S)
    BY DEF Out!Cardinality, Cardinality
  <1> QED BY <1>3, <1>4 DEF Out!Count

\* A token written is counted, and no other is.
LEMMA CountAppends ==
    ASSUME written \in Seq(Bytes), NEW t \in Bytes, written' = Append(written, t)
    PROVE  /\ Out!Count(t)' = Out!Count(t) + 1
           /\ \A u : u # t => Out!Count(u)' = Out!Count(u)
PROOF
  <1> DEFINE At(u) == {i \in DOMAIN written : written[i] = u}
             AtNext(u) == {i \in DOMAIN written' : written'[i] = u}
  <1>1. Len(written) \in Nat /\ DOMAIN written = 1..Len(written)
    BY LenProperties
  <1>2. PICK n : n = Len(written) + 1
    OBVIOUS
  <1>3. /\ written' \in Seq(Bytes) /\ Len(written') = n /\ written'[n] = t
        /\ \A i \in 1..Len(written) : written'[i] = written[i]
        /\ DOMAIN written' = 1..n
    <2>1. written' \in Seq(Bytes) /\ Len(written') = n
      BY <1>2, AppendProperties
    <2> QED BY <1>2, <2>1, AppendProperties, LenProperties
  <1>4. IsFiniteSet(At(t)) /\ n \notin At(t)
    <2>1. IsFiniteSet(1..Len(written))
      BY <1>1, FS_Interval
    <2>2. At(t) \subseteq 1..Len(written)
      BY <1>1
    <2>3. n \notin 1..Len(written)
      BY <1>1, <1>2
    <2> QED BY <2>1, <2>2, <2>3, FS_Subset
  <1>5. AtNext(t) = At(t) \cup {n}
    BY <1>1, <1>2, <1>3
  <1>6. \A u : u # t => AtNext(u) = At(u)
    BY <1>1, <1>2, <1>3
  <1>7. \A u : Out!Count(u) = Cardinality(At(u)) /\ Out!Count(u)' = Cardinality(AtNext(u))
    <2>1. \A S : Out!Cardinality(S) = Cardinality(S)
      BY DEF Out!Cardinality, Cardinality
    <2> QED BY <2>1 DEF Out!Count
  <1> HIDE DEF At, AtNext
  <1>8. Cardinality(At(t) \cup {n}) = Cardinality(At(t)) + 1
    BY <1>4, FS_AddElement
  <1>9. Out!Count(t)' = Out!Count(t) + 1
    BY <1>5, <1>7, <1>8
  <1>10. \A u : u # t => Out!Count(u)' = Out!Count(u)
    BY <1>6, <1>7
  <1> QED BY <1>9, <1>10

\* The pipe has a capacity.
LEMMA OutConstants == MaxPipe \in Nat
BY StatementsAssumption

\* A sink has its fields.
LEMMA SinkFields ==
    ASSUME NEW s \in SinkStates
    PROVE  /\ s.out \in {"none", "dst", "pager"} /\ s.then \in {"row", "finish"}
           /\ s.fence \in BOOLEAN /\ s.failed \in BOOLEAN /\ s.broken \in BOOLEAN
           /\ s.quit \in BOOLEAN
BY DEF SinkStates

\* Nothing on its way is nothing to add.
LEMMA ArrivedEmpty ==
    ASSUME OutInv
    PROVE  Arrived(<<>>) <=>
             /\ to # "file" => Out!Unmarked = written
             /\ to = "file" \/ (to = "both" /\ ~tee.warned) => filed = written
PROOF
  <1>1. Out!Unmarked \o <<>> = Out!Unmarked /\ filed \o <<>> = filed
    BY OutTypesOf, UnmarkedType, ConcatEmptySeq
  <1> QED BY <1>1 DEF Arrived

\* One Write of a started sink: it is on its way to the place it belongs to, or
\* the sink is broken.
LEMMA OutWrites ==
    ASSUME OutInv, outPc \in {"row", "fence", "echo", "close", "abort"}, sink.out # "none",
           NEW t \in {"row", "fence", "echo", "close"}, NEW good \in {"run", "echo", "row", "close", "reap"},
           NEW bad \in {"abort", "reap"}, Out!Write(t, good, bad),
           UNCHANGED <<files, to, pager, spinner, outCancelled, outResult>>,
           t = "fence" => outPc = "fence", t = "close" => sink.fence,
           good = "reap" => t = "close"
    PROVE  OutInv'
PROOF
  <1>1. /\ files' = files /\ to' = to /\ pager' = pager /\ spinner' = spinner
        /\ outCancelled' = outCancelled /\ outResult' = outResult
    OBVIOUS
  <1>2. /\ t \in Bytes /\ to = Out!Target /\ outResult = "none" /\ ~spinner
        /\ sink.out = "pager" => pager.state # "none"
        /\ t = "fence" => ~sink.fence
        /\ sink.out \in {"dst", "pager"}
    BY SinkFields, OutTypesOf DEF OutInv, PlaceInv, MarkInv, FenceInv, Bytes
  <1>3. CASE /\ Out!Put(t, FALSE) /\ outPc' = good /\ written' = Append(written, t)
             /\ sink' = [sink EXCEPT !.fence = IF t = "row" \/ t = "echo" THEN sink.fence
                                               ELSE t = "fence"]
    <2>1. /\ sink' \in SinkStates /\ sink'.out = sink.out /\ sink'.quit = sink.quit
          /\ sink'.broken = sink.broken
          /\ t \in {"row", "echo"} => sink'.fence = sink.fence
          /\ t = "fence" => sink'.fence = TRUE
          /\ t = "close" => sink'.fence = FALSE
      <3>1. PICK b \in BOOLEAN : b = (IF t = "row" \/ t = "echo" THEN sink.fence ELSE t = "fence")
        <4>1. sink.fence \in BOOLEAN
          BY OutTypesOf, SinkFields
        <4> QED BY <4>1
      <3>2. sink' = [sink EXCEPT !.fence = b]
        BY <1>3, <3>1
      <3>3. /\ sink' \in SinkStates /\ sink'.out = sink.out /\ sink'.quit = sink.quit
            /\ sink'.broken = sink.broken /\ sink'.fence = b
        BY <3>2, OutTypesOf DEF SinkStates
      <3> QED BY <3>1, <3>3
    <2>2. /\ written' \in Seq(Bytes)
          /\ Out!Count(t)' = Out!Count(t) + 1
          /\ \A u : u # t => Out!Count(u)' = Out!Count(u)
      BY <1>2, <1>3, OutTypesOf, CountAppends, AppendProperties
    <2>3. FenceInv'
      <3>1. Out!Count("fence") \in Nat /\ Out!Count("close") \in Nat
        BY OutTypesOf, CountFacts
      <3>2. /\ Out!Count("fence") = Out!Count("close") + IF sink.fence THEN 1 ELSE 0
            /\ sink.fence \in BOOLEAN
        BY OutTypesOf, SinkFields DEF OutInv, FenceInv
      <3>3. Out!Count("fence")' = Out!Count("close")' + IF sink'.fence THEN 1 ELSE 0
        <4>1. CASE t \in {"row", "echo"}
          BY <2>1, <2>2, <3>2, <4>1
        <4>2. CASE t = "fence"
          BY <1>2, <2>1, <2>2, <3>1, <3>2, <4>2
        <4>3. CASE t = "close"
          BY <2>1, <2>2, <3>1, <3>2, <4>3
        <4> QED BY <4>1, <4>2, <4>3
      <3> QED BY <1>3, <2>1, <3>3 DEF FenceInv
    <2>4. CASE sink.out = "dst"
      <3>1. Out!Deliver(t, FALSE) /\ pipe' = pipe
        BY <1>3, <2>4 DEF Out!Put
      <3>2. /\ shown' \in Seq(Bytes \cup {"mark"}) /\ filed' \in Seq(Bytes)
            /\ \A i \in 2..Len(shown') : shown'[i] # "mark"
            /\ to # "file" => Out!Unmarked' = Append(Out!Unmarked, t)
            /\ to = "file" \/ (to = "both" /\ ~tee'.warned) =>
                 filed' = Append(filed, t) /\ (to = "both" => ~tee.warned)
            /\ tee' \in Tees /\ (tee'.file = 0 => tee' = NoTee)
            /\ tee'.file = tee.file /\ tee'.silent = tee.silent
        BY <1>2, <3>1, Delivers
      <3>3. OutTypes'
        BY <1>1, <1>2, <1>3, <2>1, <2>2, <2>4, <3>1, <3>2, OutTypesOf, OutTypesNext
      <3>4. to' = Out!Target'
        BY <1>1, <1>2, <3>2 DEF Out!Target
      <3>5. PlaceInv'
        BY <1>1, <1>2, <1>3, <2>1, <2>4, <3>1, <3>2, <3>4 DEF OutInv, PlaceInv
      <3>6. MarkInv'
        BY <1>1, <1>2, <3>2 DEF MarkInv
      <3>7. /\ to # "file" => Out!Unmarked = written
            /\ to = "file" \/ (to = "both" /\ ~tee.warned) => filed = written
        BY <2>4, ArrivedEmpty DEF OutInv, ArrivedInv
      <3>8. /\ to # "file" => Out!Unmarked' = written'
            /\ to = "file" \/ (to = "both" /\ ~tee'.warned) => filed' = written'
        BY <1>3, <3>2, <3>7
      <3>9. ArrivedInv'
        <4>1. Out!Unmarked' \o <<>> = Out!Unmarked' /\ filed' \o <<>> = filed'
          BY <3>2, UnmarkedNext, ConcatEmptySeq
        <4>2. Arrived(<<>>)'
          BY <1>1, <3>8, <4>1 DEF Arrived
        <4>3. pager'.state # "running"
          BY <1>1, <2>4, OutTypesOf
        <4> QED BY <1>1, <1>2, <1>3, <2>1, <2>4, <4>2, <4>3 DEF ArrivedInv
      <3> QED BY <2>3, <3>3, <3>5, <3>6, <3>9 DEF OutInv
    <2>5. CASE sink.out = "pager"
      <3>1. /\ shown' = shown /\ filed' = filed /\ tee' = tee /\ pager.state = "running"
            /\ Len(pipe) < MaxPipe /\ pipe' = Append(pipe, t)
        BY <1>3, <2>5 DEF Out!Put, Out!places
      <3>2. pipe' \in Seq(Bytes) /\ Len(pipe') <= MaxPipe
        <4>1. pipe' \in Seq(Bytes) /\ Len(pipe') = Len(pipe) + 1 /\ Len(pipe) \in Nat
          BY <1>2, <3>1, OutTypesOf, AppendProperties, LenProperties
        <4> QED BY <3>1, <4>1, OutConstants
      <3>3. OutTypes'
        BY <1>1, <1>2, <1>3, <2>1, <2>2, <2>5, <3>1, <3>2, OutTypesOf, OutTypesNext
      <3>4. to' = Out!Target'
        BY <1>1, <1>2, <3>1 DEF Out!Target
      <3>5. PlaceInv'
        BY <1>1, <1>2, <1>3, <2>1, <2>5, <3>1, <3>4 DEF OutInv, PlaceInv
      <3>6. MarkInv'
        BY <1>1, <1>2, <3>1 DEF OutInv, MarkInv
      <3>7. Arrived(pipe)'
        <4>1. Arrived(pipe)
          BY <3>1 DEF OutInv, ArrivedInv
        <4>2. /\ Out!Unmarked \o Append(pipe, t) = Append(Out!Unmarked \o pipe, t)
              /\ filed \o Append(pipe, t) = Append(filed \o pipe, t)
          <5>1. /\ Out!Unmarked \in Seq(Bytes) /\ filed \in Seq(Bytes) /\ pipe \in Seq(Bytes)
                /\ t \in Bytes
            BY <1>2, OutTypesOf, UnmarkedType
          <5>2. Out!Unmarked \o Append(pipe, t) = Append(Out!Unmarked \o pipe, t)
            BY <5>1, QueueGrows
          <5>3. filed \o Append(pipe, t) = Append(filed \o pipe, t)
            BY <5>1, QueueGrows
          <5> QED BY <5>2, <5>3
        <4>3. Out!Unmarked' = Out!Unmarked
          BY <3>1 DEF Out!Unmarked
        <4> QED BY <1>1, <1>3, <3>1, <4>1, <4>2, <4>3 DEF Arrived
      <3>8. ArrivedInv'
        BY <1>1, <1>2, <1>3, <2>1, <2>5, <3>7 DEF ArrivedInv
      <3> QED BY <2>3, <3>3, <3>5, <3>6, <3>8 DEF OutInv
    <2> QED BY <1>2, <2>4, <2>5
  <1>4. CASE /\ Out!Put(t, TRUE) /\ outPc' = bad /\ written' = written
             /\ sink' = [sink EXCEPT !.failed = TRUE, !.broken = TRUE]
    <2>1. /\ sink' \in SinkStates /\ sink'.out = sink.out /\ sink'.quit = sink.quit
          /\ sink'.broken = TRUE /\ sink'.fence = sink.fence
      BY <1>4, OutTypesOf DEF SinkStates
    <2>2. /\ shown' = shown /\ filed' = filed /\ tee' = tee /\ pipe' = pipe
          /\ sink.out = "pager" => pager.state = "gone"
      BY <1>2, <1>4, DeliveryFails DEF Out!Put, Out!places
    <2>3. OutTypes'
      BY <1>1, <1>2, <1>4, <2>1, <2>2, OutTypesOf, OutTypesNext
    <2>4. to' = Out!Target'
      BY <1>1, <1>2, <2>2 DEF Out!Target
    <2>5. PlaceInv' /\ MarkInv'
      BY <1>1, <1>2, <1>4, <2>1, <2>2, <2>4 DEF OutInv, PlaceInv, MarkInv
    <2>6. FenceInv'
      BY <1>4, <2>1 DEF OutInv, FenceInv, Out!Count
    <2>7. ArrivedInv'
      <3>1. Arrived(<<>>)' <=> Arrived(<<>>)
        BY <1>1, <1>4, <2>2 DEF Arrived, Out!Unmarked
      <3> QED BY <1>1, <1>2, <1>4, <2>1, <2>2, <3>1, OutTypesOf DEF OutInv, ArrivedInv
    <2> QED BY <2>3, <2>5, <2>6, <2>7 DEF OutInv
  <1> QED BY <1>3, <1>4 DEF Out!Write

\* The statement goes on without a byte.
LEMMA OutMoves ==
    ASSUME OutInv, outPc \notin {"prompt", "newline"}, outPc' \notin {"prompt", "newline"},
           outPc' \in {"run", "row", "start", "fence", "echo", "close", "reap", "abort"},
           UNCHANGED <<tee, files, to, pipe, outCancelled, written, shown, filed, outResult>>,
           sink' \in SinkStates, sink'.fence = sink.fence, sink'.broken = sink.broken,
           sink'.quit = sink.quit, sink'.out = sink.out,
           pager' \in Pagers,
           pager' = pager \/ (pager.state = "running" /\ pager'.state = "gone"
                              /\ (pager'.bad \/ pager'.quit)),
           spinner' \in BOOLEAN, spinner' => spinner /\ outPc' \in {"run", "start", "abort", "reap"},
           outPc' = "start" => sink.out = "none",
           outPc' \in {"fence", "echo", "row", "close"} => sink.out # "none",
           outPc' = "fence" => outPc = "fence",
           outPc' = "reap" => outPc = "reap" \/ ~sink.fence
    PROVE  OutInv'
PROOF
  <1>1. /\ tee' = tee /\ files' = files /\ to' = to /\ pipe' = pipe
        /\ outCancelled' = outCancelled /\ written' = written /\ shown' = shown
        /\ filed' = filed /\ outResult' = outResult
    OBVIOUS
  <1>2. OutTypes'
    <2>1. pager'.state # "none" => sink'.out = "pager"
      BY OutTypesOf
    <2> QED BY <1>1, <2>1, OutTypesOf, OutTypesNext
  <1>3. to = Out!Target /\ outResult = "none"
    BY DEF OutInv, PlaceInv
  <1>4. to' = Out!Target'
    BY <1>1, <1>3 DEF Out!Target
  <1>5. PlaceInv'
    BY <1>1, <1>3, <1>4 DEF OutInv, PlaceInv
  <1>6. MarkInv'
    BY <1>1 DEF OutInv, MarkInv
  <1>7. FenceInv'
    <2>1. sink.out = "none" => ~sink.fence
      BY OutTypesOf
    <2> QED BY <1>1, <2>1 DEF OutInv, FenceInv, Out!Count
  <1>8. ArrivedInv'
    <2>1. /\ Arrived(<<>>)' <=> Arrived(<<>>)
          /\ Arrived(pipe)' <=> Arrived(pipe)
      BY <1>1 DEF Arrived, Out!Unmarked
    <2> QED BY <1>1, <1>3, <2>1 DEF OutInv, ArrivedInv
  <1> QED BY <1>2, <1>5, <1>6, <1>7, <1>8 DEF OutInv

\* Nothing written counts nothing, now
LEMMA CountNone == ASSUME written = <<>>, NEW t PROVE Out!Count(t) = 0
PROOF
  <1>1. {i \in DOMAIN written : written[i] = t} = {}
    OBVIOUS
  <1>2. Out!Cardinality({}) = 0
    <2>1. \A S : Out!Cardinality(S) = Cardinality(S)
      BY DEF Out!Cardinality, Cardinality
    <2> QED BY <2>1, FS_EmptySet
  <1> QED BY <1>1, <1>2 DEF Out!Count

\* and after a step.
LEMMA CountNext == ASSUME written' = <<>>, NEW t PROVE Out!Count(t)' = 0
PROOF
  <1>1. {i \in DOMAIN written' : written'[i] = t} = {}
    OBVIOUS
  <1>2. Out!Cardinality({}) = 0
    <2>1. \A S : Out!Cardinality(S) = Cardinality(S)
      BY DEF Out!Cardinality, Cardinality
    <2> QED BY <2>1, FS_EmptySet
  <1> QED BY <1>1, <1>2 DEF Out!Count

\* The first sink, pager and tee.
LEMMA FirstRecords ==
    /\ Out!NewSink \in SinkStates /\ Out!NewSink.out = "none" /\ ~Out!NewSink.fence
    /\ ~Out!NewSink.broken /\ NoPager \in Pagers /\ NoPager.state = "none" /\ ~NoPager.bad
    /\ ~NoPager.quit
    /\ NoTee \in Tees /\ NoTee.file = 0
BY DEF Out!NewSink, SinkStates, NoPager, Out!NoPager, Pagers, NoTee, Out!NoTee, Tees

\* Before the first statement there is no file and no output.
LEMMA OutInit == Out!Init => OutInv
PROOF
  <1> SUFFICES ASSUME Out!Init PROVE OutInv
    OBVIOUS
  <1>1. /\ outPc = "prompt" /\ tee = NoTee /\ files = {} /\ to = "screen"
        /\ sink = Out!NewSink /\ pager = NoPager /\ pipe = <<>>
        /\ spinner = FALSE /\ outCancelled = FALSE
        /\ written = <<>> /\ shown = <<>> /\ filed = <<>> /\ outResult = "none"
    BY DEF Out!Init, NoTee, NoPager
  <1>2. OutTypes
    <2>1. Len(pipe) <= MaxPipe
      BY <1>1, OutConstants
    <2>2. /\ pager.state = "none" /\ tee.file = 0 /\ tee \in Tees /\ sink \in SinkStates
          /\ sink.out = "none" /\ ~sink.fence /\ pager \in Pagers
      BY <1>1, FirstRecords
    <2>3. <<>> \in Seq(Bytes) /\ <<>> \in Seq(Bytes \cup {"mark"})
      OBVIOUS
    <2>4. Out!TypeOK
      BY <1>1, <2>1, <2>2 DEF Out!TypeOK, NoTee
    <2> QED BY <1>1, <2>2, <2>3, <2>4 DEF OutTypes
  <1>3. FenceInv
    BY <1>1, CountNone, FirstRecords DEF FenceInv
  <1>4. Arrived(<<>>)
    <2>1. Out!Unmarked = <<>> /\ <<>> \in Seq(Bytes)
      BY <1>1 DEF Out!Unmarked
    <2>2. <<>> \o <<>> = <<>>
      BY <2>1, ConcatEmptySeq
    <2> QED BY <1>1, <2>1, <2>2 DEF Arrived
  <1>5. PlaceInv /\ MarkInv
    BY <1>1, FirstRecords DEF PlaceInv, MarkInv, NoPager
  <1>6. ArrivedInv
    BY <1>1, <1>4, FirstRecords DEF ArrivedInv
  <1> QED BY <1>2, <1>3, <1>5, <1>6 DEF OutInv

\* A new statement, or a meta command: nothing has been written.
LEMMA OutBegins ==
    ASSUME OutInv, Out!Begins, UNCHANGED <<pager, pipe>>,
           outPc' \in {"prompt", "run"}, spinner' \in BOOLEAN, outPc' = "prompt" => spinner' = FALSE,
           tee' \in Tees, tee'.file = 0 => tee' = NoTee, files' \subseteq {tee'.file},
           files' \subseteq Out!Opened, outPc' = "run" => tee' = tee
    PROVE  OutInv'
PROOF
  <1>1. /\ outPc = "prompt" /\ to' = Out!Target /\ sink' = Out!NewSink /\ outCancelled' = FALSE
        /\ written' = <<>> /\ shown' = <<>> /\ filed' = <<>> /\ outResult' = "none"
    BY DEF Out!Begins
  <1>2. pager' = NoPager /\ pipe' = <<>>
    BY <1>1 DEF OutInv, PlaceInv, NoPager
  <1>3. to' \in {"screen", "both", "file"}
    BY <1>1 DEF Out!Target
  <1>4. OutTypes'
    <2>1. Len(pipe') <= MaxPipe
      BY <1>2, OutConstants
    <2>2. pager'.state = "none" /\ pager' \in Pagers /\ sink' \in SinkStates /\ ~sink'.fence
      BY <1>1, <1>2, FirstRecords
    <2>3. <<>> \in Seq(Bytes) /\ <<>> \in Seq(Bytes \cup {"mark"})
      OBVIOUS
    <2> QED BY <1>1, <1>2, <1>3, <2>1, <2>2, <2>3, OutTypesNext
  <1>5. FenceInv'
    BY <1>1, CountNext, FirstRecords DEF FenceInv
  <1>6. Arrived(<<>>)'
    <2>1. Out!Unmarked' = <<>> /\ <<>> \in Seq(Bytes)
      BY <1>1 DEF Out!Unmarked
    <2>2. <<>> \o <<>> = <<>>
      BY <2>1, ConcatEmptySeq
    <2> QED BY <1>1, <2>1, <2>2 DEF Arrived
  <1>7. outPc' = "run" => to' = Out!Target'
    BY <1>1 DEF Out!Target
  <1>8. PlaceInv' /\ MarkInv'
    BY <1>1, <1>2, <1>7, FirstRecords DEF PlaceInv, MarkInv, NoPager
  <1>9. ArrivedInv'
    BY <1>1, <1>2, <1>6, FirstRecords DEF ArrivedInv
  <1> QED BY <1>4, <1>5, <1>8, <1>9 DEF OutInv

\* EnableTee, DisableTee and a new statement leave one file open at most.
LEMMA OutMeta ==
    ASSUME OutInv, Out!EnableTee \/ Out!DisableTee \/ Out!Execute
    PROVE  OutInv'
PROOF
  <1>1. tee \in Tees /\ (tee.file = 0 => tee = NoTee) /\ files \subseteq {tee.file}
        /\ files \subseteq Out!Opened
    BY OutTypesOf DEF OutInv, PlaceInv
  <1>2. Out!Previous = {}
    BY <1>1 DEF Out!Previous
  <1>3. CASE Out!EnableTee
    <2>1. /\ Out!Begins /\ UNCHANGED <<pager, pipe>> /\ outPc' = outPc /\ spinner' = spinner
      BY <1>3 DEF Out!EnableTee, Out!MetaCommand
    <2>2. outPc = "prompt" /\ ~spinner
      BY <2>1 DEF Out!Begins, OutInv, PlaceInv
    <2>3. PICK p \in Out!Opened \ {tee.file}, s \in BOOLEAN :
            \/ /\ tee' = [file |-> p, silent |-> s, warned |-> FALSE] /\ files' = {p}
            \/ files' = {} /\ tee' = NoTee
            \/ files' = {} /\ tee' = tee
      BY <1>2, <1>3 DEF Out!EnableTee, NoTee
    <2>4. /\ tee' \in Tees /\ (tee'.file = 0 => tee' = NoTee) /\ files' \subseteq {tee'.file}
          /\ files' \subseteq Out!Opened
      <3>1. CASE tee' = [file |-> p, silent |-> s, warned |-> FALSE] /\ files' = {p}
        <4>1. p \in Out!Opened /\ p # 0
          BY <2>3 DEF Out!Opened
        <4>2. tee' \in Tees /\ tee'.file = p
          BY <3>1, <4>1 DEF Tees
        <4> QED BY <3>1, <4>1, <4>2
      <3>2. CASE files' = {} /\ (tee' = NoTee \/ tee' = tee)
        BY <1>1, <3>2, FirstRecords
      <3> QED BY <2>3, <3>1, <3>2
    <2>5. outPc' = "prompt" /\ spinner' = FALSE
      BY <2>1, <2>2, OutTypesOf
    <2> QED BY <2>1, <2>4, <2>5, OutBegins
  <1>4. CASE Out!DisableTee
    <2>1. /\ Out!Begins /\ UNCHANGED <<pager, pipe>> /\ outPc' = outPc /\ spinner' = spinner
          /\ files' = {} /\ tee' = NoTee
      BY <1>2, <1>4 DEF Out!DisableTee, Out!MetaCommand, Out!Disabled, NoTee
    <2>2. outPc = "prompt" /\ ~spinner
      BY <2>1 DEF Out!Begins, OutInv, PlaceInv
    <2>3. outPc' = "prompt" /\ spinner' = FALSE
      BY <2>1, <2>2, OutTypesOf
    <2> QED BY <2>1, <2>3, FirstRecords, OutBegins
  <1>5. CASE Out!Execute
    <2>1. /\ Out!Begins /\ UNCHANGED <<pager, pipe>> /\ outPc' = "run" /\ spinner' \in BOOLEAN
          /\ tee' = tee /\ files' = files
      BY <1>5 DEF Out!Execute, Out!streams
    <2> QED BY <1>1, <2>1, OutBegins
  <1> QED BY <1>3, <1>4, <1>5

\* Row, Finish and Fails: what the sink will do next.
LEMMA OutRuns ==
    ASSUME OutInv, Out!Row \/ Out!Finish \/ Out!Fails
    PROVE  OutInv'
PROOF
  <1>1. /\ outPc = "run"
        /\ UNCHANGED <<tee, files, to, pipe, outCancelled, written, shown, filed, outResult, pager>>
    BY DEF Out!Row, Out!Finish, Out!Fails, Out!streams, Out!places
  <1>2. /\ sink \in SinkStates /\ pager \in Pagers /\ spinner \in BOOLEAN
        /\ spinner => sink.out = "none"
    BY OutTypesOf DEF OutInv, MarkInv
  <1>3. \/ sink' = sink
        \/ sink' = [sink EXCEPT !.failed = TRUE]
        \/ sink' = [sink EXCEPT !.then = "row"]
        \/ sink' = [sink EXCEPT !.then = "finish"]
    BY DEF Out!Row, Out!Finish, Out!Fails
  <1>4. /\ sink' \in SinkStates /\ sink'.fence = sink.fence /\ sink'.broken = sink.broken
        /\ sink'.quit = sink.quit /\ sink'.out = sink.out
    BY <1>2, <1>3 DEF SinkStates
  <1>5. /\ outPc' \in {"start", "row", "close", "abort"}
        /\ outPc' = "start" => sink.out = "none"
        /\ outPc' \in {"row", "close"} => sink.out # "none"
        /\ spinner' = FALSE \/ spinner' = spinner
    BY DEF Out!Row, Out!Finish, Out!Fails
  <1>6. spinner' \in BOOLEAN
    BY <1>2, <1>5
  <1>7. spinner' => spinner /\ outPc' \in {"run", "start", "abort", "reap"}
    BY <1>2, <1>5
  <1> QED BY <1>1, <1>2, <1>4, <1>5, <1>6, <1>7, OutMoves

\* A decoration that is not asked for.
LEMMA OutSkips ==
    ASSUME OutInv, outPc \in {"fence", "echo", "close", "abort"},
           outPc' \in {"echo", "row", "close", "reap"},
           outPc' # "reap" => sink.out # "none", outPc' = "reap" => ~sink.fence,
           UNCHANGED <<files, to, pager, spinner, outCancelled, outResult, sink, pipe, tee,
                       shown, filed, written>>
    PROVE  OutInv'
PROOF
  <1>1. sink \in SinkStates /\ pager \in Pagers /\ spinner \in BOOLEAN
        /\ (spinner => sink.out = "none")
    BY OutTypesOf DEF OutInv, MarkInv
  <1>2. sink' = sink /\ pager' = pager /\ spinner' = spinner
    OBVIOUS
  <1>3. spinner' \in BOOLEAN
    BY <1>1, <1>2
  <1>4. spinner' => spinner /\ outPc' \in {"run", "start", "abort", "reap"}
    BY <1>1, <1>2
  <1> QED BY <1>1, <1>2, <1>3, <1>4, OutMoves

\* The steps that may write one token.
LEMMA OutSteps ==
    ASSUME OutInv, Out!WriteRow \/ Out!Fence \/ Out!Echo \/ Out!Close \/ Out!Abort
    PROVE  OutInv'
PROOF
  <1>1. outPc \in {"fence", "echo", "row", "close"} => sink.out # "none"
    BY DEF OutInv, PlaceInv
  <1>2. sink.fence => sink.out # "none"
    BY OutTypesOf
  <1>3. Out!Started \in {"row", "close"} /\ Out!NotStarted \in {"abort", "reap"}
    BY DEF Out!Started, Out!NotStarted
  <1>4. CASE Out!WriteRow
    BY <1>1, <1>4, OutWrites DEF Out!WriteRow
  <1>5. CASE Out!Fence
    <2>1. outPc = "fence" /\ UNCHANGED <<files, to, pager, spinner, outCancelled, outResult>>
      BY <1>5 DEF Out!Fence
    <2>2. CASE Out!Write("fence", "echo", Out!NotStarted)
      BY <1>1, <1>3, <2>1, <2>2, OutWrites
    <2>3. CASE ~Out!Write("fence", "echo", Out!NotStarted)
      <3>1. outPc' = "echo" /\ UNCHANGED <<sink, pipe, tee, shown, filed, written>>
        BY <1>5, <2>3 DEF Out!Fence, Out!places
      <3> QED BY <1>1, <2>1, <3>1, OutSkips
    <2> QED BY <2>2, <2>3
  <1>6. CASE Out!Echo
    <2>1. outPc = "echo" /\ UNCHANGED <<files, to, pager, spinner, outCancelled, outResult>>
      BY <1>6 DEF Out!Echo
    <2>2. CASE Out!Write("echo", Out!Started, Out!NotStarted)
      <3>1. Out!Started # "reap"
        BY <1>3
      <3> QED BY <1>1, <1>3, <2>1, <2>2, <3>1, OutWrites
    <2>3. CASE ~Out!Write("echo", Out!Started, Out!NotStarted)
      <3>1. outPc' = Out!Started /\ UNCHANGED <<sink, pipe, tee, shown, filed, written>>
        BY <1>6, <2>3 DEF Out!Echo, Out!places
      <3> QED BY <1>1, <1>3, <2>1, <3>1, OutSkips
    <2> QED BY <2>2, <2>3
  <1>7. CASE Out!Close
    <2>1. outPc = "close" /\ UNCHANGED <<files, to, pager, spinner, outCancelled, outResult>>
      BY <1>7 DEF Out!Close
    <2>2. CASE sink.fence
      <3>1. Out!Write("close", "reap", "reap")
        BY <1>7, <2>2 DEF Out!Close, Out!CloseFailed
      <3> QED BY <1>1, <2>1, <2>2, <3>1, OutWrites
    <2>3. CASE ~sink.fence
      <3>1. outPc' = "reap" /\ UNCHANGED <<sink, pipe, tee, shown, filed, written>>
        BY <1>7, <2>3 DEF Out!Close, Out!places
      <3> QED BY <2>1, <2>3, <3>1, OutSkips
    <2> QED BY <2>2, <2>3
  <1>8. CASE Out!Abort
    <2>1. outPc = "abort" /\ UNCHANGED <<files, to, pager, spinner, outCancelled, outResult>>
      BY <1>8 DEF Out!Abort
    <2>2. CASE sink.fence
      <3>1. Out!Write("close", "reap", "reap")
        BY <1>8, <2>2 DEF Out!Abort, Out!OpenFence
      <3> QED BY <1>2, <2>1, <2>2, <3>1, OutWrites
    <2>3. CASE ~sink.fence
      <3>1. outPc' = "reap" /\ UNCHANGED <<sink, pipe, tee, shown, filed, written>>
        BY <1>8, <2>3 DEF Out!Abort, Out!OpenFence, Out!places
      <3> QED BY <2>1, <2>3, <3>1, OutSkips
    <2> QED BY <2>2, <2>3
  <1> QED BY <1>4, <1>5, <1>6, <1>7, <1>8

\* start joins the spinner and chooses the place of the bytes.
LEMMA OutStart == ASSUME OutInv, Out!Start PROVE OutInv'
PROOF
  <1>1. /\ outPc = "start" /\ spinner' = FALSE /\ tee' = tee /\ files' = files /\ to' = to
        /\ pipe' = pipe /\ outCancelled' = outCancelled /\ written' = written
        /\ shown' = shown /\ filed' = filed /\ outResult' = outResult
    BY DEF Out!Start, Out!Joined, Out!streams, Out!places
  <1>2. /\ sink \in SinkStates /\ pager \in Pagers /\ ~sink.fence /\ sink.out = "none"
        /\ to = Out!Target /\ outResult = "none" /\ pager.state = "none" /\ pipe = <<>>
    BY <1>1, OutTypesOf DEF OutInv, PlaceInv, FenceInv
  <1>3. Out!NotStarted \in {"abort", "reap"}
    BY DEF Out!NotStarted
  <1>4. CASE outPc' = Out!NotStarted /\ sink' = [sink EXCEPT !.failed = TRUE] /\ pager' = pager
    <2>1. /\ sink' \in SinkStates /\ sink'.fence = sink.fence /\ sink'.broken = sink.broken
          /\ sink'.quit = sink.quit /\ sink'.out = sink.out
      BY <1>2, <1>4 DEF SinkStates
    <2>2. spinner' \in BOOLEAN /\ ~spinner'
      BY <1>1
    <2> QED BY <1>1, <1>2, <1>3, <1>4, <2>1, <2>2, OutMoves
  <1>5. ASSUME outPc' = "fence", NEW o \in {"dst", "pager"}, sink' = [sink EXCEPT !.out = o],
               o = "dst" => pager' = pager,
               o = "pager" => pager' = [NoPager EXCEPT !.state = "running"]
        PROVE  OutInv'
    <2>1. /\ sink' \in SinkStates /\ sink'.fence = FALSE /\ sink'.out = o
          /\ sink'.broken = sink.broken /\ sink'.quit = sink.quit
      BY <1>2, <1>5 DEF SinkStates
    <2>2. /\ pager' \in Pagers /\ (o = "dst" => pager'.state = "none")
          /\ o = "pager" => pager'.state = "running"
      <3>1. CASE o = "dst"
        BY <1>2, <1>5, <3>1
      <3>2. CASE o = "pager"
        BY <1>5, <3>2 DEF NoPager, Out!NoPager, Pagers
      <3> QED BY <3>1, <3>2
    <2>3. OutTypes'
      <3>1. /\ spinner' \in BOOLEAN /\ (sink'.fence => sink'.out # "none")
            /\ pager'.state # "none" => sink'.out = "pager"
        BY <1>1, <2>1, <2>2
      <3> QED BY <1>1, <1>5, <2>1, <2>2, <3>1, OutTypesOf, OutTypesNext
    <2>4. to' = Out!Target'
      BY <1>1, <1>2 DEF Out!Target
    <2>5. PlaceInv'
      <3>1. pager'.state # "running" /\ ~pager'.bad => pager'.state = "none" \/ pager'.quit
        BY <2>2
      <3> QED BY <1>1, <1>2, <1>5, <2>1, <2>2, <2>4, <3>1 DEF OutInv, PlaceInv
    <2>6. MarkInv'
      BY <1>1 DEF OutInv, MarkInv
    <2>7. FenceInv'
      BY <1>1, <1>2, <1>5, <2>1 DEF OutInv, FenceInv, Out!Count
    <2>8. ArrivedInv'
      <3>1. Arrived(<<>>)
        BY <1>2 DEF OutInv, ArrivedInv
      <3>2. Arrived(<<>>)' /\ pipe' = <<>>
        BY <1>1, <1>2, <3>1 DEF Arrived, Out!Unmarked
      <3>3. Arrived(pipe)'
        BY <1>1, <1>2, <3>1 DEF Arrived, Out!Unmarked
      <3> QED BY <3>2, <3>3 DEF ArrivedInv
    <2> QED BY <2>3, <2>5, <2>6, <2>7, <2>8 DEF OutInv
  <1>6. \/ outPc' = Out!NotStarted /\ sink' = [sink EXCEPT !.failed = TRUE] /\ pager' = pager
        \/ outPc' = "fence" /\ sink' = [sink EXCEPT !.out = "dst"] /\ pager' = pager
        \/ /\ outPc' = "fence" /\ sink' = [sink EXCEPT !.out = "pager"]
           /\ pager' = [NoPager EXCEPT !.state = "running"]
    BY DEF Out!Start, NoPager
  <1> QED BY <1>4, <1>5, <1>6

\* A pager is reaped when it has read everything, or is gone.
LEMMA OutReap == ASSUME OutInv, Out!Reap PROVE OutInv'
PROOF
  <1>1. /\ outPc = "reap" /\ outPc' \in {"newline", "prompt"}
        /\ outPc' = "newline" => ~(pager.state = "gone" /\ pager.bad)
        /\ outResult' = IF outPc' = "prompt" THEN "error" ELSE outResult
        /\ pager' = NoPager /\ pipe' = <<>> /\ spinner' = FALSE
        /\ sink' = [sink EXCEPT !.quit = pager.quit]
        /\ tee' = tee /\ files' = files /\ to' = to /\ outCancelled' = outCancelled
        /\ written' = written /\ shown' = shown /\ filed' = filed
    BY DEF Out!Reap, Out!PagerFailed, NoPager, Out!streams, Out!places
  <1>2. /\ sink \in SinkStates /\ pager \in Pagers
        /\ to = Out!Target /\ outResult = "none"
    BY <1>1, OutTypesOf DEF OutInv, PlaceInv
  <1>3. /\ sink' \in SinkStates /\ sink'.quit = pager.quit /\ sink'.out = sink.out
        /\ sink'.fence = sink.fence /\ sink'.broken = sink.broken
    BY <1>1, <1>2 DEF SinkStates, Pagers
  <1>4. OutTypes'
    <2>1. /\ spinner' \in BOOLEAN /\ pager' \in Pagers /\ pager'.state = "none"
          /\ outResult' \in {"none", "ok", "error"} /\ (sink'.fence => sink'.out # "none")
      BY <1>1, <1>2, <1>3, OutTypesOf, FirstRecords
    <2>2. Len(pipe') <= MaxPipe /\ pipe' \in Seq(Bytes)
      BY <1>1, OutConstants
    <2> QED BY <1>1, <1>3, <2>1, <2>2, OutTypesOf, OutTypesNext
  <1>5. to' = Out!Target'
    BY <1>1, <1>2 DEF Out!Target
  <1>6. PlaceInv'
    BY <1>1, <1>2, <1>3, <1>5, FirstRecords DEF OutInv, PlaceInv, NoPager
  <1>7. MarkInv'
    BY <1>1 DEF OutInv, MarkInv
  <1>8. FenceInv'
    BY <1>1, <1>3 DEF OutInv, FenceInv, Out!Count
  <1>9. ArrivedInv'
    <2>1. Arrived(<<>>)' <=> Arrived(<<>>)
      BY <1>1 DEF Arrived, Out!Unmarked
    <2>2. outPc' = "newline" /\ ~sink'.quit => Arrived(<<>>)
      <3>1. CASE pager.state = "none"
        BY <1>1, <3>1 DEF OutInv, PlaceInv, ArrivedInv
      <3>2. CASE pager.state = "gone"
        BY <1>1, <1>3, <3>2 DEF OutInv, PlaceInv
      <3>3. CASE pager.state = "running"
        <4>1. pipe = <<>>
          BY <3>3 DEF Out!Reap
        <4> QED BY <3>3, <4>1 DEF OutInv, ArrivedInv
      <3>4. pager.state \in {"none", "running", "gone"}
        BY <1>2 DEF Pagers
      <3> QED BY <3>1, <3>2, <3>3, <3>4
    <2>3. outResult' # "ok" /\ pager'.state = "none"
      BY <1>1, <1>2, FirstRecords
    <2>4. sink'.out # "pager" => Arrived(<<>>)
      BY <1>3 DEF OutInv, ArrivedInv
    <2> QED BY <2>1, <2>2, <2>3, <2>4 DEF ArrivedInv
  <1> QED BY <1>4, <1>6, <1>7, <1>8, <1>9 DEF OutInv

\* The last newline follows everything else.
LEMMA OutNewline == ASSUME OutInv, Out!Newline PROVE OutInv'
PROOF
  <1>1. /\ outPc = "newline" /\ outPc' = "prompt" /\ files' = files /\ to' = to /\ sink' = sink
        /\ pager' = pager /\ pipe' = pipe /\ spinner' = spinner /\ outCancelled' = outCancelled
    BY DEF Out!Newline
  <1>2. /\ to = Out!Target /\ pager = NoPager /\ pipe = <<>> /\ ~spinner
        /\ files \subseteq {tee.file} /\ (~sink.fence \/ sink.broken)
        /\ ~sink.quit => Arrived(<<>>)
        /\ sink.out # "pager" => Arrived(<<>>)
        /\ "newline" \in Bytes
    BY <1>1 DEF OutInv, PlaceInv, FenceInv, ArrivedInv, NoPager, Bytes
  <1>3. CASE /\ outResult' \in {"ok", "error"} /\ written' = written
             /\ tee' = tee /\ shown' = shown /\ filed' = filed
    <2>1. OutTypes'
      <3>1. outResult' \in {"none", "ok", "error"}
        BY <1>3
      <3> QED BY <1>1, <1>3, <3>1, OutTypesOf, OutTypesNext
    <2>2. Arrived(<<>>)' <=> Arrived(<<>>)
      BY <1>1, <1>3 DEF Arrived, Out!Unmarked
    <2>3. PlaceInv' /\ MarkInv'
      BY <1>1, <1>2, <1>3 DEF OutInv, PlaceInv, MarkInv, NoPager
    <2>4. FenceInv'
      BY <1>1, <1>2, <1>3 DEF OutInv, FenceInv, Out!Count
    <2>5. ArrivedInv'
      BY <1>1, <1>2, <2>2, FirstRecords DEF ArrivedInv
    <2> QED BY <2>1, <2>3, <2>4, <2>5 DEF OutInv
  <1>4. CASE /\ outResult' = "ok" /\ written' = Append(written, "newline")
             /\ Out!Deliver("newline", FALSE)
    <2>1. /\ shown' \in Seq(Bytes \cup {"mark"}) /\ filed' \in Seq(Bytes)
          /\ \A i \in 2..Len(shown') : shown'[i] # "mark"
          /\ to # "file" => Out!Unmarked' = Append(Out!Unmarked, "newline")
          /\ to = "file" \/ (to = "both" /\ ~tee'.warned) =>
               filed' = Append(filed, "newline") /\ (to = "both" => ~tee.warned)
          /\ tee' \in Tees /\ (tee'.file = 0 => tee' = NoTee)
          /\ tee'.file = tee.file /\ tee'.silent = tee.silent
      BY <1>2, <1>4, Delivers
    <2>2. written' \in Seq(Bytes)
      BY <1>2, <1>4, OutTypesOf, AppendProperties
    <2>3. OutTypes'
      <3>1. outResult' \in {"none", "ok", "error"}
        BY <1>4
      <3> QED BY <1>1, <2>1, <2>2, <3>1, OutTypesOf, OutTypesNext
    <2>4. PlaceInv' /\ MarkInv'
      BY <1>1, <1>2, <2>1 DEF OutInv, PlaceInv, MarkInv, NoPager
    <2>5. FenceInv'
      <3>1. \A u : u # "newline" => Out!Count(u)' = Out!Count(u)
        BY <1>2, <1>4, OutTypesOf, CountAppends
      <3>2. Out!Count("fence")' = Out!Count("fence") /\ Out!Count("close")' = Out!Count("close")
        BY <3>1
      <3> QED BY <1>1, <1>2, <3>2 DEF OutInv, FenceInv
    <2>6. Arrived(<<>>) => Arrived(<<>>)'
      <3> SUFFICES ASSUME Arrived(<<>>) PROVE Arrived(<<>>)'
        OBVIOUS
      <3>1. /\ to # "file" => Out!Unmarked = written
            /\ to = "file" \/ (to = "both" /\ ~tee.warned) => filed = written
        BY ArrivedEmpty
      <3>2. /\ to # "file" => Out!Unmarked' = written'
            /\ to = "file" \/ (to = "both" /\ ~tee'.warned) => filed' = written'
        BY <1>4, <2>1, <3>1
      <3>3. Out!Unmarked' \in Seq(Bytes)
        BY <2>1, UnmarkedNext
      <3>4. Out!Unmarked' \o <<>> = Out!Unmarked' /\ filed' \o <<>> = filed'
        BY <2>1, <3>3, ConcatEmptySeq
      <3> QED BY <1>1, <3>2, <3>4 DEF Arrived
    <2>7. ArrivedInv'
      BY <1>1, <1>2, <2>6, FirstRecords DEF ArrivedInv
    <2> QED BY <2>3, <2>4, <2>5, <2>7 DEF OutInv
  <1>5. \/ /\ outResult' = "ok" /\ tee' = tee /\ shown' = shown /\ filed' = filed
           /\ written' = written
        \/ /\ outResult' = "error" /\ Out!Deliver("newline", TRUE) /\ written' = written
        \/ /\ outResult' = "ok" /\ written' = Append(written, "newline")
           /\ Out!Deliver("newline", FALSE)
    BY DEF Out!Newline, Out!places
  <1>6. Out!Deliver("newline", TRUE) => tee' = tee /\ shown' = shown /\ filed' = filed
    BY DeliveryFails
  <1> QED BY <1>3, <1>4, <1>5, <1>6

\* The spinner's mark is the first thing on the screen.
LEMMA OutMark == ASSUME OutInv, Out!Mark PROVE OutInv'
PROOF
  <1>1. /\ spinner /\ (shown # <<>> => shown[Len(shown)] # "mark")
        /\ shown' = Append(shown, "mark") /\ outPc' = outPc /\ tee' = tee /\ files' = files
        /\ to' = to /\ sink' = sink /\ pager' = pager /\ pipe' = pipe /\ spinner' = spinner
        /\ outCancelled' = outCancelled /\ written' = written /\ filed' = filed
        /\ outResult' = outResult
    BY DEF Out!Mark, Out!streams
  <1>2. /\ outPc \in {"run", "start", "abort", "reap"} /\ sink.out = "none"
        /\ Len(shown) <= 1 /\ (Len(shown) = 1 => shown[1] = "mark")
    BY <1>1 DEF OutInv, MarkInv
  <1>3. shown = <<>>
    <2>1. Len(shown) \in Nat
      BY OutTypesOf, LenProperties
    <2>2. Len(shown) = 0 \/ Len(shown) = 1
      <3>1. PICK n : n = Len(shown)
        OBVIOUS
      <3>2. n \in Nat /\ n <= 1
        BY <1>2, <2>1, <3>1
      <3>3. n = 0 \/ n = 1
        BY <3>2
      <3> QED BY <3>1, <3>3
    <2>3. Len(shown) # 1
      BY <1>1, <1>2, OutTypesOf, EmptySeq
    <2> QED BY <2>2, <2>3, OutTypesOf, EmptySeq
  <1>4. /\ shown' \in Seq(Bytes \cup {"mark"}) /\ Len(shown') = 1 /\ shown'[1] = "mark"
        /\ shown' # <<>>
    <2>1. "mark" \in Bytes \cup {"mark"} /\ <<>> \in Seq(Bytes \cup {"mark"})
      OBVIOUS
    <2>2. Len(<<>>) = 0
      OBVIOUS
    <2>3. /\ Append(<<>>, "mark") \in Seq(Bytes \cup {"mark"})
          /\ Len(Append(<<>>, "mark")) = 1 /\ Append(<<>>, "mark")[1] = "mark"
      BY <2>1, <2>2, AppendProperties
    <2> QED BY <1>1, <1>3, <2>2, <2>3
  <1>5. Out!Unmarked' = Out!Unmarked
    <2>1. Tail(shown') \in Seq(Bytes \cup {"mark"}) /\ Len(Tail(shown')) = 0
      BY <1>4, HeadTailProperties
    <2>2. Tail(shown') = <<>>
      BY <2>1, EmptySeq
    <2> QED BY <1>3, <1>4, <2>2 DEF Out!Unmarked
  <1>6. OutTypes'
    BY <1>1, <1>4, OutTypesOf, OutTypesNext
  <1>7. MarkInv'
    BY <1>1, <1>2, <1>4 DEF MarkInv
  <1>8. to = Out!Target => to' = Out!Target'
    BY <1>1 DEF Out!Target
  <1>9. PlaceInv' /\ FenceInv'
    BY <1>1, <1>8 DEF OutInv, PlaceInv, FenceInv, Out!Count
  <1>10. ArrivedInv'
    <2>1. (Arrived(<<>>)' <=> Arrived(<<>>)) /\ (Arrived(pipe)' <=> Arrived(pipe))
      BY <1>1, <1>5 DEF Arrived
    <2> QED BY <1>1, <2>1 DEF OutInv, ArrivedInv
  <1> QED BY <1>6, <1>7, <1>9, <1>10 DEF OutInv

\* A pager that runs has a statement that is not over.
LEMMA OutPaged ==
    ASSUME OutInv, pager.state = "running"
    PROVE  /\ outPc \notin {"prompt", "newline"} /\ sink.out = "pager" /\ to = Out!Target
           /\ outResult = "none" /\ Arrived(pipe)
PROOF
  <1>1. pager # NoPager
    BY FirstRecords
  <1>2. outPc \notin {"prompt", "newline"}
    BY <1>1 DEF OutInv, PlaceInv, NoPager
  <1> QED BY <1>2, OutTypesOf DEF OutInv, PlaceInv, ArrivedInv

\* What the pager reads reaches the captured writer in order.
LEMMA OutPagerReads == ASSUME OutInv, Out!PagerReads PROVE OutInv'
PROOF
  <1> DEFINE h == Head(pipe)
  <1>1. PICK f \in BOOLEAN :
          /\ Out!Deliver(h, f)
          /\ pager' = IF f THEN [pager EXCEPT !.state = "gone", !.bad = TRUE] ELSE pager
    BY DEF Out!PagerReads
  <1>2. /\ pager.state = "running" /\ pipe # <<>> /\ pipe' = Tail(pipe)
        /\ outPc' = outPc /\ files' = files /\ to' = to /\ sink' = sink /\ spinner' = spinner
        /\ outCancelled' = outCancelled /\ written' = written /\ outResult' = outResult
    BY DEF Out!PagerReads
  <1>3. /\ outPc \notin {"prompt", "newline"} /\ sink.out = "pager" /\ to = Out!Target
        /\ outResult = "none" /\ Arrived(pipe)
    BY <1>2, OutPaged
  <1>4. h \in Bytes /\ pipe' \in Seq(Bytes) /\ Len(pipe') <= MaxPipe
    <2>1. h \in Bytes /\ Tail(pipe) \in Seq(Bytes) /\ Len(Tail(pipe)) = Len(pipe) - 1
      BY <1>2, OutTypesOf, HeadTailProperties
    <2>2. Len(pipe) \in Nat /\ Len(pipe) <= MaxPipe
      BY OutTypesOf, LenProperties
    <2> QED BY <1>2, <2>1, <2>2, OutConstants
  <1>5. CASE f = FALSE
    <2>1. /\ shown' \in Seq(Bytes \cup {"mark"}) /\ filed' \in Seq(Bytes)
          /\ \A i \in 2..Len(shown') : shown'[i] # "mark"
          /\ to # "file" => Out!Unmarked' = Append(Out!Unmarked, h)
          /\ to = "file" \/ (to = "both" /\ ~tee'.warned) =>
               filed' = Append(filed, h) /\ (to = "both" => ~tee.warned)
          /\ tee' \in Tees /\ (tee'.file = 0 => tee' = NoTee)
          /\ tee'.file = tee.file /\ tee'.silent = tee.silent
      BY <1>1, <1>3, <1>4, <1>5, Delivers
    <2>2. pager' = pager
      BY <1>1, <1>5
    <2>3. OutTypes'
      BY <1>2, <1>4, <2>1, <2>2, OutTypesOf, OutTypesNext
    <2>4. to' = Out!Target'
      BY <1>2, <1>3, <2>1 DEF Out!Target
    <2>5. PlaceInv' /\ FenceInv'
      BY <1>2, <1>3, <2>1, <2>2, <2>4 DEF OutInv, PlaceInv, FenceInv, Out!Count
    <2>6. MarkInv'
      BY <1>2, <1>3, <2>1 DEF OutInv, MarkInv
    <2>7. Arrived(pipe)'
      <3>1. /\ Append(Out!Unmarked, h) \o Tail(pipe) = Out!Unmarked \o pipe
            /\ Append(filed, h) \o Tail(pipe) = filed \o pipe
        BY <1>2, OutTypesOf, UnmarkedType, QueueMoves
      <3> HIDE DEF h
      <3> QED BY <1>2, <1>3, <2>1, <3>1 DEF Arrived
    <2>8. ArrivedInv'
      BY <1>2, <1>3, <2>7 DEF ArrivedInv
    <2> QED BY <2>3, <2>5, <2>6, <2>8 DEF OutInv
  <1>6. CASE f = TRUE
    <2>1. shown' = shown /\ filed' = filed /\ tee' = tee
      BY <1>1, <1>6, DeliveryFails
    <2>2. pager' \in Pagers /\ pager'.state = "gone" /\ pager'.bad = TRUE
      BY <1>1, <1>6, OutTypesOf DEF Pagers
    <2>3. OutTypes'
      <3>1. pager'.state # "none" => sink'.out = "pager"
        BY <1>2, <1>3
      <3> QED BY <1>2, <1>4, <2>1, <2>2, <3>1, OutTypesOf, OutTypesNext
    <2>4. to' = Out!Target'
      BY <1>2, <1>3, <2>1 DEF Out!Target
    <2>5. PlaceInv' /\ FenceInv' /\ MarkInv'
      BY <1>2, <1>3, <2>1, <2>2, <2>4 DEF OutInv, PlaceInv, FenceInv, MarkInv, Out!Count
    <2>6. ArrivedInv'
      BY <1>2, <1>3, <2>2 DEF ArrivedInv
    <2> QED BY <2>3, <2>5, <2>6 DEF OutInv
  <1> QED BY <1>5, <1>6

\* The pager ends by itself, or is killed.
LEMMA OutPagerGone == ASSUME OutInv, Out!PagerEnds \/ Out!PagerKilled PROVE OutInv'
PROOF
  <1>1. /\ pager.state = "running" /\ outPc' = outPc /\ sink' = sink /\ spinner' = spinner
        /\ UNCHANGED <<tee, files, to, pipe, outCancelled, written, shown, filed, outResult>>
    BY DEF Out!PagerEnds, Out!PagerKilled, Out!streams, Out!places
  <1>2. pager' \in Pagers /\ pager'.state = "gone" /\ (pager'.bad \/ pager'.quit)
    <2>1. \/ \E b \in BOOLEAN : pager' = [state |-> "gone", quit |-> TRUE, bad |-> b]
          \/ pager' = [pager EXCEPT !.state = "gone", !.bad = TRUE]
      BY DEF Out!PagerEnds, Out!PagerKilled
    <2>2. CASE pager' = [pager EXCEPT !.state = "gone", !.bad = TRUE]
      BY <2>2, OutTypesOf DEF Pagers
    <2>3. CASE \E b \in BOOLEAN : pager' = [state |-> "gone", quit |-> TRUE, bad |-> b]
      <3>1. PICK b \in BOOLEAN : pager' = [state |-> "gone", quit |-> TRUE, bad |-> b]
        BY <2>3
      <3>2. pager'.state = "gone" /\ pager'.quit = TRUE
        BY <3>1
      <3>3. pager' \in Pagers
        BY <3>1 DEF Pagers
      <3> QED BY <3>2, <3>3
    <2> QED BY <2>1, <2>2, <2>3
  <1>3. outPc \notin {"prompt", "newline"} /\ sink.out = "pager"
    BY <1>1, OutPaged
  <1>4. /\ outPc \in {"run", "row", "start", "fence", "echo", "close", "reap", "abort"}
        /\ sink \in SinkStates /\ spinner \in BOOLEAN
        /\ spinner => outPc \in {"run", "start", "abort", "reap"}
        /\ outPc = "start" => sink.out = "none"
    BY <1>3, OutTypesOf DEF OutInv, MarkInv, PlaceInv
  <1>5. /\ spinner' \in BOOLEAN
        /\ spinner' => spinner /\ outPc' \in {"run", "start", "abort", "reap"}
    BY <1>1, <1>4
  <1> QED BY <1>1, <1>2, <1>3, <1>4, <1>5, OutMoves

\* Nothing but the context changes.
LEMMA OutStays ==
    ASSUME OutInv, outCancelled' \in BOOLEAN,
           UNCHANGED <<outPc, tee, files, to, sink, pager, pipe, spinner, written, shown, filed,
                       outResult>>
    PROVE  OutInv'
PROOF
  <1>1. OutTypes'
    BY OutTypesOf, OutTypesNext
  <1>2. MarkInv' /\ FenceInv'
    BY DEF OutInv, MarkInv, FenceInv, Out!Count
  <1>3. PlaceInv'
    BY DEF OutInv, PlaceInv, Out!Target
  <1>4. ArrivedInv'
    BY DEF OutInv, ArrivedInv, Arrived, Out!Unmarked
  <1> QED BY <1>1, <1>2, <1>3, <1>4 DEF OutInv

\* No step of the CLI, spinner, pager or user breaks the invariant.
LEMMA OutNext == OutInv /\ [Out!Next]_outVars => OutInv'
PROOF
  <1> SUFFICES ASSUME OutInv, [Out!Next]_outVars PROVE OutInv'
    OBVIOUS
  <1>1. CASE Out!EnableTee \/ Out!DisableTee \/ Out!Execute
    BY <1>1, OutMeta
  <1>2. CASE Out!Row \/ Out!Finish \/ Out!Fails
    BY <1>2, OutRuns
  <1>3. CASE Out!WriteRow \/ Out!Fence \/ Out!Echo \/ Out!Close \/ Out!Abort
    BY <1>3, OutSteps
  <1>4. CASE Out!Start
    BY <1>4, OutStart
  <1>5. CASE Out!Reap
    BY <1>5, OutReap
  <1>6. CASE Out!Newline
    BY <1>6, OutNewline
  <1>7. CASE Out!Mark
    BY <1>7, OutMark
  <1>8. CASE Out!PagerReads
    BY <1>8, OutPagerReads
  <1>9. CASE Out!PagerEnds \/ Out!PagerKilled
    BY <1>9, OutPagerGone
  <1>10. CASE Out!Cancel
    <2>1. /\ outCancelled' \in BOOLEAN
          /\ UNCHANGED <<outPc, tee, files, to, sink, pager, pipe, spinner, written, shown,
                         filed, outResult>>
      BY <1>10 DEF Out!Cancel, Out!streams, Out!places
    <2> QED BY <2>1, OutStays
  <1>11. CASE UNCHANGED outVars
    <2>1. /\ outCancelled' = outCancelled
          /\ UNCHANGED <<outPc, tee, files, to, sink, pager, pipe, spinner, written, shown,
                         filed, outResult>>
      BY <1>11 DEF outVars
    <2>2. outCancelled' \in BOOLEAN
      BY <2>1, OutTypesOf
    <2> QED BY <2>1, <2>2, OutStays
  <1> QED BY <1>1, <1>2, <1>3, <1>4, <1>5, <1>6, <1>7, <1>8, <1>9, <1>10, <1>11
          DEF Out!Next, Out!Cli

\* The properties TLC checks follow from the invariant.
LEMMA OutIsSound == OutInv => Out!OutputSound
PROOF
  <1> SUFFICES ASSUME OutInv PROVE Out!OutputSound
    OBVIOUS
  <1>1. Out!TypeOK
    BY DEF OutInv, OutTypes
  <1>2. Out!NoMarkAfterOutput
    <2> SUFFICES ASSUME NEW i \in 1..Len(shown), NEW j \in 1..Len(shown), i < j PROVE shown[j] # "mark"
      BY DEF Out!NoMarkAfterOutput
    <2>1. j \in 2..Len(shown)
      BY OutTypesOf, LenProperties
    <2> QED BY <2>1, OutTypesOf
  <1>3. Out!FenceBalanced
    <2>1. Out!Count("fence") \in Nat /\ Out!Count("close") \in Nat
      BY OutTypesOf, CountFacts
    <2> QED BY <2>1 DEF OutInv, FenceInv, Out!FenceBalanced
  <1>4. Out!WriteMeansShown
    BY ArrivedEmpty DEF OutInv, ArrivedInv, Out!WriteMeansShown
  <1>5. Out!OkMeansDelivered
    BY ArrivedEmpty DEF OutInv, ArrivedInv, Out!OkMeansDelivered
  <1>6. Out!NothingLeftRunning /\ Out!OneFileOpen
    BY DEF OutInv, PlaceInv, Out!NothingLeftRunning, Out!OneFileOpen
  <1> QED BY <1>1, <1>2, <1>3, <1>4, <1>5, <1>6 DEF Out!OutputSound

-----------------------------------------------------------------------------
\* A statement: one of the parts.

\* Each part's variables keep its invariant while another part runs.
StatementsInv == DmlInv /\ McpInv /\ TokenInv /\ PartInv /\ QueryInv /\ OutInv

\* Every step of a statement is a step of one part.
LEMMA StatementsMoves ==
    [StatementsNext]_allVars =>
        /\ [Next]_vars /\ [McpNext]_mcpVars /\ [Token!Next]_tokenVars /\ [Part!Next]_partVars
        /\ [Out!Next]_outVars
        /\ [part = "query" /\ Query!Next /\ part' = part]_queryVars
BY DEF StatementsNext, allVars

\* Every part starts with its invariant.
LEMMA StatementsInitInv == StatementsInit => StatementsInv
BY DmlInitHolds, McpInitHolds, TokenInit, PartInit, QueryInit, OutInit DEF StatementsInit, StatementsInv

\* Every part keeps its invariant, also while another part runs.
LEMMA StatementsNextInv == StatementsInv /\ [StatementsNext]_allVars => StatementsInv'
PROOF
  <1> SUFFICES ASSUME StatementsInv, [StatementsNext]_allVars PROVE StatementsInv'
    OBVIOUS
  <1>1. TokenInv' /\ PartInv' /\ OutInv'
    BY StatementsMoves, TokenNext, PartNext, OutNext DEF StatementsInv
  <1>2. QueryInv'
    BY StatementsMoves, QueryNext DEF StatementsInv
  <1>3. DmlInv'
    BY StatementsMoves, DmlTypeStep, DmlEffectsStep DEF StatementsInv, DmlInv, Effects
  <1>4. McpInv'
    BY StatementsMoves, McpStepHolds DEF StatementsInv
  <1> QED BY <1>1, <1>2, <1>3, <1>4 DEF StatementsInv

\* The inductive invariant of the parts of a statement.
THEOREM StatementsInvariance == StatementsSpec => []StatementsInv
BY StatementsInitInv, StatementsNextInv, PTL DEF StatementsSpec

\* A partitioned query answers with every row of every partition exactly when
\* it says so, leaves nothing reading, and a token runs its own query, on its own
\* database, while it is valid.
THEOREM PartitionsAreSound == StatementsSpec => []PartitionsSound
PROOF
  <1>1. TokenInv => Token!PartitionTokenSound
    BY DEF TokenInv
  <1>2. StatementsInv => PartitionsSound
    BY <1>1, PartIsSound DEF StatementsInv, PartitionsSound
  <1> QED BY <1>2, StatementsInvariance, PTL

\* One execution of a query is shown and all of it, with its own options, and
\* the journal has every answered query, whole, whatever aborts, retries and
\* failures come between.
THEOREM QueriesAreSound == StatementsSpec => []QuerySound
PROOF
  <1>1. StatementsInv => QuerySound
    BY QueryIsSound DEF StatementsInv, QuerySound
  <1> QED BY <1>1, StatementsInvariance, PTL

\* A query that is told to have succeeded has shown all its rows, and a query
\* that was not the owner's leaves the owner as it was.
THEOREM QueryStepsHold == StatementsSpec => QuerySteps
PROOF
  <1>1. StatementsInv /\ [StatementsNext]_allVars => [part = "query" => Query!QueryStep]_queryVars
    BY StatementsMoves, QueryStepHolds DEF StatementsInv
  <1> QED BY <1>1, StatementsInvariance, PTL DEF StatementsSpec, QuerySteps

\* What a statement wrote reaches the screen and the file, once, in order, and
\* neither spinner, pager, open fence nor old file is left behind.
THEOREM OutputIsSound == StatementsSpec => []OutputSound
PROOF
  <1>1. StatementsInv => OutputSound
    BY OutIsSound DEF StatementsInv, OutputSound
  <1> QED BY <1>1, StatementsInvariance, PTL

=============================================================================
