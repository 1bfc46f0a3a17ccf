--------------------------- MODULE SessionProofs ---------------------------
(***************************************************************************)
(* Theorems about MCSession, for every number of DDL statements, of        *)
(* clients, of schema versions and of flags: first those about             *)
(* DdlExecution - no statement takes effect twice, no cache misses a       *)
(* change, and what a request may do to the transaction, the batch and     *)
(* what the user is told -, then what holds of the client session and of   *)
(* the start and the end of a run.                                         *)
(***************************************************************************)
EXTENDS MCSession, TLAPS, FiniteSetTheorems

(***************************************************************************)
(* The inductive invariant.  That a statement takes effect once is a fact  *)
(* about what did happen; the reason is one about what still may: of all   *)
(* operations one at most can still run a statement or did run it, and no  *)
(* operation can while the statement is in the batch or in a request that  *)
(* is to be submitted.                                                     *)
(***************************************************************************)

\* The types of the records.
States == {"running", "ok"} \cup Failures
Owner == [mode: {"none", "pending", "rw", "ro"}, work: BOOLEAN, recovery: BOOLEAN,
          policy: Policies]
Batch == [mode: {"none", "ddl", "dml"}, ddls: Seq(Ids), dml: BOOLEAN]
Req == [ddls: Seq(Ids), mode: Modes, kind: BOOLEAN, phase: {"main", "alter", "suffix"},
        suffix: Seq(Ids), cur: Nat, first: Nat, bulk: BOOLEAN]
Op == [ddls: Seq(Ids), done: SUBSET Nat, state: States, known: BOOLEAN]
Outcome == [kind: {"none", "ok", "async", "handoff", "refused", "error", "phaseError"},
            toldCommit: BOOLEAN]

Shapes ==
    /\ TypeOK
    /\ owner \in Owner /\ batch \in Batch /\ req \in Req /\ ops \in Seq(Op)
    /\ outcome \in Outcome

\* Statements that were typed, each once.
Typed(s) == /\ \A i \in DOMAIN s : s[i] \in 1..typed
            /\ \A i, j \in DOMAIN s : s[i] = s[j] => i = j

Shares(s, t) == \E i \in DOMAIN s, j \in DOMAIN t : s[i] = t[j]

\* Statement i of operation o took effect, or still may.
Live(o, i) == i \in ops[o].done \/ ops[o].state = "running"

\* No statement of s lives in an operation other than c.
FreeBut(s, c) ==
    \A o \in DOMAIN ops, k \in DOMAIN s : o # c =>
       \A i \in DOMAIN ops[o].ddls : ops[o].ddls[i] = s[k] => ~Live(o, i)

\* An operation runs statements that were typed, or the repair's own.
OpsInv ==
    \A o \in DOMAIN ops :
       /\ ops[o].ddls = <<0>> \/ Typed(ops[o].ddls)
       /\ ops[o].done \subseteq DOMAIN ops[o].ddls
       /\ ops[o].state = "ok" => ops[o].done = DOMAIN ops[o].ddls

\* A typed statement lives in one place at most.
OnceInv ==
    \A o, p \in DOMAIN ops :
       \A i \in DOMAIN ops[o].ddls, j \in DOMAIN ops[p].ddls :
          /\ ops[o].ddls[i] = ops[p].ddls[j] /\ ops[o].ddls[i] # 0
          /\ Live(o, i) /\ Live(p, j)
          => o = p /\ i = j

\* The batch holds statements that live in no operation.
BatchInv == Typed(batch.ddls) /\ FreeBut(batch.ddls, 0)

\* The request has an operation.
Waiting == pc \in {"response", "poll", "sleep"}

\* Statement id took effect.
Took(id) == \E o \in DOMAIN ops : \E i \in ops[o].done : ops[o].ddls[i] = id

\* The request, phase by phase: which statements it has, that nobody else has
\* them, and which operation is its current one.
RequestInv ==
    /\ Typed(req.ddls) /\ Typed(req.suffix)
    /\ pc # "prompt" =>
         IF pc = "admit" /\ ~req.bulk /\ batch.ddls # <<>> THEN req.ddls = batch.ddls
         ELSE ~Shares(req.ddls, batch.ddls)
    /\ pc # "prompt" /\ req.phase = "main" => FreeBut(req.ddls, req.cur)
    /\ Waiting => /\ req.cur \in DOMAIN ops
                  /\ ops[req.cur].ddls = Statements /\ ops[req.cur].known
    /\ pc \in {"admit", "repair"} => req.phase = "main"
    /\ pc = "submit" /\ req.phase = "main" => req.cur = 0
    /\ pc = "admit" => req.cur = 0
    /\ pc = "repair" => \/ req.cur = 0
                        \/ /\ req.cur \in DOMAIN ops /\ ops[req.cur].ddls = req.ddls
                           /\ ops[req.cur].state = "missingKind"
    /\ req.phase # "main" =>
         /\ \A k \in DOMAIN req.suffix : \E l \in DOMAIN req.ddls : req.ddls[l] = req.suffix[k]
         /\ \A k \in DOMAIN req.ddls : Took(req.ddls[k]) \/ Shares(<<req.ddls[k]>>, req.suffix)
    /\ req.phase = "alter" \/ (req.phase = "suffix" /\ pc = "submit") => FreeBut(req.suffix, 0)

\* The client's copy of an outcome is the operation's.
SeenInv ==
    /\ pc = "sleep" => seen = "pending"
    /\ pc = "poll" /\ seen # "pending" => ops[req.cur].state = seen

\* There is no receipt before the admission.
ReceiptInv == pc \in {"prompt", "admit"} => ~committed

\* A cache is stale only while the client waits, and of the request's
\* operations only the current one can still change the schema.
StaleInv ==
    /\ ~Waiting => ~stale
    /\ pc # "prompt" =>
         \A o \in DOMAIN ops :
            o >= req.first /\ ops[o].known /\ (Waiting => o # req.cur) => ops[o].state # "running"

IInv == /\ Shapes /\ OpsInv /\ OnceInv /\ BatchInv /\ RequestInv /\ SeenInv /\ ReceiptInv
        /\ StaleInv

\* The values of the prompt have their types.
LEMMA NothingTyped ==
    /\ NoRequest \in Req /\ NoRequest.ddls = <<>> /\ NoRequest.suffix = <<>>
    /\ NoRequest.phase = "main" /\ NoRequest.cur = 0
    /\ NoBatch \in Batch /\ NoBatch.ddls = <<>> /\ NoBatch.mode = "none"
    /\ Idle \in Owner /\ Idle.mode = "none" /\ Idle.work = FALSE
BY DEF NoRequest, Req, NoBatch, Batch, Idle, Owner, Modes, Policies

\* A statement that was typed stays typed.
LEMMA TypedGrows ==
    ASSUME NEW s, Typed(s), typed \in Int, typed' \in Int, typed <= typed', s' = s
    PROVE  Typed(s)'
BY DEF Typed

\* An empty batch and an empty request ask for nothing.
LEMMA EmptyTyped == Typed(<<>>) /\ \A c : FreeBut(<<>>, c)
BY DEF Typed, FreeBut

\* Nothing is shared with, or done by, operations that stay as they are.
LEMMA FreeStays ==
    ASSUME NEW s, NEW c, FreeBut(s, c), ops' = ops, s' = s, c' = c
    PROVE  FreeBut(s, c)'
BY DEF FreeBut, Live

\* The invariants of the operations while the operations stay ...
LEMMA OpsStay ==
    ASSUME IInv, ops' = ops, typed' \in Nat, typed <= typed'
    PROVE  OpsInv' /\ OnceInv'
PROOF
  <1>1. typed \in Nat
    BY DEF IInv, Shapes, TypeOK
  <1>2. \A s : Typed(s) => /\ \A i \in DOMAIN s : s[i] \in 1..typed'
                           /\ \A i, j \in DOMAIN s : s[i] = s[j] => i = j
    BY <1>1 DEF Typed
  <1>3. OpsInv'
    BY <1>2 DEF IInv, OpsInv, Typed
  <1>4. OnceInv'
    BY DEF IInv, OnceInv, Live
  <1> QED BY <1>3, <1>4

\* ... and those of a batch that stays or is emptied.
LEMMA BatchStays ==
    ASSUME IInv, ops' = ops, typed' \in Nat, typed <= typed',
           batch'.ddls = batch.ddls \/ batch'.ddls = <<>>
    PROVE  BatchInv'
PROOF
  <1>1. typed \in Nat
    BY DEF IInv, Shapes, TypeOK
  <1>2. CASE batch'.ddls = batch.ddls
    BY <1>1, <1>2 DEF IInv, BatchInv, Typed, FreeBut, Live
  <1>3. CASE batch'.ddls = <<>>
    BY <1>3 DEF BatchInv, Typed, FreeBut
  <1> QED BY <1>2, <1>3

\* The end of a statement, with the caches told.
Ends == End(outcome'.kind, outcome'.toldCommit) /\ stale' = FALSE

\* With the request gone, its invariants ask nothing.
LEMMA EndsStep ==
    ASSUME IInv, Shapes', Ends, OpsInv', OnceInv', BatchInv'
    PROVE  IInv'
PROOF
  <1>1. pc' = "prompt" /\ req' = NoRequest /\ committed' = FALSE /\ seen' = "pending"
    BY DEF Ends, End
  <1>2. RequestInv'
    BY <1>1, NothingTyped, EmptyTyped DEF RequestInv, Typed, Waiting
  <1>3. SeenInv' /\ ReceiptInv' /\ StaleInv'
    BY <1>1 DEF SeenInv, ReceiptInv, StaleInv, Waiting, Ends
  <1> QED BY <1>2, <1>3 DEF IInv

\* ... and nothing else.
LEMMA RestsStep ==
    ASSUME IInv, Shapes', Ends, ops' = ops, typed' = typed,
           batch'.ddls = batch.ddls \/ batch'.ddls = <<>>
    PROVE  IInv'
PROOF
  <1>1. typed \in Nat /\ typed' \in Nat /\ typed <= typed'
    BY DEF IInv, Shapes, TypeOK
  <1> QED BY <1>1, OpsStay, BatchStays, EndsStep

\* The types after the end of a statement.
LEMMA EndsShapes ==
    ASSUME IInv, Ends,
           outcome'.kind \in {"ok", "async", "handoff", "refused", "error", "phaseError"},
           outcome'.toldCommit \in BOOLEAN,
           owner' \in Owner, owner'.mode = "none" => owner' = Idle,
           batch' \in Batch, batch'.mode # "ddl" => batch'.ddls = <<>>,
           typed' \in 0..MaxDdl,
           ops' = ops
    PROVE  Shapes'
PROOF
  <1>1. /\ pc' = "prompt" /\ req' = NoRequest /\ committed' = FALSE /\ seen' = "pending"
        /\ budget' = "none" /\ cancelled' = FALSE /\ stale' = FALSE
        /\ outcome' = [kind |-> outcome'.kind, toldCommit |-> outcome'.toldCommit]
    BY DEF Ends, End
  <1>2. TypeOK'
    BY <1>1, NothingTyped DEF IInv, Shapes, TypeOK, Owner, Batch
  <1>3. outcome' \in Outcome
    BY <1>1 DEF Outcome
  <1> QED BY <1>1, <1>2, <1>3, NothingTyped DEF IInv, Shapes

\* A prompt statement that leaves ops alone and ends.
LEMMA ReturnsStep ==
    ASSUME IInv, NEW k \in {"ok", "async", "handoff", "refused", "error", "phaseError"},
           NEW t \in BOOLEAN, End(k, t),
           stale' = FALSE,
           owner' \in Owner, owner'.mode = "none" => owner' = Idle,
           batch' = batch \/ (batch' \in Batch /\ batch'.ddls = <<>>),
           typed' = typed, ops' = ops
    PROVE  IInv'
PROOF
  <1>1. outcome'.kind = k /\ outcome'.toldCommit = t /\ Ends
    BY DEF End, Ends
  <1>2. batch' \in Batch /\ (batch'.mode # "ddl" => batch'.ddls = <<>>)
    BY DEF IInv, Shapes, TypeOK
  <1>3. typed' \in 0..MaxDdl
    BY DEF IInv, Shapes, TypeOK
  <1>4. Shapes'
    BY <1>1, <1>2, <1>3, EndsShapes
  <1> QED BY <1>1, <1>4, RestsStep

\* SET LOCAL, BEGIN, user work and the end of the owner ask no DDL.
LEMMA OwnerStep ==
    ASSUME IInv, SetLocalPolicy \/ Begin \/ UserWork \/ EndOwner
    PROVE  IInv'
PROOF
  <1>1. pc = "prompt" /\ End("ok", FALSE) /\ batch' = batch /\ typed' = typed /\ ops' = ops
        /\ stale' = stale
    BY DEF SetLocalPolicy, Begin, UserWork, EndOwner, Return
  <1>2. stale = FALSE /\ owner \in Owner
    BY <1>1 DEF IInv, StaleInv, Waiting, Shapes, TypeOK
  <1>3. owner' \in Owner /\ (owner'.mode = "none" => owner' = Idle)
    BY <1>2, NothingTyped DEF SetLocalPolicy, Begin, UserWork, EndOwner, Owner, IInv, Shapes
  <1> QED BY <1>1, <1>2, <1>3, ReturnsStep

\* The owner that stays has its type.
LEMMA SameOwner == IInv => owner \in Owner /\ (owner.mode = "none" => owner = Idle)
BY DEF IInv, Shapes, TypeOK

\* The batch statements that hold no DDL, and ABORT BATCH, which drops it.
LEMMA DmlBatchStep ==
    ASSUME IInv, StartBatchDML \/ BufferDML \/ AbortBatch
    PROVE  IInv'
PROOF
  <1>1. /\ pc = "prompt" /\ typed' = typed /\ ops' = ops /\ stale' = stale
        /\ \E k \in {"ok", "refused"} : End(k, FALSE)
    BY DEF StartBatchDML, BufferDML, AbortBatch, Return
  <1>2. stale = FALSE /\ batch \in Batch /\ (batch.mode # "ddl" => batch.ddls = <<>>)
    BY <1>1 DEF IInv, StaleInv, Waiting, Shapes, TypeOK
  <1>3. owner' \in Owner /\ (owner'.mode = "none" => owner' = Idle)
    BY SameOwner DEF StartBatchDML, BufferDML, AbortBatch, Owner, session
  <1>4. batch' = batch \/ (batch' \in Batch /\ batch'.ddls = <<>>)
    BY <1>2, NothingTyped DEF StartBatchDML, BufferDML, AbortBatch, NoBatch, Batch, session
  <1> QED BY <1>1, <1>2, <1>3, <1>4, ReturnsStep

\* A request is admitted next: its statements are typed, and no operation has
\* them.
LEMMA ExecuteStep ==
    ASSUME IInv, pc = "prompt", NEW ddls \in Seq(Ids), NEW bulk \in BOOLEAN,
           Execute(ddls, bulk),
           \A i \in DOMAIN ddls : ddls[i] \in 1..typed',
           \A i, j \in DOMAIN ddls : ddls[i] = ddls[j] => i = j,
           FreeBut(ddls, 0),
           IF ~bulk /\ batch.ddls # <<>> THEN ddls = batch.ddls ELSE ~Shares(ddls, batch.ddls),
           typed' \in 0..MaxDdl, typed <= typed',
           owner' = owner, ops' = ops, stale' = stale
    PROVE  IInv'
PROOF
  <1>1. PICK m \in Modes, k \in BOOLEAN, b \in {"left", "spent"} :
          /\ req' = [NoRequest EXCEPT !.ddls = ddls, !.mode = m, !.bulk = bulk,
                                      !.kind = k, !.first = Len(ops) + 1]
          /\ budget' = IF m = "ASYNC_WAIT" THEN b ELSE "none"
    BY DEF Execute
  <1>2. /\ pc' = "admit" /\ outcome' = [kind |-> "none", toldCommit |-> FALSE]
        /\ batch' = batch /\ committed' = committed /\ cancelled' = cancelled /\ seen' = seen
    BY DEF Execute
  <1>3. ops \in Seq(Op) /\ Len(ops) \in Nat
    BY DEF IInv, Shapes
  <1>4. /\ req' \in Req /\ req'.ddls = ddls /\ req'.suffix = <<>> /\ req'.phase = "main"
        /\ req'.cur = 0 /\ req'.bulk = bulk /\ req'.first = Len(ops) + 1
    <2> DEFINE f == Len(ops) + 1
    <2>1. req' = [ddls |-> ddls, mode |-> m, kind |-> k, phase |-> "main", suffix |-> <<>>,
                  cur |-> 0, first |-> f, bulk |-> bulk]
      BY <1>1 DEF NoRequest
    <2>2. f \in Nat /\ <<>> \in Seq(Ids)
      BY <1>3
    <2> HIDE DEF f
    <2>3. req' \in Req
      BY <2>1, <2>2 DEF Req
    <2> QED BY <2>1, <2>3 DEF f
  <1>5. Shapes'
    <2>1. TypeOK'
      BY <1>1, <1>2 DEF IInv, Shapes, TypeOK
    <2>2. outcome' \in Outcome
      BY <1>2 DEF Outcome
    <2> QED BY <1>2, <1>4, <2>1, <2>2 DEF IInv, Shapes
  <1>6. typed' \in Nat
    BY DdlAssumption
  <1>7. OpsInv' /\ OnceInv'
    BY <1>6, OpsStay
  <1>8. BatchInv'
    BY <1>2, <1>6, BatchStays
  <1>9. RequestInv'
    <2>1. Typed(req.ddls)' /\ Typed(req.suffix)'
      BY <1>4 DEF Typed
    <2>2. pc' # "prompt" =>
            IF pc' = "admit" /\ ~req'.bulk /\ batch'.ddls # <<>> THEN req'.ddls = batch'.ddls
            ELSE ~Shares(req'.ddls, batch'.ddls)
      BY <1>2, <1>4
    <2>3. FreeBut(req.ddls, req.cur)'
      BY <1>4 DEF FreeBut, Live
    <2> QED BY <1>2, <1>4, <2>1, <2>2, <2>3 DEF RequestInv, Waiting
  <1>10. stale = FALSE /\ ~committed
    BY DEF IInv, StaleInv, ReceiptInv, Waiting, Shapes, TypeOK
  <1>11. SeenInv' /\ ReceiptInv'
    BY <1>2, <1>10 DEF SeenInv, ReceiptInv, Waiting
  <1>12. StaleInv'
    BY <1>2, <1>3, <1>4, <1>10 DEF StaleInv, Waiting
  <1> QED BY <1>5, <1>7, <1>8, <1>9, <1>11, <1>12 DEF IInv

\* A statement that was not typed before is new to every operation, and to
\* the batch.
LEMMA NewStatement ==
    ASSUME IInv, NEW s, \A k \in DOMAIN s : s[k] \in Nat /\ s[k] > typed
    PROVE  FreeBut(s, 0) /\ ~Shares(s, batch.ddls)
PROOF
  <1>1. typed \in Nat
    BY DEF IInv, Shapes, TypeOK
  <1>2. \A o \in DOMAIN ops : \A i \in DOMAIN ops[o].ddls : ops[o].ddls[i] \in 0..typed
    <2> SUFFICES ASSUME NEW o \in DOMAIN ops, NEW i \in DOMAIN ops[o].ddls
                 PROVE  ops[o].ddls[i] \in 0..typed
      OBVIOUS
    <2>1. ops[o].ddls = <<0>> \/ Typed(ops[o].ddls)
      BY DEF IInv, OpsInv
    <2>2. CASE ops[o].ddls = <<0>>
      BY <1>1, <2>2
    <2>3. CASE Typed(ops[o].ddls)
      BY <1>1, <2>3 DEF Typed
    <2> QED BY <2>1, <2>2, <2>3
  <1>3. FreeBut(s, 0)
    BY <1>1, <1>2 DEF FreeBut
  <1>4. \A j \in DOMAIN batch.ddls : batch.ddls[j] \in 1..typed
    BY DEF IInv, BatchInv, Typed
  <1>5. ~Shares(s, batch.ddls)
    BY <1>1, <1>4 DEF Shares
  <1> QED BY <1>3, <1>5

\* A DDL statement is refused, goes to the end of the batch, or is a request of
\* its own.
LEMMA DdlStatementStep ==
    ASSUME IInv, Ddl
    PROVE  IInv'
PROOF
  <1>1. /\ pc = "prompt" /\ typed < MaxDdl /\ typed' = typed + 1 /\ typed \in 0..MaxDdl
        /\ owner' = owner /\ ops' = ops /\ stale' = stale
    BY DEF Ddl, IInv, Shapes, TypeOK
  <1>2. /\ stale = FALSE /\ batch \in Batch /\ (batch.mode # "ddl" => batch.ddls = <<>>)
        /\ typed \in Nat /\ typed' \in 1..MaxDdl /\ typed' \in Ids
    BY <1>1, DdlAssumption DEF IInv, StaleInv, Waiting, Shapes, TypeOK, Ids
  <1>3. typed' \in 0..MaxDdl
    BY <1>1, DdlAssumption
  <1>4. OpsInv' /\ OnceInv'
    BY <1>1, <1>2, OpsStay
  <1>5. CASE Return("refused") /\ batch' = batch
    <2>1. Ends /\ outcome'.kind = "refused" /\ outcome'.toldCommit = FALSE
      BY <1>1, <1>2, <1>5 DEF Return, End, Ends
    <2>2. Shapes'
      BY <1>1, <1>2, <1>3, <1>5, <2>1, SameOwner, EndsShapes
    <2>3. BatchInv'
      BY <1>1, <1>2, <1>5, BatchStays
    <2> QED BY <1>4, <2>1, <2>2, <2>3, EndsStep
  <1>6. CASE /\ batch.mode = "ddl" /\ Return("ok")
             /\ batch' = [batch EXCEPT !.ddls = Append(@, typed + 1)]
    <2> DEFINE s == batch.ddls
               n == <<typed + 1>>
               b == batch'.ddls
    <2>1. Ends /\ outcome'.kind = "ok" /\ outcome'.toldCommit = FALSE
      BY <1>1, <1>2, <1>6 DEF Return, End, Ends
    <2>2. s \in Seq(Ids) /\ Append(s, typed + 1) \in Seq(Ids)
      BY <1>1, <1>2 DEF Batch
    <2>3. batch' \in Batch /\ b = Append(s, typed + 1) /\ batch'.mode = "ddl"
      BY <1>2, <1>6, <2>2 DEF Batch
    <2>4. Shapes'
      BY <1>1, <1>2, <1>3, <2>1, <2>3, SameOwner, EndsShapes
    <2>5. Typed(s) /\ FreeBut(s, 0)
      BY DEF IInv, BatchInv
    <2>6. FreeBut(n, 0)
      <3>1. \A k \in DOMAIN n : n[k] \in Nat /\ n[k] > typed
        BY <1>2
      <3> QED BY <3>1, NewStatement
    <2>7. /\ DOMAIN b = 1..(Len(s) + 1) /\ Len(s) \in Nat /\ DOMAIN s = 1..Len(s)
          /\ \A k \in 1..Len(s) : b[k] = s[k]
          /\ b[Len(s) + 1] = typed + 1
      BY <2>2, <2>3
    <2>8. \A k \in DOMAIN b : (k \in DOMAIN s /\ b[k] = s[k]) \/ (k = Len(s) + 1 /\ b[k] = n[1])
      BY <2>7
    <2> HIDE DEF b, s
    <2>9. FreeBut(b, 0)
      BY <2>5, <2>6, <2>8 DEF FreeBut
    <2>10. (\A i \in DOMAIN b : b[i] \in 1..typed') /\ \A i, j \in DOMAIN b : b[i] = b[j] => i = j
      BY <1>1, <1>2, <2>5, <2>7, <2>8 DEF Typed
    <2>11. BatchInv'
      BY <1>1, <2>9, <2>10 DEF BatchInv, Typed, FreeBut, Live, b
    <2> QED BY <1>4, <2>1, <2>4, <2>11, EndsStep
  <1>7. CASE batch.mode = "none" /\ Execute(<<typed + 1>>, FALSE)
    <2>1. PICK ddls : ddls = <<typed + 1>>
      OBVIOUS
    <2>2. ddls \in Seq(Ids) /\ (\A i \in DOMAIN ddls : ddls[i] \in 1..typed')
          /\ \A i, j \in DOMAIN ddls : ddls[i] = ddls[j] => i = j
      BY <1>1, <1>2, <2>1
    <2>3. FreeBut(ddls, 0) /\ ~Shares(ddls, batch.ddls)
      <3>1. \A k \in DOMAIN ddls : ddls[k] \in Nat /\ ddls[k] > typed
        BY <1>2, <2>1
      <3> QED BY <3>1, NewStatement
    <2>4. batch.ddls = <<>>
      BY <1>2, <1>7
    <2>5. Execute(ddls, FALSE)
      BY <1>7, <2>1
    <2>6. typed' \in 0..MaxDdl /\ typed <= typed'
      BY <1>1, <1>2
    <2> QED BY <1>1, <2>2, <2>3, <2>4, <2>5, <2>6, ExecuteStep
  <1> QED BY <1>5, <1>6, <1>7 DEF Ddl

\* The DDL statements of a script are typed together and asked together.
LEMMA BulkDdlStep ==
    ASSUME IInv, BulkDdl
    PROVE  IInv'
PROOF
  <1>1. PICK n \in 1..2 :
          /\ typed + n <= MaxDdl
          /\ typed' = typed + n
          /\ \/ Return("refused") /\ UNCHANGED batch
             \/ Execute([i \in 1..n |-> typed + i], TRUE)
    BY DEF BulkDdl
  <1>2. /\ pc = "prompt" /\ typed \in Nat /\ typed' \in 0..MaxDdl /\ typed <= typed' /\ typed' \in Nat
        /\ owner' = owner /\ ops' = ops /\ stale' = stale
        /\ stale = FALSE /\ batch \in Batch /\ (batch.mode # "ddl" => batch.ddls = <<>>)
    BY <1>1, DdlAssumption DEF BulkDdl, IInv, StaleInv, Waiting, Shapes, TypeOK, Ids
  <1>3. OpsInv' /\ OnceInv'
    BY <1>1, <1>2, OpsStay
  <1>4. CASE Return("refused") /\ batch' = batch
    <2>1. Ends /\ outcome'.kind = "refused" /\ outcome'.toldCommit = FALSE
      BY <1>1, <1>2, <1>4 DEF Return, End, Ends
    <2>2. Shapes'
      BY <1>1, <1>2, <1>4, <2>1, SameOwner, EndsShapes
    <2>3. BatchInv'
      BY <1>1, <1>2, <1>4, BatchStays
    <2> QED BY <1>3, <2>1, <2>2, <2>3, EndsStep
  <1>5. CASE Execute([i \in 1..n |-> typed + i], TRUE)
    <2>1. PICK ddls : ddls = [i \in 1..n |-> typed + i]
      OBVIOUS
    <2>2. /\ DOMAIN ddls = 1..n /\ \A i \in 1..n : ddls[i] = typed + i /\ ddls[i] \in Ids
      <3>1. DOMAIN ddls = 1..n /\ \A i \in 1..n : ddls[i] = typed + i
        BY <2>1
      <3>2. \A i \in 1..n : typed + i \in 0..MaxDdl
        BY <1>1, <1>2, DdlAssumption
      <3> QED BY <3>1, <3>2 DEF Ids
    <2>3. ddls \in Seq(Ids)
      BY <2>1, <2>2
    <2>4. /\ \A i \in DOMAIN ddls : ddls[i] \in 1..typed'
          /\ \A i, j \in DOMAIN ddls : ddls[i] = ddls[j] => i = j
      BY <1>1, <1>2, <2>2
    <2>5. FreeBut(ddls, 0) /\ ~Shares(ddls, batch.ddls)
      <3>1. \A k \in DOMAIN ddls : ddls[k] \in Nat /\ ddls[k] > typed
        BY <1>2, <2>2
      <3> QED BY <3>1, NewStatement
    <2>6. Execute(ddls, TRUE)
      BY <1>5, <2>1
    <2> QED BY <1>1, <1>2, <2>3, <2>4, <2>5, <2>6, ExecuteStep
  <1> QED BY <1>1, <1>4, <1>5

\* What the admission of DDL may answer.
LEMMA AdmissionFacts ==
    ASSUME IInv, NEW a \in Admissions
    PROVE  /\ a.owner \in Owner /\ (a.owner.mode = "none" => a.owner = Idle)
           /\ a.committed \in BOOLEAN /\ a.verdict \in {"admitted", "refused", "error"}
           /\ owner.work /\ a.owner = Idle => a.committed \/ a.verdict = "error"
PROOF
  <1>1. owner \in Owner /\ (owner.mode = "none" => owner = Idle) /\ Idle \in Owner
        /\ Idle.mode = "none" /\ Idle.work = FALSE
    BY SameOwner, NothingTyped
  <1> DEFINE stays(v) == [verdict |-> v, owner |-> owner, committed |-> FALSE]
             ends(v, c) == [verdict |-> v, owner |-> Idle, committed |-> c]
             recovers == [verdict |-> "error", committed |-> FALSE,
                          owner |-> [owner EXCEPT !.recovery = TRUE]]
  <1>2. owner.mode \in {"none", "pending", "rw", "ro"} /\ owner.policy \in Policies
        /\ owner.work \in BOOLEAN /\ owner.recovery \in BOOLEAN
    BY <1>1 DEF Owner
  <1>3. \/ a \in {stays("refused"), stays("admitted"), ends("admitted", TRUE), ends("error", FALSE)}
        \/ a = ends("admitted", FALSE) /\ ~owner.work
        \/ a = recovers /\ owner.mode = "rw"
    <2>1. CASE owner.mode = "none"
      BY <2>1 DEF Admissions
    <2>2. CASE owner.mode = "ro" \/ owner.recovery
      <3>1. owner.mode # "none"
        BY <1>1, <2>2 DEF Idle
      <3> QED BY <2>2, <3>1 DEF Admissions
    <2>3. CASE owner.mode = "pending" /\ ~owner.recovery
      BY <1>2, <2>3 DEF Admissions, Empty, Policies
    <2>4. CASE owner.mode = "rw" /\ ~owner.recovery
      BY <1>2, <2>4 DEF Admissions, Empty, Policies
    <2> QED BY <1>2, <2>1, <2>2, <2>3, <2>4
  <1>4. CASE a = recovers /\ owner.mode = "rw"
    BY <1>1, <1>4 DEF Owner
  <1>5. CASE a \in {stays("refused"), stays("admitted")}
    <2>1. a.owner = owner /\ a.committed = FALSE /\ a.verdict \in {"admitted", "refused"}
      BY <1>5
    <2>2. ~(owner.work /\ owner = Idle)
      BY <1>1
    <2> QED BY <1>1, <2>1, <2>2
  <1>6. CASE a = ends("admitted", FALSE) /\ ~owner.work
    BY <1>1, <1>6
  <1>7. CASE a = ends("admitted", TRUE)
    <2>1. a.owner = Idle /\ a.committed = TRUE /\ a.verdict = "admitted"
      BY <1>7
    <2> QED BY <1>1, <2>1
  <1>8. CASE a = ends("error", FALSE)
    <2>1. a.owner = Idle /\ a.committed = FALSE /\ a.verdict = "error"
      BY <1>8
    <2> QED BY <1>1, <2>1
  <1> QED BY <1>3, <1>4, <1>5, <1>6, <1>7, <1>8

\* RUN BATCH ends at once, or asks for the statements of the batch, which
\* keeps them until they are admitted.
LEMMA RunBatchStep ==
    ASSUME IInv, RunBatch
    PROVE  IInv'
PROOF
  <1>1. /\ pc = "prompt" /\ typed' = typed /\ ops' = ops /\ stale' = stale
    BY DEF RunBatch
  <1>2. /\ stale = FALSE /\ batch \in Batch /\ (batch.mode # "ddl" => batch.ddls = <<>>)
        /\ typed \in 0..MaxDdl /\ typed \in Nat
    BY <1>1 DEF IInv, StaleInv, Waiting, Shapes, TypeOK
  <1>3. owner \in Owner /\ (owner.mode = "none" => owner = Idle) /\ Idle \in Owner /\ Idle.mode = "none"
        /\ NoBatch \in Batch /\ NoBatch.ddls = <<>>
    BY SameOwner, NothingTyped
  <1>4. CASE Return("refused") /\ owner' = owner /\ batch' = batch
    BY <1>1, <1>2, <1>3, <1>4, ReturnsStep DEF Return
  <1>5. CASE batch.mode = "dml" /\ RunDML
    <2>1. PICK k \in {"ok", "error"} : End(k, FALSE)
      BY <1>5 DEF RunDML, Return
    <2>2. owner' \in Owner /\ (owner'.mode = "none" => owner' = Idle)
      BY <1>3, <1>5 DEF RunDML, Owner
    <2>3. batch' = NoBatch
      BY <1>5 DEF RunDML
    <2> QED BY <1>1, <1>2, <1>3, <2>1, <2>2, <2>3, ReturnsStep
  <1>6. CASE batch.ddls = <<>> /\ owner' = owner /\ Return("ok") /\ batch' = NoBatch
    BY <1>1, <1>2, <1>3, <1>6, ReturnsStep DEF Return
  <1>7. CASE batch.ddls # <<>> /\ owner' = owner /\ Execute(batch.ddls, FALSE)
    <2>1. PICK ddls : ddls = batch.ddls
      OBVIOUS
    <2>2. ddls \in Seq(Ids) /\ Execute(ddls, FALSE)
      BY <1>2, <1>7, <2>1 DEF Batch
    <2>3. /\ \A i \in DOMAIN ddls : ddls[i] \in 1..typed'
          /\ \A i, j \in DOMAIN ddls : ddls[i] = ddls[j] => i = j
          /\ FreeBut(ddls, 0)
      BY <1>1, <2>1 DEF IInv, BatchInv, Typed
    <2>4. IF ~FALSE /\ batch.ddls # <<>> THEN ddls = batch.ddls ELSE ~Shares(ddls, batch.ddls)
      BY <1>7, <2>1
    <2>5. typed' \in 0..MaxDdl /\ typed <= typed'
      BY <1>1, <1>2
    <2> QED BY <1>1, <1>7, <2>2, <2>3, <2>4, <2>5, ExecuteStep
  <1> QED BY <1>4, <1>5, <1>6, <1>7 DEF RunBatch, session

\* START BATCH DDL is admitted before there is a batch.
LEMMA StartBatchDDLStep ==
    ASSUME IInv, StartBatchDDL
    PROVE  IInv'
PROOF
  <1>1. /\ pc = "prompt" /\ typed' = typed /\ ops' = ops /\ stale' = stale
    BY DEF StartBatchDDL
  <1>2. /\ stale = FALSE /\ batch \in Batch
    BY <1>1 DEF IInv, StaleInv, Waiting, Shapes, TypeOK
  <1>3. CASE batch.mode # "none"
    <2>1. End("refused", FALSE) /\ owner' = owner /\ batch' = batch
      BY <1>3 DEF StartBatchDDL, Return, session
    <2> QED BY <1>1, <1>2, <2>1, SameOwner, ReturnsStep
  <1>4. CASE batch.mode = "none"
    <2>1. PICK a \in Admissions :
            /\ owner' = a.owner
            /\ IF a.verdict = "admitted"
               THEN Return("ok") /\ batch' = [NoBatch EXCEPT !.mode = "ddl"]
               ELSE Return(a.verdict) /\ UNCHANGED batch
      BY <1>4 DEF StartBatchDDL
    <2>2. owner' \in Owner /\ (owner'.mode = "none" => owner' = Idle)
      BY <2>1, AdmissionFacts
    <2>3. PICK k \in {"ok", "refused", "error"} : End(k, FALSE)
      BY <2>1, AdmissionFacts DEF Return
    <2>4. batch' = batch \/ (batch' \in Batch /\ batch'.ddls = <<>>)
      BY <2>1, NothingTyped DEF Batch, NoBatch
    <2> QED BY <1>1, <1>2, <2>2, <2>3, <2>4, ReturnsStep
  <1> QED BY <1>3, <1>4

\* The admitted request has its statements for itself: they leave the batch.
LEMMA AdmitRequestStep ==
    ASSUME IInv, AdmitRequest
    PROVE  IInv'
PROOF
  <1>1. /\ pc = "admit" /\ typed' = typed /\ ops' = ops /\ stale' = stale
    BY DEF AdmitRequest
  <1>2. /\ stale = FALSE /\ batch \in Batch /\ typed \in Nat /\ typed' \in Nat /\ typed <= typed'
    BY <1>1 DEF IInv, StaleInv, Waiting, Shapes, TypeOK
  <1>3. CASE batch.mode = "dml"
    <2>1. End("refused", FALSE) /\ owner' = owner /\ batch' = batch
      BY <1>3 DEF AdmitRequest, Return, session
    <2> QED BY <1>1, <1>2, <2>1, SameOwner, ReturnsStep
  <1>4. CASE batch.mode # "dml"
    <2>1. PICK a \in Admissions :
            /\ owner' = a.owner
            /\ IF a.verdict = "admitted"
                 THEN /\ Continue("submit") /\ committed' = a.committed
                      /\ batch' = (IF req.bulk THEN batch ELSE NoBatch)
                      /\ UNCHANGED <<req, wait>>
                 ELSE Return(a.verdict) /\ UNCHANGED batch
      BY <1>4 DEF AdmitRequest
    <2>2. owner' \in Owner /\ (owner'.mode = "none" => owner' = Idle) /\ a.committed \in BOOLEAN
      BY <2>1, AdmissionFacts
    <2>3. CASE a.verdict # "admitted"
      <3>1. PICK k \in {"refused", "error"} : End(k, FALSE)
        BY <2>1, <2>3, AdmissionFacts DEF Return
      <3> QED BY <1>1, <1>2, <2>1, <2>2, <2>3, <3>1, ReturnsStep
    <2>4. CASE a.verdict = "admitted"
      <3>1. /\ pc' = "submit" /\ outcome' = outcome /\ committed' = a.committed
            /\ batch' = (IF req.bulk THEN batch ELSE NoBatch)
            /\ req' = req /\ budget' = budget /\ cancelled' = cancelled /\ seen' = seen
        BY <2>1, <2>4 DEF Continue, wait
      <3>2. batch' \in Batch /\ (batch'.ddls = batch.ddls \/ batch'.ddls = <<>>)
            /\ (batch'.mode # "ddl" => batch'.ddls = <<>>)
        BY <1>2, <3>1, NothingTyped DEF IInv, Shapes, TypeOK
      <3>3. Shapes'
        <4>1. TypeOK'
          BY <1>1, <1>2, <2>2, <3>1, <3>2 DEF IInv, Shapes, TypeOK, Owner, Batch
        <4> QED BY <1>1, <2>2, <3>1, <3>2, <4>1 DEF IInv, Shapes
      <3>4. OpsInv' /\ OnceInv'
        BY <1>1, <1>2, OpsStay
      <3>5. BatchInv'
        BY <1>1, <1>2, <3>2, BatchStays
      <3>6. /\ req.phase = "main" /\ req.cur = 0
            /\ Typed(req.ddls) /\ Typed(req.suffix) /\ FreeBut(req.ddls, req.cur)
            /\ IF ~req.bulk /\ batch.ddls # <<>> THEN req.ddls = batch.ddls
               ELSE ~Shares(req.ddls, batch.ddls)
        BY <1>1 DEF IInv, RequestInv
      <3>7. ~Shares(req'.ddls, batch'.ddls)
        BY <3>1, <3>6, NothingTyped DEF Shares
      <3>8. RequestInv'
        BY <1>1, <3>1, <3>6, <3>7 DEF RequestInv, Waiting, Typed, FreeBut, Live
      <3>9. SeenInv' /\ ReceiptInv'
        BY <3>1 DEF SeenInv, ReceiptInv, Waiting
      <3>10. StaleInv'
        BY <1>1, <3>1 DEF IInv, StaleInv, Waiting
      <3> QED BY <3>3, <3>4, <3>5, <3>8, <3>9, <3>10 DEF IInv
    <2> QED BY <2>3, <2>4
  <1> QED BY <1>3, <1>4

\* What is submitted: statements that live in no operation, and that the
\* batch does not have.
LEMMA SubmitFacts ==
    ASSUME IInv, pc = "submit"
    PROVE  /\ Statements \in Seq(Ids)
           /\ Statements = <<0>> \/ (Typed(Statements) /\ FreeBut(Statements, 0))
           /\ ~Shares(Statements, batch.ddls)
           /\ req.phase = "alter" => Statements = <<0>>
           /\ req.phase # "alter" => Typed(Statements) /\ FreeBut(Statements, 0)
PROOF
  <1>1. req \in Req /\ ~Shares(req.ddls, batch.ddls) /\ Typed(batch.ddls) /\ typed \in Nat
    BY DEF IInv, Shapes, TypeOK, RequestInv, BatchInv
  <1>2. req.phase \in {"main", "alter", "suffix"}
    BY <1>1 DEF Req
  <1>3. CASE req.phase = "main"
    <2>1. Statements = req.ddls
      BY <1>3 DEF Statements
    <2>2. Typed(req.ddls) /\ FreeBut(req.ddls, 0)
      BY <1>3 DEF IInv, RequestInv
    <2> QED BY <1>1, <1>3, <2>1, <2>2 DEF Req
  <1>4. CASE req.phase = "alter"
    <2>1. Statements = <<0>>
      BY <1>4 DEF Statements
    <2>2. ~Shares(<<0>>, batch.ddls)
      BY <1>1 DEF Shares, Typed
    <2>3. <<0>> \in Seq(Ids)
      BY DdlAssumption DEF Ids
    <2> QED BY <1>4, <2>1, <2>2, <2>3
  <1>5. CASE req.phase = "suffix"
    <2>1. Statements = req.suffix
      BY <1>5 DEF Statements
    <2>2. Typed(req.suffix) /\ FreeBut(req.suffix, 0)
      BY <1>5 DEF IInv, RequestInv
    <2>3. \A k \in DOMAIN req.suffix : \E l \in DOMAIN req.ddls : req.ddls[l] = req.suffix[k]
      BY <1>5 DEF IInv, RequestInv
    <2>4. ~Shares(req.suffix, batch.ddls)
      BY <1>1, <2>3 DEF Shares
    <2> QED BY <1>1, <1>5, <2>1, <2>2, <2>4 DEF Req
  <1> QED BY <1>2, <1>3, <1>4, <1>5

\* The accepted operation is the last one, and the others stay.
LEMMA AppendFacts ==
    ASSUME IInv, pc = "submit", NEW b \in BOOLEAN, ops' = Append(ops, Request(b))
    PROVE  LET n == Len(ops) + 1 IN
           /\ ops' \in Seq(Op) /\ Len(ops') = n /\ DOMAIN ops' = 1..n /\ DOMAIN ops = 1..Len(ops)
           /\ n \in DOMAIN ops' /\ n \notin DOMAIN ops /\ DOMAIN ops' = DOMAIN ops \cup {n}
           /\ \A o \in DOMAIN ops : ops'[o] = ops[o]
           /\ ops'[n].ddls = Statements /\ ops'[n].done = {} /\ ops'[n].state = "running"
           /\ ops'[n].known = b
           /\ n \in Nat
PROOF
  <1> DEFINE n == Len(ops) + 1
             r == Request(b)
  <1>1. ops \in Seq(Op) /\ Len(ops) \in Nat /\ DOMAIN ops = 1..Len(ops)
    BY DEF IInv, Shapes
  <1>2. /\ r.ddls = Statements /\ r.done = {} /\ r.state = "running" /\ r.known = b
        /\ r \in Op
    BY SubmitFacts DEF Request, Op, States
  <1> HIDE DEF r
  <1>3. ops' = Append(ops, r)
    BY DEF r
  <1>4. /\ ops' \in Seq(Op) /\ Len(ops') = n /\ DOMAIN ops' = 1..n
        /\ \A o \in DOMAIN ops : ops'[o] = ops[o]
        /\ ops'[n] = r
    BY <1>1, <1>2, <1>3
  <1> QED BY <1>1, <1>2, <1>4

\* The operation that is accepted next lives for its own statements.
LEMMA AppendsStep ==
    ASSUME IInv, pc = "submit", NEW b \in BOOLEAN, ops' = Append(ops, Request(b)),
           typed' = typed, batch' = batch
    PROVE  /\ OpsInv' /\ OnceInv' /\ BatchInv'
           /\ \A s, c : FreeBut(s, c) /\ (c = Len(ops) + 1 \/ ~Shares(s, Statements)) =>
                 \A o \in DOMAIN ops', k \in DOMAIN s : o # c =>
                    \A i \in DOMAIN ops'[o].ddls : ops'[o].ddls[i] = s[k] => ~Live(o, i)'
           /\ \A id : Took(id) => \E o \in DOMAIN ops' : \E i \in ops'[o].done : ops'[o].ddls[i] = id
PROOF
  <1> DEFINE n == Len(ops) + 1
             s == Statements
  <1>1. /\ n \in DOMAIN ops' /\ n \notin DOMAIN ops /\ DOMAIN ops' = DOMAIN ops \cup {n}
        /\ \A o \in DOMAIN ops : ops'[o] = ops[o]
        /\ ops'[n].ddls = s /\ ops'[n].done = {} /\ ops'[n].state = "running"
    BY AppendFacts
  <1>2. /\ s = <<0>> \/ (Typed(s) /\ FreeBut(s, 0))
        /\ ~Shares(s, batch.ddls)
    BY SubmitFacts
  <1>3. 0 \notin DOMAIN ops
    BY DEF IInv, Shapes
  <1> HIDE DEF n, s
  <1>4. \A o \in DOMAIN ops : \A i : Live(o, i)' = Live(o, i)
    BY <1>1 DEF Live
  <1>5. OpsInv'
    <2>1. \A o \in DOMAIN ops' :
             /\ ops'[o].ddls = <<0>> \/ Typed(ops'[o].ddls)
             /\ ops'[o].done \subseteq DOMAIN ops'[o].ddls
             /\ ops'[o].state = "ok" => ops'[o].done = DOMAIN ops'[o].ddls
      BY <1>1, <1>2 DEF IInv, OpsInv
    <2> QED BY <2>1 DEF OpsInv, Typed
  <1>6. OnceInv'
    <2> SUFFICES ASSUME NEW o \in DOMAIN ops', NEW p \in DOMAIN ops',
                        NEW i \in DOMAIN ops'[o].ddls, NEW j \in DOMAIN ops'[p].ddls,
                        ops'[o].ddls[i] = ops'[p].ddls[j], ops'[o].ddls[i] # 0,
                        Live(o, i)', Live(p, j)'
                 PROVE  o = p /\ i = j
      BY DEF OnceInv
    <2>1. CASE o # n /\ p # n
      BY <1>1, <1>4, <2>1 DEF IInv, OnceInv
    <2>2. CASE o = n /\ p = n
      <3>1. s # <<0>>
        BY <1>1, <2>2
      <3> QED BY <1>1, <1>2, <2>2, <3>1 DEF Typed
    <2>3. CASE o = n /\ p # n
      <3>1. s # <<0>> /\ p \in DOMAIN ops /\ p # 0
        BY <1>1, <1>3, <2>3
      <3>2. ~Live(p, j)
        BY <1>1, <1>2, <2>3, <3>1 DEF FreeBut
      <3> QED BY <1>4, <3>1, <3>2
    <2>4. CASE o # n /\ p = n
      <3>1. s # <<0>> /\ o \in DOMAIN ops /\ o # 0
        BY <1>1, <1>3, <2>4
      <3>2. ~Live(o, i)
        BY <1>1, <1>2, <2>4, <3>1 DEF FreeBut
      <3> QED BY <1>4, <3>1, <3>2
    <2> QED BY <2>1, <2>2, <2>3, <2>4
  <1>7. ASSUME NEW x, NEW c, FreeBut(x, c), c = n \/ ~Shares(x, s),
               NEW o \in DOMAIN ops', NEW k \in DOMAIN x, o # c,
               NEW i \in DOMAIN ops'[o].ddls, ops'[o].ddls[i] = x[k]
        PROVE  ~Live(o, i)'
    <2>1. CASE o # n
      BY <1>1, <1>4, <1>7, <2>1 DEF FreeBut
    <2>2. CASE o = n
      BY <1>1, <1>7, <2>2 DEF Shares
    <2> QED BY <2>1, <2>2
  <1>8. BatchInv'
    <2>1. Typed(batch.ddls) /\ FreeBut(batch.ddls, 0) /\ ~Shares(batch.ddls, s)
      BY <1>2 DEF IInv, BatchInv, Shares
    <2>2. PICK x : x = batch.ddls
      OBVIOUS
    <2>3. \A o \in DOMAIN ops', k \in DOMAIN x : o # 0 =>
             \A i \in DOMAIN ops'[o].ddls : ops'[o].ddls[i] = x[k] => ~Live(o, i)'
      BY <1>7, <2>1, <2>2
    <2>4. FreeBut(batch.ddls, 0)'
      BY <2>2, <2>3 DEF FreeBut
    <2>5. Typed(batch.ddls)'
      BY <2>1 DEF Typed
    <2> QED BY <2>4, <2>5 DEF BatchInv
  <1>9. \A id : Took(id) => \E o \in DOMAIN ops' : \E i \in ops'[o].done : ops'[o].ddls[i] = id
    BY <1>1 DEF Took
  <1> QED BY <1>5, <1>6, <1>7, <1>8, <1>9 DEF n, s

\* A submission is accepted, with or without an answer, or is not.
LEMMA SubmitStep ==
    ASSUME IInv, Submit
    PROVE  IInv'
PROOF
  <1>1. /\ pc = "submit" /\ typed' = typed /\ owner' = owner /\ batch' = batch /\ stale' = stale
    BY DEF Submit, session
  <1>2. /\ stale = FALSE /\ batch \in Batch /\ typed \in 0..MaxDdl /\ committed \in BOOLEAN
        /\ (batch.mode # "ddl" => batch.ddls = <<>>) /\ req \in Req /\ ops \in Seq(Op)
    BY <1>1 DEF IInv, StaleInv, Waiting, Shapes, TypeOK
  <1>3. CASE /\ Len(ops) < MaxOps /\ Continue("response")
             /\ ops' = Append(ops, Request(TRUE)) /\ req' = [req EXCEPT !.cur = Len(ops) + 1]
             /\ UNCHANGED <<committed, wait>>
    <2> DEFINE n == Len(ops) + 1
    <2>1. /\ n \in DOMAIN ops' /\ n \notin DOMAIN ops /\ DOMAIN ops' = DOMAIN ops \cup {n}
          /\ \A o \in DOMAIN ops : ops'[o] = ops[o]
          /\ ops'[n].ddls = Statements /\ ops'[n].done = {} /\ ops'[n].state = "running"
          /\ ops'[n].known = TRUE
          /\ n \in Nat /\ ops' \in Seq(Op) /\ Len(ops') = n
      BY <1>1, <1>3, AppendFacts
    <2>2. /\ OpsInv' /\ OnceInv' /\ BatchInv'
          /\ \A s, c : FreeBut(s, c) /\ (c = n \/ ~Shares(s, Statements)) =>
                 \A o \in DOMAIN ops', k \in DOMAIN s : o # c =>
                    \A i \in DOMAIN ops'[o].ddls : ops'[o].ddls[i] = s[k] => ~Live(o, i)'
          /\ \A id : Took(id) => \E o \in DOMAIN ops' : \E i \in ops'[o].done : ops'[o].ddls[i] = id
      BY <1>1, <1>3, AppendsStep
    <2>3. /\ pc' = "response" /\ outcome' = outcome /\ committed' = committed
          /\ budget' = budget /\ cancelled' = cancelled /\ seen' = seen
      BY <1>3 DEF Continue, wait
    <2>4. /\ req' \in Req /\ req'.cur = n /\ req'.ddls = req.ddls /\ req'.suffix = req.suffix
          /\ req'.phase = req.phase /\ req'.first = req.first /\ req'.bulk = req.bulk
      BY <1>2, <1>3, <2>1 DEF Req
    <2>5. n <= MaxOps /\ 0 \notin DOMAIN ops' /\ n # 0
      BY <1>2, <1>3, <2>1, DdlAssumption
    <2> HIDE DEF n
    <2>6. Shapes'
      <3>1. \A o \in 1..Len(ops') : ops'[o].done \subseteq 1..Len(ops'[o].ddls)
                                  /\ ops'[o].state \in {"running", "ok"} \cup Failures
        <4>1. \A o \in 1..Len(ops') : ops'[o] \in Op
          BY <2>1
        <4>2. \A o \in 1..Len(ops') : ops'[o].done \subseteq DOMAIN ops'[o].ddls
          BY <2>1, <2>2 DEF OpsInv
        <4> QED BY <4>1, <4>2 DEF Op, States
      <3>2. TypeOK'
        BY <1>1, <1>2, <2>1, <2>3, <2>5, <3>1 DEF IInv, Shapes, TypeOK
      <3> QED BY <1>1, <2>1, <2>3, <2>4, <3>2 DEF IInv, Shapes
    <2>7. RequestInv'
      <3>1. Typed(req.ddls)' /\ Typed(req.suffix)'
        BY <1>1, <2>4 DEF IInv, RequestInv, Typed
      <3>2. ~Shares(req'.ddls, batch'.ddls)
        BY <1>1, <2>4 DEF IInv, RequestInv
      <3>3. req.phase = "main" => FreeBut(req.ddls, req.cur)'
        <4> SUFFICES ASSUME req.phase = "main" PROVE FreeBut(req.ddls, req.cur)'
          OBVIOUS
        <4>1. PICK s : s = req.ddls
          OBVIOUS
        <4>2. FreeBut(s, 0) /\ req.cur = 0
          BY <1>1, <4>1 DEF IInv, RequestInv
        <4>3. FreeBut(s, n)
          BY <1>2, <2>1, <4>2 DEF FreeBut
        <4>4. \A o \in DOMAIN ops', k \in DOMAIN s : o # n =>
                    \A i \in DOMAIN ops'[o].ddls : ops'[o].ddls[i] = s[k] => ~Live(o, i)'
          BY <2>2, <4>3
        <4> QED BY <2>4, <4>1, <4>4 DEF FreeBut
      <3>4. req'.cur \in DOMAIN ops' /\ ops'[req'.cur].ddls = Statements' /\ ops'[req'.cur].known
        BY <2>1, <2>4 DEF Statements
      <3>5. req.phase # "main" =>
              /\ \A k \in DOMAIN req'.suffix : \E l \in DOMAIN req'.ddls : req'.ddls[l] = req'.suffix[k]
              /\ \A k \in DOMAIN req'.ddls : Took(req.ddls[k])' \/ Shares(<<req'.ddls[k]>>, req'.suffix)
        <4>1. req.phase # "main" =>
                /\ \A k \in DOMAIN req.suffix : \E l \in DOMAIN req.ddls : req.ddls[l] = req.suffix[k]
                /\ \A k \in DOMAIN req.ddls : Took(req.ddls[k]) \/ Shares(<<req.ddls[k]>>, req.suffix)
          BY DEF IInv, RequestInv
        <4> QED BY <2>2, <2>4, <4>1 DEF Took
      <3>6. req.phase = "alter" => FreeBut(req.suffix, 0)'
        <4> SUFFICES ASSUME req.phase = "alter" PROVE FreeBut(req.suffix, 0)'
          OBVIOUS
        <4>1. PICK s : s = req.suffix
          OBVIOUS
        <4>2. FreeBut(s, 0) /\ Typed(s) /\ typed \in Nat
          BY <1>2, <4>1 DEF IInv, RequestInv
        <4>3. ~Shares(s, Statements)
          BY <4>2 DEF Shares, Statements, Typed
        <4>4. \A o \in DOMAIN ops', k \in DOMAIN s : o # 0 =>
                    \A i \in DOMAIN ops'[o].ddls : ops'[o].ddls[i] = s[k] => ~Live(o, i)'
          BY <2>2, <4>2, <4>3
        <4> QED BY <2>4, <4>1, <4>4 DEF FreeBut
      <3> QED BY <2>3, <2>4, <3>1, <3>2, <3>3, <3>4, <3>5, <3>6 DEF RequestInv, Waiting
    <2>8. SeenInv' /\ ReceiptInv'
      BY <2>3 DEF SeenInv, ReceiptInv
    <2>9. StaleInv'
      <3>1. \A o \in DOMAIN ops : o >= req.first /\ ops[o].known => ops[o].state # "running"
        BY <1>1 DEF IInv, StaleInv, Waiting
      <3> QED BY <2>1, <2>3, <2>4, <3>1 DEF StaleInv, Waiting
    <2> QED BY <2>2, <2>6, <2>7, <2>8, <2>9 DEF IInv
  <1>4. CASE /\ Repairable /\ Continue("repair")
             /\ UNCHANGED <<req, committed, wait, ops>>
    <2>1. /\ pc' = "repair" /\ outcome' = outcome /\ committed' = committed /\ req' = req /\ ops' = ops
          /\ budget' = budget /\ cancelled' = cancelled /\ seen' = seen /\ req.phase = "main"
      BY <1>4 DEF Continue, wait, Repairable
    <2>2. Shapes'
      <3>1. TypeOK'
        BY <1>1, <2>1 DEF IInv, Shapes, TypeOK
      <3> QED BY <1>1, <2>1, <3>1 DEF IInv, Shapes
    <2>3. OpsInv' /\ OnceInv' /\ BatchInv'
      BY <1>1, <1>2, <2>1, OpsStay, BatchStays
    <2>4. RequestInv'
      BY <1>1, <2>1 DEF IInv, RequestInv, Typed, FreeBut, Live, Waiting
    <2>5. SeenInv' /\ ReceiptInv' /\ StaleInv'
      BY <1>1, <2>1 DEF IInv, SeenInv, ReceiptInv, StaleInv, Waiting
    <2> QED BY <2>2, <2>3, <2>4, <2>5 DEF IInv
  <1>5. CASE /\ Fail(IF req.phase = "main" THEN "error" ELSE "phaseError")
             /\ ops' = ops
    <2>1. PICK k \in {"error", "phaseError"} : End(k, committed)
      BY <1>5 DEF Fail
    <2> QED BY <1>1, <1>2, <1>5, <2>1, SameOwner, ReturnsStep
  <1>6. CASE /\ Fail(IF req.phase = "main" THEN "error" ELSE "phaseError")
             /\ Len(ops) < MaxOps /\ ops' = Append(ops, Request(FALSE))
    <2>1. PICK k \in {"error", "phaseError"} : End(k, committed)
      BY <1>6 DEF Fail
    <2>2. OpsInv' /\ OnceInv' /\ BatchInv'
      BY <1>1, <1>6, AppendsStep
    <2>3. /\ Ends /\ pc' = "prompt" /\ req' = NoRequest /\ committed' = FALSE /\ seen' = "pending"
          /\ budget' = "none" /\ cancelled' = FALSE
          /\ outcome' = [kind |-> k, toldCommit |-> committed]
      BY <1>1, <1>2, <2>1 DEF Ends, End
    <2>4. ops' \in Seq(Op) /\ Len(ops') = Len(ops) + 1
      BY <1>1, <1>6, AppendFacts
    <2>5. Shapes'
      <3>1. \A o \in 1..Len(ops') : ops'[o].done \subseteq 1..Len(ops'[o].ddls)
                                  /\ ops'[o].state \in {"running", "ok"} \cup Failures
        <4>1. \A o \in 1..Len(ops') : ops'[o] \in Op
          BY <2>4
        <4>2. \A o \in 1..Len(ops') : ops'[o].done \subseteq DOMAIN ops'[o].ddls
          BY <2>2, <2>4 DEF OpsInv
        <4> QED BY <4>1, <4>2 DEF Op, States
      <3>2. Len(ops') <= MaxOps
        BY <1>2, <1>6, <2>4, DdlAssumption
      <3>3. TypeOK'
        BY <1>1, <1>2, <2>3, <3>1, <3>2 DEF IInv, Shapes, TypeOK
      <3>4. outcome' \in Outcome
        BY <1>2, <2>3 DEF Outcome
      <3> QED BY <1>1, <2>3, <2>4, <3>3, <3>4, NothingTyped DEF IInv, Shapes
    <2> QED BY <2>2, <2>3, <2>5, EndsStep
  <1> QED BY <1>3, <1>4, <1>5, <1>6 DEF Submit

\* The wait goes on.
LEMMA WaitsStep ==
    ASSUME IInv, Waiting, pc' \in {"poll", "sleep"},
           UNCHANGED <<session, typed, ops, outcome, req, committed, budget, cancelled, stale>>,
           seen' \in {"pending", "ok"} \cup Failures,
           pc' = "sleep" => seen' = "pending",
           seen' # "pending" => ops[req.cur].state = seen'
    PROVE  IInv'
PROOF
  <1>1. /\ owner' = owner /\ batch' = batch /\ typed' = typed /\ ops' = ops /\ outcome' = outcome
        /\ req' = req /\ committed' = committed /\ budget' = budget /\ cancelled' = cancelled
        /\ stale' = stale
    BY DEF session
  <1>2. typed \in Nat
    BY DEF IInv, Shapes, TypeOK
  <1>3. Shapes'
    <2>1. TypeOK'
      BY <1>1 DEF IInv, Shapes, TypeOK
    <2> QED BY <1>1, <2>1 DEF IInv, Shapes
  <1>4. OpsInv' /\ OnceInv' /\ BatchInv'
    BY <1>1, <1>2, OpsStay, BatchStays
  <1>5. RequestInv'
    <2>1. Typed(req.ddls)' /\ Typed(req.suffix)'
      BY <1>1 DEF IInv, RequestInv, Typed
    <2>2. FreeBut(req.ddls, req.cur)' = FreeBut(req.ddls, req.cur)
          /\ FreeBut(req.suffix, 0)' = FreeBut(req.suffix, 0)
      BY <1>1 DEF FreeBut, Live
    <2>3. \A k : Took(req.ddls[k])' = Took(req.ddls[k])
      BY <1>1 DEF Took
    <2> QED BY <1>1, <2>1, <2>2, <2>3 DEF IInv, RequestInv, Waiting, Statements
  <1>6. SeenInv' /\ ReceiptInv'
    BY <1>1 DEF SeenInv, ReceiptInv
  <1>7. StaleInv'
    BY <1>1 DEF IInv, StaleInv, Waiting
  <1> QED BY <1>3, <1>4, <1>5, <1>6, <1>7 DEF IInv

\* An outcome the client polls is the operation's.
LEMMA ViewFacts ==
    ASSUME IInv, Waiting
    PROVE  /\ View \in {"pending", "ok"} \cup Failures
           /\ View # "pending" => ops[req.cur].state = View
           /\ req.cur \in DOMAIN ops /\ ops[req.cur] \in Op /\ ops[req.cur].ddls = Statements
PROOF
  <1>1. req.cur \in DOMAIN ops /\ ops \in Seq(Op) /\ ops[req.cur].ddls = Statements
    BY DEF IInv, Shapes, RequestInv
  <1>2. ops[req.cur] \in Op
    BY <1>1
  <1>3. ops[req.cur].state \in {"running", "ok"} \cup Failures
    BY <1>2 DEF Op, States
  <1> QED BY <1>1, <1>2, <1>3 DEF View, Failures

\* The accepted operation is handed over, or polled.
LEMMA ResponseStep ==
    ASSUME IInv, Response
    PROVE  IInv'
PROOF
  <1>1. /\ pc = "response" /\ owner' = owner /\ batch' = batch /\ typed' = typed /\ ops' = ops
    BY DEF Response, session
  <1>2. CASE HandOver("async") /\ Invalidate
    <2>1. PICK k \in {"async", "error"}, t \in BOOLEAN : End(k, t)
      BY <1>2 DEF HandOver, Return, Fail, IInv, Shapes, TypeOK
    <2> QED BY <1>1, <1>2, <2>1, SameOwner, ReturnsStep DEF Invalidate
  <1>3. CASE Continue("poll") /\ seen' = View /\ UNCHANGED <<req, committed, budget, cancelled, stale>>
    <2>1. Waiting
      BY <1>1 DEF Waiting
    <2> QED BY <1>1, <1>3, <2>1, ViewFacts, WaitsStep DEF Continue, session
  <1> QED BY <1>2, <1>3 DEF Response

\* What the server did to operation o.
Serves(o) ==
    /\ o \in DOMAIN ops /\ ops[o].state = "running"
    /\ DOMAIN ops' = DOMAIN ops /\ Len(ops') = Len(ops) /\ ops' \in Seq(Op)
    /\ \A p \in DOMAIN ops \ {o} : ops'[p] = ops[p]
    /\ ops'[o].ddls = ops[o].ddls /\ ops'[o].known = ops[o].known
    /\ ops[o].done \subseteq ops'[o].done
    /\ ops'[o].done \subseteq DOMAIN ops[o].ddls
    /\ ops'[o].state = "ok" => ops'[o].done = DOMAIN ops[o].ddls

\* The server goes on with an operation: what could happen shrinks to what
\* did, and only an operation the client waits for makes a cache stale.
LEMMA ServesStep ==
    ASSUME IInv, NEW o, Serves(o),
           UNCHANGED <<pc, session, typed, req, committed, wait, outcome>>,
           \/ stale' = stale
           \/ /\ stale' = (stale \/ (pc # "prompt" /\ ops[o].known /\ o >= req.first))
              /\ o \in Nat
    PROVE  IInv'
PROOF
  <1>1. /\ pc' = pc /\ owner' = owner /\ batch' = batch /\ typed' = typed /\ req' = req
        /\ committed' = committed /\ budget' = budget /\ cancelled' = cancelled /\ seen' = seen
        /\ outcome' = outcome
    BY DEF session, wait
  <1>2. \A p \in DOMAIN ops : /\ ops'[p].ddls = ops[p].ddls /\ ops'[p].known = ops[p].known
                              /\ ops[p].done \subseteq ops'[p].done
                              /\ ops[p].state # "running" => ops'[p] = ops[p]
    BY DEF Serves
  <1>3. DOMAIN ops' = DOMAIN ops
    BY DEF Serves
  <1>4. \A p \in DOMAIN ops : \A i : i \in DOMAIN ops[p].ddls /\ Live(p, i)' => Live(p, i)
    BY DEF Serves, Live
  <1>5. OpsInv'
    <2> SUFFICES ASSUME NEW p \in DOMAIN ops
                 PROVE  /\ ops'[p].ddls = <<0>> \/ Typed(ops[p].ddls)'
                        /\ ops'[p].done \subseteq DOMAIN ops'[p].ddls
                        /\ ops'[p].state = "ok" => ops'[p].done = DOMAIN ops'[p].ddls
      BY <1>3 DEF OpsInv
    <2>1. /\ ops[p].ddls = <<0>> \/ Typed(ops[p].ddls)
          /\ ops[p].done \subseteq DOMAIN ops[p].ddls
          /\ ops[p].state = "ok" => ops[p].done = DOMAIN ops[p].ddls
      BY DEF IInv, OpsInv
    <2>2. ops'[p].ddls = <<0>> \/ Typed(ops[p].ddls)'
      BY <1>1, <1>2, <2>1 DEF Typed
    <2>3. CASE p # o
      BY <2>1, <2>2, <2>3 DEF Serves
    <2>4. CASE p = o
      BY <2>1, <2>2, <2>4 DEF Serves
    <2> QED BY <2>3, <2>4
  <1>6. OnceInv'
    BY <1>2, <1>3, <1>4 DEF IInv, OnceInv
  <1>7. \A s, c : FreeBut(s, c) =>
           \A p \in DOMAIN ops', k \in DOMAIN s : p # c =>
              \A i \in DOMAIN ops'[p].ddls : ops'[p].ddls[i] = s[k] => ~Live(p, i)'
    BY <1>2, <1>3, <1>4 DEF FreeBut
  <1>8. BatchInv'
    <2>1. PICK s : s = batch.ddls
      OBVIOUS
    <2>2. FreeBut(s, 0) /\ Typed(s)
      BY <2>1 DEF IInv, BatchInv
    <2>3. FreeBut(batch.ddls, 0)'
      BY <1>1, <1>7, <2>1, <2>2 DEF FreeBut
    <2>4. Typed(batch.ddls)'
      BY <1>1, <2>1, <2>2 DEF Typed
    <2> QED BY <2>3, <2>4 DEF BatchInv
  <1>9. Shapes'
    <2>1. \A p \in 1..Len(ops') : ops'[p].done \subseteq 1..Len(ops'[p].ddls)
                                  /\ ops'[p].state \in {"running", "ok"} \cup Failures
      <3>1. \A p \in 1..Len(ops') : ops'[p] \in Op
        BY DEF Serves
      <3>2. \A p \in 1..Len(ops') : ops'[p].done \subseteq DOMAIN ops'[p].ddls
        BY <1>5 DEF OpsInv, Serves
      <3> QED BY <3>1, <3>2 DEF Op, States
    <2>2. stale' \in BOOLEAN
      BY DEF IInv, Shapes, TypeOK
    <2>3. Len(ops') <= MaxOps
      BY DEF Serves, IInv, Shapes, TypeOK
    <2>4. TypeOK'
      BY <1>1, <2>1, <2>2, <2>3 DEF IInv, Shapes, TypeOK
    <2> QED BY <1>1, <2>4 DEF IInv, Shapes, Serves
  <1>10. RequestInv'
    <2>1. Typed(req.ddls)' /\ Typed(req.suffix)'
      BY <1>1 DEF IInv, RequestInv, Typed
    <2>2. FreeBut(req.ddls, req.cur) => FreeBut(req.ddls, req.cur)'
      <3> SUFFICES ASSUME FreeBut(req.ddls, req.cur) PROVE FreeBut(req.ddls, req.cur)'
        OBVIOUS
      <3>1. PICK s, c : s = req.ddls /\ c = req.cur
        OBVIOUS
      <3> QED BY <1>1, <1>7, <3>1 DEF FreeBut
    <2>3. FreeBut(req.suffix, 0) => FreeBut(req.suffix, 0)'
      <3> SUFFICES ASSUME FreeBut(req.suffix, 0) PROVE FreeBut(req.suffix, 0)'
        OBVIOUS
      <3>1. PICK s : s = req.suffix
        OBVIOUS
      <3> QED BY <1>1, <1>7, <3>1 DEF FreeBut
    <2>4. \A k : Took(req.ddls[k]) => Took(req.ddls[k])'
      BY <1>1, <1>2, <1>3 DEF Took
    <2>5. Statements' = Statements
      BY <1>1 DEF Statements
    <2>6. \A c \in DOMAIN ops : /\ ops[c].ddls = Statements /\ ops[c].known
                                   => ops'[c].ddls = Statements' /\ ops'[c].known
                                /\ ops[c].ddls = req.ddls /\ ops[c].state = "missingKind"
                                   => ops'[c].ddls = req.ddls /\ ops'[c].state = "missingKind"
      BY <1>2, <2>5
    <2> QED BY <1>1, <1>3, <2>1, <2>2, <2>3, <2>4, <2>6 DEF IInv, RequestInv, Waiting
  <1>11. SeenInv'
    <2>1. pc = "poll" /\ seen # "pending" =>
             req.cur \in DOMAIN ops /\ ops[req.cur].state = seen /\ seen # "running"
      BY DEF IInv, SeenInv, RequestInv, Waiting, Shapes, TypeOK, Failures
    <2> QED BY <1>1, <1>2, <2>1 DEF IInv, SeenInv
  <1>12. ReceiptInv'
    BY <1>1 DEF IInv, ReceiptInv
  <1>13. StaleInv'
    <2>1. \A p \in DOMAIN ops' : ops'[p].state = "running" => ops[p].state = "running"
      BY <1>2, <1>3
    <2>2. pc # "prompt" =>
            \A p \in DOMAIN ops :
              p >= req.first /\ ops[p].known /\ (Waiting => p # req.cur) => ops[p].state # "running"
      BY DEF IInv, StaleInv
    <2>3. pc' # "prompt" =>
            \A p \in DOMAIN ops' :
              p >= req'.first /\ ops'[p].known /\ (Waiting' => p # req'.cur) => ops'[p].state # "running"
      BY <1>1, <1>2, <1>3, <2>1, <2>2 DEF Waiting
    <2>4. ~Waiting /\ pc # "prompt" => ~(ops[o].known /\ o >= req.first)
      BY <2>2 DEF Serves
    <2>5. ~Waiting => ~stale'
      BY <2>4 DEF IInv, StaleInv
    <2> QED BY <1>1, <2>3, <2>5 DEF StaleInv, Waiting
  <1> QED BY <1>5, <1>6, <1>8, <1>9, <1>10, <1>11, <1>12, <1>13 DEF IInv

\* An operation has its type.
LEMMA OperationType ==
    ASSUME IInv, NEW o \in DOMAIN ops
    PROVE  /\ ops[o] \in Op /\ ops[o].ddls \in Seq(Ids) /\ ops[o].done \subseteq Nat
           /\ DOMAIN ops[o].ddls = 1..Len(ops[o].ddls) /\ Len(ops[o].ddls) \in Nat
           /\ ops[o].done \subseteq DOMAIN ops[o].ddls /\ ops[o].known \in BOOLEAN
           /\ ops \in Seq(Op) /\ DOMAIN ops = 1..Len(ops) /\ Len(ops) \in Nat
           /\ o \in Nat /\ o # 0
PROOF
  <1>1. ops \in Seq(Op)
    BY DEF IInv, Shapes
  <1>2. ops[o] \in Op
    BY <1>1
  <1>3. ops[o].done \subseteq DOMAIN ops[o].ddls
    BY DEF IInv, OpsInv
  <1> QED BY <1>1, <1>2, <1>3 DEF Op

\* A statement of the operation takes effect ...
LEMMA ApplyStep ==
    ASSUME IInv, NEW o, Apply(o)
    PROVE  IInv'
PROOF
  <1>1. o \in DOMAIN ops /\ ops[o].state = "running"
    BY DEF Apply, Runs, IInv, Shapes
  <1>2. PICK i \in 1..Len(ops[o].ddls) \ ops[o].done :
          ops' = [ops EXCEPT ![o].done = @ \cup {i}]
    BY DEF Apply
  <1> DEFINE r == [ops[o] EXCEPT !.done = ops[o].done \cup {i}]
  <1>3. r \in Op /\ r.ddls = ops[o].ddls /\ r.known = ops[o].known /\ r.state = "running"
        /\ r.done = ops[o].done \cup {i}
    BY <1>1, OperationType DEF Op
  <1>4. ops' = [ops EXCEPT ![o] = r]
    BY <1>2
  <1> HIDE DEF r
  <1>5. /\ DOMAIN ops' = DOMAIN ops /\ ops'[o] = r /\ ops' \in Seq(Op) /\ Len(ops') = Len(ops)
        /\ \A p \in DOMAIN ops \ {o} : ops'[p] = ops[p]
    BY <1>1, <1>3, <1>4, OperationType
  <1>6. ops'[o].done \subseteq DOMAIN ops[o].ddls /\ ops[o].done \subseteq ops'[o].done
    BY <1>1, <1>3, <1>5, OperationType
  <1>7. Serves(o)
    BY <1>1, <1>3, <1>5, <1>6 DEF Serves
  <1> QED BY <1>1, <1>7, OperationType, ServesStep DEF Apply

\* ... or the operation ends.
LEMMA CompleteStep ==
    ASSUME IInv, NEW o, Complete(o)
    PROVE  IInv'
PROOF
  <1>1. o \in DOMAIN ops /\ ops[o].state = "running"
    BY DEF Complete, Runs, IInv, Shapes
  <1>2. PICK f \in {"ok"} \cup Failures :
          /\ ops' = [ops EXCEPT ![o].state = f]
          /\ f = "ok" => ops[o].done = DOMAIN ops[o].ddls
    <2>1. CASE ops[o].done = 1..Len(ops[o].ddls) /\ ops' = [ops EXCEPT ![o].state = "ok"]
      BY <1>1, <2>1, OperationType
    <2>2. CASE \E f \in Failures : ops' = [ops EXCEPT ![o].state = f]
      BY <2>2 DEF Failures
    <2> QED BY <2>1, <2>2 DEF Complete
  <1> DEFINE r == [ops[o] EXCEPT !.state = f]
  <1>3. r \in Op /\ r.ddls = ops[o].ddls /\ r.known = ops[o].known /\ r.state = f
        /\ r.done = ops[o].done
    BY <1>1, OperationType DEF Op, States
  <1>4. ops' = [ops EXCEPT ![o] = r]
    BY <1>2
  <1> HIDE DEF r
  <1>5. /\ DOMAIN ops' = DOMAIN ops /\ ops'[o] = r /\ ops' \in Seq(Op) /\ Len(ops') = Len(ops)
        /\ \A p \in DOMAIN ops \ {o} : ops'[p] = ops[p]
    BY <1>1, <1>3, <1>4, OperationType
  <1>6. ops'[o].done \subseteq DOMAIN ops[o].ddls /\ ops[o].done \subseteq ops'[o].done
    BY <1>1, <1>3, <1>5, OperationType
  <1>7. Serves(o)
    BY <1>1, <1>2, <1>3, <1>5, <1>6 DEF Serves
  <1> QED BY <1>7, ServesStep DEF Complete

\* A cancellation or a spent budget is seen at the next poll only.
LEMMA ClockStep ==
    ASSUME IInv, Cancel \/ BudgetRunsOut
    PROVE  IInv'
PROOF
  <1>1. /\ pc' = pc /\ owner' = owner /\ batch' = batch /\ typed' = typed /\ req' = req
        /\ committed' = committed /\ seen' = seen /\ outcome' = outcome /\ ops' = ops
        /\ stale' = stale
    BY DEF Cancel, BudgetRunsOut, session
  <1>2. budget' \in {"none", "left", "spent"} /\ cancelled' \in BOOLEAN /\ typed \in Nat
    <2>1. budget \in {"none", "left", "spent"} /\ cancelled \in BOOLEAN /\ typed \in Nat
      BY DEF IInv, Shapes, TypeOK
    <2>2. CASE Cancel
      <3>1. budget' = budget /\ cancelled' = TRUE
        BY <2>2 DEF Cancel
      <3> QED BY <2>1, <3>1
    <2>3. CASE BudgetRunsOut
      <3>1. budget' = "spent" /\ cancelled' = cancelled
        BY <2>3 DEF BudgetRunsOut
      <3> QED BY <2>1, <3>1
    <2> QED BY <2>2, <2>3
  <1>3. Shapes'
    <2>1. TypeOK'
      BY <1>1, <1>2 DEF IInv, Shapes, TypeOK
    <2> QED BY <1>1, <2>1 DEF IInv, Shapes
  <1>4. OpsInv' /\ OnceInv' /\ BatchInv'
    BY <1>1, <1>2, OpsStay, BatchStays
  <1>5. RequestInv'
    <2>1. Typed(req.ddls)' /\ Typed(req.suffix)'
      BY <1>1 DEF IInv, RequestInv, Typed
    <2>2. FreeBut(req.ddls, req.cur)' = FreeBut(req.ddls, req.cur)
          /\ FreeBut(req.suffix, 0)' = FreeBut(req.suffix, 0)
      BY <1>1 DEF FreeBut, Live
    <2>3. \A k : Took(req.ddls[k])' = Took(req.ddls[k])
      BY <1>1 DEF Took
    <2> QED BY <1>1, <2>1, <2>2, <2>3 DEF IInv, RequestInv, Waiting, Statements
  <1>6. SeenInv' /\ ReceiptInv'
    BY <1>1 DEF IInv, SeenInv, ReceiptInv
  <1>7. StaleInv'
    BY <1>1 DEF IInv, StaleInv, Waiting
  <1> QED BY <1>3, <1>4, <1>5, <1>6, <1>7 DEF IInv

\* A wait that ends in an error: back to the prompt, or to the repair.
LEMMA WaitFailedStep ==
    ASSUME IInv, Waiting, NEW view \in {"pending", "ok"} \cup Failures, NEW e \in BOOLEAN,
           WaitFailed(view, e), UNCHANGED <<session, typed, ops>>,
           view # "pending" => ops[req.cur].state = view
    PROVE  IInv'
PROOF
  <1>1. /\ owner' = owner /\ batch' = batch /\ typed' = typed /\ ops' = ops /\ stale' = FALSE
        /\ committed \in BOOLEAN /\ typed \in Nat
    BY DEF session, WaitFailed, Invalidate, IInv, Shapes, TypeOK
  <1>2. CASE \E k \in {"handoff", "error", "phaseError"}, t \in BOOLEAN : End(k, t)
    BY <1>1, <1>2, SameOwner, ReturnsStep
  <1>3. CASE /\ Repairable /\ view = "missingKind"
             /\ Continue("repair") /\ UNCHANGED <<req, committed, wait>>
    <2>1. /\ pc' = "repair" /\ outcome' = outcome /\ committed' = committed /\ req' = req
          /\ budget' = budget /\ cancelled' = cancelled /\ seen' = seen /\ req.phase = "main"
      BY <1>3 DEF Continue, wait, Repairable
    <2>2. /\ ops[req.cur].state = "missingKind" /\ req.cur \in DOMAIN ops
          /\ ops[req.cur].ddls = req.ddls
      BY <1>3, <2>1, ViewFacts DEF Statements
    <2>3. Shapes'
      <3>1. stale' \in BOOLEAN /\ TypeOK
        BY <1>1 DEF IInv, Shapes
      <3>2. TypeOK'
        BY <1>1, <2>1, <3>1 DEF TypeOK
      <3> QED BY <1>1, <2>1, <3>2 DEF IInv, Shapes
    <2>4. OpsInv' /\ OnceInv' /\ BatchInv'
      BY <1>1, OpsStay, BatchStays
    <2>5. RequestInv'
      <3>1. Typed(req.ddls)' /\ Typed(req.suffix)'
        BY <1>1, <2>1 DEF IInv, RequestInv, Typed
      <3>2. FreeBut(req.ddls, req.cur)'
        BY <1>1, <2>1 DEF IInv, RequestInv, Waiting, FreeBut, Live
      <3>3. ~Shares(req'.ddls, batch'.ddls)
        BY <1>1, <2>1 DEF IInv, RequestInv, Waiting
      <3> QED BY <1>1, <2>1, <2>2, <3>1, <3>2, <3>3 DEF RequestInv, Waiting
    <2>6. SeenInv' /\ ReceiptInv'
      BY <2>1 DEF SeenInv, ReceiptInv
    <2>7. StaleInv'
      BY <1>1, <2>1, <2>2 DEF IInv, StaleInv, Waiting
    <2> QED BY <2>3, <2>4, <2>5, <2>6, <2>7 DEF IInv
  <1> QED BY <1>1, <1>2, <1>3 DEF WaitFailed, HandOver, Return, Fail

\* A wait that succeeds: the request is done, or the repair's rest is next.
LEMMA WaitSucceededStep ==
    ASSUME IInv, Waiting, WaitSucceeded, ops[req.cur].state = "ok",
           UNCHANGED <<session, typed, ops>>
    PROVE  IInv'
PROOF
  <1>1. /\ owner' = owner /\ batch' = batch /\ typed' = typed /\ ops' = ops /\ stale' = FALSE
        /\ typed \in Nat
    BY DEF session, WaitSucceeded, Invalidate, IInv, Shapes, TypeOK
  <1>2. CASE Return("ok")
    BY <1>1, <1>2, SameOwner, ReturnsStep DEF Return
  <1>3. CASE /\ req.phase = "alter"
             /\ Continue("submit") /\ req' = [req EXCEPT !.phase = "suffix"]
             /\ seen' = "pending" /\ UNCHANGED <<committed, budget, cancelled>>
    <2>1. /\ pc' = "submit" /\ outcome' = outcome /\ committed' = committed
          /\ budget' = budget /\ cancelled' = cancelled /\ seen' = "pending"
      BY <1>3 DEF Continue
    <2>2. /\ req' \in Req /\ req'.ddls = req.ddls /\ req'.suffix = req.suffix /\ req'.cur = req.cur
          /\ req'.phase = "suffix" /\ req'.first = req.first
      BY <1>3 DEF Req, IInv, Shapes
    <2>3. Shapes'
      <3>1. stale' \in BOOLEAN /\ TypeOK
        BY <1>1 DEF IInv, Shapes
      <3>2. TypeOK'
        BY <1>1, <2>1, <3>1 DEF TypeOK
      <3> QED BY <1>1, <2>1, <2>2, <3>2 DEF IInv, Shapes
    <2>4. OpsInv' /\ OnceInv' /\ BatchInv'
      BY <1>1, OpsStay, BatchStays
    <2>5. RequestInv'
      <3>1. Typed(req.ddls)' /\ Typed(req.suffix)'
        BY <1>1, <2>2 DEF IInv, RequestInv, Typed
      <3>2. FreeBut(req.suffix, 0)'
        <4>1. FreeBut(req.suffix, 0)
          BY <1>3 DEF IInv, RequestInv
        <4> QED BY <1>1, <2>2, <4>1 DEF FreeBut, Live
      <3>3. ~Shares(req'.ddls, batch'.ddls)
        BY <1>1, <2>2 DEF IInv, RequestInv, Waiting
      <3>4. /\ \A k \in DOMAIN req.suffix : \E l \in DOMAIN req.ddls : req.ddls[l] = req.suffix[k]
            /\ \A k \in DOMAIN req.ddls : Took(req.ddls[k]) \/ Shares(<<req.ddls[k]>>, req.suffix)
        BY <1>3 DEF IInv, RequestInv
      <3>5. \A k \in DOMAIN req'.ddls : Took(req.ddls[k])' \/ Shares(<<req'.ddls[k]>>, req'.suffix)
        BY <1>1, <2>2, <3>4 DEF Took
      <3> QED BY <2>1, <2>2, <3>1, <3>2, <3>3, <3>4, <3>5 DEF RequestInv, Waiting
    <2>6. SeenInv' /\ ReceiptInv'
      BY <2>1 DEF SeenInv, ReceiptInv
    <2>7. StaleInv'
      BY <1>1, <2>1, <2>2 DEF IInv, StaleInv, Waiting
    <2> QED BY <2>3, <2>4, <2>5, <2>6, <2>7 DEF IInv
  <1> QED BY <1>2, <1>3 DEF WaitSucceeded

\* Each view of the operation leads on, to the end, or to the repair ...
LEMMA ObserveStep ==
    ASSUME IInv, Waiting, NEW view \in {"pending", "ok"} \cup Failures, Observe(view),
           UNCHANGED <<session, typed, ops>>,
           view = "pending" => seen = "pending",
           view # "pending" => ops[req.cur].state = view
    PROVE  IInv'
PROOF
  <1>1. CASE view = "pending"
    <2>1. pc' = "sleep" /\ UNCHANGED <<outcome, req, committed, wait, stale>>
      BY <1>1 DEF Observe, Continue, Failures
    <2>2. seen' = "pending" /\ budget' = budget /\ cancelled' = cancelled
      BY <1>1, <2>1 DEF wait
    <2> QED BY <2>1, <2>2, WaitsStep
  <1>2. CASE view = "ok"
    <2>1. WaitSucceeded \/ WaitFailed("ok", FALSE)
      BY <1>2 DEF Observe, Failures
    <2>2. CASE WaitFailed("ok", FALSE)
      BY <1>2, <2>2, WaitFailedStep
    <2> QED BY <1>2, <2>1, <2>2, WaitSucceededStep
  <1>3. CASE view \in Failures
    <2>1. PICK e \in BOOLEAN : WaitFailed(view, e)
      <3>1. view \notin {"pending", "ok"}
        BY <1>3 DEF Failures
      <3>2. WaitFailed(view, view = "cancelStatus")
        BY <1>3, <3>1 DEF Observe
      <3>3. CASE view = "cancelStatus"
        <4>1. WaitFailed(view, TRUE)
          BY <3>2, <3>3 DEF WaitFailed, HandsOff
        <4> QED BY <4>1
      <3>4. CASE view # "cancelStatus"
        <4>1. WaitFailed(view, FALSE)
          BY <3>2, <3>4 DEF WaitFailed, HandsOff
        <4> QED BY <4>1
      <3> QED BY <3>3, <3>4
    <2> QED BY <2>1, WaitFailedStep
  <1> QED BY <1>1, <1>2, <1>3

\* ... whether the client has it already or polls for it.
LEMMA PollStep ==
    ASSUME IInv, Poll
    PROVE  IInv'
PROOF
  <1>1. pc = "poll" /\ Waiting /\ UNCHANGED <<session, typed, ops>>
    BY DEF Poll, Waiting
  <1>2. seen \in {"pending", "ok"} \cup Failures /\ (seen # "pending" => ops[req.cur].state = seen)
    BY <1>1 DEF IInv, SeenInv, Shapes, TypeOK
  <1>3. CASE seen # "pending" /\ Observe(seen)
    <2>1. PICK v : v = seen
      OBVIOUS
    <2>2. Observe(v) /\ v \in {"pending", "ok"} \cup Failures /\ v # "pending"
          /\ ops[req.cur].state = v
      BY <1>2, <1>3, <2>1
    <2> QED BY <1>1, <2>2, ObserveStep
  <1>4. CASE seen = "pending" /\ Observe(View)
    <2>1. PICK v : v = View
      OBVIOUS
    <2>2. Observe(v) /\ v \in {"pending", "ok"} \cup Failures
          /\ (v # "pending" => ops[req.cur].state = v)
      BY <1>1, <1>4, <2>1, ViewFacts
    <2> QED BY <1>1, <1>4, <2>2, ObserveStep
  <1>5. CASE \E e \in BOOLEAN : WaitFailed("pending", e)
    BY <1>1, <1>5, WaitFailedStep
  <1> QED BY <1>3, <1>4, <1>5 DEF Poll

\* The tick, the budget or the cancellation ends a sleep.
LEMMA SleepStep ==
    ASSUME IInv, Sleep
    PROVE  IInv'
PROOF
  <1>1. pc = "sleep" /\ Waiting /\ UNCHANGED <<session, typed, ops>> /\ seen = "pending"
    BY DEF Sleep, Waiting, IInv, SeenInv
  <1>2. CASE Continue("poll") /\ UNCHANGED <<req, committed, wait, stale>>
    <2>1. pc' = "poll" /\ UNCHANGED <<outcome, req, committed, budget, cancelled, stale>>
          /\ seen' = "pending"
      BY <1>1, <1>2 DEF Continue, wait
    <2> QED BY <1>1, <2>1, WaitsStep
  <1>3. CASE WaitFailed("pending", TRUE)
    BY <1>1, <1>3, WaitFailedStep
  <1> QED BY <1>2, <1>3 DEF Sleep

----------------------------------------------------------------------------
\* The repair.

\* A proven prefix is what the failed operation did.
LEMMA ProvenFacts ==
    ASSUME IInv, NEW o \in DOMAIN ops, NEW r \in Reports(ops[o]),
           ProvenPrefix(r, Len(ops[o].ddls)) # Len(ops[o].ddls)
    PROVE  LET p == ProvenPrefix(r, Len(ops[o].ddls)) IN
           /\ p \in Nat /\ p < Len(ops[o].ddls)
           /\ ops[o].done = 1..p
PROOF
  <1> DEFINE done == ops[o].done
             n == Len(ops[o].ddls)
             p == ProvenPrefix(r, n)
             applied == {i \in 1..Len(r) : r[i]}
  <1>1. done \subseteq 1..n /\ n \in Nat
    BY OperationType
  <1>2. PICK k \in 0..n : done \subseteq 1..k /\ r = [i \in 1..k |-> i \in done]
    BY DEF Reports
  <1>3. DOMAIN r = 1..k /\ k \in Nat /\ \A i \in 1..k : r[i] = (i \in done)
    BY <1>1, <1>2
  <1>4. r \in Seq(BOOLEAN)
    BY <1>1, <1>2
  <1>5. Len(r) = k
    BY <1>3, <1>4
  <1> HIDE DEF done, n
  <1>6. applied = done
    BY <1>2, <1>3, <1>5
  <1> HIDE DEF applied
  <1>7. IsFiniteSet(applied) /\ Cardinality(applied) \in Nat
    <2>1. IsFiniteSet(1..n)
      BY <1>1, FS_Interval
    <2> QED BY <1>1, <1>6, <2>1, FS_Subset, FS_CardinalityType
  <1>8. applied = 1..Cardinality(applied) /\ p = Cardinality(applied) /\ p # n
    BY DEF ProvenPrefix, applied, n
  <1> HIDE DEF p
  <1>9. p \in Nat /\ applied = 1..p
    BY <1>7, <1>8
  <1>10. p <= n
    <2>1. p = 0 \/ p \in 1..p
      BY <1>9
    <2> QED BY <1>1, <1>6, <1>9, <2>1
  <1>11. p < n
    BY <1>1, <1>8, <1>9, <1>10
  <1> QED BY <1>6, <1>9, <1>11 DEF p, n, done

\* The repair runs what the failed operation did not do.
LEMMA RepairFromStep ==
    ASSUME IInv, pc = "repair", NEW prefix \in Nat, RepairFrom(prefix),
           UNCHANGED <<session, typed, ops, stale>>,
           prefix <= Len(req.ddls),
           \A k \in DOMAIN req.ddls : k <= prefix => Took(req.ddls[k]),
           \A o \in DOMAIN ops, k \in DOMAIN req.ddls : k > prefix =>
              \A i \in DOMAIN ops[o].ddls : ops[o].ddls[i] = req.ddls[k] => ~Live(o, i)
    PROVE  IInv'
PROOF
  <1> DEFINE d == req.ddls
             n == Len(d)
             s == SubSeq(d, prefix + 1, n)
  <1>1. /\ owner' = owner /\ batch' = batch /\ typed' = typed /\ ops' = ops /\ stale' = stale
        /\ pc' = "submit" /\ outcome' = outcome /\ committed' = committed
        /\ budget' = budget /\ cancelled' = cancelled /\ seen' = "pending"
        /\ req' = [req EXCEPT !.phase = "alter", !.suffix = s]
    BY DEF session, RepairFrom, Continue
  <1>2. req \in Req /\ d \in Seq(Ids) /\ n \in Nat /\ DOMAIN d = 1..n /\ typed \in Nat
    BY DEF IInv, Shapes, TypeOK, Req
  <1>3. /\ s \in Seq(Ids) /\ DOMAIN s = 1..(n - prefix)
        /\ \A k \in 1..(n - prefix) : s[k] = d[prefix + k] /\ prefix + k \in DOMAIN d
    BY <1>2
  <1>4. /\ req' \in Req /\ req'.ddls = d /\ req'.suffix = s /\ req'.cur = req.cur
        /\ req'.phase = "alter" /\ req'.first = req.first
    BY <1>1, <1>2, <1>3 DEF Req
  <1>5. Typed(d) /\ ~Shares(d, batch.ddls)
    BY DEF IInv, RequestInv
  <1> HIDE DEF d, n, s
  <1>6. Shapes'
    <2>1. TypeOK'
      BY <1>1 DEF IInv, Shapes, TypeOK
    <2> QED BY <1>1, <1>4, <2>1 DEF IInv, Shapes
  <1>7. OpsInv' /\ OnceInv' /\ BatchInv'
    BY <1>1, <1>2, OpsStay, BatchStays
  <1>8. Typed(s)
    <2>1. \A k \in DOMAIN s : s[k] \in 1..typed
      BY <1>3, <1>5 DEF Typed
    <2>2. ASSUME NEW k \in DOMAIN s, NEW l \in DOMAIN s, s[k] = s[l]
          PROVE  k = l
      <3>1. prefix + k = prefix + l
        BY <1>3, <1>5, <2>2 DEF Typed
      <3> QED BY <1>2, <1>3, <3>1
    <2> QED BY <2>1, <2>2 DEF Typed
  <1>9. FreeBut(s, 0)
    <2> SUFFICES ASSUME NEW o \in DOMAIN ops, NEW k \in DOMAIN s,
                        NEW i \in DOMAIN ops[o].ddls, ops[o].ddls[i] = s[k]
                 PROVE  ~Live(o, i)
      BY DEF FreeBut
    <2>1. prefix + k \in DOMAIN d /\ prefix + k > prefix /\ ops[o].ddls[i] = d[prefix + k]
      BY <1>2, <1>3
    <2> QED BY <2>1 DEF d
  <1>10. RequestInv'
    <2>1. Typed(req.ddls)' /\ Typed(req.suffix)'
      BY <1>1, <1>4, <1>5, <1>8 DEF Typed
    <2>2. FreeBut(req.suffix, 0)'
      BY <1>1, <1>4, <1>9 DEF FreeBut, Live
    <2>3. \A k \in DOMAIN req'.suffix : \E l \in DOMAIN req'.ddls : req'.ddls[l] = req'.suffix[k]
      BY <1>3, <1>4
    <2>4. \A k \in DOMAIN req'.ddls : Took(req.ddls[k])' \/ Shares(<<req'.ddls[k]>>, req'.suffix)
      <3> SUFFICES ASSUME NEW k \in DOMAIN req'.ddls
                   PROVE  Took(req.ddls[k])' \/ Shares(<<req'.ddls[k]>>, req'.suffix)
        OBVIOUS
      <3>1. k \in DOMAIN d /\ req'.ddls[k] = d[k]
        BY <1>4
      <3>2. CASE k <= prefix
        <4>1. Took(d[k])
          BY <3>1, <3>2 DEF d
        <4> QED BY <1>1, <3>1, <4>1 DEF Took
      <3>3. CASE k > prefix
        <4>1. k - prefix \in DOMAIN s /\ prefix + (k - prefix) = k
          BY <1>2, <1>3, <3>1, <3>3
        <4>2. s[k - prefix] = d[k]
          BY <1>3, <4>1
        <4> QED BY <1>4, <3>1, <4>1, <4>2 DEF Shares
      <3> QED BY <1>2, <3>1, <3>2, <3>3
    <2>5. ~Shares(req'.ddls, batch'.ddls)
      BY <1>1, <1>4, <1>5
    <2> QED BY <1>1, <1>4, <2>1, <2>2, <2>3, <2>4, <2>5 DEF RequestInv, Waiting
  <1>11. SeenInv' /\ ReceiptInv'
    BY <1>1 DEF SeenInv, ReceiptInv
  <1>12. StaleInv'
    BY <1>1, <1>4 DEF IInv, StaleInv, Waiting
  <1> QED BY <1>6, <1>7, <1>10, <1>11, <1>12 DEF IInv

\* The repair begins, or the original error stands.
LEMMA RepairStep ==
    ASSUME IInv, Repair
    PROVE  IInv'
PROOF
  <1>1. pc = "repair" /\ UNCHANGED <<session, typed, ops, stale>>
    BY DEF Repair
  <1>2. /\ req.phase = "main" /\ FreeBut(req.ddls, req.cur) /\ Typed(req.ddls)
        /\ stale = FALSE /\ committed \in BOOLEAN /\ req.ddls \in Seq(Ids)
    BY <1>1 DEF IInv, RequestInv, StaleInv, Waiting, Shapes, TypeOK, Req
  <1>3. CASE req.cur = 0 /\ RepairFrom(0)
    <2>1. \A o \in DOMAIN ops, k \in DOMAIN req.ddls :
              \A i \in DOMAIN ops[o].ddls : ops[o].ddls[i] = req.ddls[k] => ~Live(o, i)
      BY <1>2, <1>3, OperationType DEF FreeBut
    <2>2. 0 <= Len(req.ddls) /\ \A k \in DOMAIN req.ddls : ~(k <= 0)
      BY <1>2
    <2> QED BY <1>1, <1>3, <2>1, <2>2, RepairFromStep
  <1>4. CASE /\ req.cur # 0
             /\ \E r \in Reports(ops[req.cur]) :
                  LET n == Len(req.ddls)
                      prefix == ProvenPrefix(r, n)
                  IN IF prefix = n THEN Fail("error") ELSE RepairFrom(prefix)
    <2>1. PICK c : c = req.cur
      OBVIOUS
    <2>2. c \in DOMAIN ops /\ ops[c].ddls = req.ddls /\ ops[c].state = "missingKind" /\ c # 0
      BY <1>1, <1>4, <2>1 DEF IInv, RequestInv
    <2>3. PICK r \in Reports(ops[c]) :
             IF ProvenPrefix(r, Len(req.ddls)) = Len(req.ddls) THEN Fail("error")
             ELSE RepairFrom(ProvenPrefix(r, Len(req.ddls)))
      BY <1>4, <2>1
    <2>4. PICK p : p = ProvenPrefix(r, Len(req.ddls))
      OBVIOUS
    <2>5. CASE p = Len(req.ddls)
      <3>1. End("error", committed)
        BY <2>3, <2>4, <2>5 DEF Fail
      <3> QED BY <1>1, <1>2, <3>1, SameOwner, ReturnsStep DEF session
    <2>6. CASE p # Len(req.ddls)
      <3>1. p \in Nat /\ p < Len(req.ddls) /\ ops[c].done = 1..p
        BY <2>2, <2>4, <2>6, ProvenFacts
      <3>2. RepairFrom(p)
        BY <2>3, <2>4, <2>6
      <3>3. ASSUME NEW k \in DOMAIN req.ddls, k <= p
            PROVE  Took(req.ddls[k])
        <4>1. k \in ops[c].done
          BY <1>2, <3>1, <3>3
        <4> QED BY <2>2, <4>1 DEF Took
      <3>4. ASSUME NEW o \in DOMAIN ops, NEW k \in DOMAIN req.ddls, k > p,
                   NEW i \in DOMAIN ops[o].ddls, ops[o].ddls[i] = req.ddls[k]
            PROVE  ~Live(o, i)
        <4>1. CASE o # c
          BY <1>2, <2>1, <3>4, <4>1 DEF FreeBut
        <4>2. CASE o = c
          <5>1. i = k
            BY <1>2, <2>2, <3>4, <4>2 DEF Typed
          <5>2. i \notin ops[c].done
            BY <1>2, <3>1, <3>4, <5>1
          <5> QED BY <2>2, <4>2, <5>2 DEF Live
        <4> QED BY <4>1, <4>2
      <3>5. p <= Len(req.ddls)
        BY <1>2, <3>1
      <3> QED BY <1>1, <3>1, <3>2, <3>3, <3>4, <3>5, RepairFromStep
    <2> QED BY <2>5, <2>6
  <1>5. CASE Fail("error")
    BY <1>1, <1>2, <1>5, SameOwner, ReturnsStep DEF Fail, session
  <1> QED BY <1>3, <1>4, <1>5 DEF Repair

\* The invariant holds in the first states ...
LEMMA InitInv == Init => IInv
PROOF
  <1> SUFFICES ASSUME Init PROVE IInv
    OBVIOUS
  <1>1. /\ pc = "prompt" /\ owner = Idle /\ batch = NoBatch /\ typed = 0 /\ req = NoRequest
        /\ committed = FALSE /\ budget = "none" /\ cancelled = FALSE /\ seen = "pending"
        /\ outcome = [kind |-> "none", toldCommit |-> FALSE] /\ ops = <<>> /\ stale = FALSE
    BY DEF Init
  <1>2. TypeOK
    <2>1. Len(ops) <= MaxOps /\ \A o : o \notin 1..Len(ops)
      BY <1>1, DdlAssumption
    <2>2. typed \in 0..MaxDdl
      BY <1>1, DdlAssumption
    <2>3. outcome.kind = "none"
      BY <1>1
    <2> QED BY <1>1, <2>1, <2>2, <2>3, NothingTyped DEF TypeOK
  <1>3. outcome \in Outcome
    BY <1>1 DEF Outcome
  <1>4. Shapes
    BY <1>1, <1>2, <1>3, NothingTyped DEF Shapes
  <1>5. OpsInv /\ OnceInv /\ BatchInv
    BY <1>1, NothingTyped DEF OpsInv, OnceInv, BatchInv, Typed, FreeBut
  <1>6. RequestInv
    BY <1>1, NothingTyped DEF RequestInv, Waiting, Typed
  <1>7. SeenInv /\ ReceiptInv /\ StaleInv
    BY <1>1 DEF SeenInv, ReceiptInv, StaleInv, Waiting
  <1> QED BY <1>4, <1>5, <1>6, <1>7 DEF IInv

\* ... when nothing happens ...
LEMMA StutterInv == IInv /\ UNCHANGED vars => IInv'
PROOF
  <1> SUFFICES ASSUME IInv, UNCHANGED vars PROVE IInv'
    OBVIOUS
  <1>1. /\ pc' = pc /\ owner' = owner /\ batch' = batch /\ typed' = typed /\ req' = req
        /\ committed' = committed /\ seen' = seen /\ outcome' = outcome /\ ops' = ops
        /\ stale' = stale /\ budget' = budget /\ cancelled' = cancelled
    BY DEF vars, session, wait
  <1>2. Shapes'
    <2>1. TypeOK'
      BY <1>1 DEF IInv, Shapes, TypeOK
    <2> QED BY <1>1, <2>1 DEF IInv, Shapes
  <1>3. OpsInv' /\ OnceInv' /\ BatchInv'
    <2>1. typed \in Nat
      BY DEF IInv, Shapes, TypeOK
    <2> QED BY <1>1, <2>1, OpsStay, BatchStays
  <1>4. RequestInv'
    <2>1. Typed(req.ddls)' /\ Typed(req.suffix)'
      BY <1>1 DEF IInv, RequestInv, Typed
    <2>2. FreeBut(req.ddls, req.cur)' = FreeBut(req.ddls, req.cur)
          /\ FreeBut(req.suffix, 0)' = FreeBut(req.suffix, 0)
      BY <1>1 DEF FreeBut, Live
    <2>3. \A k : Took(req.ddls[k])' = Took(req.ddls[k])
      BY <1>1 DEF Took
    <2> QED BY <1>1, <2>1, <2>2, <2>3 DEF IInv, RequestInv, Waiting, Statements
  <1>5. SeenInv' /\ ReceiptInv'
    BY <1>1 DEF IInv, SeenInv, ReceiptInv
  <1>6. StaleInv'
    BY <1>1 DEF IInv, StaleInv, Waiting
  <1> QED BY <1>2, <1>3, <1>4, <1>5, <1>6 DEF IInv

\* ... and after every step.
LEMMA NextInv == IInv /\ [Next]_vars => IInv'
PROOF
  <1> SUFFICES ASSUME IInv, [Next]_vars PROVE IInv'
    OBVIOUS
  <1>1. CASE Prompt
    BY <1>1, OwnerStep, DmlBatchStep, StartBatchDDLStep, DdlStatementStep, BulkDdlStep,
       RunBatchStep DEF Prompt
  <1>2. CASE Work
    BY <1>2, AdmitRequestStep, SubmitStep, ResponseStep, PollStep, SleepStep, RepairStep DEF Work
  <1>3. CASE Cancel \/ BudgetRunsOut
    BY <1>3, ClockStep
  <1>4. CASE \E o \in 1..MaxOps : Apply(o) \/ Complete(o)
    BY <1>4, ApplyStep, CompleteStep
  <1>5. CASE UNCHANGED vars
    BY <1>5, StutterInv
  <1> QED BY <1>1, <1>2, <1>3, <1>4, <1>5 DEF Next

\* The inductive invariant holds in every state, for every MaxDdl and MaxOps.
THEOREM DdlInvariance == Spec => []IInv
BY InitInv, NextInv, PTL DEF Spec

\* A statement took effect once at most, and once if an operation did it.
LEMMA AppliedCount ==
    ASSUME IInv, NEW id, id # 0
    PROVE  Applied(id) <= 1 /\ (Took(id) => Applied(id) = 1)
PROOF
  <1> DEFINE S == UNION {{o} \X {i \in ops[o].done : ops[o].ddls[i] = id} : o \in 1..Len(ops)}
  <1>1. DOMAIN ops = 1..Len(ops)
    BY DEF IInv, Shapes
  <1>2. \A x : x \in S <=> \E o \in DOMAIN ops : \E i \in ops[o].done :
                              ops[o].ddls[i] = id /\ x = <<o, i>>
    BY <1>1
  <1>3. Applied(id) = Cardinality(S)
    BY DEF Applied
  <1> HIDE DEF S
  <1>4. ASSUME NEW x \in S, NEW y \in S
        PROVE  x = y
    <2>1. PICK o \in DOMAIN ops : \E i \in ops[o].done : ops[o].ddls[i] = id /\ x = <<o, i>>
      BY <1>2
    <2>2. PICK i \in ops[o].done : ops[o].ddls[i] = id /\ x = <<o, i>>
      BY <2>1
    <2>3. PICK p \in DOMAIN ops : \E j \in ops[p].done : ops[p].ddls[j] = id /\ y = <<p, j>>
      BY <1>2
    <2>4. PICK j \in ops[p].done : ops[p].ddls[j] = id /\ y = <<p, j>>
      BY <2>3
    <2>5. i \in DOMAIN ops[o].ddls /\ j \in DOMAIN ops[p].ddls
      BY <2>2, <2>4 DEF IInv, OpsInv
    <2>6. o = p /\ i = j
      BY <2>2, <2>4, <2>5 DEF IInv, OnceInv, Live
    <2> QED BY <2>2, <2>4, <2>6
  <1>5. S = {} \/ \E x : S = {x}
    <2> SUFFICES ASSUME S # {} PROVE \E x : S = {x}
      OBVIOUS
    <2>1. PICK x \in S : TRUE
      OBVIOUS
    <2>2. S = {x}
      BY <1>4
    <2> QED BY <2>2
  <1>6. Cardinality(S) = 0 \/ Cardinality(S) = 1
    BY <1>5, FS_EmptySet, FS_Singleton
  <1>7. S # {} => Cardinality(S) = 1
    BY <1>5, FS_Singleton
  <1>8. Took(id) => S # {}
    BY <1>2 DEF Took
  <1> QED BY <1>3, <1>6, <1>7, <1>8

\* What the invariant says of the states between the steps.
LEMMA SoundIsInvariant == IInv => DdlSound
PROOF
  <1> SUFFICES ASSUME IInv PROVE DdlSound
    OBVIOUS
  <1>1. DdlOnce
    BY AppliedCount DEF DdlOnce
  <1>2. CachesTold
    BY DEF CachesTold, IInv, StaleInv, Waiting
  <1> QED BY <1>1, <1>2 DEF DdlSound, IInv, Shapes

\* No DDL statement takes effect twice, however requests fail, are cancelled,
\* lose their answers or are repaired, and the caches have been told of every
\* schema change when the statement returns to the prompt.
THEOREM DdlIsSound == Spec => []DdlSound
BY DdlInvariance, SoundIsInvariant, PTL

----------------------------------------------------------------------------
(* What a step of DDL may do.                                              *)

\* Only the steps of the request itself move it on.
LEMMA PcMoves ==
    ASSUME [Next]_vars, pc # "prompt"
    PROVE  Work \/ (pc' = pc /\ owner' = owner /\ batch' = batch)
PROOF
  <1>1. ~Prompt
    BY DEF Prompt, SetLocalPolicy, Begin, UserWork, EndOwner, StartBatchDML, BufferDML,
           StartBatchDDL, AbortBatch, Ddl, BulkDdl, RunBatch
  <1>2. CASE Cancel \/ BudgetRunsOut
    BY <1>2 DEF Cancel, BudgetRunsOut, session
  <1>3. CASE \E o \in 1..MaxOps : Apply(o) \/ Complete(o)
    BY <1>3 DEF Apply, Complete, session
  <1>4. CASE UNCHANGED vars
    BY <1>4 DEF vars, session
  <1> QED BY <1>1, <1>2, <1>3, <1>4 DEF Next

\* Of the steps of a request, only its admission changes owner or batch.
LEMMA WorkKeepsSession ==
    ASSUME Work, ~AdmitRequest
    PROVE  owner' = owner /\ batch' = batch
BY DEF Work, Submit, Response, Poll, Sleep, Repair, session

\* A wait that fails does not say that all is well, and not that an operation
\* still runs whose outcome it has.
LEMMA FailedOutcome ==
    ASSUME NEW view, NEW e, WaitFailed(view, e), pc' = "prompt"
    PROVE  /\ outcome'.kind \in {"handoff", "error", "phaseError"}
           /\ outcome'.kind = "handoff" => view = "pending"
           /\ outcome'.kind # "handoff" => outcome'.toldCommit = committed
PROOF
  <1>1. CASE HandsOff(view, e)
    BY <1>1 DEF WaitFailed, HandsOff, HandOver, Return, Fail, End
  <1>2. CASE ~HandsOff(view, e)
    BY <1>2 DEF WaitFailed, Fail, End, Continue
  <1> QED BY <1>1, <1>2

\* How a poll ends the statement.
LEMMA PollOutcome ==
    ASSUME IInv, Poll, pc' = "prompt"
    PROVE  \/ /\ outcome'.kind = "ok" /\ ops[req.cur].state = "ok" /\ req.phase # "alter"
           \/ /\ outcome'.kind \in {"handoff", "error", "phaseError"}
              /\ outcome'.kind = "handoff" => seen = "pending"
              /\ outcome'.kind # "handoff" => outcome'.toldCommit = committed
PROOF
  <1> DEFINE Goal == \/ /\ outcome'.kind = "ok" /\ ops[req.cur].state = "ok" /\ req.phase # "alter"
                     \/ /\ outcome'.kind \in {"handoff", "error", "phaseError"}
                        /\ outcome'.kind = "handoff" => seen = "pending"
                        /\ outcome'.kind # "handoff" => outcome'.toldCommit = committed
  <1>1. pc = "poll" /\ Waiting
    BY DEF Poll, Waiting
  <1>2. seen \in {"pending", "ok"} \cup Failures /\ (seen # "pending" => ops[req.cur].state = seen)
    BY <1>1 DEF IInv, SeenInv, Shapes, TypeOK
  <1>3. ASSUME NEW view \in {"pending", "ok"} \cup Failures, Observe(view),
               view = "pending" => seen = "pending", view # "pending" => ops[req.cur].state = view
        PROVE  Goal
    <2>1. CASE view = "pending"
      BY <1>3, <2>1 DEF Observe, Continue, Failures
    <2>2. CASE view = "ok"
      <3>1. WaitSucceeded \/ WaitFailed("ok", FALSE)
        BY <1>3, <2>2 DEF Observe, Failures
      <3>2. CASE WaitFailed("ok", FALSE)
        <4>1. /\ outcome'.kind \in {"handoff", "error", "phaseError"}
              /\ outcome'.kind = "handoff" => "ok" = "pending"
              /\ outcome'.kind # "handoff" => outcome'.toldCommit = committed
          BY <3>2, FailedOutcome
        <4> QED BY <4>1
      <3>3. CASE WaitSucceeded
        BY <1>3, <2>2, <3>3 DEF WaitSucceeded, Return, End, Continue
      <3> QED BY <3>1, <3>2, <3>3
    <2>3. CASE view \in Failures
      <3>1. WaitFailed(view, view = "cancelStatus")
        BY <1>3, <2>3 DEF Observe, Failures
      <3>2. outcome'.kind \in {"error", "phaseError"} /\ outcome'.toldCommit = committed
        BY <2>3, <3>1 DEF WaitFailed, HandsOff, Failures, Fail, End, Continue
      <3> QED BY <3>2
    <2> QED BY <2>1, <2>2, <2>3
  <1>4. CASE seen # "pending" /\ Observe(seen)
    <2>1. PICK v : v = seen
      OBVIOUS
    <2>2. Observe(v) /\ v \in {"pending", "ok"} \cup Failures /\ v # "pending"
          /\ ops[req.cur].state = v
      BY <1>2, <1>4, <2>1
    <2> QED BY <1>3, <2>2
  <1>5. CASE seen = "pending" /\ Observe(View)
    <2>1. PICK v : v = View
      OBVIOUS
    <2>2. Observe(v) /\ v \in {"pending", "ok"} \cup Failures
          /\ (v # "pending" => ops[req.cur].state = v)
      BY <1>1, <1>5, <2>1, ViewFacts
    <2> QED BY <1>3, <1>5, <2>2
  <1>6. CASE seen = "pending" /\ \E e \in BOOLEAN : WaitFailed("pending", e)
    BY <1>6, FailedOutcome
  <1> QED BY <1>4, <1>5, <1>6 DEF Poll

\* A request that ends well after a poll found its last operation applied, and
\* the part before a repair was applied already.
LEMMA OkStep ==
    ASSUME IInv, [Next]_vars
    PROVE  OkMeansApplied
PROOF
  <1> SUFFICES ASSUME pc = "poll", pc' = "prompt", outcome'.kind = "ok",
                      NEW k \in 1..Len(req.ddls)
               PROVE  Applied(req.ddls[k]) = 1
    BY DEF OkMeansApplied
  <1>1. Poll
    BY PcMoves DEF Work, AdmitRequest, Submit, Response, Sleep, Repair
  <1>2. ops[req.cur].state = "ok" /\ req.phase # "alter"
    BY <1>1, PollOutcome
  <1>3. Waiting
    BY DEF Waiting
  <1>4. /\ req.cur \in DOMAIN ops /\ ops[req.cur].ddls = Statements
        /\ ops[req.cur].done = DOMAIN Statements
    BY <1>2, <1>3, ViewFacts DEF IInv, OpsInv
  <1>5. req \in Req /\ Typed(req.ddls) /\ k \in DOMAIN req.ddls /\ typed \in Nat
    BY DEF IInv, Shapes, TypeOK, RequestInv, Req
  <1>6. req.phase \in {"main", "suffix"}
    BY <1>2, <1>5 DEF Req
  <1>7. Took(req.ddls[k])
    <2>1. CASE req.phase = "main"
      <3>1. Statements = req.ddls
        BY <2>1 DEF Statements
      <3> QED BY <1>4, <1>5, <3>1 DEF Took
    <2>2. CASE req.phase = "suffix"
      <3>1. Statements = req.suffix
        BY <2>2 DEF Statements
      <3>2. Took(req.ddls[k]) \/ Shares(<<req.ddls[k]>>, req.suffix)
        BY <1>5, <2>2 DEF IInv, RequestInv
      <3>3. CASE Shares(<<req.ddls[k]>>, req.suffix)
        <4>1. PICK j \in DOMAIN req.suffix : req.suffix[j] = req.ddls[k]
          BY <3>3 DEF Shares
        <4> QED BY <1>4, <3>1, <4>1 DEF Took
      <3> QED BY <3>2, <3>3
    <2> QED BY <1>6, <2>1, <2>2
  <1>8. req.ddls[k] # 0
    BY <1>5 DEF Typed
  <1>9. PICK id : id = req.ddls[k]
    OBVIOUS
  <1> QED BY <1>7, <1>8, <1>9, AppliedCount

\* How any step of a request ends the statement.
LEMMA WorkOutcome ==
    ASSUME IInv, Work, pc' = "prompt"
    PROVE  /\ outcome'.kind \in {"refused", "error", "phaseError"}
                => outcome'.toldCommit = committed
           /\ outcome'.kind = "handoff" => seen = "pending"
PROOF
  <1>1. CASE AdmitRequest
    <2>1. pc = "admit" /\ committed = FALSE
      BY <1>1 DEF AdmitRequest, IInv, ReceiptInv, Shapes, TypeOK
    <2>2. CASE batch.mode = "dml"
      <3>1. outcome' = [kind |-> "refused", toldCommit |-> FALSE]
        BY <1>1, <2>2 DEF AdmitRequest, Return, End
      <3>2. outcome'.kind = "refused" /\ outcome'.toldCommit = FALSE
        BY <3>1
      <3>3. outcome'.toldCommit = committed
        BY <3>2, <2>1
      <3> QED BY <3>2, <3>3
    <2>3. CASE batch.mode # "dml"
      <3>1. PICK a \in Admissions :
              IF a.verdict = "admitted" THEN pc' = "submit" ELSE Return(a.verdict)
        BY <1>1, <2>3 DEF AdmitRequest, Continue
      <3>2. Return(a.verdict) /\ a.verdict \in {"refused", "error"}
        BY <3>1, AdmissionFacts
      <3> QED BY <2>1, <3>2 DEF Return, End
    <2> QED BY <2>2, <2>3
  <1>2. CASE Submit
    <2>1. PICK kk \in {"error", "phaseError"} : End(kk, committed)
      BY <1>2 DEF Submit, Continue, Fail
    <2> QED BY <2>1 DEF End
  <1>3. CASE Response
    BY <1>3 DEF Response, HandOver, Return, Fail, End, Continue
  <1>4. CASE Poll
    BY <1>4, PollOutcome
  <1>5. CASE Sleep
    <2>1. pc = "sleep" /\ seen = "pending" /\ WaitFailed("pending", TRUE)
      BY <1>5 DEF Sleep, Continue, IInv, SeenInv
    <2> QED BY <2>1, FailedOutcome
  <1>6. CASE Repair
    <2>1. Fail("error")
      BY <1>6 DEF Repair, RepairFrom, Continue
    <2> QED BY <2>1 DEF Fail, End
  <1> QED BY <1>1, <1>2, <1>3, <1>4, <1>5, <1>6 DEF Work

\* Only the admission forgets the receipt, before there is one.
LEMMA CommitToldStep ==
    ASSUME IInv, [Next]_vars
    PROVE  CommitIsTold /\ HandoffIsPending
PROOF
  <1>1. pc # "prompt" /\ pc' = "prompt" => Work
    BY PcMoves
  <1> QED BY <1>1, WorkOutcome DEF CommitIsTold, HandoffIsPending

\* A refused admission keeps batch and owner, unless the Commit itself failed.
LEMMA RefusedStays ==
    ASSUME NEW a \in Admissions, IInv, a.verdict = "refused"
    PROVE  a.owner = owner
PROOF
  <1>1. owner.mode \in {"none", "pending", "rw", "ro"} /\ owner.policy \in Policies
        /\ owner.recovery \in BOOLEAN
    BY SameOwner DEF Owner
  <1>2. CASE owner.mode = "none"
    BY <1>2 DEF Admissions
  <1>3. CASE owner.mode # "none" /\ (owner.mode = "ro" \/ owner.recovery)
    BY <1>3 DEF Admissions
  <1>4. CASE owner.mode = "pending" /\ ~owner.recovery
    BY <1>1, <1>4 DEF Admissions, Empty, Policies
  <1>5. CASE owner.mode = "rw" /\ ~owner.recovery
    BY <1>1, <1>5 DEF Admissions, Empty, Policies
  <1> QED BY <1>1, <1>2, <1>3, <1>4, <1>5

\* Of the steps of a request only the admission ends an owner with work: by its
\* Commit.
LEMMA WorkKeptStep ==
    ASSUME IInv, [Next]_vars
    PROVE  WorkKept
PROOF
  <1> SUFFICES ASSUME pc # "prompt", owner.work, owner' = Idle
               PROVE  committed' \/ outcome'.kind = "error"
    BY DEF WorkKept
  <1>1. owner' # owner
    BY NothingTyped
  <1>2. AdmitRequest
    BY <1>1, PcMoves, WorkKeepsSession
  <1>3. PICK a \in Admissions :
            /\ owner' = a.owner
            /\ IF a.verdict = "admitted" THEN committed' = a.committed ELSE Return(a.verdict)
    BY <1>1, <1>2 DEF AdmitRequest, session
  <1>4. a.committed \/ a.verdict = "error"
    BY <1>3, AdmissionFacts
  <1>5. CASE a.verdict = "admitted"
    BY <1>3, <1>4, <1>5
  <1>6. CASE a.verdict # "admitted"
    <2>1. a.verdict \in {"refused", "error"} /\ outcome'.kind = a.verdict
      BY <1>3, <1>6, AdmissionFacts DEF Return, End
    <2>2. ~(a.verdict = "refused")
      <3> SUFFICES ASSUME a.verdict = "refused" PROVE FALSE
        OBVIOUS
      <3> QED BY <1>3, AdmissionFacts, RefusedStays, <1>1
    <2> QED BY <2>1, <2>2
  <1> QED BY <1>5, <1>6

\* The batch is taken by the admitted request that has its statements.
LEMMA BatchKeptStep ==
    ASSUME IInv, [Next]_vars
    PROVE  BatchKept
PROOF
  <1> SUFFICES ASSUME batch.ddls # <<>>, batch'.ddls = <<>>, pc # "prompt"
               PROVE  pc' = "submit" /\ req.ddls = batch.ddls
    BY DEF BatchKept
  <1>1. AdmitRequest
    BY PcMoves, WorkKeepsSession
  <1>2. pc' = "submit" /\ batch' = (IF req.bulk THEN batch ELSE NoBatch) /\ pc = "admit"
    BY <1>1 DEF AdmitRequest, session, Continue
  <1>3. req.ddls = batch.ddls
    BY <1>2 DEF IInv, RequestInv
  <1> QED BY <1>2, <1>3

\* All of it.
LEMMA DdlStepHolds == IInv /\ [Next]_vars => DdlStep
BY OkStep, CommitToldStep, WorkKeptStep, BatchKeptStep DEF DdlStep

\* No step of a DDL request breaks a promise: an OK means that everything asked
\* for took effect once, a failure after the Commit says so, a transaction's
\* work and the batch are never dropped, and a known outcome is not handed over
\* as pending.
THEOREM DdlStepIsSound == Spec => [][DdlStep]_vars
PROOF
  <1>1. IInv /\ [Next]_vars => [DdlStep]_vars
    BY DdlStepHolds
  <1> QED BY <1>1, DdlInvariance, PTL DEF Spec

-----------------------------------------------------------------------------
(***************************************************************************)
(* The session.                                                            *)
(*                                                                         *)
(* That the handles of the session are the open ones, and that no cache is *)
(* of another session, rests on numbers: a number is given once, and every *)
(* number in use was given before next.  The candidate of a switch then    *)
(* owns nothing of the session it replaces, and a cache filled before the  *)
(* switch has the number of the session that filled it.                    *)
(***************************************************************************)

\* The client sessions that can be: their numbers were given before next.
Sessions ==
    [id: Nat, db: {d1, d2} \cup {Cli!Detached}, role: Cli!Roles, client: Nat, txnClient: Nat,
     admin: Nat, feature: Nat, gen: Nat \ {0}, ddl: [gen: Nat, version: Nat]]

\* The handles of a session are its own, and no two of them the same.
OwnHandles(s) ==
    /\ s.client = s.txnClient
    /\ s.client # 0 => s.client # s.admin /\ s.client # s.feature
    /\ s.admin # 0 => s.admin # s.feature

\* The types of the records, besides those of CliSession.
CliTypes ==
    /\ Cli!TypeOK
    /\ current \in Sessions /\ cand \in Sessions
    /\ current.id \in 1..MaxHandles
    /\ completion \in [session: Nat, gen: Nat, of: ({d1, d2} \cup {Cli!Detached}) \X Nat]

\* Numbers are given once.
NumbersInv ==
    /\ \A h \in Cli!Handles(current) \cup Cli!Handles(cand) : h < next
    /\ Cli!Handles(current) \cap Cli!Handles(cand) = {}
    /\ OwnHandles(current) /\ OwnHandles(cand)
    /\ current.id < next /\ cand.id < next /\ completion.session < next

Switching == cliPc \in {"dial", "dialAdmin", "check"}

\* The candidate: only while a switch is under way, without an owner, a batch
\* or a cached answer of its own.
CandInv ==
    /\ ~Switching => cand = Cli!NoSession
    /\ Switching =>
         /\ cliOwner = "none" /\ ~cliBatch
         /\ cand.id # 0 /\ cand.id # current.id /\ cand.id # completion.session
         /\ cand.gen = 1 /\ cand.ddl = Cli!NoDdl
    /\ (cand.db = Cli!Detached \/ cliPc = "dial") => cand.client = 0
    /\ cliPc \in {"dial", "dialAdmin"} => cand.admin = 0
    /\ (cliPc = "dial" => Cli!Room(2)) /\ (cliPc = "dialAdmin" => Cli!Room(1))
    /\ cliPc = "recreate" => current.client # 0
    /\ cand.feature = 0

\* Caches are of the past: what they were filled for, or older.
CachesInv ==
    /\ current.ddl.gen <= current.gen
    /\ completion.session = current.id => completion.gen <= current.gen
    /\ Cli!CachesCurrent

\* The inductive invariant of the session.
CliInv ==
    /\ CliTypes /\ NumbersInv /\ CandInv /\ CachesInv
    /\ Cli!HandlesAccounted /\ Cli!OneIdentity /\ Cli!UndoReachable

\* A statement that leaves the session and its clients as they are.
LEMMA SameSessionStep ==
    ASSUME CliInv, ~Switching, ~Switching',
           UNCHANGED <<current, cand, live, open, next, schema, completion>>,
           cliPc # "exited", cliPc' \in {"prompt", "recreate", "closing"},
           front' \in {"startup", "interactive", "source", "batch", "mcp"},
           cliOwner' \in {"none", "pending", "rw"}, cliBatch' \in BOOLEAN,
           undo' \in {0, current.id}, exists' \subseteq exists,
           cliPc' = "recreate" => current.client # 0
    PROVE  CliInv'
PROOF
  <1>1. CliTypes'
    BY SessionAssumption DEF CliInv, CliTypes, Cli!TypeOK
  <1>2. NumbersInv'
    BY DEF CliInv, NumbersInv, OwnHandles, Cli!Handles
  <1>3. CandInv'
    BY DEF CliInv, CandInv, Switching
  <1>4. CachesInv'
    BY DEF CliInv, CachesInv, Cli!CachesCurrent, Cli!CompletionValid, Cli!DdlValid
  <1>5. Cli!HandlesAccounted' /\ Cli!OneIdentity' /\ Cli!UndoReachable'
    BY DEF CliInv, Cli!HandlesAccounted, Cli!OneIdentity, Cli!UndoReachable, Cli!Handles,
           Cli!Publish
  <1> QED BY <1>1, <1>2, <1>3, <1>4, <1>5 DEF CliInv

\* Where an error, and the end of a statement, lead.
LEMMA EndFacts ==
    ASSUME front \in {"startup", "interactive", "source", "batch", "mcp"},
           Cli!Failed \/ Cli!Done
    PROVE  /\ cliPc' \in {"prompt", "closing"}
           /\ front' \in {"startup", "interactive", "source", "batch", "mcp"}
BY DEF Cli!Failed, Cli!Done

\* The front ends, the statements that change only what an owner or a batch
\* has, and the statement that ends ABORTED.
LEMMA OrdinaryStep ==
    ASSUME CliInv,
           \/ Cli!Start \/ Cli!Source \/ Cli!Exit \/ Cli!Begin \/ Cli!SetLocal \/ Cli!EndOwner
           \/ Cli!IdleExpires \/ Cli!Batch \/ Cli!Abort \/ Cli!DropDatabase
    PROVE  CliInv'
PROOF
  <1>1. /\ cliPc = "prompt" /\ front \in {"startup", "interactive", "source", "batch", "mcp"}
        /\ undo \in {0, current.id} /\ cliOwner \in {"none", "pending", "rw"}
        /\ cliBatch \in BOOLEAN
    BY DEF Cli!Start, Cli!Source, Cli!Exit, Cli!Begin, Cli!SetLocal, Cli!EndOwner,
           Cli!IdleExpires, Cli!Batch, Cli!Abort, Cli!DropDatabase, Cli!Statement, CliInv,
           CliTypes, Cli!TypeOK, Cli!UndoReachable
  <1>2. /\ UNCHANGED <<current, cand, live, open, next, schema, completion>>
        /\ exists' \subseteq exists
    BY DEF Cli!Start, Cli!Source, Cli!Exit, Cli!Begin, Cli!SetLocal, Cli!EndOwner,
           Cli!IdleExpires, Cli!Batch, Cli!Abort, Cli!DropDatabase, Cli!Statement,
           Cli!clients, Cli!server
  <1>3. /\ cliPc' \in {"prompt", "recreate", "closing"}
        /\ front' \in {"startup", "interactive", "source", "batch", "mcp"}
        /\ cliPc' = "recreate" => current.client # 0
    BY <1>1, EndFacts
       DEF Cli!Start, Cli!Source, Cli!Exit, Cli!Begin, Cli!SetLocal, Cli!EndOwner,
           Cli!IdleExpires, Cli!Batch, Cli!Abort, Cli!DropDatabase, Cli!Statement
  <1>4. /\ cliOwner' \in {"none", "pending", "rw"} /\ cliBatch' \in BOOLEAN
        /\ undo' \in {0, current.id}
    BY <1>1
       DEF Cli!Start, Cli!Source, Cli!Exit, Cli!Begin, Cli!SetLocal, Cli!EndOwner,
           Cli!IdleExpires, Cli!Batch, Cli!Abort, Cli!DropDatabase, Cli!Statement, Cli!Leaves,
           Cli!activity
  <1> QED BY <1>1, <1>2, <1>3, <1>4, SameSessionStep DEF Switching

\* What leaves everything but the databases of the server as it is.
LEMMA ElsewhereStep ==
    ASSUME CliInv, Cli!DroppedElsewhere \/ UNCHANGED Cli!vars
    PROVE  CliInv'
PROOF
  <1>1. /\ cliPc' = cliPc /\ front' = front /\ current' = current /\ cand' = cand
        /\ live' = live /\ open' = open /\ next' = next /\ cliOwner' = cliOwner
        /\ cliBatch' = cliBatch /\ undo' = undo /\ schema' = schema
        /\ completion' = completion /\ exists' \subseteq exists
    BY DEF Cli!DroppedElsewhere, Cli!vars, Cli!clients, Cli!activity, Cli!server
  <1>2. CliTypes'
    BY <1>1 DEF CliInv, CliTypes, Cli!TypeOK
  <1>3. NumbersInv'
    BY <1>1 DEF CliInv, NumbersInv, OwnHandles, Cli!Handles
  <1>4. CandInv'
    BY <1>1 DEF CliInv, CandInv, Switching, Cli!Room
  <1>5. CachesInv'
    BY <1>1 DEF CliInv, CachesInv, Cli!CachesCurrent, Cli!CompletionValid, Cli!DdlValid
  <1>6. Cli!HandlesAccounted' /\ Cli!OneIdentity' /\ Cli!UndoReachable'
    BY <1>1 DEF CliInv, Cli!HandlesAccounted, Cli!OneIdentity, Cli!UndoReachable, Cli!Handles,
           Cli!Publish
  <1> QED BY <1>2, <1>3, <1>4, <1>5, <1>6 DEF CliInv

\* Close gives back all the session has; there is no candidate.
LEMMA CloseStep ==
    ASSUME CliInv, Cli!CloseCli
    PROVE  CliInv'
PROOF
  <1>1. /\ cliPc = "closing" /\ cliPc' = "exited" /\ front' = front /\ current' = current
        /\ cand' = cand /\ live' = live /\ next' = next /\ cliOwner' = "none"
        /\ cliBatch' = FALSE /\ undo' = 0 /\ schema' = schema /\ exists' = exists
        /\ completion' = completion /\ open' = open \ Cli!Handles(current)
    BY DEF Cli!CloseCli, Cli!Retire, Cli!server, CliInv, Cli!UndoReachable
  <1>2. cand = Cli!NoSession /\ ~Switching'
    BY <1>1 DEF CliInv, CandInv, Switching
  <1>3. open' = {}
    BY <1>1, <1>2 DEF CliInv, Cli!HandlesAccounted, Cli!Handles, Cli!NoSession
  <1>4. CliTypes'
    <2>1. cliBatch' \in BOOLEAN
      BY <1>1
    <2>2. undo' \in 0..MaxHandles /\ open' \subseteq 1..MaxHandles
      BY <1>1, <1>3, SessionAssumption
    <2> QED BY <1>1, <2>1, <2>2 DEF CliInv, CliTypes, Cli!TypeOK
  <1>5. NumbersInv'
    BY <1>1 DEF CliInv, NumbersInv, OwnHandles, Cli!Handles
  <1>6. CandInv'
    BY <1>1, <1>2 DEF CliInv, CandInv
  <1>7. CachesInv'
    BY <1>1 DEF CliInv, CachesInv, Cli!CachesCurrent, Cli!CompletionValid, Cli!DdlValid
  <1>8. Cli!HandlesAccounted' /\ Cli!OneIdentity' /\ Cli!UndoReachable'
    BY <1>1, <1>3 DEF Cli!HandlesAccounted, Cli!OneIdentity, Cli!UndoReachable
  <1> QED BY <1>4, <1>5, <1>6, <1>7, <1>8 DEF CliInv

\* A statement that changes the session it runs on, and no other.
LEMMA SessionTypes ==
    ASSUME CliInv
    PROVE  /\ current \in Sessions /\ cand \in Sessions /\ next \in Nat \ {0}
           /\ next \in 1..(MaxHandles + 1) /\ MaxHandles \in Nat
           /\ Cli!Handles(current) \subseteq Nat /\ Cli!Handles(cand) \subseteq Nat
           /\ \A h \in Cli!Handles(current) \cup Cli!Handles(cand) : h < next /\ h # next
           /\ next \notin open
PROOF
  <1>1. /\ current \in Sessions /\ cand \in Sessions /\ next \in Nat \ {0}
        /\ next \in 1..(MaxHandles + 1) /\ MaxHandles \in Nat
    BY SessionAssumption DEF CliInv, CliTypes, Cli!TypeOK
  <1>2. Cli!Handles(current) \subseteq Nat /\ Cli!Handles(cand) \subseteq Nat
    BY <1>1 DEF Sessions, Cli!Handles
  <1>3. \A h \in Cli!Handles(current) \cup Cli!Handles(cand) : h < next
    BY DEF CliInv, NumbersInv
  <1>4. \A h \in Cli!Handles(current) \cup Cli!Handles(cand) : h < next /\ h # next
    BY <1>1, <1>2, <1>3
  <1>5. next \notin open
    BY <1>4 DEF CliInv, Cli!HandlesAccounted
  <1> QED BY <1>1, <1>2, <1>4, <1>5

\* A feature's state is a handle more.
LEMMA UseFeatureStep ==
    ASSUME CliInv, Cli!UseFeature
    PROVE  CliInv'
PROOF
  <1>1. /\ cliPc = "prompt" /\ cliPc' = "prompt" /\ front' = front /\ cand' = cand /\ live' = live
        /\ next' = next + 1 /\ cliOwner' = cliOwner /\ cliBatch' = cliBatch
        /\ undo' \in {0, undo} /\ schema' = schema /\ exists' = exists
        /\ completion' = completion /\ open' = open \cup {next}
        /\ current.feature = 0 /\ next + 1 <= MaxHandles + 1
        /\ current' = [current EXCEPT !.feature = next]
    BY DEF Cli!UseFeature, Cli!Statement, Cli!Done, Cli!Leaves, Cli!server, Cli!Room
  <1>2. /\ current' \in Sessions /\ current'.id = current.id /\ current'.db = current.db
        /\ current'.role = current.role /\ current'.client = current.client
        /\ current'.txnClient = current.txnClient /\ current'.admin = current.admin
        /\ current'.feature = next /\ current'.gen = current.gen /\ current'.ddl = current.ddl
    BY <1>1, SessionTypes DEF Sessions
  <1>3. /\ Cli!Handles(current') = Cli!Handles(current) \cup {next}
        /\ cand = Cli!NoSession /\ Cli!Handles(cand) = {} /\ ~Switching /\ ~Switching'
    BY <1>1, <1>2, SessionTypes DEF Cli!Handles, CliInv, CandInv, Switching, Cli!NoSession
  <1>4. CliTypes'
    BY <1>1, <1>2, SessionTypes DEF CliInv, CliTypes, Cli!TypeOK, Cli!UndoReachable
  <1>5. NumbersInv'
    <2>1. OwnHandles(current')
      <3>1. current.client # next /\ current.admin # next
        BY SessionTypes DEF Cli!Handles
      <3> QED BY <1>1, <1>2, <3>1 DEF CliInv, NumbersInv, OwnHandles
    <2>2. \A h \in Cli!Handles(current') : h < next + 1
      BY <1>3, SessionTypes
    <2>3. current.id < next + 1 /\ cand.id < next + 1 /\ completion.session < next + 1
      BY SessionTypes DEF CliInv, NumbersInv, CliTypes, Sessions
    <2>4. \A h \in Cli!Handles(current') \cup Cli!Handles(cand') : h < next'
      BY <1>1, <1>3, <2>2
    <2>5. Cli!Handles(current') \cap Cli!Handles(cand') = {} /\ OwnHandles(cand')
      BY <1>1, <1>3 DEF CliInv, NumbersInv
    <2> QED BY <1>1, <1>2, <2>1, <2>3, <2>4, <2>5 DEF NumbersInv, OwnHandles, Cli!Handles
  <1>6. CandInv'
    BY <1>1, <1>3 DEF CliInv, CandInv
  <1>7. CachesInv'
    BY <1>1, <1>2 DEF CliInv, CachesInv, Cli!CachesCurrent, Cli!CompletionValid, Cli!DdlValid
  <1>8. Cli!HandlesAccounted' /\ Cli!OneIdentity' /\ Cli!UndoReachable'
    <2>1. open' = Cli!Handles(current') \cup Cli!Handles(cand')
      BY <1>1, <1>3 DEF CliInv, Cli!HandlesAccounted
    <2> QED BY <1>1, <1>2, <2>1
            DEF CliInv, Cli!HandlesAccounted, Cli!OneIdentity, Cli!UndoReachable, Cli!Publish,
                Cli!Handles
  <1> QED BY <1>4, <1>5, <1>6, <1>7, <1>8 DEF CliInv

\* Schema changes outdate what was cached; what is read is current.
LEMMA SchemaStep ==
    ASSUME CliInv, Cli!ChangeSchema \/ Cli!ReadDdl
    PROVE  CliInv'
PROOF
  <1>1. /\ cliPc = "prompt" /\ cliPc' = "prompt" /\ front' = front /\ cand' = cand /\ live' = live
        /\ next' = next /\ cliOwner' = cliOwner /\ cliBatch' = cliBatch /\ exists' = exists
        /\ undo' \in {0, undo} /\ completion' = completion /\ open' = open
        /\ current.db \in exists
    BY DEF Cli!ChangeSchema, Cli!ReadDdl, Cli!Statement, Cli!Done, Cli!Leaves, Cli!server
  <1>2. /\ schema \in [{d1, d2} -> 0..MaxVersion] /\ current.gen \in Nat \ {0}
        /\ current.db \in {d1, d2}
    BY <1>1, SessionTypes DEF CliInv, CliTypes, Cli!TypeOK, Sessions
  <1>3. /\ current' \in Sessions /\ current'.id = current.id /\ current'.db = current.db
        /\ current'.role = current.role /\ current'.client = current.client
        /\ current'.txnClient = current.txnClient /\ current'.admin = current.admin
        /\ current'.feature = current.feature /\ schema' \in [{d1, d2} -> 0..MaxVersion]
        /\ \/ /\ current'.gen = current.gen + 1 /\ current'.ddl = current.ddl
           \/ /\ current'.gen = current.gen /\ current'.ddl.gen = current.gen
              /\ current'.ddl.version = schema[current.db] /\ schema' = schema
    <2>1. CASE Cli!ChangeSchema
      <3>1. current' = [current EXCEPT !.gen = @ + 1]
            /\ schema' = [schema EXCEPT ![current.db] = @ + 1]
            /\ schema[current.db] < MaxVersion
        BY <2>1 DEF Cli!ChangeSchema
      <3>2. schema' \in [{d1, d2} -> 0..MaxVersion]
        BY <1>2, <3>1, SessionAssumption
      <3> QED BY <1>2, <3>1, <3>2, SessionTypes DEF Sessions
    <2>2. CASE Cli!ReadDdl
      <3>1. current' = [current EXCEPT !.ddl = [gen |-> current.gen,
                                                version |-> schema[current.db]]]
            /\ schema' = schema
        BY <2>2 DEF Cli!ReadDdl, Cli!server
      <3>2. schema[current.db] \in Nat
        BY <1>2, SessionAssumption
      <3> QED BY <1>2, <3>1, <3>2, SessionTypes DEF Sessions
    <2> QED BY <2>1, <2>2
  <1>4. /\ Cli!Handles(current') = Cli!Handles(current)
        /\ cand = Cli!NoSession /\ ~Switching /\ ~Switching'
    BY <1>1, <1>3 DEF Cli!Handles, CliInv, CandInv, Switching
  <1>5. CliTypes'
    BY <1>1, <1>3, SessionTypes DEF CliInv, CliTypes, Cli!TypeOK, Cli!UndoReachable
  <1>6. NumbersInv'
    BY <1>1, <1>3 DEF CliInv, NumbersInv, OwnHandles, Cli!Handles
  <1>7. CandInv'
    BY <1>1, <1>4 DEF CliInv, CandInv
  <1>8. CachesInv'
    <2>1. current.ddl.gen \in Nat /\ current.ddl.gen <= current.gen /\ completion.gen \in Nat
          /\ (completion.session = current.id => completion.gen <= current.gen)
      BY SessionTypes DEF CliInv, CachesInv, CliTypes, Sessions
    <2>2. CASE current'.gen = current.gen + 1 /\ current'.ddl = current.ddl
      <3>1. current'.ddl.gen < current'.gen
            /\ (completion.session = current.id => completion.gen < current'.gen)
        BY <1>2, <2>1, <2>2
      <3>2. ~Cli!CompletionValid' /\ ~Cli!DdlValid'
        BY <1>1, <1>2, <1>3, <2>1, <2>2, <3>1 DEF Cli!CompletionValid, Cli!DdlValid
      <3> QED BY <1>1, <1>2, <1>3, <2>1, <2>2, <3>2 DEF CachesInv, Cli!CachesCurrent
    <2>3. CASE /\ current'.gen = current.gen /\ current'.ddl.gen = current.gen
               /\ current'.ddl.version = schema[current.db] /\ schema' = schema
      BY <1>1, <1>2, <1>3, <2>1, <2>3
         DEF CliInv, CachesInv, Cli!CachesCurrent, Cli!CompletionValid, Cli!DdlValid
    <2> QED BY <1>3, <2>2, <2>3
  <1>9. Cli!HandlesAccounted' /\ Cli!OneIdentity' /\ Cli!UndoReachable'
    BY <1>1, <1>3
       DEF CliInv, Cli!HandlesAccounted, Cli!OneIdentity, Cli!UndoReachable, Cli!Publish,
           Cli!Handles
  <1> QED BY <1>5, <1>6, <1>7, <1>8, <1>9 DEF CliInv

\* What completion caches is current.
LEMMA CompleteCacheStep ==
    ASSUME CliInv, Cli!Complete
    PROVE  CliInv'
PROOF
  <1>1. /\ cliPc = "prompt" /\ cliPc' = "prompt" /\ front' = front /\ current' = current
        /\ cand' = cand /\ live' = live /\ open' = open /\ next' = next
        /\ cliOwner' = cliOwner /\ cliBatch' = cliBatch /\ undo' = undo /\ schema' = schema
        /\ exists' = exists /\ current.db \in exists
        /\ completion' = [session |-> current.id, gen |-> current.gen,
                          of |-> <<current.db, schema[current.db]>>]
    BY DEF Cli!Complete, Cli!clients, Cli!activity, Cli!server
  <1>2. /\ schema \in [{d1, d2} -> 0..MaxVersion] /\ current.db \in {d1, d2}
        /\ current.id \in Nat /\ current.gen \in Nat
    BY <1>1, SessionTypes DEF CliInv, CliTypes, Cli!TypeOK, Sessions
  <1>3. schema[current.db] \in Nat
    BY <1>2, SessionAssumption
  <1>4. completion' \in [session: Nat, gen: Nat, of: ({d1, d2} \cup {Cli!Detached}) \X Nat]
    BY <1>1, <1>2, <1>3
  <1>5. CliTypes'
    BY <1>1, <1>4 DEF CliInv, CliTypes, Cli!TypeOK
  <1>6. NumbersInv'
    BY <1>1 DEF CliInv, NumbersInv, OwnHandles, Cli!Handles
  <1>7. CandInv'
    BY <1>1 DEF CliInv, CandInv, Switching
  <1>8. CachesInv'
    BY <1>1, <1>2 DEF CliInv, CachesInv, Cli!CachesCurrent, Cli!CompletionValid, Cli!DdlValid
  <1>9. Cli!HandlesAccounted' /\ Cli!OneIdentity' /\ Cli!UndoReachable'
    BY <1>1 DEF CliInv, Cli!HandlesAccounted, Cli!OneIdentity, Cli!UndoReachable, Cli!Handles,
           Cli!Publish
  <1> QED BY <1>5, <1>6, <1>7, <1>8, <1>9 DEF CliInv

\* What a switch leaves alone until it is done.
Switches ==
    UNCHANGED <<current, live, cliOwner, cliBatch, undo, exists, schema, completion>>

\* No candidate holds anything.
LEMMA NoCandidate ==
    /\ Cli!NoSession \in Sessions /\ Cli!Handles(Cli!NoSession) = {} /\ OwnHandles(Cli!NoSession)
    /\ Cli!NoSession.id = 0 /\ Cli!NoSession.client = 0 /\ Cli!NoSession.admin = 0
    /\ Cli!NoSession.feature = 0 /\ Cli!NoSession.db = Cli!Detached
    /\ Cli!NoSession.txnClient = 0 /\ Cli!NoSession.gen = 1 /\ Cli!NoSession.ddl = Cli!NoDdl
BY DEF Cli!NoSession, Cli!NoDdl, Cli!Roles, Sessions, Cli!Handles, OwnHandles

\* The candidate that cannot be had is closed.
LEMMA DropStep ==
    ASSUME CliInv, Switching, Cli!DropCandidate, Switches, next' = next
    PROVE  CliInv'
PROOF
  <1>1. /\ cliPc' \in {"prompt", "closing"} /\ cliPc # "exited"
        /\ front' \in {"startup", "interactive", "source", "batch", "mcp"}
        /\ cand' = Cli!NoSession /\ open' = open \ Cli!Handles(cand)
        /\ current' = current /\ live' = live /\ cliOwner' = cliOwner /\ cliBatch' = cliBatch
        /\ undo' = undo /\ exists' = exists /\ schema' = schema /\ completion' = completion
    BY EndFacts DEF Cli!DropCandidate, Switches, Switching, CliInv, CliTypes, Cli!TypeOK
  <1>2. ~Switching' /\ cliPc' # "exited" /\ cliPc' # "recreate"
    BY <1>1 DEF Switching
  <1>3. open' = Cli!Handles(current)
    BY <1>1 DEF CliInv, NumbersInv, Cli!HandlesAccounted
  <1>4. CliTypes'
    BY <1>1, NoCandidate DEF CliInv, CliTypes, Cli!TypeOK
  <1>5. NumbersInv'
    <2>1. Cli!Handles(cand') = {} /\ cand'.id < next /\ OwnHandles(cand')
      BY <1>1, NoCandidate, SessionTypes
    <2> QED BY <1>1, <2>1 DEF CliInv, NumbersInv, OwnHandles, Cli!Handles
  <1>6. CandInv'
    BY <1>1, <1>2, NoCandidate DEF CandInv, Switching
  <1>7. CachesInv'
    BY <1>1 DEF CliInv, CachesInv, Cli!CachesCurrent, Cli!CompletionValid, Cli!DdlValid
  <1>8. Cli!HandlesAccounted' /\ Cli!OneIdentity' /\ Cli!UndoReachable'
    BY <1>1, <1>2, <1>3, NoCandidate
       DEF CliInv, Cli!HandlesAccounted, Cli!OneIdentity, Cli!UndoReachable, Cli!Publish,
           Cli!Handles
  <1> QED BY <1>4, <1>5, <1>6, <1>7, <1>8 DEF CliInv

\* The candidate goes on, with a handle more or with what it has.
LEMMA CandidateStep ==
    ASSUME CliInv, Switching, Switches, front' = front, cliPc' \in {"dialAdmin", "check"},
           cand' \in Sessions, cand'.id = cand.id, cand'.db = cand.db, cand'.gen = cand.gen,
           cand'.ddl = cand.ddl, cand'.feature = cand.feature,
           cand'.client = cand'.txnClient, cliPc' = "dialAdmin" => cand'.admin = 0,
           cand'.db = Cli!Detached => cand'.client = 0,
           cliPc' = "dialAdmin" => next' + 1 <= MaxHandles + 1,
           \/ cand' = cand /\ open' = open /\ next' = next
           \/ /\ Cli!Handles(cand') = Cli!Handles(cand) \cup {next}
              /\ (cand'.client # 0 => cand'.client # cand'.admin)
              /\ open' = open \cup {next} /\ next' = next + 1 /\ next + 1 <= MaxHandles + 1
    PROVE  CliInv'
PROOF
  <1>1. /\ current' = current /\ live' = live /\ cliOwner' = cliOwner /\ cliBatch' = cliBatch
        /\ undo' = undo /\ exists' = exists /\ schema' = schema /\ completion' = completion
        /\ Switching' /\ cliPc' # "exited" /\ cliPc' # "recreate" /\ cliPc' # "dial"
        /\ cliPc # "exited"
    BY DEF Switches, Switching
  <1>2. next' \in 1..(MaxHandles + 1) /\ open' \subseteq 1..MaxHandles /\ next' >= next
    <2>1. open \subseteq 1..MaxHandles /\ next \in 1..(MaxHandles + 1) /\ MaxHandles \in Nat
      BY SessionTypes DEF CliInv, CliTypes, Cli!TypeOK
    <2>2. CASE open' = open /\ next' = next
      BY <2>1, <2>2
    <2>3. CASE open' = open \cup {next} /\ next' = next + 1 /\ next + 1 <= MaxHandles + 1
      <3>1. next \in 1..MaxHandles
        BY <2>1, <2>3
      <3> QED BY <2>1, <2>3, <3>1
    <2> QED BY <2>2, <2>3
  <1>3. CliTypes'
    BY <1>1, <1>2 DEF CliInv, CliTypes, Cli!TypeOK
  <1>4. NumbersInv'
    <2>1. \A h \in Cli!Handles(current) \cup Cli!Handles(cand') : h < next'
      BY SessionTypes
    <2>2. Cli!Handles(current) \cap Cli!Handles(cand') = {}
      BY SessionTypes DEF CliInv, NumbersInv
    <2>3. OwnHandles(cand')
      BY DEF OwnHandles, CliInv, NumbersInv, CandInv
    <2>4. current.id < next' /\ cand.id < next' /\ completion.session < next'
      BY SessionTypes DEF CliInv, NumbersInv, CliTypes, Sessions
    <2> QED BY <1>1, <2>1, <2>2, <2>3, <2>4 DEF CliInv, NumbersInv, OwnHandles, Cli!Handles
  <1>5. CandInv'
    BY <1>1 DEF CliInv, CandInv, Cli!Room
  <1>6. CachesInv'
    BY <1>1 DEF CliInv, CachesInv, Cli!CachesCurrent, Cli!CompletionValid, Cli!DdlValid
  <1>7. Cli!HandlesAccounted' /\ Cli!OneIdentity' /\ Cli!UndoReachable'
    BY <1>1
       DEF CliInv, Cli!HandlesAccounted, Cli!OneIdentity, Cli!UndoReachable, Cli!Publish,
           Cli!Handles
  <1> QED BY <1>3, <1>4, <1>5, <1>6, <1>7 DEF CliInv

\* The data client ...
LEMMA DialStep ==
    ASSUME CliInv, Cli!Dial
    PROVE  CliInv'
PROOF
  <1>1. cliPc = "dial" /\ Switching /\ Switches
    BY DEF Cli!Dial, Switching, Switches, Cli!activity, Cli!server
  <1>2. cand.client = 0 /\ cand.admin = 0 /\ cand.feature = 0 /\ cand.txnClient = 0
        /\ next + 2 <= MaxHandles + 1
    BY <1>1 DEF CliInv, CandInv, NumbersInv, OwnHandles, Cli!Room
  <1>3. CASE ~Cli!NeedsClient(cand) /\ cliPc' = "dialAdmin" /\ UNCHANGED <<front, cand, open, next>>
    <2>1. front' = front /\ cand' = cand /\ open' = open /\ next' = next
          /\ next' + 1 <= MaxHandles + 1
      BY <1>2, <1>3, SessionTypes
    <2> QED BY <1>1, <1>2, <1>3, <2>1, SessionTypes, CandidateStep
  <1>4. CASE /\ Cli!NeedsClient(cand) /\ cliPc' = "dialAdmin" /\ UNCHANGED front
             /\ cand' = [cand EXCEPT !.client = next, !.txnClient = next]
             /\ open' = open \cup {next} /\ next' = next + 1
    <2>1. /\ cand' \in Sessions /\ cand'.id = cand.id /\ cand'.db = cand.db
          /\ cand'.gen = cand.gen /\ cand'.ddl = cand.ddl /\ cand'.feature = 0
          /\ cand'.client = next /\ cand'.txnClient = next /\ cand'.admin = 0
      BY <1>2, <1>4, SessionTypes DEF Sessions
    <2>2. Cli!Handles(cand') = Cli!Handles(cand) \cup {next} /\ next # 0
      BY <1>2, <2>1, SessionTypes DEF Cli!Handles
    <2>3. cand.db # Cli!Detached /\ next + 1 <= MaxHandles + 1 /\ next' + 1 <= MaxHandles + 1
      BY <1>2, <1>4, SessionTypes DEF Cli!NeedsClient
    <2> QED BY <1>1, <1>2, <1>4, <2>1, <2>2, <2>3, CandidateStep
  <1>5. CASE Cli!NeedsClient(cand) /\ Cli!DropCandidate /\ UNCHANGED next
    BY <1>1, <1>5, DropStep
  <1> QED BY <1>3, <1>4, <1>5 DEF Cli!Dial

\* ... and the admin client of the candidate.
LEMMA DialAdminStep ==
    ASSUME CliInv, Cli!DialAdmin
    PROVE  CliInv'
PROOF
  <1>1. cliPc = "dialAdmin" /\ Switching /\ Switches
    BY DEF Cli!DialAdmin, Switching, Switches, Cli!activity, Cli!server
  <1>2. /\ cand.admin = 0 /\ cand.feature = 0 /\ cand.txnClient = cand.client
        /\ next + 1 <= MaxHandles + 1
    BY <1>1 DEF CliInv, CandInv, NumbersInv, OwnHandles, Cli!Room
  <1>3. CASE /\ cliPc' = "check" /\ UNCHANGED front
             /\ cand' = [cand EXCEPT !.admin = next]
             /\ open' = open \cup {next} /\ next' = next + 1
    <2>1. /\ cand' \in Sessions /\ cand'.id = cand.id /\ cand'.db = cand.db
          /\ cand'.gen = cand.gen /\ cand'.ddl = cand.ddl /\ cand'.feature = 0
          /\ cand'.client = cand.client /\ cand'.txnClient = cand.client /\ cand'.admin = next
      BY <1>2, <1>3, SessionTypes DEF Sessions
    <2>2. Cli!Handles(cand') = Cli!Handles(cand) \cup {next} /\ next # 0
      BY <1>2, <2>1, SessionTypes DEF Cli!Handles
    <2>3. cand.client # 0 => cand.client # next
      BY SessionTypes DEF Cli!Handles
    <2>4. cand.db = Cli!Detached => cand.client = 0
      BY <1>1 DEF CliInv, CandInv
    <2> QED BY <1>1, <1>2, <1>3, <2>1, <2>2, <2>3, <2>4, CandidateStep
  <1>4. CASE Cli!DropCandidate /\ UNCHANGED next
    BY <1>1, <1>4, DropStep
  <1> QED BY <1>3, <1>4 DEF Cli!DialAdmin

\* The candidate that was checked is the session; the old one is closed, and
\* with it the LOCAL values it saved.
LEMMA AdoptStep ==
    ASSUME CliInv, cliPc = "check", Cli!Adopt, UNCHANGED <<next, exists, schema, completion>>
    PROVE  CliInv'
PROOF
  <1>1. /\ cliPc' = "prompt" /\ front' = front /\ open' = open \ Cli!Handles(current)
        /\ cliOwner' = "none" /\ cliBatch' = FALSE /\ undo' = 0
        /\ current' = cand /\ live' = Cli!Publish(cand) /\ cand' = Cli!NoSession
        /\ next' = next /\ exists' = exists /\ schema' = schema /\ completion' = completion
    BY DEF Cli!Adopt, Cli!Done, Cli!Retire, CliInv, Cli!UndoReachable
  <1>2. /\ cand.gen = 1 /\ cand.ddl = Cli!NoDdl /\ cand.id # completion.session
        /\ cand.id # 0 /\ ~Switching'
    BY <1>1 DEF CliInv, CandInv, Switching
  <1>3. open' = Cli!Handles(cand)
    BY <1>1 DEF CliInv, NumbersInv, Cli!HandlesAccounted
  <1>4. CliTypes'
    <2>1. cand.id \in 1..MaxHandles /\ cand.db \in {d1, d2} \cup {Cli!Detached}
          /\ cand.role \in Cli!Roles
      BY <1>2, SessionTypes DEF Sessions, CliInv, NumbersInv
    <2>2. cliBatch' \in BOOLEAN
      BY <1>1
    <2>3. undo' \in 0..MaxHandles /\ open' \subseteq 1..MaxHandles
      <3>1. undo' \in 0..MaxHandles
        BY <1>1, SessionTypes
      <3> QED BY <1>1, <3>1 DEF CliInv, CliTypes, Cli!TypeOK
    <2>4. cand.db = Cli!Detached => cand.client = 0
      BY DEF CliInv, CandInv
    <2>5. Cli!TypeOK'
      BY <1>1, <2>1, <2>2, <2>3, <2>4 DEF CliInv, CliTypes, Cli!TypeOK
    <2> QED BY <1>1, <2>1, <2>5, NoCandidate, SessionTypes DEF CliInv, CliTypes
  <1>5. NumbersInv'
    <2>1. Cli!Handles(cand') = {} /\ cand'.id < next /\ OwnHandles(cand')
      BY <1>1, NoCandidate, SessionTypes
    <2>2. OwnHandles(cand) /\ cand.id < next /\ completion.session < next
          /\ \A h \in Cli!Handles(cand) : h < next
      BY DEF CliInv, NumbersInv
    <2> QED BY <1>1, <2>1, <2>2 DEF NumbersInv, OwnHandles, Cli!Handles
  <1>6. CandInv'
    BY <1>1, <1>2, NoCandidate DEF CandInv, Switching
  <1>7. CachesInv'
    <2>1. current'.id = cand.id /\ current'.gen = 1 /\ current'.ddl.gen = 0
      BY <1>1, <1>2 DEF Cli!NoDdl
    <2>2. ~Cli!CompletionValid' /\ ~Cli!DdlValid'
      BY <1>1, <1>2, <2>1 DEF Cli!CompletionValid, Cli!DdlValid
    <2> QED BY <1>1, <1>2, <2>1, <2>2 DEF CachesInv, Cli!CachesCurrent
  <1>8. Cli!HandlesAccounted' /\ Cli!OneIdentity' /\ Cli!UndoReachable'
    <2>1. cand.txnClient = cand.client
      BY DEF CliInv, NumbersInv, OwnHandles
    <2> QED BY <1>1, <1>3, <2>1, NoCandidate
            DEF Cli!HandlesAccounted, Cli!OneIdentity, Cli!UndoReachable, Cli!Publish,
                Cli!Handles
  <1> QED BY <1>4, <1>5, <1>6, <1>7, <1>8 DEF CliInv

\* The check of the database decides: the candidate is adopted, or closed.
LEMMA CheckStep ==
    ASSUME CliInv, Cli!Check
    PROVE  CliInv'
PROOF
  <1>1. cliPc = "check" /\ Switching /\ UNCHANGED <<next, exists, schema, completion>>
    BY DEF Cli!Check, Switching, Cli!server
  <1>2. CASE Cli!Adopt
    BY <1>1, <1>2, AdoptStep
  <1>3. CASE Cli!DropCandidate /\ UNCHANGED <<current, live, cliOwner, cliBatch, undo>>
    BY <1>1, <1>3, DropStep DEF Switches
  <1> QED BY <1>2, <1>3 DEF Cli!Check, Cli!activity

\* USE and DETACH: refused, or a candidate with a number of its own.
LEMMA SwitchStep ==
    ASSUME CliInv, Cli!Switch
    PROVE  CliInv'
PROOF
  <1>1. /\ cliPc = "prompt" /\ current' = current /\ open' = open /\ cliOwner' = cliOwner
        /\ cliBatch' = cliBatch /\ undo' = undo /\ exists' = exists /\ schema' = schema
        /\ completion' = completion
    BY DEF Cli!Switch, Cli!activity, Cli!server
  <1>2. /\ front \in {"startup", "interactive", "source", "batch", "mcp"}
        /\ undo \in {0, current.id} /\ cliOwner \in {"none", "pending", "rw"}
        /\ cliBatch \in BOOLEAN /\ cand = Cli!NoSession /\ ~Switching
    BY <1>1 DEF CliInv, CliTypes, Cli!TypeOK, Cli!UndoReachable, CandInv, Switching
  <1>3. CASE ~Cli!SwitchAllowed
    <2>1. Cli!Failed /\ cand' = cand /\ live' = live /\ next' = next
      BY <1>3 DEF Cli!Switch
    <2>2. cliPc' \in {"prompt", "closing"}
          /\ front' \in {"startup", "interactive", "source", "batch", "mcp"}
      BY <1>2, <2>1, EndFacts
    <2> QED BY <1>1, <1>2, <2>1, <2>2, SameSessionStep DEF Switching
  <1>4. CASE Cli!SwitchAllowed
    <2>1. /\ Cli!Room(3) /\ cliPc' = "dial" /\ front' = front
          /\ \E db \in {d1, d2}, r \in Cli!Roles :
                Cli!Wanted(db, r) \/ Cli!Wanted(Cli!Detached, "default")
      BY <1>4 DEF Cli!Switch
    <2>2. PICK db \in {d1, d2} \cup {Cli!Detached}, r \in Cli!Roles : Cli!Wanted(db, r)
      BY <2>1 DEF Cli!Roles
    <2>3. cand' = [Cli!NoSession EXCEPT !.id = next, !.db = db, !.role = r] /\ next' = next + 1
          /\ live' = live
      BY <2>2 DEF Cli!Wanted
    <2>4. /\ cand' \in Sessions /\ cand'.id = next /\ cand'.client = 0 /\ cand'.txnClient = 0
          /\ cand'.admin = 0 /\ cand'.feature = 0 /\ cand'.gen = 1 /\ cand'.ddl = Cli!NoDdl
      BY <2>3, NoCandidate, SessionTypes DEF Sessions
    <2>5. Cli!Handles(cand') = {} /\ OwnHandles(cand') /\ Cli!Handles(cand) = {}
      BY <1>2, <2>4, NoCandidate DEF Cli!Handles, OwnHandles
    <2>6. next + 3 <= MaxHandles + 1 /\ next' \in 1..(MaxHandles + 1)
          /\ next' + 2 <= MaxHandles + 1
      BY <2>1, <2>3, SessionTypes DEF Cli!Room
    <2>7. current.id \in Nat /\ current.id < next /\ completion.session \in Nat
          /\ completion.session < next
      BY SessionTypes DEF CliInv, NumbersInv, CliTypes, Sessions
    <2>8. CliTypes'
      BY <1>1, <2>1, <2>4, <2>6 DEF CliInv, CliTypes, Cli!TypeOK
    <2>9. NumbersInv'
      <3>1. current.id < next + 1 /\ completion.session < next + 1 /\ next < next + 1
            /\ \A h \in Cli!Handles(current) : h < next + 1
        BY <2>7, SessionTypes
      <3> QED BY <1>1, <2>3, <2>4, <2>5, <3>1
              DEF CliInv, NumbersInv, OwnHandles, Cli!Handles
    <2>10. CandInv'
      <3>1. cliOwner = "none" /\ ~cliBatch
        BY <1>4 DEF Cli!SwitchAllowed
      <3>2. next # 0 /\ next # current.id /\ next # completion.session
        BY <2>7, SessionTypes
      <3> QED BY <1>1, <2>1, <2>4, <2>6, <3>1, <3>2 DEF CandInv, Switching, Cli!Room
    <2>11. CachesInv'
      BY <1>1 DEF CliInv, CachesInv, Cli!CachesCurrent, Cli!CompletionValid, Cli!DdlValid
    <2>12. Cli!HandlesAccounted' /\ Cli!OneIdentity' /\ Cli!UndoReachable'
      BY <1>1, <2>1, <2>3, <2>5
         DEF CliInv, Cli!HandlesAccounted, Cli!OneIdentity, Cli!UndoReachable, Cli!Publish,
             Cli!Handles
    <2> QED BY <2>8, <2>9, <2>10, <2>11, <2>12 DEF CliInv
  <1> QED BY <1>3, <1>4

\* The client that is recreated replaces the old one in the session and in
\* its transaction manager.
LEMMA RecreateStep ==
    ASSUME CliInv, Cli!Recreate
    PROVE  CliInv'
PROOF
  <1>1. /\ cliPc = "recreate" /\ cand' = cand /\ live' = live /\ cliOwner' = cliOwner
        /\ cliBatch' = cliBatch /\ undo' = undo /\ exists' = exists /\ schema' = schema
        /\ completion' = completion /\ Cli!Failed
    BY DEF Cli!Recreate, Cli!activity, Cli!server
  <1>2. /\ front \in {"startup", "interactive", "source", "batch", "mcp"}
        /\ undo \in {0, current.id} /\ cliOwner \in {"none", "pending", "rw"}
        /\ cliBatch \in BOOLEAN /\ cand = Cli!NoSession /\ ~Switching /\ current.client # 0
    BY <1>1 DEF CliInv, CliTypes, Cli!TypeOK, Cli!UndoReachable, CandInv, Switching
  <1>3. cliPc' \in {"prompt", "closing"} /\ ~Switching'
        /\ front' \in {"startup", "interactive", "source", "batch", "mcp"}
    BY <1>1, <1>2, EndFacts DEF Switching
  <1>4. CASE UNCHANGED <<current, open, next>>
    BY <1>1, <1>2, <1>3, <1>4, SameSessionStep
  <1>5. CASE /\ Cli!Room(1) /\ next' = next + 1
             /\ current' = Cli!Recreated(next)
             /\ open' = (open \cup {next}) \ {current.client}
    <2>1. /\ current' \in Sessions /\ current'.id = current.id /\ current'.db = current.db
          /\ current'.role = current.role /\ current'.client = next /\ current'.txnClient = next
          /\ current'.admin = current.admin /\ current'.feature = current.feature
          /\ current'.gen = current.gen /\ current'.ddl = current.ddl
      BY <1>5, SessionTypes DEF Sessions, Cli!Recreated
    <2>2. next # 0 /\ next + 1 <= MaxHandles + 1 /\ next' \in 1..(MaxHandles + 1)
          /\ next \in 1..MaxHandles
      BY <1>5, SessionTypes DEF Cli!Room
    <2>3. open = Cli!Handles(current) /\ current.client # next /\ current.admin # next
          /\ current.feature # next /\ Cli!Handles(cand) = {}
      BY <1>1, <1>2, NoCandidate, SessionTypes DEF CliInv, Cli!HandlesAccounted, Cli!Handles
    <2>4. /\ current.client # current.admin /\ current.client # current.feature
          /\ current.admin # 0 => current.admin # current.feature
      BY <1>2 DEF CliInv, NumbersInv, OwnHandles
    <2>5. Cli!Handles(current') = (Cli!Handles(current) \cup {next}) \ {current.client}
      BY <1>2, <2>1, <2>2, <2>3, <2>4 DEF Cli!Handles
    <2>6. open' = Cli!Handles(current') /\ OwnHandles(current')
      BY <1>5, <2>1, <2>3, <2>4, <2>5 DEF OwnHandles
    <2>7. CliTypes'
      <3>1. open' \subseteq 1..MaxHandles
        BY <1>5, <2>2 DEF CliInv, CliTypes, Cli!TypeOK
      <3>2. current.db # Cli!Detached
        BY <1>2 DEF CliInv, CliTypes, Cli!TypeOK
      <3> QED BY <1>1, <1>2, <1>3, <2>1, <2>2, <3>1, <3>2 DEF CliInv, CliTypes, Cli!TypeOK
    <2>8. NumbersInv'
      <3>1. \A h \in Cli!Handles(current') : h < next + 1
        BY <2>5, SessionTypes
      <3>2. current.id < next + 1 /\ cand.id < next + 1 /\ completion.session < next + 1
        BY SessionTypes DEF CliInv, NumbersInv, CliTypes, Sessions
      <3>3. Cli!Handles(cand') = {} /\ OwnHandles(cand')
        BY <1>1, <2>3 DEF CliInv, NumbersInv
      <3> QED BY <1>1, <1>5, <2>1, <2>6, <3>1, <3>2, <3>3
              DEF NumbersInv, OwnHandles, Cli!Handles
    <2>9. CandInv'
      BY <1>1, <1>2, <1>3, NoCandidate DEF CandInv, Switching
    <2>10. CachesInv'
      BY <1>1, <2>1
         DEF CliInv, CachesInv, Cli!CachesCurrent, Cli!CompletionValid, Cli!DdlValid
    <2>11. Cli!HandlesAccounted' /\ Cli!OneIdentity' /\ Cli!UndoReachable'
      BY <1>1, <1>3, <2>1, <2>3, <2>6
         DEF CliInv, Cli!HandlesAccounted, Cli!OneIdentity, Cli!UndoReachable, Cli!Publish,
             Cli!Handles
    <2> QED BY <2>7, <2>8, <2>9, <2>10, <2>11 DEF CliInv
  <1> QED BY <1>4, <1>5 DEF Cli!Recreate

\* The program starts with one session that has what it needs.
LEMMA CliInit == Cli!Init => CliInv
PROOF
  <1> SUFFICES ASSUME Cli!Init PROVE CliInv
    OBVIOUS
  <1>1. PICK db \in {d1, d2} \cup {Cli!Detached} :
          current = [Cli!NoSession EXCEPT !.id = 1, !.db = db, !.admin = 2,
                        !.client = IF db = Cli!Detached THEN 0 ELSE 3,
                        !.txnClient = IF db = Cli!Detached THEN 0 ELSE 3]
    BY DEF Cli!Init
  <1>2. /\ current \in Sessions /\ current.id = 1 /\ current.db = db /\ current.admin = 2
        /\ current.client = (IF db = Cli!Detached THEN 0 ELSE 3)
        /\ current.txnClient = current.client
        /\ current.feature = 0 /\ current.gen = 1 /\ current.ddl = Cli!NoDdl
        /\ current.role \in Cli!Roles
    BY <1>1, NoCandidate DEF Sessions
  <1>3. /\ cliPc = "prompt" /\ front = "startup" /\ cand = Cli!NoSession
        /\ live = Cli!Publish(current) /\ open = Cli!Handles(current) /\ next = 4
        /\ cliOwner = "none" /\ cliBatch = FALSE /\ undo = 0 /\ exists = {d1, d2}
        /\ schema = [d \in {d1, d2} |-> 0] /\ completion = Cli!NoCompletion
    BY DEF Cli!Init
  <1>4. /\ completion.session = 0 /\ completion.gen = 0
        /\ completion \in [session: Nat, gen: Nat, of: ({d1, d2} \cup {Cli!Detached}) \X Nat]
    BY <1>3 DEF Cli!NoCompletion
  <1>5. Cli!Handles(current) \subseteq {2, 3}
    BY <1>2 DEF Cli!Handles
  <1>6. CliTypes
    <2>1. cliBatch \in BOOLEAN
      BY <1>3
    <2>2. schema \in [{d1, d2} -> 0..MaxVersion] /\ exists \subseteq {d1, d2}
      BY <1>3, SessionAssumption
    <2>3. open \subseteq 1..MaxHandles /\ next \in 1..(MaxHandles + 1) /\ undo \in 0..MaxHandles
          /\ current.id \in 1..MaxHandles
      BY <1>2, <1>3, <1>5, SessionAssumption
    <2>4. current.db = Cli!Detached => current.client = 0
      BY <1>2
    <2>5. Cli!TypeOK
      BY <1>2, <1>3, <2>1, <2>2, <2>3, <2>4 DEF Cli!TypeOK
    <2> QED BY <1>2, <1>3, <1>4, <2>3, <2>5, NoCandidate DEF CliTypes
  <1>7. NumbersInv
    BY <1>2, <1>3, <1>4, <1>5, NoCandidate DEF NumbersInv, OwnHandles
  <1>8. CandInv
    BY <1>3, NoCandidate DEF CandInv, Switching
  <1>9. CachesInv
    BY <1>2, <1>3, <1>4
       DEF CachesInv, Cli!CachesCurrent, Cli!CompletionValid, Cli!DdlValid, Cli!NoDdl
  <1>10. Cli!HandlesAccounted /\ Cli!OneIdentity /\ Cli!UndoReachable
    BY <1>2, <1>3, NoCandidate DEF Cli!HandlesAccounted, Cli!OneIdentity, Cli!UndoReachable
  <1> QED BY <1>6, <1>7, <1>8, <1>9, <1>10 DEF CliInv

\* The invariant of the session holds after every step ...
LEMMA CliNext == CliInv /\ [Cli!Next]_cliVars => CliInv'
PROOF
  <1> SUFFICES ASSUME CliInv, [Cli!Next]_cliVars PROVE CliInv'
    OBVIOUS
  <1>1. CASE UNCHANGED cliVars \/ Cli!Terminated
    BY <1>1, ElsewhereStep
       DEF cliVars, Cli!vars, Cli!clients, Cli!activity, Cli!server, Cli!Terminated
  <1>2. CASE \/ Cli!Start \/ Cli!Source \/ Cli!Exit \/ Cli!Begin \/ Cli!SetLocal \/ Cli!EndOwner
             \/ Cli!IdleExpires \/ Cli!Batch \/ Cli!Abort \/ Cli!DropDatabase
    BY <1>2, OrdinaryStep
  <1> QED BY <1>1, <1>2, ElsewhereStep, CloseStep, UseFeatureStep, SchemaStep,
             CompleteCacheStep, DialStep, DialAdminStep, CheckStep, SwitchStep, RecreateStep
          DEF Cli!Next

\* Only the adoption of a candidate changes the number of the session.
LEMMA CliMoves ==
    ASSUME CliInv, [Cli!Next]_cliVars
    PROVE  Cli!SessionStep
PROOF
  <1>1. Cli!SwitchLosesNothing
    <2> SUFFICES ASSUME current'.id # current.id PROVE cliOwner = "none" /\ ~cliBatch
      BY DEF Cli!SwitchLosesNothing
    <2>1. current \in Sessions
      BY SessionTypes
    <2>2. CASE Cli!Check
      BY <2>2 DEF Cli!Check, CliInv, CandInv, Switching
    <2>3. CASE UNCHANGED current
      BY <2>3
    <2>4. CASE Cli!UseFeature \/ Cli!Recreate \/ Cli!ChangeSchema \/ Cli!ReadDdl
      BY <2>1, <2>4 DEF Cli!UseFeature, Cli!Recreate, Cli!Recreated, Cli!ChangeSchema,
                        Cli!ReadDdl, Sessions
    <2>5. [Cli!Next]_cliVars => \/ Cli!Check \/ UNCHANGED current
                                \/ Cli!UseFeature \/ Cli!Recreate \/ Cli!ChangeSchema
                                \/ Cli!ReadDdl
      BY DEF Cli!Next, cliVars, Cli!Start, Cli!Source, Cli!Exit, Cli!CloseCli, Cli!Begin,
             Cli!SetLocal, Cli!EndOwner, Cli!IdleExpires, Cli!Batch, Cli!Switch, Cli!Dial,
             Cli!DialAdmin, Cli!Abort, Cli!DropDatabase, Cli!DroppedElsewhere, Cli!Complete,
             Cli!Terminated, Cli!clients, Cli!vars
    <2> QED BY <2>2, <2>3, <2>4, <2>5
  <1>2. Cli!KeepsOwnDatabase
    <2> SUFFICES ASSUME Cli!DropDatabase, front = "interactive", current.db \in exists
                 PROVE  current.db \in exists'
      BY DEF Cli!KeepsOwnDatabase
    <2>1. live.db = current.db
      BY DEF CliInv, Cli!OneIdentity, Cli!Publish, Cli!DropDatabase, Cli!Statement
    <2> QED BY <2>1 DEF Cli!DropDatabase
  <1> QED BY <1>1, <1>2 DEF Cli!SessionStep

\* ... and what it says of the states between the steps is what is promised.
LEMMA CliSound == CliInv => Cli!SessionSound
BY DEF CliInv, CliTypes, CachesInv, Cli!SessionSound

-----------------------------------------------------------------------------
(***************************************************************************)
(* The start and the end of a run.                                         *)
(*                                                                         *)
(* Whatever is held has a deferred call that gives it back, and the calls  *)
(* are deferred in the order in which things come to be needed; so the     *)
(* clients, which need the rest, are given back before it.                 *)
(***************************************************************************)

\* The deferred calls are these, in this order; the first one only of a runtime.
Runtimes == IF Start!Embedded(flags) THEN 1 ELSE 0

Calls == {"runtime", "streams", "release"}

Call(i) == CASE i = Runtimes + 1 -> "streams"
             [] i = Runtimes + 2 -> "release"
             [] i < Runtimes + 1 -> "runtime"

Stacked ==
    /\ deferred \in Seq(Calls) /\ Len(deferred) <= Runtimes + 2
    /\ \A i \in 1..Len(deferred) : deferred[i] = Call(i)

\* Everything that is held has a deferred call that gives it back.
Covered ==
    /\ held \subseteq {"runtime", "tee", "client", "metrics", "traces"}
    /\ "runtime" \in held => Runtimes = 1 /\ Len(deferred) >= 1
    /\ "tee" \in held => Len(deferred) >= Runtimes + 1
    /\ held \cap {"client", "metrics", "traces"} # {} => Len(deferred) >= Runtimes + 2

\* The deferred calls, step by step.
DeferredInv ==
    /\ startPc \in {"flags", "settings", "sample", "runtime", "done"} => Len(deferred) = 0
    /\ startPc \in {"sample", "runtime"} => Start!Embedded(flags)
    /\ startPc = "streams" => Len(deferred) = Runtimes
    /\ startPc = "metrics" => Len(deferred) = Runtimes + 1
    /\ startPc \in {"traces", "client", "init", "input", "run"} => Len(deferred) = Runtimes + 2
    /\ Stacked /\ Covered

\* The steps from the streams on, where there is a runtime if there is to be one.
Served == startPc \in {"streams", "metrics", "traces", "client", "init", "input", "run"}

\* What the clients use is there before them.
AliveInv ==
    /\ Served => (Start!Embedded(flags) => "runtime" \in held)
    /\ startPc \in {"traces", "client", "init", "input", "run"}
         => ("metrics" \in flags => "metrics" \in held)
    /\ startPc \in {"client", "init", "input", "run"} => ("traces" \in flags => "traces" \in held)
    /\ startPc \in {"streams", "metrics", "traces", "client"} => "client" \notin held
    /\ Start!ClientsFirst

\* The settings are those of the flags, and of the runtime once there is one.
ConfInv ==
    /\ DOMAIN conf = {"address", "insecure", "auth", "database", "format"}
    /\ startPc \in {"settings", "sample", "runtime"} \/ Served \/ "client" \in held
         => Start!ValidateSpannerOptions(flags)
    /\ startPc \in {"sample", "runtime"} => conf = Start!Settings(flags)
    /\ Served \/ "client" \in held =>
         /\ conf.address = IF Start!Embedded(flags) THEN "runtime" ELSE Start!Address(flags)
         /\ conf.insecure = Start!Settings(flags).insecure
         /\ conf.auth <=> "noAuth" \notin flags /\ "emulator" \notin flags
         /\ conf.database = Start!Settings(flags).database
    /\ startPc \in {"sample", "runtime"} \/ Served => base = Start!Format(flags)
    /\ Served => conf.format \in {"init", base}

\* The runtime waits for the sample files, and nothing changes them after.
LoadsInv ==
    /\ startPc = "runtime" /\ "sample" \in flags => Start!Loaded
    /\ startPc \in {"flags", "settings", "sample"} => "runtime" \notin held
    /\ Start!SampleIsWhole

\* What startup SQL left in the list of what was executed.
Began == IF "init" \in flags THEN <<"init">> ELSE <<>>

\* What was executed, step by step.
RanInv ==
    /\ startPc \in {"flags", "settings", "sample", "runtime", "streams", "metrics", "traces",
                    "client", "init"} => ran = <<>>
    /\ startPc \in {"init", "input"} => "mcp" \notin flags
    /\ startPc = "input" => ran = Began
    /\ \/ ran = <<>>
       \/ "mcp" \notin flags /\ ran \in {Began, Append(Began, Start!Input(flags, tty))}
       \/ "mcp" \in flags /\ ran = <<"mcp">>

\* The inductive invariant of a run.
StartInv == DeferredInv /\ AliveInv /\ ConfInv /\ LoadsInv /\ RanInv

\* Flags and the terminal are given once.
LEMMA FlagsStay ==
    ASSUME Start!Next
    PROVE  flags' = flags /\ tty' = tty
BY DEF Start!Next, Start!Validate, Start!Initialize, Start!SampleReady, Start!StartRuntime,
       Start!Streams, Start!StartMetrics, Start!StartTraces, Start!NewCli,
       Start!ExecuteStartupSQL, Start!DetermineInput, Start!Run, Start!Unwind,
       Start!StepFails, Start!Fail, Start!Done, Start!Load, Start!vars

\* The least of a few places, and so the first of a few names that is given.
LEMMA LeastPlace ==
    ASSUME NEW S \in SUBSET (1..4), S # {}
    PROVE  Start!Min(S) \in S /\ \A k \in S : Start!Min(S) <= k
PROOF
  <1>1. \E m \in S : \A k \in S : m <= k
    <2>1. CASE 1 \in S
      BY <2>1
    <2>2. CASE 1 \notin S /\ 2 \in S
      BY <2>2
    <2>3. CASE 1 \notin S /\ 2 \notin S /\ 3 \in S
      BY <2>3
    <2>4. CASE 1 \notin S /\ 2 \notin S /\ 3 \notin S
      <3>1. PICK m \in S : TRUE
        OBVIOUS
      <3>2. \A k \in S : k = 4
        BY <2>4
      <3> QED BY <3>1, <3>2
    <2> QED BY <2>1, <2>2, <2>3, <2>4
  <1> QED BY <1>1 DEF Start!Min

\* The first of the names that is given, or that there is none.
LEMMA FirstGiven ==
    ASSUME NEW f, NEW names, DOMAIN names \subseteq 1..4
    PROVE  \/ /\ Start!First(f, names) = Start!None
              /\ \A k \in DOMAIN names : names[k] \notin f
           \/ \E i \in DOMAIN names :
                 /\ names[i] \in f /\ Start!First(f, names) = names[i]
                 /\ \A k \in DOMAIN names : names[k] \in f => i <= k
PROOF
  <1> DEFINE given == {i \in DOMAIN names : names[i] \in f}
  <1>1. CASE given = {}
    BY <1>1 DEF Start!First
  <1>2. CASE given # {}
    <2>1. Start!First(f, names) = names[Start!Min(given)]
      BY <1>2 DEF Start!First
    <2>2. Start!Min(given) \in given /\ \A k \in given : Start!Min(given) <= k
      BY <1>2, LeastPlace
    <2> QED BY <2>1, <2>2
  <1> QED BY <1>1, <1>2

\* What the flags say of each setting.
LEMMA SettingsFacts ==
    ASSUME NEW f
    PROVE  LET c == Start!Settings(f) IN
           /\ c.address = Start!Address(f) /\ c.format = Start!Format(f)
           /\ DOMAIN c = {"address", "insecure", "auth", "database", "format"}
           /\ c.auth <=> "noAuth" \notin f
           /\ c.insecure <=> Start!InsecureAsked(f) \/ Start!Embedded(f)
           /\ c.database = IF Start!Embedded(f) /\ Start!Database(f) = Start!None
                              /\ "detached" \notin f
                           THEN "dbDefault" ELSE Start!Database(f)
BY DEF Start!Settings, Start!EmbeddedDefaults

\* The format the flags ask for is not one of startup SQL's.
LEMMA FormatFacts == \A f : Start!Format(f) # "init"
PROOF
  <1> SUFFICES ASSUME NEW f PROVE Start!Format(f) # "init"
    OBVIOUS
  <1>1. PICK names : names = <<"set", "csv", "format">>
    OBVIOUS
  <1>2. DOMAIN names \subseteq 1..4 /\ \A i \in DOMAIN names : names[i] # "init"
    BY <1>1
  <1> QED BY <1>1, <1>2, FirstGiven DEF Start!Format, Start!None

\* The input is a flag that is given, or there is none.
LEMMA InputFacts ==
    ASSUME NEW f, NEW t
    PROVE  /\ \/ Start!Input(f, t) \in Start!Inputs /\ Start!Input(f, t) \in f
              \/ Start!Input(f, t) \in {"interactive", "stdin"} /\ f \cap Start!Inputs = {}
           /\ Start!Input(f, t) # "init"
PROOF
  <1>1. PICK names : names = <<"execute", "sql", "file", "source">>
    OBVIOUS
  <1>2. /\ DOMAIN names = 1..4 /\ \A i \in DOMAIN names : names[i] \in Start!Inputs
        /\ \A x \in Start!Inputs : \E i \in DOMAIN names : names[i] = x
    BY <1>1 DEF Start!Inputs
  <1>3. Start!Input(f, t) = IF Start!First(f, names) # Start!None THEN Start!First(f, names)
                            ELSE IF t THEN "interactive" ELSE "stdin"
    BY <1>1 DEF Start!Input
  <1>4. Start!None \notin Start!Inputs /\ "init" \notin Start!Inputs
    BY DEF Start!Inputs, Start!None
  <1>5. CASE Start!First(f, names) = Start!None
    <2>1. \A i \in DOMAIN names : names[i] \notin f
      BY <1>2, <1>4, <1>5, FirstGiven
    <2> QED BY <1>2, <1>3, <1>5, <2>1
  <1>6. CASE Start!First(f, names) # Start!None
    BY <1>2, <1>3, <1>4, <1>6, FirstGiven
  <1> QED BY <1>5, <1>6

\* Valid flags say where the client goes, and with TLS where it does not.
LEMMA ValidFacts ==
    ASSUME NEW f, Start!ValidateSpannerOptions(f)
    PROVE  /\ "tls" \in f => /\ ~Start!Embedded(f) /\ ~Start!InsecureAsked(f)
                             /\ Start!Address(f) \notin {"runtime", "port", Start!None}
           /\ "noAuth" \in f => "tls" \in f
           /\ Start!Settings(f).database = Start!None <=> "detached" \in f
PROOF
  <1>1. /\ Start!TlsValid(f)
        /\ f \cap {"dbFlag", "dbEnv", "dbToml"} # {} \/ "detached" \in f \/ Start!Embedded(f)
        /\ f \cap {"tls"} = {} \/ f \cap {"emulator", "omni"} = {}
    BY DEF Start!ValidateSpannerOptions, Start!Databases, Start!Exclusive
  <1>2. "tls" \in f => ~Start!Embedded(f) /\ ~Start!InsecureAsked(f)
    BY <1>1 DEF Start!TlsValid, Start!Embedded
  <1>3. "tls" \in f => Start!Address(f) \notin {"runtime", "port", Start!None}
    <2> SUFFICES ASSUME "tls" \in f
                 PROVE  Start!Address(f) \notin {"runtime", "port", Start!None}
      OBVIOUS
    <2>1. PICK names : names = <<"endpoint", "deploymentEndpoint", "host", "port">>
      OBVIOUS
    <2>2. DOMAIN names = 1..4 /\ names[1] = "endpoint" /\ names[2] = "deploymentEndpoint"
          /\ names[3] = "host" /\ names[4] = "port"
      BY <2>1
    <2>3. \E i \in 1..3 : names[i] \in f
      BY <1>1, <2>2 DEF Start!TlsValid, Start!EndpointGiven
    <2>4. PICK i \in 1..4 : names[i] \in f /\ Start!First(f, names) = names[i]
                            /\ \A k \in 1..4 : names[k] \in f => i <= k
      BY <2>2, <2>3, FirstGiven
    <2>5. i \in 1..3
      BY <2>3, <2>4
    <2>6. names[i] \in {"endpoint", "deploymentEndpoint", "host"}
      BY <2>2, <2>5
    <2> QED BY <2>1, <2>4, <2>6 DEF Start!Address, Start!None
  <1>4. Start!Settings(f).database = Start!None <=> "detached" \in f
    <2>1. PICK names : names = <<"dbFlag", "dbEnv", "dbToml">>
      OBVIOUS
    <2>2. DOMAIN names = 1..3 /\ (\A i \in DOMAIN names : names[i] # Start!None)
          /\ \A x \in {"dbFlag", "dbEnv", "dbToml"} : \E i \in DOMAIN names : names[i] = x
      BY <2>1 DEF Start!None
    <2>3. Start!Database(f) = IF "detached" \in f THEN Start!None ELSE Start!First(f, names)
      BY <2>1 DEF Start!Database
    <2>4. Start!First(f, names) = Start!None <=> f \cap {"dbFlag", "dbEnv", "dbToml"} = {}
      BY <2>2, FirstGiven
    <2> QED BY <1>1, <2>3, <2>4, SettingsFacts DEF Start!None
  <1> QED BY <1>1, <1>2, <1>3, <1>4 DEF Start!TlsValid

\* What the calls give back.
LEMMA CallFacts ==
    /\ Runtimes \in {0, 1}
    /\ Runtimes = 1 <=> Start!Embedded(flags)
    /\ Call(Runtimes + 1) = "streams" /\ Call(Runtimes + 2) = "release"
    /\ Runtimes = 1 => Call(1) = "runtime"
BY DEF Runtimes, Call

\* A call is deferred after the others.
LEMMA DeferFacts ==
    ASSUME Stacked, NEW d \in Calls, Len(deferred) < Runtimes + 2, d = Call(Len(deferred) + 1),
           deferred' = Append(deferred, d), flags' = flags
    PROVE  Stacked' /\ Len(deferred') = Len(deferred) + 1 /\ Len(deferred) \in Nat
           /\ Runtimes' = Runtimes
PROOF
  <1>1. deferred \in Seq(Calls) /\ Len(deferred) \in Nat /\ Runtimes \in {0, 1}
    BY CallFacts DEF Stacked
  <1>2. Runtimes' = Runtimes /\ \A i : Call(i)' = Call(i)
    BY DEF Runtimes, Call
  <1>3. /\ deferred' \in Seq(Calls) /\ Len(deferred') = Len(deferred) + 1
        /\ \A i \in 1..Len(deferred) : deferred'[i] = deferred[i]
        /\ deferred'[Len(deferred) + 1] = d
    BY <1>1
  <1>4. \A i \in 1..Len(deferred') : deferred'[i] = Call(i)'
    BY <1>1, <1>2, <1>3 DEF Stacked
  <1>5. Len(deferred') <= Runtimes + 2
    BY <1>1, <1>3
  <1> QED BY <1>1, <1>2, <1>3, <1>4, <1>5 DEF Stacked

\* What popping the last call, or giving back what it has, does.
LEMMA UnwindFacts ==
    ASSUME DeferredInv, Start!Unwind, startPc' = startPc
    PROVE  /\ Len(deferred) >= 1
           /\ \/ /\ held' = held /\ deferred' = SubSeq(deferred, 1, Len(deferred) - 1)
                 /\ deferred[Len(deferred)] = "runtime" => "runtime" \notin held
                 /\ deferred[Len(deferred)] = "streams" => "tee" \notin held
                 /\ deferred[Len(deferred)] = "release" =>
                      held \cap {"client", "metrics", "traces"} = {}
              \/ /\ deferred' = deferred /\ held' \subseteq held
                 /\ deferred[Len(deferred)] = "release" => "client" \notin held'
PROOF
  <1> DEFINE last == deferred[Len(deferred)]
             rel == Start!Releases(last)
             at == {i \in DOMAIN rel : rel[i] \in held}
  <1>1. startPc = "unwind" /\ deferred # <<>>
    BY DEF Start!Unwind
  <1>2. deferred \in Seq(Calls) /\ Len(deferred) \in Nat /\ Len(deferred) # 0 /\ last \in Calls
    BY <1>1 DEF DeferredInv, Stacked
  <1>3. IF at = {} THEN deferred' = SubSeq(deferred, 1, Len(deferred) - 1) /\ held' = held
        ELSE held' = held \ {rel[Start!Min(at)]} /\ deferred' = deferred
    BY <1>1 DEF Start!Unwind
  <1>4. /\ last = "runtime" => rel = <<"runtime">>
        /\ last = "streams" => rel = <<"tee">>
        /\ last = "release" => rel = <<"client", "metrics", "traces">>
    BY DEF Start!Releases
  <1>5. DOMAIN rel \subseteq 1..4
    BY <1>2, <1>4 DEF Calls
  <1>6. CASE at = {}
    <2>1. held' = held /\ deferred' = SubSeq(deferred, 1, Len(deferred) - 1)
      BY <1>3, <1>6
    <2>2. \A i \in DOMAIN rel : rel[i] \notin held
      BY <1>6
    <2> HIDE DEF rel, at, last
    <2>3. last = "runtime" => "runtime" \notin held
      BY <1>4, <2>2
    <2>4. last = "streams" => "tee" \notin held
      BY <1>4, <2>2
    <2>5. last = "release" => held \cap {"client", "metrics", "traces"} = {}
      BY <1>4, <2>2
    <2> QED BY <1>2, <2>1, <2>3, <2>4, <2>5 DEF last
  <1>7. CASE at # {}
    <2>1. Start!Min(at) \in at /\ \A k \in at : Start!Min(at) <= k
      BY <1>5, <1>7, LeastPlace
    <2>2. held' = held \ {rel[Start!Min(at)]} /\ deferred' = deferred
      BY <1>3, <1>7
    <2>3. last = "release" => "client" \notin held'
      <3> SUFFICES ASSUME last = "release"
                   PROVE  "client" \notin held'
        OBVIOUS
      <3>1. DOMAIN rel = 1..3 /\ rel[1] = "client" /\ rel[2] = "metrics" /\ rel[3] = "traces"
        BY <1>4
      <3>2. PICK m : m = Start!Min(at)
        OBVIOUS
      <3>3. m \in 1..3 /\ rel[m] \in held /\ \A k \in 1..3 : rel[k] \in held => m <= k
        BY <2>1, <3>1, <3>2
      <3>4. "client" \in held => m = 1
        BY <3>1, <3>3
      <3> HIDE DEF rel, at, last
      <3> QED BY <2>2, <3>1, <3>2, <3>3, <3>4
    <2> QED BY <1>2, <2>2, <2>3
  <1> QED BY <1>6, <1>7

\* The steps that leave the deferred calls and what is held alone.
Settles ==
    \/ Start!Validate \/ Start!Initialize \/ Start!StepFails \/ Start!SampleReady
    \/ Start!ExecuteStartupSQL \/ Start!DetermineInput \/ Start!Done
    \/ \E u \in DOMAIN loads : Start!Load(u)

\* Where they lead.
LEMMA SettlesFacts ==
    ASSUME StartInv, Settles
    PROVE  /\ deferred' = deferred /\ held' = held /\ flags' = flags
           /\ \/ startPc' = startPc
              \/ startPc = "flags" /\ startPc' = "settings"
              \/ startPc = "settings" /\ startPc' \in {"sample", "runtime"} /\ Start!Embedded(flags)
              \/ startPc = "settings" /\ startPc' = "streams" /\ ~Start!Embedded(flags)
              \/ startPc = "sample" /\ startPc' = "runtime"
              \/ startPc = "init" /\ startPc' = "input"
              \/ startPc = "input" /\ startPc' = "run"
              \/ startPc' = "unwind"
PROOF
  <1>1. deferred' = deferred /\ held' = held /\ flags' = flags
    BY DEF Settles, Start!Validate, Start!Initialize, Start!StepFails, Start!Fail,
           Start!SampleReady, Start!ExecuteStartupSQL, Start!DetermineInput, Start!Done,
           Start!vars, Start!Load
  <1> QED
    BY <1>1 DEF Settles, Start!Validate, Start!Initialize, Start!StepFails, Start!Fail,
           Start!SampleReady, Start!ExecuteStartupSQL, Start!DetermineInput, Start!Done,
           Start!vars, Start!Load

\* The deferred calls of a step that leaves them, and of one that adds one.
LEMMA StackStays ==
    ASSUME DeferredInv, deferred' = deferred, flags' = flags
    PROVE  Stacked' /\ Runtimes' = Runtimes /\ Len(deferred) \in Nat
PROOF
  <1>1. Runtimes' = Runtimes /\ \A i : Call(i)' = Call(i)
    BY DEF Runtimes, Call
  <1> QED BY <1>1 DEF DeferredInv, Stacked

\* The deferred calls match what is held after every step: what a step opens it
\* defers, and a call goes only when what it gives back is gone.
LEMMA DeferredStep ==
    ASSUME StartInv, Start!Next
    PROVE  DeferredInv'
PROOF
  <1>1. DeferredInv /\ flags' = flags /\ Runtimes \in {0, 1}
        /\ (Runtimes = 1 <=> Start!Embedded(flags))
    BY FlagsStay, CallFacts DEF StartInv
  <1>2. CASE Settles
    <2>1. deferred' = deferred /\ held' = held
      BY <1>2, SettlesFacts
    <2>2. Stacked' /\ Runtimes' = Runtimes /\ Len(deferred) \in Nat
      BY <1>1, <2>1, StackStays
    <2>3. Covered'
      BY <1>1, <2>1, <2>2 DEF DeferredInv, Covered
    <2>4. /\ \/ startPc' = startPc
             \/ startPc = "flags" /\ startPc' = "settings"
             \/ startPc = "settings" /\ startPc' \in {"sample", "runtime"} /\ Start!Embedded(flags)
             \/ startPc = "settings" /\ startPc' = "streams" /\ ~Start!Embedded(flags)
             \/ startPc = "sample" /\ startPc' = "runtime"
             \/ startPc = "init" /\ startPc' = "input"
             \/ startPc = "input" /\ startPc' = "run"
             \/ startPc' = "unwind"
      BY <1>2, SettlesFacts
    <2> QED BY <1>1, <2>1, <2>2, <2>3, <2>4 DEF DeferredInv
  <1>3. CASE Start!StartRuntime
    <2>1. /\ startPc = "runtime" /\ held' = held \cup {"runtime"}
          /\ deferred' = Append(deferred, "runtime") /\ startPc' \in {"streams", "unwind"}
      BY <1>3 DEF Start!StartRuntime
    <2>2. Len(deferred) = 0 /\ Runtimes = 1 /\ Stacked /\ Covered
      BY <1>1, <2>1 DEF DeferredInv
    <2>3. Stacked' /\ Len(deferred') = 1 /\ Runtimes' = Runtimes
      BY <1>1, <2>1, <2>2, CallFacts, DeferFacts DEF Calls
    <2>4. Covered'
      BY <2>1, <2>2, <2>3 DEF Covered
    <2> QED BY <1>1, <2>1, <2>2, <2>3, <2>4 DEF DeferredInv
  <1>4. CASE Start!Streams
    <2>1. /\ startPc = "streams" /\ deferred' = Append(deferred, "streams")
          /\ held' \in {held, held \cup {"tee"}} /\ startPc' \in {"metrics", "unwind"}
      BY <1>4 DEF Start!Streams
    <2>2. Len(deferred) = Runtimes /\ Stacked /\ Covered
      BY <1>1, <2>1 DEF DeferredInv
    <2>3. Stacked' /\ Len(deferred') = Runtimes + 1 /\ Runtimes' = Runtimes
      BY <1>1, <2>1, <2>2, CallFacts, DeferFacts DEF Calls
    <2>4. Covered'
      BY <1>1, <2>1, <2>2, <2>3 DEF Covered
    <2> QED BY <1>1, <2>1, <2>2, <2>3, <2>4 DEF DeferredInv
  <1>5. CASE Start!StartMetrics
    <2>1. /\ startPc = "metrics" /\ deferred' = Append(deferred, "release")
          /\ held' = held \cup (flags \cap {"metrics"}) /\ startPc' = "traces"
      BY <1>5 DEF Start!StartMetrics
    <2>2. Len(deferred) = Runtimes + 1 /\ Stacked /\ Covered
      BY <1>1, <2>1 DEF DeferredInv
    <2>3. Stacked' /\ Len(deferred') = Runtimes + 2 /\ Runtimes' = Runtimes
      BY <1>1, <2>1, <2>2, CallFacts, DeferFacts DEF Calls
    <2>4. Covered'
      <3>1. "runtime" \in held' => "runtime" \in held
        BY <2>1
      <3>2. held' \subseteq {"runtime", "tee", "client", "metrics", "traces"}
        BY <2>1, <2>2 DEF Covered
      <3> QED BY <1>1, <2>2, <2>3, <3>1, <3>2 DEF Covered
    <2> QED BY <1>1, <2>1, <2>2, <2>3, <2>4 DEF DeferredInv
  <1>6. CASE Start!StartTraces \/ Start!NewCli \/ Start!Run
    <2>1. /\ startPc \in {"traces", "client", "run"} /\ deferred' = deferred
          /\ held' \subseteq held \cup {"traces", "client"}
          /\ startPc' \in {"client", "run", "init", "unwind"}
      BY <1>6 DEF Start!StartTraces, Start!NewCli, Start!Run
    <2>2. Len(deferred) = Runtimes + 2 /\ Covered
      BY <1>1, <2>1 DEF DeferredInv
    <2>3. Stacked' /\ Runtimes' = Runtimes
      BY <1>1, <2>1, StackStays
    <2>4. Covered'
      <3>1. "runtime" \in held' => "runtime" \in held
        BY <2>1
      <3>2. held' \subseteq {"runtime", "tee", "client", "metrics", "traces"}
        BY <2>1, <2>2 DEF Covered
      <3>3. Len(deferred') = Runtimes' + 2
        BY <2>1, <2>2, <2>3
      <3> QED BY <1>1, <2>2, <2>3, <3>1, <3>2, <3>3 DEF Covered
    <2> QED BY <1>1, <2>1, <2>2, <2>3, <2>4 DEF DeferredInv
  <1>7. CASE Start!Unwind /\ startPc' # startPc
    <2>1. startPc' = "done" /\ deferred = <<>> /\ deferred' = deferred /\ held' = held
      BY <1>7 DEF Start!Unwind
    <2>2. Stacked' /\ Runtimes' = Runtimes
      BY <1>1, <2>1, StackStays
    <2>3. Covered'
      BY <1>1, <2>1, <2>2 DEF DeferredInv, Covered
    <2> QED BY <2>1, <2>2, <2>3 DEF DeferredInv
  <1>8. CASE Start!Unwind /\ startPc' = startPc
    <2>1. startPc' = "unwind"
      BY <1>8 DEF Start!Unwind
    <2>2. Stacked /\ Covered /\ deferred \in Seq(Calls) /\ Len(deferred) \in Nat
          /\ Len(deferred) >= 1 /\ deferred[Len(deferred)] = Call(Len(deferred))
      BY <1>1, <1>8, UnwindFacts DEF DeferredInv, Stacked
    <2>3. CASE deferred' = deferred /\ held' \subseteq held
      <3>1. Stacked' /\ Runtimes' = Runtimes
        BY <1>1, <2>3, StackStays
      <3>2. Covered'
        BY <2>2, <2>3, <3>1 DEF Covered
      <3> QED BY <2>1, <3>1, <3>2 DEF DeferredInv
    <2>4. CASE /\ held' = held /\ deferred' = SubSeq(deferred, 1, Len(deferred) - 1)
               /\ deferred[Len(deferred)] = "runtime" => "runtime" \notin held
               /\ deferred[Len(deferred)] = "streams" => "tee" \notin held
               /\ deferred[Len(deferred)] = "release" =>
                      held \cap {"client", "metrics", "traces"} = {}
      <3>1. /\ deferred' \in Seq(Calls) /\ Len(deferred') = Len(deferred) - 1
            /\ \A i \in 1..Len(deferred') : deferred'[i] = deferred[i]
        <4>1. PICK n : n = Len(deferred) - 1
          OBVIOUS
        <4>2. n \in Nat /\ n <= Len(deferred)
          BY <2>2, <4>1
        <4>3. deferred' = SubSeq(deferred, 1, n)
          BY <2>4, <4>1
        <4> QED BY <2>2, <4>1, <4>2, <4>3
      <3>2. Runtimes' = Runtimes /\ \A i : Call(i)' = Call(i)
        BY <1>1 DEF Runtimes, Call
      <3>3. Stacked'
        BY <1>1, <2>2, <3>1, <3>2 DEF Stacked
      <3>4. /\ Len(deferred) = Runtimes + 2 => held \cap {"client", "metrics", "traces"} = {}
            /\ Len(deferred) = Runtimes + 1 => "tee" \notin held
            /\ Len(deferred) = 1 /\ Runtimes = 1 => "runtime" \notin held
        BY <2>2, <2>4, CallFacts
      <3>5. Len(deferred) <= Runtimes + 2
        BY <2>2 DEF Stacked
      <3>6. Covered'
        BY <1>1, <2>2, <2>4, <3>1, <3>2, <3>4, <3>5 DEF Covered
      <3> QED BY <2>1, <3>3, <3>6 DEF DeferredInv
    <2> QED BY <1>1, <1>8, <2>3, <2>4, UnwindFacts
  <1> QED BY <1>2, <1>3, <1>4, <1>5, <1>6, <1>7, <1>8 DEF Start!Next, Settles

\* What the clients use is held for as long as they are.
LEMMA AliveStep ==
    ASSUME StartInv, Start!Next
    PROVE  AliveInv'
PROOF
  <1>1. DeferredInv /\ AliveInv /\ Covered /\ Stacked /\ flags' = flags /\ Runtimes \in {0, 1}
        /\ (Runtimes = 1 <=> Start!Embedded(flags)) /\ Len(deferred) \in Nat
        /\ (Start!Embedded(flags') <=> Start!Embedded(flags))
    BY FlagsStay, CallFacts DEF StartInv, DeferredInv, Stacked
  <1>2. "client" \in held => Len(deferred) >= Runtimes + 2
    BY <1>1 DEF Covered
  <1>3. CASE Settles
    <2>1. held' = held
      BY <1>3, SettlesFacts
    <2>2. Start!ClientsFirst'
      BY <1>1, <2>1 DEF AliveInv, Start!ClientsFirst
    <2>3. startPc = "settings" => "client" \notin held
      BY <1>1, <1>2 DEF DeferredInv
    <2>4. startPc \in {"runtime", "sample", "flags", "settings"} => "client" \notin held
      BY <1>1, <1>2 DEF DeferredInv
    <2> QED BY <1>1, <1>3, <2>1, <2>2, <2>3, <2>4, SettlesFacts DEF AliveInv, Served
  <1>4. CASE Start!StartRuntime
    <2>1. /\ startPc = "runtime" /\ held' = held \cup {"runtime"}
          /\ startPc' \in {"streams", "unwind"}
      BY <1>4 DEF Start!StartRuntime
    <2>2. "client" \notin held'
      BY <1>1, <1>2, <2>1 DEF DeferredInv
    <2> QED BY <2>1, <2>2 DEF AliveInv, Served, Start!ClientsFirst
  <1>5. CASE Start!Streams
    <2>1. /\ startPc = "streams" /\ held' \in {held, held \cup {"tee"}}
          /\ startPc' \in {"metrics", "unwind"}
      BY <1>5 DEF Start!Streams
    <2>2. "client" \notin held' /\ (Start!Embedded(flags) => "runtime" \in held')
      BY <1>1, <2>1 DEF AliveInv, Served
    <2> QED BY <1>1, <2>1, <2>2 DEF AliveInv, Served, Start!ClientsFirst
  <1>6. CASE Start!StartMetrics
    <2>1. /\ startPc = "metrics" /\ held' = held \cup (flags \cap {"metrics"})
          /\ startPc' = "traces"
      BY <1>6 DEF Start!StartMetrics
    <2>2. "client" \notin held' /\ (Start!Embedded(flags) => "runtime" \in held')
          /\ ("metrics" \in flags => "metrics" \in held')
      BY <1>1, <2>1 DEF AliveInv, Served
    <2> QED BY <1>1, <2>1, <2>2 DEF AliveInv, Served, Start!ClientsFirst
  <1>7. CASE Start!StartTraces
    <2>1. /\ startPc = "traces" /\ held' = held \cup (flags \cap {"traces"})
          /\ startPc' = "client"
      BY <1>7 DEF Start!StartTraces
    <2>2. "client" \notin held' /\ (Start!Embedded(flags) => "runtime" \in held')
          /\ ("metrics" \in flags => "metrics" \in held')
          /\ ("traces" \in flags => "traces" \in held')
      BY <1>1, <2>1 DEF AliveInv, Served
    <2> QED BY <1>1, <2>1, <2>2 DEF AliveInv, Served, Start!ClientsFirst
  <1>8. CASE Start!NewCli
    <2>1. /\ startPc = "client" /\ held' = held \cup {"client"}
          /\ startPc' \in {"run", "init"}
      BY <1>8 DEF Start!NewCli
    <2>2. (Start!Embedded(flags) => "runtime" \in held')
          /\ ("metrics" \in flags => "metrics" \in held')
          /\ ("traces" \in flags => "traces" \in held')
      BY <1>1, <2>1 DEF AliveInv, Served
    <2> QED BY <1>1, <2>1, <2>2 DEF AliveInv, Served, Start!ClientsFirst
  <1>9. CASE Start!Run
    <2>1. startPc' = "unwind" /\ held' \in {held, held \ {"client"}}
      BY <1>9 DEF Start!Run
    <2> QED BY <1>1, <2>1 DEF AliveInv, Served, Start!ClientsFirst
  <1>10. CASE Start!Unwind
    <2>1. startPc' \in {"unwind", "done"}
      BY <1>10 DEF Start!Unwind
    <2>2. CASE startPc' # startPc
      <3>1. held' = held
        BY <1>10, <2>2 DEF Start!Unwind
      <3> QED BY <1>1, <2>1, <3>1 DEF AliveInv, Served, Start!ClientsFirst
    <2>3. CASE startPc' = startPc
      <3>1. "client" \in held' => held' = held
        <4>1. CASE deferred[Len(deferred)] = "release"
          BY <1>1, <1>10, <2>3, <4>1, UnwindFacts
        <4>2. CASE deferred[Len(deferred)] # "release"
          <5>1. Len(deferred) >= 1 /\ held' \subseteq held /\ Len(deferred) <= Runtimes + 2
            BY <1>1, <1>10, <2>3, UnwindFacts DEF Stacked
          <5>2. deferred[Len(deferred)] = Call(Len(deferred))
            BY <1>1, <5>1 DEF Stacked
          <5>3. Len(deferred) # Runtimes + 2
            BY <4>2, <5>2, CallFacts
          <5>4. "client" \notin held
            BY <1>1, <1>2, <5>1, <5>3
          <5> QED BY <5>1, <5>4
        <4> QED BY <4>1, <4>2
      <3> QED BY <1>1, <2>1, <3>1 DEF AliveInv, Served, Start!ClientsFirst
    <2> QED BY <2>2, <2>3
  <1> QED BY <1>3, <1>4, <1>5, <1>6, <1>7, <1>8, <1>9, <1>10 DEF Start!Next, Settles

\* The clients are not held before there are settings.
LEMMA NotYet ==
    ASSUME StartInv
    PROVE  startPc \in {"flags", "settings", "sample", "runtime", "streams", "metrics", "traces"}
             => "client" \notin held
BY CallFacts DEF StartInv, DeferredInv, Covered, AliveInv

\* The settings stay what the flags and the runtime made of them; only startup
\* SQL writes another format.
LEMMA ConfStep ==
    ASSUME StartInv, Start!Next
    PROVE  ConfInv'
PROOF
  <1>1. ConfInv /\ flags' = flags
    BY FlagsStay DEF StartInv
  <1>2. CASE Start!Validate
    <2>1. conf' = conf /\ held' = held /\ startPc = "flags" /\ startPc' \in {"settings", "unwind"}
          /\ (startPc' = "settings" => Start!ValidateSpannerOptions(flags))
      BY <1>2 DEF Start!Validate, Start!Fail
    <2> QED BY <1>1, <2>1, NotYet DEF ConfInv, Served
  <1>3. CASE Start!Initialize
    <2>1. /\ startPc = "settings" /\ held' = held /\ conf' = Start!Settings(flags)
          /\ base' = conf'.format /\ startPc' \in {"streams", "sample", "runtime"}
          /\ (startPc' = "streams" => ~Start!Embedded(flags))
      BY <1>3 DEF Start!Initialize
    <2>2. /\ conf'.address = Start!Address(flags) /\ base' = Start!Format(flags)
          /\ conf'.auth <=> "noAuth" \notin flags
          /\ DOMAIN conf' = {"address", "insecure", "auth", "database", "format"}
      BY <2>1, SettingsFacts
    <2>3. ~Start!Embedded(flags) => "emulator" \notin flags
      BY DEF Start!Embedded
    <2>4. Start!ValidateSpannerOptions(flags) /\ "client" \notin held'
      BY <1>1, <2>1, NotYet DEF ConfInv
    <2> QED BY <1>1, <2>1, <2>2, <2>3, <2>4 DEF ConfInv, Served
  <1>4. CASE Start!StartRuntime
    <2>1. /\ startPc = "runtime" /\ startPc' \in {"streams", "unwind"} /\ base' = base
          /\ held' = held \cup {"runtime"}
          /\ (startPc' = "streams" => conf' = Start!Adopted(conf))
          /\ (startPc' = "unwind" => conf' = conf)
      BY <1>4 DEF Start!StartRuntime
    <2>2. /\ conf = Start!Settings(flags) /\ base = Start!Format(flags)
          /\ Start!ValidateSpannerOptions(flags) /\ Start!Embedded(flags) /\ "client" \notin held'
      BY <1>1, <2>1, NotYet DEF ConfInv, StartInv, DeferredInv
    <2>3. startPc' = "streams" =>
            /\ conf'.address = "runtime" /\ conf'.insecure = Start!Settings(flags).insecure
            /\ (conf'.auth <=> Start!Settings(flags).auth /\ "emulator" \notin flags)
            /\ conf'.database = Start!Settings(flags).database
            /\ conf'.format = Start!Settings(flags).format
            /\ DOMAIN conf' = DOMAIN conf
      <3> SUFFICES ASSUME startPc' = "streams"
                   PROVE  /\ conf'.address = "runtime"
                          /\ conf'.insecure = Start!Settings(flags).insecure
                          /\ (conf'.auth <=> Start!Settings(flags).auth /\ "emulator" \notin flags)
                          /\ conf'.database = Start!Settings(flags).database
                          /\ conf'.format = Start!Settings(flags).format
                          /\ DOMAIN conf' = DOMAIN conf
        OBVIOUS
      <3>1. conf' = [conf EXCEPT !.address = "runtime",
                                 !.auth = conf.auth /\ "emulator" \notin flags]
        BY <2>1 DEF Start!Adopted
      <3>2. DOMAIN conf = {"address", "insecure", "auth", "database", "format"}
        BY <1>1 DEF ConfInv
      <3> QED BY <2>2, <3>1, <3>2
    <2>4. /\ Start!Settings(flags).auth <=> "noAuth" \notin flags
          /\ Start!Settings(flags).format = Start!Format(flags)
      BY SettingsFacts
    <2> QED BY <1>1, <2>1, <2>2, <2>3, <2>4 DEF ConfInv, Served
  <1>5. CASE Start!ExecuteStartupSQL
    <2>1. /\ startPc = "init" /\ startPc' = "input" /\ base' = base /\ held' = held
          /\ conf' = (IF "init" \in flags THEN [conf EXCEPT !.format = "init"] ELSE conf)
      BY <1>5 DEF Start!ExecuteStartupSQL
    <2>2. /\ conf'.address = conf.address /\ conf'.auth = conf.auth
          /\ conf'.insecure = conf.insecure /\ conf'.database = conf.database
          /\ conf'.format \in {"init", conf.format} /\ DOMAIN conf' = DOMAIN conf
      BY <1>1, <2>1 DEF ConfInv
    <2> QED BY <1>1, <2>1, <2>2 DEF ConfInv, Served
  <1>6. CASE /\ startPc' # "flags" /\ conf' = conf /\ base' = base
             /\ \/ startPc' = startPc /\ held' \subseteq held
                \/ startPc = "sample" /\ startPc' = "runtime" /\ held' = held
                \/ startPc' \in {"unwind", "done"} /\ held' \subseteq held
                \/ Served /\ Served'
    BY <1>1, <1>6 DEF ConfInv, Served
  <1>7. CASE \/ Start!StepFails \/ Start!Done \/ Start!DetermineInput \/ Start!Run
             \/ \E u \in DOMAIN loads : Start!Load(u)
    BY <1>6, <1>7 DEF Start!StepFails, Start!Failing, Start!Fail, Start!Done, Start!vars,
                      Start!DetermineInput, Start!Run, Start!Load, Served
  <1>8. CASE \/ Start!SampleReady \/ Start!Streams \/ Start!StartMetrics
             \/ Start!StartTraces \/ Start!NewCli
    <2>1. startPc' = "unwind" => held' \subseteq held
      BY <1>8 DEF Start!SampleReady, Start!Streams, Start!StartMetrics, Start!StartTraces,
                  Start!NewCli
    <2> QED BY <1>6, <1>8, <2>1 DEF Start!SampleReady, Start!Streams, Start!StartMetrics,
                               Start!StartTraces, Start!NewCli, Served
  <1>9. CASE Start!Unwind
    <2>1. conf' = conf /\ base' = base /\ startPc = "unwind" /\ startPc' \in {"unwind", "done"}
      BY <1>9 DEF Start!Unwind
    <2>2. held' \subseteq held
      BY <1>9 DEF Start!Unwind
    <2> QED BY <1>6, <2>1, <2>2
  <1> QED BY <1>2, <1>3, <1>4, <1>5, <1>7, <1>8, <1>9 DEF Start!Next

\* The runtime follows the sample files.
LEMMA LoadsStep ==
    ASSUME StartInv, Start!Next
    PROVE  LoadsInv'
PROOF
  <1>1. LoadsInv /\ flags' = flags
    BY FlagsStay DEF StartInv
  <1>2. CASE \E u \in DOMAIN loads : Start!Load(u)
    <2>1. startPc = "sample" /\ startPc' = startPc /\ held' = held
      BY <1>2 DEF Start!Load
    <2> QED BY <1>1, <2>1 DEF LoadsInv, Start!SampleIsWhole
  <1>3. CASE Start!Initialize
    <2>1. startPc = "settings" /\ held' = held /\ ("sample" \in flags => startPc' # "runtime")
      BY <1>3 DEF Start!Initialize
    <2> QED BY <1>1, <2>1 DEF LoadsInv, Start!SampleIsWhole
  <1>4. CASE Start!SampleReady
    <2>1. startPc = "sample" /\ startPc' = "runtime" /\ held' = held /\ Start!Loaded'
      BY <1>4 DEF Start!SampleReady, Start!Loaded
    <2> QED BY <1>1, <2>1 DEF LoadsInv, Start!SampleIsWhole
  <1>5. CASE Start!StartRuntime
    <2>1. startPc = "runtime" /\ startPc' \in {"streams", "unwind"} /\ loads' = loads
      BY <1>5 DEF Start!StartRuntime
    <2>2. Start!Loaded' <=> Start!Loaded
      BY <2>1 DEF Start!Loaded
    <2> QED BY <1>1, <2>1, <2>2 DEF LoadsInv, Start!SampleIsWhole
  <1>6. CASE /\ loads' = loads /\ ("runtime" \in held' => "runtime" \in held)
             /\ \/ startPc' = startPc
                \/ startPc = "flags" /\ startPc' = "settings"
                \/ startPc' \notin {"flags", "settings", "sample", "runtime"}
    <2>1. Start!Loaded' <=> Start!Loaded
      BY <1>6 DEF Start!Loaded
    <2> QED BY <1>1, <1>6, <2>1 DEF LoadsInv, Start!SampleIsWhole
  <1>7. CASE \/ Start!Validate \/ Start!StepFails \/ Start!Done \/ Start!DetermineInput
             \/ Start!Run \/ Start!ExecuteStartupSQL
    BY <1>6, <1>7 DEF Start!Validate, Start!StepFails, Start!Fail, Start!Done, Start!vars,
                      Start!DetermineInput, Start!Run, Start!ExecuteStartupSQL
  <1>8. CASE \/ Start!Streams \/ Start!StartMetrics \/ Start!StartTraces \/ Start!NewCli
             \/ Start!Unwind
    <2>1. loads' = loads /\ ("runtime" \in held' => "runtime" \in held)
      BY <1>8 DEF Start!Streams, Start!StartMetrics, Start!StartTraces, Start!NewCli,
                  Start!Unwind
    <2>2. startPc' = startPc \/ startPc' \notin {"flags", "settings", "sample", "runtime"}
      BY <1>8 DEF Start!Streams, Start!StartMetrics, Start!StartTraces, Start!NewCli,
                  Start!Unwind
    <2> QED BY <1>6, <2>1, <2>2
  <1> QED BY <1>2, <1>3, <1>4, <1>5, <1>7, <1>8 DEF Start!Next

\* Startup SQL comes first, and one input after it.
LEMMA RanStep ==
    ASSUME StartInv, Start!Next
    PROVE  RanInv'
PROOF
  <1> DEFINE before == {"flags", "settings", "sample", "runtime", "streams", "metrics", "traces",
                        "client", "init"}
             asked == Start!Input(flags, tty)
  <1>1. RanInv /\ flags' = flags /\ tty' = tty
    BY FlagsStay DEF StartInv
  <1>2. Began' = Began /\ asked' = asked
    BY <1>1 DEF Began
  <1>3. CASE /\ ran' = ran
             /\ \/ startPc' = startPc
                \/ startPc \in before /\ startPc' \in before \ {"init"}
                \/ startPc' \in {"unwind", "done"}
    BY <1>1, <1>2, <1>3 DEF RanInv
  <1>4. CASE Start!NewCli
    <2>1. /\ startPc = "client"
          /\ \/ "mcp" \in flags /\ startPc' = "run" /\ ran' = <<"mcp">>
             \/ "mcp" \notin flags /\ startPc' = "init" /\ ran' = ran
      BY <1>4 DEF Start!NewCli
    <2> QED BY <1>1, <1>2, <2>1 DEF RanInv
  <1>5. CASE Start!ExecuteStartupSQL
    <2>1. /\ startPc = "init" /\ startPc' = "input"
          /\ ran' = IF "init" \in flags THEN Append(ran, "init") ELSE ran
      BY <1>5 DEF Start!ExecuteStartupSQL
    <2>2. ran = <<>> /\ "mcp" \notin flags
      BY <1>1, <2>1 DEF RanInv
    <2>3. ran' = Began
      BY <2>1, <2>2 DEF Began
    <2> QED BY <1>1, <1>2, <2>1, <2>2, <2>3 DEF RanInv
  <1>6. CASE Start!DetermineInput
    <2>1. startPc = "input" /\ startPc' = "run" /\ ran' = Append(ran, asked)
      BY <1>6 DEF Start!DetermineInput
    <2>2. ran = Began /\ "mcp" \notin flags
      BY <1>1, <2>1 DEF RanInv
    <2> QED BY <1>1, <1>2, <2>1, <2>2 DEF RanInv
  <1>7. CASE \/ Start!Validate \/ Start!StepFails \/ Start!Done \/ Start!Run \/ Start!Unwind
             \/ Start!Initialize
    BY <1>3, <1>7 DEF Start!Validate, Start!StepFails, Start!Fail, Start!Done, Start!vars,
                      Start!Run, Start!Unwind, Start!Initialize
  <1>8. CASE \/ Start!Streams \/ Start!StartMetrics \/ Start!StartTraces \/ Start!StartRuntime
             \/ Start!SampleReady \/ \E u \in DOMAIN loads : Start!Load(u)
    BY <1>3, <1>8 DEF Start!Streams, Start!StartMetrics, Start!StartTraces, Start!StartRuntime,
                      Start!SampleReady, Start!Load
  <1> QED BY <1>4, <1>5, <1>6, <1>7, <1>8 DEF Start!Next

\* The start-up of the part that runs, and the values of the one that does not.
Unstarted ==
    /\ startPc = "flags" /\ flags = {} /\ tty = FALSE /\ conf = Start!Settings({})
    /\ base = Start!None /\ loads = [u \in {"schema", "data"} |-> "idle"]
    /\ held = {} /\ deferred = <<>> /\ ran = <<>> /\ result = Start!None

\* The invariant of a run holds when it starts, and of a run that does not ...
LEMMA StartInit ==
    ASSUME Start!Init \/ Unstarted
    PROVE  StartInv
PROOF
  <1>1. /\ startPc = "flags" /\ conf = Start!Settings({}) /\ held = {} /\ deferred = <<>>
        /\ ran = <<>>
    BY DEF Start!Init, Unstarted
  <1>2. Runtimes \in {0, 1} /\ Len(deferred) = 0 /\ deferred \in Seq(Calls)
    BY <1>1, CallFacts
  <1>3. DeferredInv
    BY <1>1, <1>2 DEF DeferredInv, Stacked, Covered
  <1>4. AliveInv
    BY <1>1 DEF AliveInv, Served, Start!ClientsFirst
  <1>5. ConfInv
    BY <1>1, SettingsFacts DEF ConfInv, Served
  <1>6. LoadsInv /\ RanInv
    BY <1>1 DEF LoadsInv, Start!SampleIsWhole, RanInv
  <1> QED BY <1>3, <1>4, <1>5, <1>6 DEF StartInv

\* ... and after every step ...
LEMMA StartNext ==
    ASSUME StartInv, [Start!Next]_startVars
    PROVE  StartInv'
PROOF
  <1>1. CASE Start!Next
    BY <1>1, DeferredStep, AliveStep, ConfStep, LoadsStep, RanStep DEF StartInv
  <1>2. CASE UNCHANGED startVars
    <2>1. /\ startPc' = startPc /\ flags' = flags /\ tty' = tty /\ conf' = conf /\ base' = base
          /\ loads' = loads /\ held' = held /\ deferred' = deferred /\ ran' = ran
      BY <1>2 DEF startVars
    <2>2. DeferredInv'
      <3>1. Stacked' /\ Runtimes' = Runtimes
        BY <2>1, StackStays DEF StartInv
      <3> QED BY <2>1, <3>1 DEF StartInv, DeferredInv, Covered
    <2>3. AliveInv'
      BY <2>1 DEF StartInv, AliveInv, Served, Start!ClientsFirst
    <2>4. ConfInv'
      BY <2>1 DEF StartInv, ConfInv, Served
    <2>5. LoadsInv'
      BY <2>1 DEF StartInv, LoadsInv, Start!SampleIsWhole, Start!Loaded
    <2>6. RanInv'
      BY <2>1 DEF StartInv, RanInv, Began
    <2> QED BY <2>2, <2>3, <2>4, <2>5, <2>6 DEF StartInv
  <1> QED BY <1>1, <1>2

\* ... and the six properties follow.
LEMMA StartSound ==
    ASSUME StartInv
    PROVE  Start!StartupSound
PROOF
  <1>1. Start!NothingLeftOpen
    <2> SUFFICES ASSUME startPc = "done" PROVE held = {}
      BY DEF Start!NothingLeftOpen
    <2>1. Len(deferred) = 0 /\ Covered /\ Runtimes \in {0, 1}
      BY CallFacts DEF StartInv, DeferredInv
    <2> QED BY <2>1 DEF Covered
  <1>2. Start!ClientsFirst
    BY DEF StartInv, AliveInv
  <1>3. Start!ClientsGoWhereTold
    <2> SUFFICES ASSUME "client" \in held
                 PROVE  /\ Start!Embedded(flags) => conf.address = "runtime" /\ conf.insecure
                        /\ "tls" \in flags =>
                             /\ ~conf.insecure
                             /\ conf.address \notin {"runtime", "port", Start!None}
                        /\ ~conf.auth => "tls" \in flags \/ "emulator" \in flags
                        /\ conf.database = Start!None <=> "detached" \in flags
      BY DEF Start!ClientsGoWhereTold
    <2>1. /\ Start!ValidateSpannerOptions(flags)
          /\ conf.address = IF Start!Embedded(flags) THEN "runtime" ELSE Start!Address(flags)
          /\ conf.insecure = Start!Settings(flags).insecure
          /\ conf.auth <=> "noAuth" \notin flags /\ "emulator" \notin flags
          /\ conf.database = Start!Settings(flags).database
      BY DEF StartInv, ConfInv
    <2>2. Start!Settings(flags).insecure <=> Start!InsecureAsked(flags) \/ Start!Embedded(flags)
      BY SettingsFacts
    <2> QED BY <2>1, <2>2, ValidFacts
  <1>4. Start!ResetsToStartup
    BY FormatFacts DEF StartInv, ConfInv, Served, Start!ResetsToStartup
  <1>5. Start!InputAfterStartup
    <2>1. PICK asked : asked = Start!Input(flags, tty)
      OBVIOUS
    <2>2. /\ \/ asked \in Start!Inputs /\ asked \in flags
             \/ asked \in {"interactive", "stdin"} /\ flags \cap Start!Inputs = {}
          /\ asked # "init"
      BY <2>1, InputFacts
    <2>3. "init" \notin Start!Inputs /\ "interactive" \notin Start!Inputs
          /\ "mcp" \notin Start!Inputs /\ "stdin" \notin Start!Inputs
      BY DEF Start!Inputs
    <2>4. CASE ran = <<>>
      BY <2>4 DEF Start!InputAfterStartup
    <2>5. CASE "mcp" \in flags /\ ran = <<"mcp">>
      <3>1. Len(ran) = 1 /\ DOMAIN ran = {1} /\ ran[1] = "mcp"
        BY <2>5
      <3> QED BY <2>3, <2>5, <3>1 DEF Start!InputAfterStartup
    <2>6. CASE "mcp" \notin flags /\ ran = Began
      <3>1. \A i \in DOMAIN ran : ran[i] = "init"
        BY <2>6 DEF Began
      <3> QED BY <2>3, <2>6, <3>1 DEF Start!InputAfterStartup
    <2>7. CASE "mcp" \notin flags /\ ran = Append(Began, asked) /\ "init" \in flags
      <3>1. Len(ran) = 2 /\ DOMAIN ran = 1..2 /\ ran[1] = "init" /\ ran[2] = asked
        BY <2>7 DEF Began
      <3> QED BY <2>2, <2>3, <2>7, <3>1 DEF Start!InputAfterStartup
    <2>8. CASE "mcp" \notin flags /\ ran = Append(Began, asked) /\ "init" \notin flags
      <3>1. Len(ran) = 1 /\ DOMAIN ran = {1} /\ ran[1] = asked
        BY <2>8 DEF Began
      <3> QED BY <2>2, <2>3, <2>8, <3>1 DEF Start!InputAfterStartup
    <2> QED BY <2>1, <2>4, <2>5, <2>6, <2>7, <2>8 DEF StartInv, RanInv
  <1>6. Start!SampleIsWhole
    BY DEF StartInv, LoadsInv
  <1> QED BY <1>1, <1>2, <1>3, <1>4, <1>5, <1>6 DEF Start!StartupSound

-----------------------------------------------------------------------------
(***************************************************************************)
(* The program.                                                            *)
(***************************************************************************)

\* The inductive invariant: each part has its own, and keeps it while another
\* one runs.
SessionInv == IInv /\ CliInv /\ StartInv

\* It holds in the first states ...
LEMMA SessionInitInv == SessionInit => SessionInv
BY InitInv, CliInit, StartInit DEF SessionInit, SessionInv, Unstarted

\* A step of the program is one of the part that runs.
LEMMA SessionMoves ==
    ASSUME [SessionNext]_allVars
    PROVE  /\ [Next]_vars /\ [Cli!Next]_cliVars /\ [Start!Next]_startVars
           /\ part' = part
BY DEF SessionNext, allVars

\* ... and after every step.
LEMMA SessionNextInv == SessionInv /\ [SessionNext]_allVars => SessionInv'
BY SessionMoves, NextInv, CliNext, StartNext DEF SessionInv

\* The inductive invariant holds in every state, whatever the bounds are.
THEOREM SessionInvariance == SessionSpec => []SessionInv
BY SessionInitInv, SessionNextInv, PTL DEF SessionSpec

\* DDL keeps its promises in the whole program.
THEOREM ProgramDdlSound == SessionSpec => []DdlSound
PROOF
  <1>1. SessionInv => DdlSound
    BY SoundIsInvariant DEF SessionInv
  <1> QED BY <1>1, SessionInvariance, PTL

\* What a statement uses is the session's: the open clients are those of the one
\* session and its candidate, the published identity and the saved LOCAL values
\* are its own, and no cached schema or completion is another's or outdated.
THEOREM SwitchIsSound == SessionSpec => []SwitchSound
PROOF
  <1>1. SessionInv => SwitchSound
    BY CliSound DEF SessionInv, SwitchSound
  <1> QED BY <1>1, SessionInvariance, PTL

\* Whatever step of a run fails: nothing stays open, clients are closed before
\* what they use, go where the flags say, RESET returns to the start, and one
\* input follows startup SQL.
THEOREM StartupIsSound == SessionSpec => []StartupSound
PROOF
  <1>1. SessionInv => StartupSound
    BY StartSound DEF SessionInv, StartupSound
  <1> QED BY <1>1, SessionInvariance, PTL

\* No step breaks a promise: a switch never drops a transaction or a batch, an
\* interactive session never drops the database it is in, and DDL is told as it
\* is.
THEOREM StepsAreSound == SessionSpec => SessionSteps
PROOF
  <1>1. SessionInv /\ [SessionNext]_allVars => [part = "ddl" => DdlStep]_vars
    BY SessionMoves, DdlStepHolds DEF SessionInv
  <1>2. SessionInv /\ [SessionNext]_allVars => [part = "switch" => Cli!SessionStep]_cliVars
    BY SessionMoves, CliMoves DEF SessionInv
  <1>3. SessionSpec => [][part = "ddl" => DdlStep]_vars
    BY <1>1, SessionInvariance, PTL DEF SessionSpec
  <1>4. SessionSpec => [][part = "switch" => Cli!SessionStep]_cliVars
    BY <1>2, SessionInvariance, PTL DEF SessionSpec
  <1> QED BY <1>3, <1>4 DEF SessionSteps

=============================================================================
