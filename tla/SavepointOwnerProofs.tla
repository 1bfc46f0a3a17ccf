------------------------ MODULE SavepointOwnerProofs ------------------------
(***************************************************************************)
(* Theorems about SavepointOwner, for every bound: the journal's accounts and*)
(* types, and the agreement of the server's transaction with the journal.  *)
(* They extend the module of the runs for its instance of NestedTransaction,*)
(* which the refinement in SavepointNestedProofs is about.                 *)
(***************************************************************************)
EXTENDS MCSavepointOwner, TLAPS, SequenceTheorems, WellFoundedInduction

----------------------------------------------------------------------------
(* The inductive invariants, one on top of the other: accounts, server,    *)
(* statements, tokens.                                                     *)

\* The kinds of statement that read or write rows
StatementKinds == {"dml", "enqueue", "mutate", "select", "plan"}

\* The pcs of a statement of its own, and those of a section that works on a
\* read-write transaction
StatementPCs == {"determine", "enqueue", "exec", "query", "iterate"}
ReadWritePCs == {"enqueue", "flush", "exec", "query", "iterate", "commit", "backoff"}

\* The bytes of an owner with x reserved for the marker being created
Journaled(o) == BytesFrom(o.entries, 1) + MarkerBytes * Len(o.marks)
Accounted(o, x) ==
    o.mode # "none" =>
       o.retained = Journaled(o) + QueueBytes(o.queued) + o.reserved + x

\* Markers are in the journal, in the order of their positions.
MarksOrdered(o) ==
    /\ \A i \in DOMAIN o.marks : o.marks[i].pos <= Len(o.entries)
    /\ \A i, j \in DOMAIN o.marks : i <= j => o.marks[i].pos <= o.marks[j].pos

\* An owner without a read-write transaction has nothing to repeat.
OwnerShape(o) ==
    /\ o.mode = "none" => o = NoOwner
    /\ o.mode # "rw" => /\ o.entries = <<>> /\ o.queued = <<>> /\ o.autoDML = <<>>
                        /\ ~o.recovering
    /\ IF o.recovering
       THEN o.marks # <<>> /\ ~o.live /\ o.queued = <<>> /\ o.inFlight = 0
       ELSE o.queued = o.autoDML

\* An owner with x bytes reserved for a marker
GoodOwner(o, x) ==
    o \in OwnerType /\ Accounted(o, x) /\ MarksOrdered(o) /\ OwnerShape(o)

\* ... and one that a section may work on
Working(o, x) ==
    GoodOwner(o, x) /\ o.mode = "rw" /\ ~o.recovering /\ o.reserved = 0 /\ o.inFlight = 0

\* A SAVEPOINT is at work, or waits to be repeated.
InSavepoint == pc = "savepoint" \/ back = "savepoint"

\* What the program counter says of the owner.
SectionInv ==
    /\ GoodOwner(tc, IF InSavepoint THEN MarkerBytes ELSE 0)
    /\ pc \in ReadWritePCs => tc.mode = "rw"
    /\ pc \in {"determine", "savepoint"} => InTxn
    /\ pc \notin {"prompt", "leave", "display"} => ~tc.recovering
    /\ tc.reserved = IF pc = "iterate" /\ ~tok.plan THEN Bytes(<<st.op>>) ELSE 0
    /\ tc.inFlight = IF pc = "iterate" THEN 1 ELSE 0

\* What it says of the statement.
StatementInv ==
    /\ st.kind \in StatementKinds => st.op \in Ops
    /\ pc \in StatementPCs \/ back \in {"exec", "query"} => st.kind \in StatementKinds
    /\ InSavepoint => st.kind = "savepoint" /\ st.name \in Names

\* A backoff remembers its section and what the section took of the queue.
BackoffInv ==
    /\ pc # "backoff" => back = "prompt" /\ held = <<>>
    /\ pc = "backoff" =>
         /\ back \in {"flush", "exec", "query", "savepoint", "commit"}
         /\ back \in {"exec", "query"} => held = <<>>
         /\ back = "savepoint" => held # <<>>
         /\ tc.retry
         /\ held # <<>> => /\ tc.queued = <<>>
                           /\ tc.retained + QueueBytes(held) <= JournalLimit

\* A result in hand is one of a read-write transaction, about to be displayed.
ResultInv ==
    /\ tok # NoTok => /\ pc \in {"iterate", "leave", "display"}
                      /\ tc.mode \in {"none", "rw"} /\ ~tc.recovering
    /\ pc = "display" => tok # NoTok

\* The accounts, with what the pcs, the statement and the backoff say of the
\* owner
AccountInv == TypeOK /\ SectionInv /\ StatementInv /\ BackoffInv /\ ResultInv

\* Only a read-write transaction has executed anything; recovery is what it
\* is in without a physical attempt.
ServerInv ==
    /\ PhysicalMatchesJournal
    /\ tc.mode = "rw" => tc.live = ~tc.recovering
    /\ tc.mode # "rw" => phys = <<>>

\* The two forms of induction over the natural numbers.
LEMMA LeastNat ==
    ASSUME NEW T \in SUBSET Nat, T # {}
    PROVE  \E m \in T : \A j \in T : m <= j
PROOF
  <1> DEFINE R == OpToRel(<, Nat)
  <1>1. IsWellFoundedOn(R, Nat)
    BY NatLessThanWellFounded
  <1>2. PICK m \in T : \A j \in T : ~ (<<j, m>> \in R)
    BY <1>1, WFMin
  <1>3. \A j \in T : ~ (j < m)
    BY <1>2 DEF OpToRel
  <1> QED
    BY <1>3

\* Induction over the naturals as a fact about sets, from the least element
\* of a nonempty set.
LEMMA NatInduct ==
    ASSUME NEW T \in SUBSET Nat, 0 \in T, \A n \in T : n + 1 \in T
    PROVE  T = Nat
PROOF
  <1> SUFFICES ASSUME Nat \ T # {} PROVE FALSE
    OBVIOUS
  <1>1. PICK m \in Nat \ T : \A j \in Nat \ T : m <= j
    <2>1. Nat \ T \in SUBSET Nat
      OBVIOUS
    <2> QED BY <2>1, LeastNat
  <1>2. m # 0 /\ m - 1 \in Nat /\ ~ (m <= m - 1) /\ (m - 1) + 1 = m
    OBVIOUS
  <1>3. m - 1 \in T
    BY <1>1, <1>2
  <1> QED
    BY <1>2, <1>3

\* The recursive function of BytesFrom, over the bytes b of the entries:
\* it exists and its values are natural numbers.
LEMMA SumExists ==
    ASSUME NEW L \in Nat, NEW b \in [1..L -> Nat]
    PROVE  \E f \in [1..(L + 1) -> Nat] :
              \A j \in 1..(L + 1) : f[j] = IF j > L THEN 0 ELSE b[j] + f[j + 1]
PROOF
  <1> DEFINE D == 1..(L + 1)
             Eqn(f, j) == f[j] = IF j > L THEN 0 ELSE b[j] + f[j + 1]
             P(n) == n <= L =>
                       \E f \in [D -> Nat] : \A j \in D : j + n >= L + 1 => Eqn(f, j)
             T == {n \in Nat : P(n)}
  <1>1. 0 \in T
    <2>1. [j \in D |-> 0] \in [D -> Nat]
      OBVIOUS
    <2>2. \A j \in D : j + 0 >= L + 1 => Eqn([k \in D |-> 0], j)
      OBVIOUS
    <2> QED BY <2>1, <2>2
  <1>2. ASSUME NEW n \in T PROVE n + 1 \in T
    <2> SUFFICES ASSUME n + 1 <= L
                 PROVE  \E f \in [D -> Nat] : \A j \in D : j + (n + 1) >= L + 1 => Eqn(f, j)
      <3>1. n + 1 \in Nat
        OBVIOUS
      <3> HIDE DEF Eqn
      <3> QED BY <3>1
    <2>1. n \in Nat /\ n <= L
      OBVIOUS
    <2>2. PICK f \in [D -> Nat] : \A j \in D : j + n >= L + 1 => Eqn(f, j)
      BY <2>1
    <2>3. L - n \in 1..L /\ L - n \in D /\ (L - n) + 1 \in D
      BY <2>1
    <2> DEFINE g == [f EXCEPT ![L - n] = b[L - n] + f[(L - n) + 1]]
    <2>4. g \in [D -> Nat]
      <3>1. b[L - n] \in Nat /\ f[(L - n) + 1] \in Nat
        BY <2>3
      <3> DEFINE k == L - n
                 v == b[L - n] + f[(L - n) + 1]
      <3>2. k \in D /\ v \in Nat /\ f \in [D -> Nat]
        BY <2>3, <3>1
      <3> HIDE DEF D, k, v
      <3>3. [f EXCEPT ![k] = v] \in [D -> Nat]
        BY <3>2
      <3> QED BY <3>3 DEF k, v
    <2>5. ASSUME NEW j \in D, j + (n + 1) >= L + 1
          PROVE  Eqn(g, j)
      <3>1. CASE j = L - n
        BY <2>3, <3>1
      <3>2. CASE j # L - n
        <4>1. j + n >= L + 1 /\ j \in Int
          BY <2>1, <2>5, <3>2
        <4>2. g[j] = f[j] /\ (j <= L => g[j + 1] = f[j + 1])
          BY <2>1, <2>3, <4>1, <3>2
        <4> QED BY <2>2, <4>1, <4>2
      <3> QED BY <3>1, <3>2
    <2> QED BY <2>4, <2>5
  <1>3. L \in T
    <2> HIDE DEF T
    <2> QED BY <1>1, <1>2, NatInduct DEF T
  <1>4. \E f \in [D -> Nat] : \A j \in D : j + L >= L + 1 => Eqn(f, j)
    BY <1>3
  <1>5. \A j \in D : j + L >= L + 1
    OBVIOUS
  <1> QED BY <1>4, <1>5

\* The recursive function that sums b from the right is the one function that
\* satisfies its equation.
LEMMA SumUnique ==
    ASSUME NEW L \in Nat, NEW b \in [1..L -> Nat],
           NEW f \in [1..(L + 1) -> Nat], NEW h,
           \A j \in 1..(L + 1) : f[j] = IF j > L THEN 0 ELSE b[j] + f[j + 1],
           h = [j \in 1..(L + 1) |-> IF j > L THEN 0 ELSE b[j] + h[j + 1]]
    PROVE  h = f
PROOF
  <1> DEFINE D == 1..(L + 1)
             T == {n \in Nat : \A j \in D : j + n >= L + 1 => h[j] = f[j]}
  <1>1. \A j \in D : h[j] = IF j > L THEN 0 ELSE b[j] + h[j + 1]
    OBVIOUS
  <1>2. 0 \in T
    BY <1>1
  <1>3. ASSUME NEW n \in T PROVE n + 1 \in T
    <2>1. ASSUME NEW j \in D, j + (n + 1) >= L + 1 PROVE h[j] = f[j]
      <3>1. CASE j > L
        BY <1>1, <3>1
      <3>2. CASE j <= L
        <4>1. j + 1 \in D /\ (j + 1) + n >= L + 1
          BY <2>1, <3>2
        <4>2. h[j + 1] = f[j + 1]
          BY <4>1
        <4> QED BY <1>1, <3>2, <4>2
      <3> QED BY <3>1, <3>2
    <2> QED BY <2>1
  <1>4. T = Nat
    <2> HIDE DEF T
    <2> QED BY <1>2, <1>3, NatInduct DEF T
  <1>5. \A j \in D : j + L >= L + 1
    OBVIOUS
  <1>6. \A j \in D : h[j] = f[j]
    BY <1>4, <1>5
  <1> QED BY <1>6

\* BytesFrom is the sum of the entries' bytes from i on, a natural number.
LEMMA BytesFromEquation ==
    ASSUME NEW es \in Seq(Entry)
    PROVE  \A i \in 1..(Len(es) + 1) :
              /\ BytesFrom(es, i) \in Nat
              /\ BytesFrom(es, i) = IF i > Len(es) THEN 0
                                    ELSE Bytes(es[i].ops) + BytesFrom(es, i + 1)
PROOF
  <1> DEFINE L == Len(es)
             b == [k \in 1..L |-> Bytes(es[k].ops)]
             Eqn(g) == g = [j \in 1..(L + 1) |->
                              IF j > L THEN 0 ELSE Bytes(es[j].ops) + g[j + 1]]
             h == CHOOSE g : Eqn(g)
  <1>1. L \in Nat /\ b \in [1..L -> Nat]
    BY DEF Bytes, Entry
  <1>2. PICK f \in [1..(L + 1) -> Nat] :
           \A j \in 1..(L + 1) : f[j] = IF j > L THEN 0 ELSE b[j] + f[j + 1]
    BY <1>1, SumExists
  <1>3. \A i \in 1..(L + 1) :
           f[i] \in Nat /\ f[i] = IF i > L THEN 0 ELSE Bytes(es[i].ops) + f[i + 1]
    <2>1. \A i \in 1..L : b[i] = Bytes(es[i].ops)
      OBVIOUS
    <2>2. ASSUME NEW i \in 1..(L + 1), ~ (i > L) PROVE i \in 1..L
      BY <1>1, <2>2
    <2> HIDE DEF b, L
    <2> QED BY <1>1, <1>2, <2>1, <2>2
  <1>4. Eqn(h)
    <2>1. Eqn(f)
      <3> HIDE DEF b, L
      <3> QED BY <1>2, <1>3
    <2> HIDE DEF Eqn
    <2> QED BY <2>1
  <1>5. h = [j \in 1..(L + 1) |-> IF j > L THEN 0 ELSE b[j] + h[j + 1]]
    <2> HIDE DEF h
    <2> QED BY <1>4
  <1>6. h = f
    <2> HIDE DEF h, b, L
    <2> QED BY <1>1, <1>2, <1>5, SumUnique
  <1>7. \A i : BytesFrom(es, i) = h[i]
    BY DEF BytesFrom
  <1> QED
    <2> HIDE DEF h
    <2> QED BY <1>3, <1>6, <1>7

\* Journals that agree up to p differ by what comes after.
LEMMA BytesFromAgree ==
    ASSUME NEW es \in Seq(Entry), NEW fs \in Seq(Entry), NEW p \in Nat,
           p <= Len(es), p <= Len(fs), \A j \in 1..p : es[j] = fs[j]
    PROVE  BytesFrom(es, 1) - BytesFrom(es, p + 1) = BytesFrom(fs, 1) - BytesFrom(fs, p + 1)
PROOF
  <1> DEFINE D == 1..(p + 1)
             Same(j) == BytesFrom(es, j) - BytesFrom(es, p + 1)
                          = BytesFrom(fs, j) - BytesFrom(fs, p + 1)
             T == {n \in Nat : \A j \in D : j + n >= p + 1 => Same(j)}
  <1>1. ASSUME NEW j \in 1..p
        PROVE  /\ Bytes(es[j].ops) \in Nat
               /\ BytesFrom(es, j) = Bytes(es[j].ops) + BytesFrom(es, j + 1)
               /\ BytesFrom(fs, j) = Bytes(es[j].ops) + BytesFrom(fs, j + 1)
    <2>1. /\ j \in 1..Len(es) /\ j \in 1..Len(fs)
          /\ j \in 1..(Len(es) + 1) /\ j \in 1..(Len(fs) + 1)
          /\ ~ (j > Len(es)) /\ ~ (j > Len(fs)) /\ es[j] = fs[j]
      OBVIOUS
    <2>2. es[j].ops \in Seq(Ops)
      <3>1. es[j] \in Entry
        BY <2>1
      <3> QED BY <3>1 DEF Entry
    <2>3. Bytes(es[j].ops) \in Nat
      BY <2>2 DEF Bytes
    <2> QED BY <2>1, <2>3, BytesFromEquation
  <1>2. \A j \in D : BytesFrom(es, j) \in Nat /\ BytesFrom(fs, j) \in Nat
    BY BytesFromEquation
  <1>3. 0 \in T
    BY <1>2
  <1>4. ASSUME NEW n \in T PROVE n + 1 \in T
    <2>1. ASSUME NEW j \in D, j + (n + 1) >= p + 1 PROVE Same(j)
      <3>1. CASE j = p + 1
        BY <1>2, <3>1
      <3>2. CASE j # p + 1
        <4>1. j \in 1..p /\ j + 1 \in D /\ (j + 1) + n >= p + 1 /\ p + 1 \in D
          BY <2>1, <3>2
        <4>2. Same(j + 1)
          BY <4>1
        <4> DEFINE e == Bytes(es[j].ops)
        <4>4. (e + BytesFrom(es, j + 1)) - BytesFrom(es, p + 1)
                = (e + BytesFrom(fs, j + 1)) - BytesFrom(fs, p + 1)
          <5>1. e \in Nat
            BY <1>1, <4>1
          <5>2. /\ BytesFrom(es, j + 1) \in Nat /\ BytesFrom(es, p + 1) \in Nat
                /\ BytesFrom(fs, j + 1) \in Nat /\ BytesFrom(fs, p + 1) \in Nat
            BY <1>2, <4>1
          <5>3. BytesFrom(es, j + 1) - BytesFrom(es, p + 1)
                  = BytesFrom(fs, j + 1) - BytesFrom(fs, p + 1)
            BY <4>2
          <5> DEFINE a == BytesFrom(es, j + 1)
                     b == BytesFrom(es, p + 1)
                     c == BytesFrom(fs, j + 1)
                     d == BytesFrom(fs, p + 1)
          <5>4. a \in Nat /\ b \in Nat /\ c \in Nat /\ d \in Nat /\ a - b = c - d
            BY <5>2, <5>3
          <5>5. (e + a) - b = (e + c) - d
            <6> HIDE DEF a, b, c, d, e
            <6> QED BY <5>1, <5>4
          <5> QED BY <5>5
        <4> QED BY <1>1, <4>1, <4>4
      <3> QED BY <3>1, <3>2
    <2>2. n + 1 \in Nat
      OBVIOUS
    <2> HIDE DEF Same
    <2> QED BY <2>1, <2>2
  <1>5. T = Nat
    <2> HIDE DEF T
    <2> QED BY <1>3, <1>4, NatInduct DEF T
  <1>6. 1 + p >= p + 1 /\ 1 \in D
    OBVIOUS
  <1> QED BY <1>5, <1>6

\* Journaling an entry adds its bytes to the journal's.
LEMMA BytesFromAppend ==
    ASSUME NEW es \in Seq(Entry), NEW e \in Entry
    PROVE  BytesFrom(Append(es, e), 1) = BytesFrom(es, 1) + Bytes(e.ops)
PROOF
  <1> DEFINE fs == Append(es, e)
  <1>1. /\ fs \in Seq(Entry) /\ Len(fs) = Len(es) + 1 /\ Len(es) \in Nat
        /\ fs[Len(es) + 1] = e /\ \A j \in 1..Len(es) : es[j] = fs[j]
    BY AppendProperties
  <1>2. BytesFrom(es, 1) - BytesFrom(es, Len(es) + 1) = BytesFrom(fs, 1) - BytesFrom(fs, Len(es) + 1)
    <2> HIDE DEF fs
    <2> QED BY <1>1, BytesFromAgree
  <1>3. BytesFrom(es, Len(es) + 1) = 0 /\ BytesFrom(es, 1) \in Nat
    BY <1>1, BytesFromEquation
  <1>4. /\ BytesFrom(fs, 1) \in Nat /\ Bytes(e.ops) \in Nat
        /\ BytesFrom(fs, Len(es) + 1) = Bytes(e.ops)
    <2>1. Bytes(e.ops) \in Nat
      BY DEF Bytes, Entry
    <2> HIDE DEF fs
    <2>2. BytesFrom(fs, Len(fs) + 1) = 0
      BY <1>1, BytesFromEquation
    <2>3. BytesFrom(fs, Len(fs)) = Bytes(fs[Len(fs)].ops) + BytesFrom(fs, Len(fs) + 1)
      BY <1>1, BytesFromEquation
    <2>4. BytesFrom(fs, 1) \in Nat
      BY <1>1, BytesFromEquation
    <2> QED BY <1>1, <2>1, <2>2, <2>3, <2>4
  <1>5. BytesFrom(fs, 1) = BytesFrom(es, 1) + Bytes(e.ops)
    <2> HIDE DEF fs
    <2> QED BY <1>2, <1>3, <1>4
  <1> QED BY <1>5

\* Truncating the journal to its first p entries leaves their bytes.
LEMMA BytesFromPrefix ==
    ASSUME NEW es \in Seq(Entry), NEW p \in 0..Len(es)
    PROVE  /\ BytesFrom(SubSeq(es, 1, p), 1) = BytesFrom(es, 1) - BytesFrom(es, p + 1)
           /\ BytesFrom(es, p + 1) \in Nat
           /\ BytesFrom(SubSeq(es, 1, p), 1) \in Nat
PROOF
  <1> DEFINE fs == SubSeq(es, 1, p)
  <1>1. fs \in Seq(Entry) /\ Len(fs) = p /\ p \in Nat /\ \A j \in 1..p : es[j] = fs[j]
    BY SubSeqProperties
  <1>2. BytesFrom(es, 1) - BytesFrom(es, p + 1) = BytesFrom(fs, 1) - BytesFrom(fs, p + 1)
    <2> HIDE DEF fs
    <2> QED BY <1>1, BytesFromAgree
  <1>3. BytesFrom(fs, p + 1) = 0 /\ BytesFrom(fs, 1) \in Nat
    <2> HIDE DEF fs
    <2> QED BY <1>1, BytesFromEquation
  <1>4. BytesFrom(es, p + 1) \in Nat /\ BytesFrom(es, 1) \in Nat
    BY BytesFromEquation
  <1>5. BytesFrom(fs, 1) = BytesFrom(es, 1) - BytesFrom(es, p + 1)
    <2> HIDE DEF fs
    <2> QED BY <1>2, <1>3, <1>4
  <1> QED BY <1>3, <1>4, <1>5

\* The loop of truncateAfter keeps a prefix of markers in journal order.
LEMMA KeptMarksPrefix ==
    ASSUME NEW ms \in Seq(Marker), NEW p \in Nat,
           \A i, j \in DOMAIN ms : i <= j => ms[i].pos <= ms[j].pos
    PROVE  \E k \in 0..Len(ms) :
              /\ KeptMarks(ms, p) = SubSeq(ms, 1, k)
              /\ \A i \in DOMAIN ms : i <= k <=> ms[i].pos <= p
PROOF
  <1> DEFINE L == Len(ms)
             Eqn(g) == g = [i \in 0..L |->
                             IF i = 0 THEN <<>>
                             ELSE IF ms[i].pos <= p THEN Append(g[i - 1], ms[i]) ELSE g[i - 1]]
             h == CHOOSE g : Eqn(g)
  <1>1. L \in Nat /\ DOMAIN ms = 1..L /\ \A i \in 1..L : ms[i] \in Marker /\ ms[i].pos \in Nat
    <2>1. L \in Nat /\ DOMAIN ms = 1..L /\ \A i \in 1..L : ms[i] \in Marker
      OBVIOUS
    <2> HIDE DEF L
    <2> QED BY <2>1 DEF Marker
  <1>2. PICK k \in 0..L : \A i \in 1..L : i <= k <=> ms[i].pos <= p
    <2> DEFINE T == {i \in 1..(L + 1) : i = L + 1 \/ ms[i].pos > p}
    <2>1. T \in SUBSET Nat /\ L + 1 \in T
      BY <1>1
    <2>2. PICK m \in T : \A j \in T : m <= j
      <3> HIDE DEF T
      <3> QED BY <2>1, LeastNat
    <2>3. m - 1 \in 0..L
      BY <1>1
    <2>4. ASSUME NEW i \in 1..L PROVE i <= m - 1 <=> ms[i].pos <= p
      <3>1. CASE i <= m - 1
        <4>1. i \notin T
          BY <1>1, <2>2, <2>3, <3>1
        <4> QED BY <1>1, <3>1, <4>1
      <3>2. CASE ~ (i <= m - 1)
        <4>1. m \in 1..L /\ m <= i
          BY <1>1, <3>2
        <4>2. ms[m].pos > p /\ ms[m].pos <= ms[i].pos
          BY <1>1, <4>1
        <4> QED BY <1>1, <3>2, <4>1, <4>2
      <3> QED BY <3>1, <3>2
    <2> HIDE DEF T
    <2> QED BY <2>3, <2>4
  <1> DEFINE f == [i \in 0..L |-> SubSeq(ms, 1, IF i <= k THEN i ELSE k)]
  <1>3. \A i \in 0..L : f[i] = IF i = 0 THEN <<>>
                               ELSE IF ms[i].pos <= p THEN Append(f[i - 1], ms[i]) ELSE f[i - 1]
    <2>1. \A i \in 0..L : f[i] = SubSeq(ms, 1, IF i <= k THEN i ELSE k)
      OBVIOUS
    <2>2. f[0] = <<>>
      BY <1>1
    <2>3. ASSUME NEW i \in 1..L PROVE f[i] = IF ms[i].pos <= p THEN Append(f[i - 1], ms[i]) ELSE f[i - 1]
      <3>1. CASE i <= k
        <4>1. f[i] = SubSeq(ms, 1, i) /\ f[i - 1] = SubSeq(ms, 1, i - 1)
          BY <1>1, <2>1, <3>1
        <4>2. SubSeq(ms, 1, i) = Append(SubSeq(ms, 1, i - 1), ms[i])
          BY <1>1
        <4> QED BY <1>2, <3>1, <4>1, <4>2
      <3>2. CASE ~ (i <= k)
        <4>1. f[i] = SubSeq(ms, 1, k) /\ f[i - 1] = SubSeq(ms, 1, k)
          BY <1>1, <2>1, <3>2
        <4> QED BY <1>2, <3>2, <4>1
      <3> QED BY <3>1, <3>2
    <2> HIDE DEF f
    <2> QED BY <1>1, <2>2, <2>3
  <1>4. Eqn(f)
    BY <1>3
  <1>5. Eqn(h)
    <2> HIDE DEF Eqn
    <2> QED BY <1>4
  <1>6. \A i \in 0..L : h[i] = f[i]
    <2> DEFINE T == {n \in Nat : n <= L => h[n] = f[n]}
    <2>1. \A i \in 0..L : h[i] = IF i = 0 THEN <<>>
                                 ELSE IF ms[i].pos <= p THEN Append(h[i - 1], ms[i]) ELSE h[i - 1]
      <3> HIDE DEF h
      <3> QED BY <1>5
    <2> HIDE DEF h, f
    <2>2. 0 \in T
      BY <1>1, <1>3, <2>1
    <2>3. ASSUME NEW n \in T PROVE n + 1 \in T
      <3>1. CASE n + 1 <= L
        <4>1. n + 1 \in 0..L /\ n + 1 # 0 /\ (n + 1) - 1 = n /\ h[n] = f[n]
          BY <1>1, <3>1
        <4> QED BY <1>3, <2>1, <4>1
      <3>2. CASE ~ (n + 1 <= L)
        BY <3>2
      <3> QED BY <3>1, <3>2
    <2>4. T = Nat
      <3> HIDE DEF T
      <3> QED BY <2>2, <2>3, NatInduct DEF T
    <2> QED BY <1>1, <2>4
  <1>7. KeptMarks(ms, p) = h[L]
    BY DEF KeptMarks
  <1> QED
    <2>1. f[L] = SubSeq(ms, 1, k)
      <3>1. k \in Nat /\ k <= L
        BY <1>1, <1>2
      <3>2. (IF L <= k THEN L ELSE k) = k
        <4> HIDE DEF L
        <4> QED BY <1>1, <3>1
      <3>3. L \in 0..L
        BY <1>1
      <3>4. \A i \in 0..L : f[i] = SubSeq(ms, 1, IF i <= k THEN i ELSE k)
        OBVIOUS
      <3> HIDE DEF f, L
      <3> QED BY <3>2, <3>3, <3>4
    <2> HIDE DEF h, f
    <2> QED BY <1>1, <1>2, <1>6, <1>7, <2>1

\* What a critical section works on
StateType == [tc: OwnerType, phys: Seq(Answer), held: Seq(Ops), durable: Seq(Seq(Ops))]

\* A queue's bytes are a number, none for an empty queue.
LEMMA QueueBytesNat ==
    ASSUME NEW q \in Seq(Ops)
    PROVE  /\ Bytes(q) \in Nat /\ QueueBytes(q) \in Nat
           /\ QueueBytes(<<>>) = 0
           /\ q # <<>> => QueueBytes(q) = Bytes(q)
PROOF
  BY DEF Bytes, QueueBytes

\* The terms of the account are natural numbers.
LEMMA AccountTerms ==
    ASSUME NEW o \in OwnerType
    PROVE  /\ Journaled(o) \in Nat
           /\ QueueBytes(o.queued) \in Nat /\ o.reserved \in Nat /\ o.retained \in Nat
           /\ o.entries \in Seq(Entry) /\ o.marks \in Seq(Marker)
           /\ o.queued \in Seq(Ops) /\ o.autoDML \in Seq(Ops)
PROOF
  <1>1. /\ o.entries \in Seq(Entry) /\ o.marks \in Seq(Marker)
        /\ o.queued \in Seq(Ops) /\ o.autoDML \in Seq(Ops)
        /\ o.reserved \in Nat /\ o.retained \in Nat
    BY BoundAssumption DEF OwnerType
  <1>2. BytesFrom(o.entries, 1) \in Nat
    <2>1. 1 \in 1..(Len(o.entries) + 1)
      BY <1>1
    <2> QED BY <1>1, <2>1, BytesFromEquation
  <1>3. Journaled(o) \in Nat
    <2>1. MarkerBytes * Len(o.marks) \in Nat
      BY <1>1 DEF MarkerBytes
    <2> QED BY <1>2, <2>1 DEF Journaled
  <1> QED BY <1>1, <1>2, <1>3, QueueBytesNat

\* A marker has a place in the journal and a name.
LEMMA MarkerFields ==
    ASSUME NEW ms \in Seq(Marker)
    PROVE  /\ Len(ms) \in Nat /\ DOMAIN ms = 1..Len(ms)
           /\ \A i \in DOMAIN ms : ms[i] \in Marker /\ ms[i].pos \in Nat /\ ms[i].name \in Names
PROOF
  <1>1. Len(ms) \in Nat /\ DOMAIN ms = 1..Len(ms) /\ \A i \in DOMAIN ms : ms[i] \in Marker
    OBVIOUS
  <1> QED BY <1>1 DEF Marker

\* No owner: nothing reserved, nothing retained.
LEMMA NoOwnerGood ==
    ASSUME NEW x
    PROVE  GoodOwner(NoOwner, x) /\ NoOwner \in OwnerType /\ NoOwner.mode = "none"
PROOF
  BY BoundAssumption DEF GoodOwner, Accounted, MarksOrdered, OwnerShape, NoOwner, OwnerType

\* reserveJournalBytes of an owner that is at work leaves it at work.
LEMMA ReserveWorks ==
    ASSUME NEW o, NEW x \in Nat, NEW n \in Nat, Working(o, x), Room(o, n)
    PROVE  Working(Reserve(o, n), x + n)
PROOF
  <1> DEFINE r == Reserve(o, n)
  <1>1. o \in OwnerType
    BY DEF Working, GoodOwner
  <1>2. r \in OwnerType
    <2>1. o.retained + n \in 0..JournalLimit
      BY <1>1, AccountTerms, BoundAssumption DEF Room
    <2> QED BY <1>1, <2>1 DEF Reserve, OwnerType
  <1>3. /\ r.retained = o.retained + n
        /\ r.entries = o.entries /\ r.marks = o.marks /\ r.queued = o.queued
        /\ r.autoDML = o.autoDML /\ r.reserved = o.reserved /\ r.mode = o.mode
        /\ r.recovering = o.recovering /\ r.inFlight = o.inFlight /\ r.live = o.live
    BY <1>1 DEF Reserve, OwnerType
  <1> HIDE DEF r
  <1>4. Accounted(r, x + n)
    <2>1. Journaled(r) = Journaled(o)
      BY <1>3 DEF Journaled
    <2> QED BY <1>1, <1>3, <2>1, AccountTerms DEF Accounted, Working, GoodOwner
  <1>5. MarksOrdered(r)
    BY <1>3 DEF MarksOrdered, Working, GoodOwner
  <1>6. OwnerShape(r)
    BY <1>3 DEF OwnerShape, Working, GoodOwner
  <1>7. Working(r, x + n)
    BY <1>2, <1>3, <1>4, <1>5, <1>6 DEF Working, GoodOwner
  <1> QED BY <1>7 DEF r

\* What was reserved and is not needed is given back.
LEMMA GiveBackWorks ==
    ASSUME NEW o, NEW x \in Nat, NEW n \in Nat, GoodOwner(o, x + n), o.mode # "none"
    PROVE  /\ GoodOwner([o EXCEPT !.retained = @ - n], x)
           /\ Working(o, x + n) => Working([o EXCEPT !.retained = @ - n], x)
PROOF
  <1> DEFINE r == [o EXCEPT !.retained = @ - n]
  <1>1. o \in OwnerType
    BY DEF GoodOwner
  <1>2. o.retained - n \in 0..JournalLimit /\ o.retained \in Nat
    <2>1. o.retained \in 0..JournalLimit /\ o.retained >= n
      BY <1>1, AccountTerms DEF Accounted, GoodOwner, OwnerType
    <2> QED BY <2>1, BoundAssumption
  <1>3. r \in OwnerType
    BY <1>1, <1>2 DEF OwnerType
  <1>4. /\ r.retained = o.retained - n
        /\ r.entries = o.entries /\ r.marks = o.marks /\ r.queued = o.queued
        /\ r.autoDML = o.autoDML /\ r.reserved = o.reserved /\ r.mode = o.mode
        /\ r.recovering = o.recovering /\ r.inFlight = o.inFlight /\ r.live = o.live
    BY <1>1 DEF OwnerType
  <1> HIDE DEF r
  <1>5. Accounted(r, x)
    <2>1. Journaled(r) = Journaled(o)
      BY <1>4 DEF Journaled
    <2> QED BY <1>1, <1>4, <2>1, AccountTerms DEF Accounted, GoodOwner
  <1>6. MarksOrdered(r)
    BY <1>4 DEF MarksOrdered, GoodOwner
  <1>7. OwnerShape(r)
    BY <1>4 DEF OwnerShape, GoodOwner
  <1>8. GoodOwner(r, x) /\ (Working(o, x + n) => Working(r, x))
    BY <1>3, <1>4, <1>5, <1>6, <1>7 DEF Working, GoodOwner
  <1> QED BY <1>8 DEF r

\* An entry is journaled on a reservation made before.
LEMMA JournalWorks ==
    ASSUME NEW o, NEW x \in Nat, NEW os \in Seq(Ops), NEW v \in Observations,
           Working(o, x + Bytes(os))
    PROVE  Working(Journal(o, os, v), x)
PROOF
  <1> DEFINE e == [id |-> o.nextID + 1, ops |-> os, obs |-> v]
             r == Journal(o, os, v)
  <1>1. o \in OwnerType
    BY DEF Working, GoodOwner
  <1>2. e \in Entry /\ o.nextID + 1 \in Nat
    BY <1>1 DEF Entry, OwnerType
  <1>3. Append(o.entries, e) \in Seq(Entry)
    BY <1>1, <1>2, AccountTerms
  <1>4. r \in OwnerType
    BY <1>1, <1>2, <1>3 DEF Journal, OwnerType
  <1>5. /\ r.retained = o.retained
        /\ r.entries = Append(o.entries, e) /\ r.marks = o.marks /\ r.queued = o.queued
        /\ r.autoDML = o.autoDML /\ r.reserved = o.reserved /\ r.mode = o.mode
        /\ r.recovering = o.recovering /\ r.inFlight = o.inFlight /\ r.live = o.live
    BY <1>1 DEF Journal, OwnerType
  <1>6. BytesFrom(r.entries, 1) = BytesFrom(o.entries, 1) + Bytes(os)
    <2>1. e.ops = os
      OBVIOUS
    <2> HIDE DEF e, r
    <2> QED BY <1>1, <1>2, <1>5, <2>1, AccountTerms, BytesFromAppend
  <1>7. Len(r.entries) = Len(o.entries) + 1 /\ Len(o.entries) \in Nat
    <2> HIDE DEF e, r
    <2> QED BY <1>1, <1>2, <1>5, AccountTerms
  <1> HIDE DEF r
  <1>8. Accounted(r, x)
    <2>1. Bytes(os) \in Nat
      BY QueueBytesNat
    <2>2. o.retained = Journaled(o) + QueueBytes(o.queued) + o.reserved + (x + Bytes(os))
      BY DEF Accounted, Working, GoodOwner
    <2> DEFINE n == Bytes(os)
               q == QueueBytes(o.queued)
               j == Journaled(o)
    <2>3. Journaled(r) = j + n
      <3> DEFINE b == BytesFrom(o.entries, 1)
                 m == MarkerBytes * Len(o.marks)
      <3>1. b \in Nat /\ m \in Nat /\ n \in Nat
        BY <1>1, <2>1, AccountTerms, BytesFromEquation DEF MarkerBytes
      <3>2. j = b + m /\ Journaled(r) = (b + n) + m
        BY <1>5, <1>6 DEF Journaled
      <3> HIDE DEF b, m, n, j
      <3> QED BY <3>1, <3>2
    <2>4. j \in Nat /\ n \in Nat /\ q \in Nat /\ o.reserved \in Nat
      BY <1>1, <2>1, AccountTerms
    <2>5. o.retained = j + q + o.reserved + (x + n)
      BY <2>2
    <2>6. o.retained = (j + n) + q + o.reserved + x
      <3> HIDE DEF j, n, q
      <3> QED BY <2>4, <2>5
    <2> QED BY <1>5, <2>3, <2>6 DEF Accounted
  <1>9. MarksOrdered(r)
    <2>1. \A i \in DOMAIN o.marks : o.marks[i].pos \in Nat
      BY <1>1, AccountTerms, MarkerFields
    <2> QED BY <1>5, <1>7, <2>1 DEF MarksOrdered, Working, GoodOwner
  <1>10. OwnerShape(r)
    BY <1>5 DEF OwnerShape, Working, GoodOwner
  <1>11. Working(r, x)
    BY <1>4, <1>5, <1>8, <1>9, <1>10 DEF Working, GoodOwner
  <1> QED BY <1>11 DEF r

\* A flush takes the whole queue with its reservation.
LEMMA TakeWorks ==
    ASSUME NEW o, NEW x \in Nat, Working(o, x)
    PROVE  /\ Working([o EXCEPT !.autoDML = <<>>, !.queued = <<>>], x + QueueBytes(o.queued))
           /\ QueueBytes(o.queued) \in Nat /\ o.queued = o.autoDML /\ o.queued \in Seq(Ops)
PROOF
  <1> DEFINE r == [o EXCEPT !.autoDML = <<>>, !.queued = <<>>]
  <1>1. o \in OwnerType
    BY DEF Working, GoodOwner
  <1>2. r \in OwnerType
    <2>1. <<>> \in Seq(Ops)
      OBVIOUS
    <2> QED BY <1>1, <2>1 DEF OwnerType
  <1>3. /\ r.retained = o.retained
        /\ r.entries = o.entries /\ r.marks = o.marks /\ r.queued = <<>>
        /\ r.autoDML = <<>> /\ r.reserved = o.reserved /\ r.mode = o.mode
        /\ r.recovering = o.recovering /\ r.inFlight = o.inFlight /\ r.live = o.live
    BY <1>1 DEF OwnerType
  <1>4. QueueBytes(o.queued) \in Nat /\ o.queued \in Seq(Ops) /\ QueueBytes(<<>>) = 0
    BY <1>1, AccountTerms, QueueBytesNat
  <1>5. o.queued = o.autoDML
    BY DEF Working, GoodOwner, OwnerShape
  <1> HIDE DEF r
  <1>6. Accounted(r, x + QueueBytes(o.queued))
    <2>1. o.retained = Journaled(o) + QueueBytes(o.queued) + o.reserved + x
      BY DEF Accounted, Working, GoodOwner
    <2>2. Journaled(r) = Journaled(o)
      BY <1>3 DEF Journaled
    <2> QED BY <1>1, <1>3, <1>4, <2>1, <2>2, AccountTerms DEF Accounted
  <1>7. MarksOrdered(r) /\ OwnerShape(r)
    BY <1>3 DEF MarksOrdered, OwnerShape, Working, GoodOwner
  <1>8. Working(r, x + QueueBytes(o.queued))
    BY <1>2, <1>3, <1>6, <1>7 DEF Working, GoodOwner
  <1> QED BY <1>4, <1>5, <1>8 DEF r

\* The pending query's reservation is given back.
LEMMA ReleasePendingWorks ==
    ASSUME NEW o, NEW x \in Nat, GoodOwner(o, x), o.mode = "rw", ~o.recovering
    PROVE  Working(ReleasePending(o), x)
PROOF
  <1> DEFINE r == ReleasePending(o)
  <1>1. o \in OwnerType
    BY DEF GoodOwner
  <1>2. o.retained - o.reserved \in 0..JournalLimit
    <2>1. o.retained \in 0..JournalLimit /\ o.retained >= o.reserved /\ o.reserved \in Nat
      BY <1>1, AccountTerms DEF Accounted, GoodOwner, OwnerType
    <2> QED BY <2>1, BoundAssumption
  <1>3. r \in OwnerType
    <2>1. 0 \in Nat /\ 0 \in 0..1
      OBVIOUS
    <2> QED BY <1>1, <1>2, <2>1 DEF ReleasePending, OwnerType
  <1>4. /\ r.retained = o.retained - o.reserved
        /\ r.entries = o.entries /\ r.marks = o.marks /\ r.queued = o.queued
        /\ r.autoDML = o.autoDML /\ r.reserved = 0 /\ r.mode = o.mode
        /\ r.recovering = o.recovering /\ r.inFlight = 0 /\ r.live = o.live
    BY <1>1 DEF ReleasePending, OwnerType
  <1> HIDE DEF r
  <1>5. Accounted(r, x)
    <2>1. Journaled(r) = Journaled(o)
      BY <1>4 DEF Journaled
    <2> QED BY <1>1, <1>4, <2>1, AccountTerms DEF Accounted, GoodOwner
  <1>6. MarksOrdered(r) /\ OwnerShape(r)
    BY <1>4 DEF MarksOrdered, OwnerShape, GoodOwner
  <1>7. Working(r, x)
    BY <1>3, <1>4, <1>5, <1>6 DEF Working, GoodOwner
  <1> QED BY <1>7 DEF r

----------------------------------------------------------------------------
(* The outcomes of the critical sections, case by case.                    *)

\* What a failure of the section working on s comes to.
Failed(s, f) ==
    \/ f = [s |-> HandleFailure(s), r |-> "failed"]
    \/ f = [s |-> HandleFailure(s), r |-> "exhausted"]
    \/ f = [s |-> End(s), r |-> "failed"] /\ s.tc.retry
    \/ f = [s |-> Reconstruct(s), r |-> "wait"] /\ s.tc.retry /\ s.tc.aborts < MaxRetries

\* A flush that has taken the queue, and one that has executed it
Taken(s) == [s EXCEPT !.tc.autoDML = <<>>, !.tc.queued = <<>>]
\* The queue is taken and its bytes are given back.
Released(s) ==
    [Taken(s) EXCEPT !.tc.retained = @ - QueueBytes(s.tc.queued), !.held = s.tc.autoDML]
\* The statements os are answered with v and journaled.
Executed(s, o, os, qs, v) ==
    [s EXCEPT !.tc = Journal(o, os, v), !.phys = Append(@, [ops |-> qs, obs |-> v])]
\* The server has committed what its transaction executed.
Committed(s) == [End(s) EXCEPT !.durable = Batches(s.phys)]

\* What a flush changes when it takes the queue, with and without giving back
\* its bytes.
LEMMA TakenFields ==
    ASSUME NEW s \in StateType
    PROVE  /\ Taken(s).tc = [s.tc EXCEPT !.autoDML = <<>>, !.queued = <<>>]
           /\ Taken(s).phys = s.phys /\ Taken(s).held = s.held /\ Taken(s).durable = s.durable
           /\ Released(s).tc = [Taken(s).tc EXCEPT !.retained = @ - QueueBytes(s.tc.queued)]
           /\ Released(s).phys = s.phys /\ Released(s).held = s.tc.autoDML
           /\ Released(s).durable = s.durable
PROOF
  <1>1. /\ Taken(s).tc = [s.tc EXCEPT !.autoDML = <<>>, !.queued = <<>>]
        /\ Taken(s).phys = s.phys /\ Taken(s).held = s.held /\ Taken(s).durable = s.durable
    BY DEF Taken, StateType
  <1>2. /\ Released(s).tc = [Taken(s).tc EXCEPT !.retained = @ - QueueBytes(s.tc.queued)]
        /\ Released(s).phys = Taken(s).phys /\ Released(s).held = s.tc.autoDML
        /\ Released(s).durable = Taken(s).durable
    BY DEF Taken, Released, StateType
  <1> QED BY <1>1, <1>2

\* The outcomes of recoverAutoDML are among the failures.
LEMMA RecoverCases ==
    ASSUME NEW s, s.tc.retry, s.tc.aborts \in Nat, NEW f \in Recover(s)
    PROVE  Failed(s, f)
PROOF
  BY BoundAssumption DEF Recover, Outcome, Failed

\* The outcomes of an ABORTED answer are among the failures.
LEMMA AbortedCases ==
    ASSUME NEW s, s.tc.aborts \in Nat, NEW f \in Aborted(s)
    PROVE  Failed(s, f)
PROOF
  <1>1. CASE s.tc.retry
    BY <1>1, RecoverCases DEF Aborted
  <1>2. CASE ~s.tc.retry
    BY <1>2 DEF Aborted, Outcome, Failed
  <1> QED BY <1>1, <1>2

\* A DML statement is refused, fails, or is answered and journaled.
LEMMA ExecCases ==
    ASSUME NEW s, s.tc.aborts \in Nat, NEW os, NEW f \in ExecOutcomes(s, os)
    PROVE  \/ f = [s |-> s, r |-> "failed"]
           \/ Failed(s, f)
           \/ /\ Room(s.tc, Bytes(os))
              /\ \E v \in Observations :
                    f = [s |-> Executed(s, Reserve(s.tc, Bytes(os)), os, os, v), r |-> "ok"]
PROOF
  <1>1. CASE ~Room(s.tc, Bytes(os))
    BY <1>1 DEF ExecOutcomes, Outcome
  <1>2. CASE Room(s.tc, Bytes(os)) /\ f \in Aborted(s)
    BY <1>2, AbortedCases
  <1>3. CASE Room(s.tc, Bytes(os)) /\ f \in Outcome(HandleFailure(s), "failed")
    BY <1>3 DEF Outcome, Failed
  <1>4. CASE Room(s.tc, Bytes(os)) /\ f \notin Aborted(s) /\ f \notin Outcome(HandleFailure(s), "failed")
    BY <1>4 DEF ExecOutcomes, Executed
  <1> QED BY <1>1, <1>2, <1>3, <1>4

\* A flush has nothing to do, fails with the queue released, or is answered
\* and journaled.
LEMMA FlushCases ==
    ASSUME NEW s \in StateType, NEW f \in FlushOutcomes(s)
    PROVE  \/ s.tc.autoDML = <<>> /\ f = [s |-> s, r |-> "ok"]
           \/ s.tc.autoDML # <<>> /\ Failed(Released(s), f)
           \/ /\ s.tc.autoDML # <<>>
              /\ \E v \in Observations :
                    f = [s |-> Executed(Taken(s), Taken(s).tc, s.tc.queued, s.tc.autoDML, v),
                         r |-> "ok"]
PROOF
  <1>1. CASE s.tc.autoDML = <<>>
    BY <1>1 DEF FlushOutcomes, Outcome
  <1>2. CASE s.tc.autoDML # <<>> /\ f \in Aborted(Released(s))
    <2>1. Released(s).tc.aborts \in Nat
      <3>1. Released(s).tc.aborts = s.tc.aborts
        BY DEF Released, Taken, StateType, OwnerType
      <3> QED BY <3>1, BoundAssumption DEF StateType, OwnerType
    <2> QED BY <1>2, <2>1, AbortedCases
  <1>3. CASE s.tc.autoDML # <<>> /\ f \in Outcome(HandleFailure(Released(s)), "failed")
    BY <1>3 DEF Outcome, Failed
  <1>4. CASE /\ s.tc.autoDML # <<>>
             /\ f \notin Aborted(Released(s))
             /\ f \notin Outcome(HandleFailure(Released(s)), "failed")
    BY <1>4 DEF FlushOutcomes, Released, Taken, Executed
  <1> QED BY <1>1, <1>2, <1>3, <1>4

\* A commit fails for good, is done (its answer possibly lost), or fails in a
\* way that may be retried.
LEMMA CommitCases ==
    ASSUME NEW s, s.tc.aborts \in Nat, NEW f \in CommitOutcomes(s)
    PROVE  \/ f = [s |-> End(s), r |-> "failed"]
           \/ f \in {[s |-> Committed(s), r |-> "ok"], [s |-> Committed(s), r |-> "failed"]}
           \/ Failed(s, f) /\ s.tc.retry
PROOF
  <1>1. CASE s.tc.retry /\ f \in Recover(s)
    BY <1>1, RecoverCases
  <1>2. CASE ~ (s.tc.retry /\ f \in Recover(s))
    BY <1>2 DEF CommitOutcomes, Outcome, Committed
  <1> QED BY <1>1, <1>2

----------------------------------------------------------------------------
(* The outcomes keep the owner's accounts.                                 *)

\* The end of the owner leaves no accounts.
LEMMA EndGood ==
    ASSUME NEW s \in StateType, NEW x
    PROVE  /\ End(s) \in StateType /\ GoodOwner(End(s).tc, x) /\ End(s).tc = NoOwner
           /\ End(s).phys = <<>> /\ End(s).held = <<>> /\ End(s).durable = s.durable
PROOF
  <1>1. /\ End(s).tc = NoOwner /\ End(s).phys = <<>> /\ End(s).held = <<>>
        /\ End(s).durable = s.durable
    BY DEF End, StateType
  <1>2. End(s) \in StateType
    <2>1. <<>> \in Seq(Answer) /\ <<>> \in Seq(Ops)
      OBVIOUS
    <2> QED BY <2>1, NoOwnerGood DEF End, StateType
  <1> QED BY <1>1, <1>2, NoOwnerGood

\* enterRecovery keeps the entries and the markers, and its accounts are
\* exact.
LEMMA EnterRecoveryGood ==
    ASSUME NEW s \in StateType, NEW x \in Nat, GoodOwner(s.tc, x), s.tc.mode = "rw",
           ~s.tc.recovering, s.tc.marks # <<>>
    PROVE  LET r == EnterRecovery(s)
           IN  /\ r \in StateType /\ GoodOwner(r.tc, x)
               /\ r.phys = <<>> /\ r.held = <<>> /\ r.durable = s.durable
               /\ r.tc.mode = "rw" /\ r.tc.recovering /\ ~r.tc.live
               /\ r.tc.reserved = 0 /\ r.tc.inFlight = 0
               /\ r.tc.entries = s.tc.entries /\ r.tc.marks = s.tc.marks
               /\ r.tc.nextID = s.tc.nextID /\ r.tc.attempt = s.tc.attempt
PROOF
  <1> DEFINE o == s.tc
             d == DropQueued(o)
             p == ReleasePending(d)
             r == [p EXCEPT !.live = FALSE, !.recovering = TRUE]
  <1>1. o \in OwnerType
    BY DEF StateType
  <1>2. /\ o.retained \in 0..JournalLimit /\ o.retained \in Nat
        /\ o.retained - QueueBytes(o.queued) \in 0..JournalLimit
        /\ o.retained - QueueBytes(o.queued) - o.reserved \in 0..JournalLimit
    <2>1. o.retained \in 0..JournalLimit /\ o.retained \in Nat
      BY <1>1, AccountTerms DEF OwnerType
    <2> DEFINE q == QueueBytes(o.queued)
    <2>2. q \in Nat /\ o.reserved \in Nat /\ Journaled(o) \in Nat
      BY <1>1, AccountTerms
    <2>3. o.retained = Journaled(o) + q + o.reserved + x
      BY DEF Accounted, GoodOwner
    <2> HIDE DEF o, q
    <2>4. o.retained - q \in 0..JournalLimit /\ o.retained - q - o.reserved \in 0..JournalLimit
      BY <2>1, <2>2, <2>3, BoundAssumption
    <2> QED BY <2>1, <2>4 DEF q
  <1>3. d \in OwnerType
    <2>1. <<>> \in Seq(Ops)
      OBVIOUS
    <2> QED BY <1>1, <1>2, <2>1 DEF DropQueued, OwnerType
  <1>4. /\ d.retained = o.retained - QueueBytes(o.queued) /\ d.queued = <<>>
        /\ d.entries = o.entries /\ d.marks = o.marks /\ d.reserved = o.reserved
        /\ d.mode = o.mode /\ d.nextID = o.nextID /\ d.attempt = o.attempt
    BY <1>1 DEF DropQueued, OwnerType
  <1>5. /\ r \in OwnerType
        /\ r.retained = o.retained - QueueBytes(o.queued) - o.reserved /\ r.queued = <<>>
        /\ r.entries = o.entries /\ r.marks = o.marks /\ r.reserved = 0 /\ r.inFlight = 0
        /\ r.mode = o.mode /\ r.recovering = TRUE /\ r.live = FALSE
        /\ r.nextID = o.nextID /\ r.attempt = o.attempt
    <2>1. 0 \in Nat /\ 0 \in 0..1 /\ d.retained - d.reserved \in 0..JournalLimit
      BY <1>2, <1>4
    <2> HIDE DEF d, o
    <2>2. p \in OwnerType
      BY <1>3, <2>1 DEF ReleasePending, OwnerType
    <2>3. /\ p.retained = d.retained - d.reserved /\ p.queued = d.queued
          /\ p.entries = d.entries /\ p.marks = d.marks /\ p.reserved = 0 /\ p.inFlight = 0
          /\ p.mode = d.mode /\ p.nextID = d.nextID /\ p.attempt = d.attempt
      BY <1>3 DEF ReleasePending, OwnerType
    <2> HIDE DEF p
    <2>4. r \in OwnerType
      BY <2>2 DEF OwnerType
    <2>5. /\ r.retained = p.retained /\ r.queued = p.queued
          /\ r.entries = p.entries /\ r.marks = p.marks /\ r.reserved = p.reserved
          /\ r.inFlight = p.inFlight
          /\ r.mode = p.mode /\ r.recovering = TRUE /\ r.live = FALSE
          /\ r.nextID = p.nextID /\ r.attempt = p.attempt
      BY <2>2 DEF OwnerType
    <2> QED BY <1>4, <2>3, <2>4, <2>5
  <1>6. EnterRecovery(s) = [s EXCEPT !.tc = r, !.phys = <<>>, !.held = <<>>]
    BY DEF EnterRecovery
  <1> HIDE DEF r, d, p
  <1>7. Accounted(r, x)
    <2>1. o.retained = Journaled(o) + QueueBytes(o.queued) + o.reserved + x
      BY DEF Accounted, GoodOwner
    <2>2. QueueBytes(<<>>) = 0
      BY DEF QueueBytes
    <2>3. Journaled(r) = Journaled(o)
      BY <1>5 DEF Journaled
    <2> HIDE DEF o
    <2> QED BY <1>1, <1>5, <2>1, <2>2, <2>3, AccountTerms DEF Accounted
  <1>8. MarksOrdered(r) /\ OwnerShape(r)
    BY <1>5 DEF MarksOrdered, OwnerShape, GoodOwner
  <1>9. GoodOwner(r, x)
    BY <1>5, <1>7, <1>8 DEF GoodOwner
  <1> DEFINE t == [s EXCEPT !.tc = r, !.phys = <<>>, !.held = <<>>]
  <1>10. t.tc = r /\ t.phys = <<>> /\ t.held = <<>> /\ t.durable = s.durable
    BY DEF StateType
  <1>11. t \in StateType
    <2>1. <<>> \in Seq(Answer) /\ <<>> \in Seq(Ops)
      OBVIOUS
    <2> QED BY <1>5, <2>1 DEF StateType
  <1> HIDE DEF t
  <1> QED BY <1>5, <1>6, <1>9, <1>10, <1>11 DEF t

\* After handleFailure the owner is gone or waits in recovery.
LEMMA HandleFailureGood ==
    ASSUME NEW s \in StateType, NEW x \in Nat, GoodOwner(s.tc, x), s.tc.mode = "rw"
    PROVE  LET r == HandleFailure(s)
           IN  /\ r \in StateType /\ GoodOwner(r.tc, x)
               /\ r.phys = <<>> /\ r.held = <<>> /\ r.durable = s.durable
               /\ r.tc.reserved = 0 /\ r.tc.inFlight = 0
               /\ r.tc = NoOwner \/ (r.tc.mode = "rw" /\ r.tc.recovering /\ ~r.tc.live)
PROOF
  <1>1. CASE s.tc.marks # <<>> /\ ~s.tc.recovering
    BY <1>1, EnterRecoveryGood DEF HandleFailure
  <1>2. CASE ~ (s.tc.marks # <<>> /\ ~s.tc.recovering)
    <2>1. HandleFailure(s) = End(s)
      BY <1>2 DEF HandleFailure
    <2>2. NoOwner.reserved = 0 /\ NoOwner.inFlight = 0
      BY DEF NoOwner
    <2> QED BY <2>1, <2>2, EndGood
  <1> QED BY <1>1, <1>2

\* reconstruct gives an owner at work on a fresh attempt, with the same
\* journal.
LEMMA ReconstructGood ==
    ASSUME NEW s \in StateType, NEW x \in Nat, Working(s.tc, x), s.tc.aborts < MaxRetries
    PROVE  LET r == Reconstruct(s)
           IN  /\ r \in StateType /\ Working(r.tc, x)
               /\ r.phys = <<>> /\ r.held = s.held /\ r.durable = s.durable
               /\ r.tc.retained = s.tc.retained /\ r.tc.queued = s.tc.queued
               /\ r.tc.retry = s.tc.retry /\ r.tc.autoDML = s.tc.autoDML
               /\ r.tc.entries = s.tc.entries /\ r.tc.marks = s.tc.marks
               /\ r.tc.nextID = s.tc.nextID
PROOF
  <1> DEFINE o == s.tc
             p == ReleasePending(o)
             r == [p EXCEPT !.live = TRUE, !.attempt = @ + 1, !.aborts = @ + 1]
  <1>1. o \in OwnerType /\ o.reserved = 0 /\ o.retained \in Nat
    BY AccountTerms DEF StateType, Working
  <1>2. p \in OwnerType /\ Working(p, x)
    <2>1. Working(p, x)
      BY ReleasePendingWorks DEF Working
    <2> QED BY <2>1 DEF Working, GoodOwner
  <1>3. /\ p.retained = o.retained /\ p.queued = o.queued /\ p.retry = o.retry
        /\ p.autoDML = o.autoDML /\ p.entries = o.entries /\ p.marks = o.marks
        /\ p.nextID = o.nextID /\ p.aborts = o.aborts
    BY <1>1 DEF ReleasePending, OwnerType
  <1>4. p.aborts + 1 \in 0..MaxRetries /\ p.attempt + 1 \in Nat
    <2>1. p.aborts \in 0..MaxRetries /\ p.attempt \in Nat /\ p.aborts < MaxRetries
      BY <1>2, <1>3 DEF OwnerType
    <2> QED BY <2>1, BoundAssumption
  <1>5. Reconstruct(s) = [s EXCEPT !.tc = r, !.phys = <<>>]
    BY DEF Reconstruct
  <1> HIDE DEF p, o
  <1>6. r \in OwnerType
    BY <1>2, <1>4 DEF OwnerType
  <1>7. /\ r.retained = p.retained /\ r.queued = p.queued /\ r.retry = p.retry
        /\ r.autoDML = p.autoDML /\ r.entries = p.entries /\ r.marks = p.marks
        /\ r.nextID = p.nextID /\ r.mode = p.mode /\ r.recovering = p.recovering
        /\ r.reserved = p.reserved /\ r.inFlight = p.inFlight
    BY <1>2 DEF OwnerType
  <1> HIDE DEF r
  <1>8. Working(r, x)
    <2>1. Accounted(r, x) /\ MarksOrdered(r)
      BY <1>2, <1>7 DEF Accounted, Journaled, MarksOrdered, Working, GoodOwner
    <2>2. OwnerShape(r)
      BY <1>2, <1>7 DEF OwnerShape, Working, GoodOwner
    <2> QED BY <1>2, <1>6, <1>7, <2>1, <2>2 DEF Working, GoodOwner
  <1> DEFINE t == [s EXCEPT !.tc = r, !.phys = <<>>]
  <1>9. t.tc = r /\ t.phys = <<>> /\ t.held = s.held /\ t.durable = s.durable
    BY DEF StateType
  <1>10. t \in StateType
    <2>1. <<>> \in Seq(Answer)
      OBVIOUS
    <2> QED BY <1>6, <2>1 DEF StateType
  <1> HIDE DEF t
  <1> QED BY <1>3, <1>5, <1>7, <1>8, <1>9, <1>10 DEF t, o

\* No query is in flight.
Quiet(o) == o.reserved = 0 /\ o.inFlight = 0

\* A flush that waits for its retry remembers what it took.
Remembers(s) ==
    s.held # <<>> => s.tc.queued = <<>> /\ s.tc.retained + QueueBytes(s.held) <= JournalLimit

ResultType == [s: StateType, r: {"ok", "wait", "failed", "exhausted"}]

\* After any failure the accounts are exact; only a retried one still works.
LEMMA FailedGood ==
    ASSUME NEW s \in StateType, NEW x \in Nat, Working(s.tc, x), NEW f, Failed(s, f)
    PROVE  /\ f \in ResultType /\ GoodOwner(f.s.tc, x) /\ Quiet(f.s.tc)
           /\ f.r # "ok"
           /\ f.s.tc.mode \in {"none", "rw"}
           /\ f.r = "wait" => /\ Working(f.s.tc, x) /\ f.s.tc.retry
                              /\ f.s.held = s.held
                              /\ f.s.tc.retained = s.tc.retained /\ f.s.tc.queued = s.tc.queued
PROOF
  <1>1. CASE f \in {[s |-> HandleFailure(s), r |-> "failed"], [s |-> HandleFailure(s), r |-> "exhausted"]}
    <2>1. GoodOwner(s.tc, x) /\ s.tc.mode = "rw"
      BY DEF Working
    <2> QED BY <1>1, <2>1, HandleFailureGood, NoOwnerGood DEF Quiet, ResultType
  <1>2. CASE f = [s |-> End(s), r |-> "failed"]
    <2>1. Quiet(NoOwner)
      BY DEF Quiet, NoOwner
    <2> QED BY <1>2, <2>1, EndGood, NoOwnerGood DEF ResultType
  <1>3. CASE f = [s |-> Reconstruct(s), r |-> "wait"] /\ s.tc.retry /\ s.tc.aborts < MaxRetries
    BY <1>3, ReconstructGood DEF Quiet, Working, ResultType
  <1> QED BY <1>1, <1>2, <1>3 DEF Failed

\* A journaled answer turns the bytes reserved for it into retained bytes.
LEMMA ExecutedGood ==
    ASSUME NEW s \in StateType, NEW x \in Nat, NEW o, NEW os \in Seq(Ops), NEW qs \in Seq(Ops),
           NEW v \in Observations, Working(o, x + Bytes(os))
    PROVE  LET r == Executed(s, o, os, qs, v)
           IN  r \in StateType /\ Working(r.tc, x) /\ Quiet(r.tc) /\ r.held = s.held
PROOF
  <1> DEFINE r == [s EXCEPT !.tc = Journal(o, os, v), !.phys = Append(@, [ops |-> qs, obs |-> v])]
  <1>1. Working(Journal(o, os, v), x)
    BY JournalWorks
  <1>2. Append(s.phys, [ops |-> qs, obs |-> v]) \in Seq(Answer)
    BY DEF StateType, Answer
  <1>3. Journal(o, os, v) \in OwnerType
    BY <1>1 DEF Working, GoodOwner
  <1>4. r \in StateType
    BY <1>2, <1>3 DEF StateType
  <1>5. r.tc = Journal(o, os, v) /\ r.held = s.held
    BY DEF StateType
  <1> HIDE DEF r
  <1>6. r \in StateType /\ Working(r.tc, x) /\ Quiet(r.tc) /\ r.held = s.held
    BY <1>1, <1>4, <1>5 DEF Working, Quiet
  <1> QED BY <1>6 DEF r, Executed

\* Every outcome of a DML statement keeps the accounts.
LEMMA ExecGood ==
    ASSUME NEW s \in StateType, NEW os \in Seq(Ops), Working(s.tc, 0), s.held = <<>>,
           NEW f \in ExecOutcomes(s, os)
    PROVE  /\ f \in ResultType /\ GoodOwner(f.s.tc, 0) /\ Quiet(f.s.tc)
           /\ f.r = "ok" => Working(f.s.tc, 0)
           /\ f.r = "wait" => Working(f.s.tc, 0) /\ f.s.tc.retry /\ f.s.held = <<>>
PROOF
  <1>1. s.tc.aborts \in Nat /\ GoodOwner(s.tc, 0) /\ Quiet(s.tc) /\ Bytes(os) \in Nat
    BY BoundAssumption, QueueBytesNat DEF StateType, OwnerType, Working, Quiet
  <1>2. CASE f = [s |-> s, r |-> "failed"]
    BY <1>1, <1>2 DEF ResultType
  <1>3. CASE Failed(s, f)
    BY <1>3, FailedGood
  <1>4. ASSUME NEW v \in Observations, Room(s.tc, Bytes(os)),
               f = [s |-> Executed(s, Reserve(s.tc, Bytes(os)), os, os, v), r |-> "ok"]
        PROVE  f \in ResultType /\ Working(f.s.tc, 0) /\ Quiet(f.s.tc) /\ f.r = "ok"
    <2>1. Working(Reserve(s.tc, Bytes(os)), 0 + Bytes(os))
      BY <1>1, <1>4, ReserveWorks
    <2> QED BY <1>4, <2>1, ExecutedGood DEF ResultType
  <1>5. CASE \E v \in Observations :
                /\ Room(s.tc, Bytes(os))
                /\ f = [s |-> Executed(s, Reserve(s.tc, Bytes(os)), os, os, v), r |-> "ok"]
    BY <1>4, <1>5 DEF Working
  <1> QED BY <1>1, <1>2, <1>3, <1>5, ExecCases

\* What a flush leaves to the section p of an owner of mode m, with x bytes
\* reserved for a marker
FlushResult(f, x, m) ==
    /\ f \in ResultType /\ GoodOwner(f.s.tc, x) /\ Quiet(f.s.tc)
    /\ f.r = "ok" => f.s.tc.mode = m /\ ~f.s.tc.recovering /\ f.s.held = <<>>
    /\ f.r \in {"failed", "exhausted"} => f.s.tc.mode \in {"none", "rw"}
    /\ f.r = "wait" => /\ Working(f.s.tc, x) /\ f.s.tc.retry
                       /\ f.s.held # <<>> /\ Remembers(f.s)

\* Every outcome of a flush keeps the accounts, with the marker's reservation
\* still there.
LEMMA FlushGood ==
    ASSUME NEW s \in StateType, NEW x \in Nat, GoodOwner(s.tc, x), ~s.tc.recovering, Quiet(s.tc),
           s.held = <<>>, NEW f \in FlushOutcomes(s)
    PROVE  FlushResult(f, x, s.tc.mode)
PROOF
  <1> DEFINE q == s.tc.autoDML
  <1>1. CASE q = <<>> /\ f = [s |-> s, r |-> "ok"]
    BY <1>1 DEF FlushResult, ResultType
  <1>2. CASE q # <<>>
    <2>1. s.tc \in OwnerType /\ s.tc.mode = "rw" /\ Working(s.tc, x)
      BY <1>2 DEF StateType, OwnerShape, GoodOwner, Working, Quiet
    <2> DEFINE n == QueueBytes(s.tc.queued)
    <2>2. /\ Working(Taken(s).tc, x + n)
          /\ n \in Nat /\ s.tc.queued = q /\ q \in Seq(Ops) /\ n = Bytes(s.tc.queued)
      BY <1>2, <2>1, TakeWorks, TakenFields, QueueBytesNat
    <2>3. Taken(s) \in StateType
      BY <2>2, TakenFields DEF Taken, StateType, Working, GoodOwner
    <2>4. CASE Failed(Released(s), f)
      <3>1. Working(Released(s).tc, x)
        <4> DEFINE t == Taken(s).tc
        <4>1. GoodOwner(t, x + n) /\ t.mode # "none"
          BY <2>2 DEF Working
        <4>2. Working([t EXCEPT !.retained = @ - n], x)
          <5> HIDE DEF t, n
          <5> QED BY <2>2, <4>1, GiveBackWorks DEF t
        <4> QED BY <4>2, TakenFields
      <3>2. Released(s) \in StateType
        BY <2>2, <2>3, <3>1 DEF Released, Taken, StateType, Working, GoodOwner
      <3>3. Released(s).held = q /\ Released(s).tc.queued = <<>>
        <4>1. Taken(s).tc.queued = <<>> /\ Taken(s).tc \in OwnerType
          BY <2>1, <2>3, TakenFields DEF StateType, OwnerType
        <4> QED BY <4>1, TakenFields DEF OwnerType
      <3>4. Released(s).tc.retained + QueueBytes(q) <= JournalLimit
        <4>1. Taken(s).tc.retained = s.tc.retained /\ s.tc.retained \in 0..JournalLimit
              /\ Taken(s).tc \in OwnerType
          BY <2>1, <2>3, TakenFields DEF StateType, OwnerType
        <4>2. Released(s).tc.retained = s.tc.retained - n
          <5>1. Released(s).tc = [Taken(s).tc EXCEPT !.retained = @ - n]
            BY TakenFields
          <5> QED BY <4>1, <5>1 DEF OwnerType
        <4> HIDE DEF n
        <4> QED BY <2>2, <4>1, <4>2, BoundAssumption DEF n
      <3> QED BY <1>2, <2>4, <3>1, <3>2, <3>3, <3>4, FailedGood DEF Remembers, FlushResult
    <2>5. ASSUME NEW v \in Observations,
                 f = [s |-> Executed(Taken(s), Taken(s).tc, s.tc.queued, q, v), r |-> "ok"]
          PROVE  f \in ResultType /\ Working(f.s.tc, x) /\ Quiet(f.s.tc) /\ f.r = "ok" /\ f.s.held = <<>>
      <3> DEFINE r == Executed(Taken(s), Taken(s).tc, s.tc.queued, q, v)
      <3>1. Working(Taken(s).tc, x + Bytes(s.tc.queued)) /\ s.tc.queued \in Seq(Ops)
        BY <2>2
      <3>2. Taken(s).held = <<>>
        BY TakenFields
      <3>3. r \in StateType /\ Working(r.tc, x) /\ Quiet(r.tc) /\ r.held = Taken(s).held
        BY <2>2, <2>3, <3>1, ExecutedGood
      <3> HIDE DEF r
      <3> QED BY <2>5, <3>2, <3>3 DEF ResultType, r
    <2>6. CASE f \in ResultType /\ Working(f.s.tc, x) /\ Quiet(f.s.tc) /\ f.r = "ok" /\ f.s.held = <<>>
      BY <2>1, <2>6 DEF FlushResult, Working
    <2> QED BY <1>2, <2>4, <2>5, <2>6, FlushCases
  <1> QED BY <1>1, <1>2, FlushCases

\* CreateSavepoint adds its marker on its reservation.
LEMMA MarkGood ==
    ASSUME NEW o, NEW x \in Nat, NEW n \in Names, GoodOwner(o, x + MarkerBytes),
           o.mode # "none", ~o.recovering
    PROVE  LET r == [o EXCEPT !.marks = Append(@, [name |-> n, pos |-> Len(o.entries)])]
           IN  GoodOwner(r, x) /\ (Quiet(o) => Quiet(r))
PROOF
  <1> DEFINE m == [name |-> n, pos |-> Len(o.entries)]
             r == [o EXCEPT !.marks = Append(@, m)]
  <1>1. o \in OwnerType /\ o.marks \in Seq(Marker) /\ Len(o.entries) \in Nat
    BY AccountTerms DEF GoodOwner
  <1>2. m \in Marker /\ m.pos = Len(o.entries)
    BY <1>1 DEF Marker
  <1> HIDE DEF m
  <1>3. Append(o.marks, m) \in Seq(Marker)
    BY <1>1, <1>2
  <1>4. r \in OwnerType
    BY <1>1, <1>3 DEF OwnerType
  <1>5. /\ r.retained = o.retained
        /\ r.entries = o.entries /\ r.marks = Append(o.marks, m) /\ r.queued = o.queued
        /\ r.autoDML = o.autoDML /\ r.reserved = o.reserved /\ r.mode = o.mode
        /\ r.recovering = o.recovering /\ r.inFlight = o.inFlight /\ r.live = o.live
    BY <1>1 DEF OwnerType
  <1>6. Len(r.marks) = Len(o.marks) + 1 /\ Len(o.marks) \in Nat
    BY <1>1, <1>2, <1>5
  <1> HIDE DEF r
  <1>7. Accounted(r, x)
    <2> DEFINE b == BytesFrom(o.entries, 1)
               j == Journaled(o)
               q == QueueBytes(o.queued)
               l == Len(o.marks)
               d == o.reserved
    <2>1. b \in Nat /\ j \in Nat /\ q \in Nat /\ d \in Nat /\ l \in Nat
      BY <1>1, <1>6, AccountTerms, BytesFromEquation
    <2>2. o.retained = j + q + d + (x + 1)
      BY DEF Accounted, GoodOwner, MarkerBytes
    <2>3. j = b + l /\ Journaled(r) = b + (l + 1)
      <3>1. j = b + 1 * l /\ Journaled(r) = b + 1 * (l + 1)
        BY <1>5, <1>6 DEF Journaled, MarkerBytes
      <3> HIDE DEF b, j, l
      <3> QED BY <2>1, <3>1
    <2>4. o.retained = (b + (l + 1)) + q + d + x
      <3> HIDE DEF b, j, q, l, d
      <3> QED BY <2>1, <2>2, <2>3
    <2> QED BY <1>5, <2>3, <2>4 DEF Accounted
  <1>8. MarksOrdered(r)
    <2>1. \A i \in DOMAIN o.marks : o.marks[i].pos \in Nat
      BY <1>1, MarkerFields
    <2>2. /\ DOMAIN r.marks = 1..(Len(o.marks) + 1) /\ DOMAIN o.marks = 1..Len(o.marks)
          /\ r.marks[Len(o.marks) + 1].pos = Len(o.entries)
          /\ \A i \in 1..Len(o.marks) : r.marks[i].pos = o.marks[i].pos
      BY <1>1, <1>2, <1>3, <1>5
    <2> QED BY <1>1, <1>5, <1>6, <2>1, <2>2 DEF MarksOrdered, GoodOwner
  <1>9. OwnerShape(r)
    BY <1>5 DEF OwnerShape, GoodOwner
  <1>10. GoodOwner(r, x) /\ (Quiet(o) => Quiet(r))
    BY <1>4, <1>5, <1>7, <1>8, <1>9 DEF GoodOwner, Quiet
  <1> QED BY <1>10 DEF r, m

\* The bytes reserved for the marker a section is about to set
MarkerFor(p) == IF p = "savepoint" THEN MarkerBytes ELSE 0

\* What a section leaves to the statement
SectionResult(p, f) ==
    /\ f \in ResultType /\ Quiet(f.s.tc)
    /\ f.r # "wait" => GoodOwner(f.s.tc, 0)
    /\ f.r = "ok" /\ p \in {"flush", "exec", "query"} =>
          f.s.tc.mode = "rw" /\ ~f.s.tc.recovering
    /\ f.r = "wait" => /\ Working(f.s.tc, MarkerFor(p)) /\ f.s.tc.retry /\ Remembers(f.s)
                       /\ p = "savepoint" => f.s.held # <<>>
                       /\ p \in {"exec", "query"} => f.s.held = <<>>

\* Every outcome of a commit keeps the accounts.
LEMMA CommitGood ==
    ASSUME NEW s \in StateType, Working(s.tc, 0), s.held = <<>>, NEW f \in CommitOutcomes(s)
    PROVE  SectionResult("commit", f)
PROOF
  <1>1. s.tc.aborts \in Nat
    BY BoundAssumption DEF StateType, OwnerType
  <1>2. Quiet(NoOwner)
    BY DEF Quiet, NoOwner
  <1>3. CASE f = [s |-> End(s), r |-> "failed"]
    BY <1>2, <1>3, EndGood DEF SectionResult, ResultType
  <1>4. CASE f \in {[s |-> Committed(s), r |-> "ok"], [s |-> Committed(s), r |-> "failed"]}
    <2>1. Batches(s.phys) \in Seq(Seq(Ops))
      <3>1. s.phys \in Seq(Answer)
        BY DEF StateType
      <3>2. \A i \in 1..Len(s.phys) : s.phys[i].ops \in Seq(Ops)
        <4>1. \A i \in 1..Len(s.phys) : s.phys[i] \in Answer
          BY <3>1
        <4> QED BY <4>1 DEF Answer
      <3> QED BY <3>1, <3>2 DEF Batches
    <2>2. Committed(s) \in StateType /\ Committed(s).tc = NoOwner
      <3>1. End(s) \in StateType /\ End(s).tc = NoOwner
        BY EndGood
      <3> QED BY <2>1, <3>1 DEF Committed, StateType
    <2> QED BY <1>2, <1>4, <2>2, NoOwnerGood DEF SectionResult, ResultType
  <1>5. CASE Failed(s, f)
    BY <1>5, FailedGood DEF SectionResult, Remembers, MarkerFor
  <1> QED BY <1>1, <1>3, <1>4, <1>5, CommitCases

\* What follows the flush (nothing, the marker, the commit) keeps the
\* accounts.
LEMMA SettleGood ==
    ASSUME NEW p \in {"flush", "savepoint", "commit"}, NEW n, p = "savepoint" => n \in Names,
           NEW m \in {"pending", "rw", "ro"}, p # "savepoint" => m = "rw",
           NEW f, FlushResult(f, MarkerFor(p), m), NEW g \in Settle(p, n, f)
    PROVE  SectionResult(p, g)
PROOF
  <1> DEFINE o == f.s.tc
  <1>1. CASE p = "savepoint" /\ f.r = "ok"
    <2> DEFINE mo == [o EXCEPT !.marks = Append(@, [name |-> n, pos |-> Len(o.entries)])]
               h == [f EXCEPT !.s.tc.marks = Append(@, [name |-> n, pos |-> Len(f.s.tc.entries)])]
    <2>1. g = h
      BY <1>1 DEF Settle
    <2>2. /\ GoodOwner(o, 0 + MarkerBytes) /\ o.mode # "none" /\ ~o.recovering /\ Quiet(o)
          /\ f.s \in StateType
      BY <1>1 DEF FlushResult, MarkerFor, MarkerBytes, ResultType
    <2>3. GoodOwner(mo, 0) /\ Quiet(mo)
      <3> HIDE DEF o
      <3> QED BY <1>1, <2>2, MarkGood
    <2>4. h \in ResultType /\ h.s.tc = mo /\ h.r = "ok"
      <3>1. mo \in OwnerType
        BY <2>3 DEF GoodOwner
      <3>2. h = [f EXCEPT !.s = [f.s EXCEPT !.tc = mo]] /\ f \in ResultType
        BY DEF FlushResult, ResultType, StateType, OwnerType
      <3> HIDE DEF h, mo
      <3> QED BY <1>1, <3>1, <3>2 DEF ResultType, StateType
    <2> HIDE DEF h, mo
    <2> QED BY <1>1, <2>1, <2>3, <2>4 DEF SectionResult
  <1>2. CASE p = "savepoint" /\ f.r \in {"failed", "exhausted"} /\ f.s.tc.mode # "none"
    <2> DEFINE mo == [o EXCEPT !.retained = @ - MarkerBytes]
               h == [f EXCEPT !.s.tc.retained = @ - MarkerBytes]
    <2>1. g = h
      BY <1>2 DEF Settle
    <2>2. GoodOwner(o, 0 + MarkerBytes) /\ o.mode # "none" /\ Quiet(o) /\ MarkerBytes \in Nat
      BY <1>2 DEF FlushResult, MarkerFor, MarkerBytes
    <2>3. GoodOwner(mo, 0)
      <3> HIDE DEF o
      <3> QED BY <2>2, GiveBackWorks
    <2>4. h \in ResultType /\ h.s.tc = mo /\ h.r = f.r /\ Quiet(mo)
      <3>1. mo \in OwnerType /\ Quiet(mo)
        BY <2>2, <2>3 DEF GoodOwner, Quiet, OwnerType
      <3>2. h = [f EXCEPT !.s = [f.s EXCEPT !.tc = mo]] /\ f \in ResultType
        BY DEF FlushResult, ResultType, StateType, OwnerType
      <3> HIDE DEF h, mo
      <3> QED BY <3>1, <3>2 DEF ResultType, StateType
    <2> HIDE DEF h, mo
    <2> QED BY <1>2, <2>1, <2>3, <2>4 DEF SectionResult
  <1>3. CASE p = "savepoint" /\ f.r \in {"failed", "exhausted"} /\ f.s.tc.mode = "none"
    <2>1. g = f
      BY <1>3 DEF Settle
    <2>2. GoodOwner(f.s.tc, 0)
      BY <1>3, NoOwnerGood DEF FlushResult, GoodOwner, OwnerShape
    <2> QED BY <1>3, <2>1, <2>2 DEF FlushResult, SectionResult
  <1>4. CASE p = "savepoint" /\ f.r = "wait"
    <2>1. g = f
      BY <1>4 DEF Settle
    <2> QED BY <1>4, <2>1 DEF FlushResult, SectionResult
  <1>5. CASE p = "commit" /\ f.r = "ok"
    <2>1. g \in CommitOutcomes(f.s)
      BY <1>5 DEF Settle
    <2>2. Working(f.s.tc, 0) /\ f.s \in StateType /\ f.s.held = <<>>
      BY <1>5 DEF FlushResult, MarkerFor, Working, Quiet, ResultType
    <2> QED BY <1>5, <2>1, <2>2, CommitGood
  <1>6. CASE p = "commit" /\ f.r = "exhausted" /\ f.s.tc.mode # "none"
    <2>1. g = [s |-> HandleFailure(f.s), r |-> "exhausted"]
      BY <1>6 DEF Settle, Outcome
    <2>2. GoodOwner(f.s.tc, 0) /\ f.s \in StateType /\ f.s.tc.mode = "rw"
      BY <1>6 DEF FlushResult, MarkerFor, ResultType
    <2> QED BY <1>6, <2>1, <2>2, HandleFailureGood DEF SectionResult, ResultType, Quiet
  <1>7. CASE p = "flush" \/ (p = "commit" /\ f.r # "ok" /\ ~(f.r = "exhausted" /\ f.s.tc.mode # "none"))
    <2>1. g = f
      BY <1>7 DEF Settle
    <2> QED BY <1>7, <2>1 DEF FlushResult, SectionResult, MarkerFor
  <1>8. f.r \in {"ok", "wait", "failed", "exhausted"}
    BY DEF FlushResult, ResultType
  <1> QED BY <1>1, <1>2, <1>3, <1>4, <1>5, <1>6, <1>7, <1>8

\* The pcs of the sections under the journal's lock
SectionPCs == {"flush", "exec", "query", "savepoint", "commit"}

\* Every outcome of a section of the journal's lock keeps the accounts.
LEMMA OutcomesGood ==
    ASSUME NEW p \in SectionPCs, NEW s \in StateType, GoodOwner(s.tc, MarkerFor(p)),
           s.tc.mode # "none", p # "savepoint" => s.tc.mode = "rw",
           ~s.tc.recovering, Quiet(s.tc), s.held = <<>>,
           p = "exec" => st.op \in Ops, p = "savepoint" => st.name \in Names,
           NEW f \in Outcomes(p, s)
    PROVE  SectionResult(p, f)
PROOF
  <1>1. CASE p = "exec"
    <2>1. f \in ExecOutcomes(s, <<st.op>>) /\ <<st.op>> \in Seq(Ops)
      BY <1>1 DEF Outcomes
    <2>2. Working(s.tc, 0)
      BY <1>1 DEF Working, Quiet, MarkerFor
    <2>3. f.r = "wait" => Remembers(f.s)
      BY <2>1, <2>2, ExecGood DEF Remembers
    <2> QED BY <1>1, <2>1, <2>2, <2>3, ExecGood DEF SectionResult, MarkerFor, Working
  <1>2. CASE p = "query"
    <2>1. f = [s |-> s, r |-> "ok"]
      BY <1>2 DEF Outcomes, Outcome
    <2> QED BY <1>2, <2>1 DEF SectionResult, MarkerFor, ResultType
  <1>3. CASE p \in {"flush", "savepoint", "commit"}
    <2>1. PICK g \in FlushOutcomes(s) : f \in Settle(p, st.name, g)
      BY <1>3 DEF Outcomes
    <2>2. MarkerFor(p) \in Nat
      BY DEF MarkerFor, MarkerBytes
    <2>3. FlushResult(g, MarkerFor(p), s.tc.mode)
      BY <2>2, FlushGood
    <2>4. s.tc.mode \in {"pending", "rw", "ro"}
      BY DEF StateType, OwnerType
    <2> QED BY <1>3, <2>1, <2>3, <2>4, SettleGood
  <1> QED BY <1>1, <1>2, <1>3 DEF SectionPCs

\* Writing a section's outcome back keeps AccountInv, whichever way the
\* statement goes on.
LEMMA FinishGood ==
    ASSUME TypeOK, NEW p \in SectionPCs, NEW f, SectionResult(p, f), Finish(p, f),
           st.kind \in StatementKinds => st.op \in Ops,
           p \in {"exec", "query"} => st.kind \in StatementKinds,
           p = "savepoint" => st.kind = "savepoint" /\ st.name \in Names
    PROVE  AccountInv'
PROOF
  <1> DEFINE o == f.s.tc
  <1>1. /\ f.s \in StateType /\ o \in OwnerType /\ Quiet(o)
        /\ tc' = o /\ phys' = f.s.phys /\ durable' = f.s.durable
        /\ st' = st /\ ops' \in 0..MaxOps
        /\ o.attempt \in Nat /\ o.nextID \in Nat
    <2>1. f.s \in StateType /\ o \in OwnerType /\ Quiet(o)
      BY DEF SectionResult, ResultType, StateType
    <2>2. tc' = o /\ phys' = f.s.phys /\ durable' = f.s.durable /\ st' = st
      BY DEF Finish
    <2>3. ops' \in 0..MaxOps
      BY BoundAssumption DEF Finish, TypeOK
    <2>4. o.attempt \in Nat /\ o.nextID \in Nat
      BY <2>1 DEF OwnerType
    <2> QED BY <2>1, <2>2, <2>3, <2>4
  <1>2. lost' \in Nat
    BY MarkerFields DEF Finish, TypeOK, OwnerType
  <1>3. tok' \in [attempt: Nat, id: Nat, plan: BOOLEAN]
    BY <1>1 DEF Finish, LatestTok, NoTok
  <1>4. held' \in Seq(Ops)
    BY <1>1 DEF Finish, StateType
  <1>5. CASE f.r = "ok"
    <2>1. /\ pc' = After(p) /\ back' = "prompt" /\ held' = <<>>
          /\ GoodOwner(o, 0)
      BY <1>5 DEF Finish, SectionResult
    <2>2. /\ After(p) \in {"exec", "query", "commit", "leave"}
          /\ After(p) # "leave" => p \in {"flush", "query"}
          /\ After(p) \in {"exec", "query"} => st.kind \in StatementKinds
      BY DEF After, StatementKinds
    <2>3. After(p) # "leave" => o.mode = "rw" /\ ~o.recovering
      BY <1>5, <2>2 DEF SectionResult
    <2>4. TypeOK'
      BY <1>1, <1>2, <1>3, <1>4, <2>1, <2>2 DEF TypeOK, PCs, StateType
    <2>5. SectionInv'
      BY <1>1, <2>1, <2>2, <2>3
         DEF SectionInv, InSavepoint, InTxn, ReadWritePCs, Quiet
    <2>6. StatementInv'
      BY <1>1, <2>1, <2>2 DEF StatementInv, InSavepoint, StatementPCs
    <2>7. BackoffInv'
      BY <1>1, <2>1, <2>2 DEF BackoffInv
    <2>8. ResultInv'
      <3>1. CASE Displayed(p)
        <4>1. pc' = "leave" /\ o.mode = "rw" /\ ~o.recovering
          BY <1>5, <2>1, <3>1 DEF Displayed, After, SectionResult, Finish
        <4> QED BY <1>1, <4>1 DEF ResultInv
      <3>2. CASE ~Displayed(p)
        <4>1. tok' = NoTok /\ pc' # "display"
          BY <1>5, <2>1, <2>2, <3>2 DEF Finish
        <4> QED BY <4>1 DEF ResultInv
      <3> QED BY <3>1, <3>2
    <2> QED BY <2>4, <2>5, <2>6, <2>7, <2>8 DEF AccountInv
  <1>6. CASE f.r = "wait"
    <2>1. /\ pc' = "backoff" /\ back' = p /\ held' = f.s.held
          /\ Working(o, MarkerFor(p)) /\ o.retry /\ Remembers(f.s)
          /\ p = "savepoint" => f.s.held # <<>>
          /\ p \in {"exec", "query"} => f.s.held = <<>>
      BY <1>6 DEF Finish, SectionResult
    <2>2. TypeOK'
      BY <1>1, <1>2, <1>3, <1>4, <2>1 DEF TypeOK, PCs, StateType, SectionPCs
    <2>3. SectionInv'
      BY <1>1, <2>1
         DEF SectionInv, InSavepoint, InTxn, ReadWritePCs, Quiet, Working, MarkerFor
    <2>4. StatementInv'
      BY <1>1, <2>1 DEF StatementInv, InSavepoint, StatementPCs
    <2>5. BackoffInv'
      BY <1>1, <2>1 DEF BackoffInv, Remembers, SectionPCs
    <2>6. ResultInv'
      BY <1>6, <2>1 DEF ResultInv, Finish
    <2> QED BY <2>2, <2>3, <2>4, <2>5, <2>6 DEF AccountInv
  <1>7. CASE f.r \in {"failed", "exhausted"}
    <2>1. pc' = "leave" /\ back' = "prompt" /\ held' = <<>> /\ GoodOwner(o, 0)
      BY <1>7 DEF Finish, SectionResult
    <2>2. TypeOK'
      BY <1>1, <1>2, <1>3, <1>4, <2>1 DEF TypeOK, PCs, StateType
    <2>3. SectionInv'
      BY <1>1, <2>1 DEF SectionInv, InSavepoint, InTxn, ReadWritePCs, Quiet
    <2>4. StatementInv'
      BY <1>1, <2>1 DEF StatementInv, InSavepoint, StatementPCs
    <2>5. BackoffInv'
      BY <1>1, <2>1 DEF BackoffInv
    <2>6. ResultInv'
      BY <1>7, <2>1 DEF ResultInv, Finish
    <2> QED BY <2>2, <2>3, <2>4, <2>5, <2>6 DEF AccountInv
  <1> QED BY <1>5, <1>6, <1>7 DEF SectionResult, ResultType

\* A section that works on the owner as it is.
LEMMA BecomeGood ==
    ASSUME TypeOK, NEW s, s.tc \in OwnerType, s.phys \in Seq(Answer), s.held \in Seq(Ops),
           s.durable \in Seq(Seq(Ops)), Become(s)
    PROVE  /\ tc' = s.tc /\ phys' = s.phys /\ held' = s.held /\ durable' = s.durable
           /\ tc' \in OwnerType /\ phys' \in Seq(Answer) /\ held' \in Seq(Ops)
           /\ durable' \in Seq(Seq(Ops)) /\ ops' \in 0..MaxOps /\ lost' \in Nat
PROOF
  BY BoundAssumption DEF Become, TypeOK

\* The session starts without an owner, so with exact accounts.
LEMMA InitAccount == Init => AccountInv
PROOF
  <1> SUFFICES ASSUME Init PROVE AccountInv
    OBVIOUS
  <1>1. TypeOK
    <2>1. /\ <<>> \in Seq(Answer) /\ <<>> \in Seq(Ops) /\ <<>> \in Seq(Seq(Ops))
          /\ 0 \in 0..MaxOps
      BY BoundAssumption
    <2> QED BY <2>1, NoOwnerGood DEF Init, TypeOK, PCs, Kinds, NoStatement, NoTok
  <1>2. SectionInv
    <2>1. NoOwner.recovering = FALSE /\ NoOwner.reserved = 0 /\ NoOwner.inFlight = 0
      BY DEF NoOwner
    <2> QED BY <2>1, NoOwnerGood DEF Init, SectionInv, InTxn, InSavepoint, ReadWritePCs
  <1>3. StatementInv
    BY DEF Init, StatementInv, InSavepoint, NoStatement, StatementKinds, StatementPCs
  <1>4. BackoffInv
    BY DEF Init, BackoffInv
  <1>5. ResultInv
    BY DEF Init, ResultInv
  <1> QED BY <1>1, <1>2, <1>3, <1>4, <1>5 DEF AccountInv

\* r has the accounts of o.
SameAccounts(o, r) ==
    /\ r.retained = o.retained /\ r.entries = o.entries /\ r.marks = o.marks
    /\ r.queued = o.queued /\ r.autoDML = o.autoDML
    /\ r.reserved = o.reserved /\ r.inFlight = o.inFlight
    /\ r.mode = o.mode /\ r.recovering = o.recovering
    /\ r.recovering => r.live = o.live

\* Changes of fields outside the accounts leave the accounts exact.
LEMMA SameAccountsGood ==
    ASSUME NEW o, NEW x, GoodOwner(o, x), o.mode # "none", NEW r \in OwnerType, SameAccounts(o, r)
    PROVE  GoodOwner(r, x) /\ (Working(o, x) => Working(r, x)) /\ (Quiet(o) => Quiet(r))
PROOF
  <1>1. Accounted(r, x)
    BY DEF Accounted, Journaled, GoodOwner, SameAccounts
  <1>2. MarksOrdered(r)
    BY DEF MarksOrdered, GoodOwner, SameAccounts
  <1>3. OwnerShape(r)
    BY DEF OwnerShape, GoodOwner, SameAccounts
  <1> QED BY <1>1, <1>2, <1>3 DEF GoodOwner, Working, Quiet, SameAccounts

\* A reservation admitted by reserveJournalBytes stays in the accounts until
\* it is used.
LEMMA ReserveGood ==
    ASSUME NEW o, NEW x \in Nat, NEW n \in Nat, GoodOwner(o, x), Room(o, n), o.mode # "none"
    PROVE  /\ GoodOwner(Reserve(o, n), x + n)
           /\ Quiet(o) => Quiet(Reserve(o, n))
           /\ Reserve(o, n).mode = o.mode /\ Reserve(o, n).recovering = o.recovering
PROOF
  <1> DEFINE r == Reserve(o, n)
  <1>1. o \in OwnerType
    BY DEF GoodOwner
  <1>2. r \in OwnerType
    <2>1. o.retained + n \in 0..JournalLimit
      BY <1>1, AccountTerms, BoundAssumption DEF Room
    <2> QED BY <1>1, <2>1 DEF Reserve, OwnerType
  <1>3. /\ r.retained = o.retained + n
        /\ r.entries = o.entries /\ r.marks = o.marks /\ r.queued = o.queued
        /\ r.autoDML = o.autoDML /\ r.reserved = o.reserved /\ r.mode = o.mode
        /\ r.recovering = o.recovering /\ r.inFlight = o.inFlight /\ r.live = o.live
    BY <1>1 DEF Reserve, OwnerType
  <1> HIDE DEF r
  <1>4. Accounted(r, x + n)
    <2>1. Journaled(r) = Journaled(o)
      BY <1>3 DEF Journaled
    <2> QED BY <1>1, <1>3, <2>1, AccountTerms DEF Accounted, GoodOwner
  <1>5. MarksOrdered(r) /\ OwnerShape(r)
    BY <1>3 DEF MarksOrdered, OwnerShape, GoodOwner
  <1>6. GoodOwner(r, x + n) /\ (Quiet(o) => Quiet(r)) /\ r.mode = o.mode /\ r.recovering = o.recovering
    BY <1>2, <1>3, <1>4, <1>5 DEF GoodOwner, Quiet
  <1> QED BY <1>6 DEF r

\* The queue becomes q, with the bytes of q reserved.
LEMMA QueueGood ==
    ASSUME NEW o, NEW x \in Nat, GoodOwner(o, x), o.mode = "rw", NEW r, NEW q \in Seq(Ops),
           r = [o EXCEPT !.retained = o.retained - QueueBytes(o.queued) + QueueBytes(q),
                         !.queued = q, !.autoDML = q, !.recovering = FALSE],
           o.retained - QueueBytes(o.queued) + QueueBytes(q) <= JournalLimit
    PROVE  GoodOwner(r, x) /\ (Quiet(o) => Working(r, x))
PROOF
  <1> DEFINE n == QueueBytes(q)
             c == QueueBytes(o.queued)
             j == Journaled(o)
             d == o.reserved
  <1>1. /\ o \in OwnerType /\ o.retained \in Nat /\ n \in Nat /\ c \in Nat /\ j \in Nat /\ d \in Nat
        /\ o.retained = j + c + d + x
    BY AccountTerms, QueueBytesNat DEF Accounted, GoodOwner
  <1>2. o.retained - c + n \in 0..JournalLimit /\ o.retained - c + n = j + n + d + x
    <2>1. o.retained - c + n <= JournalLimit
      OBVIOUS
    <2> HIDE DEF n, c, j, d
    <2>2. o.retained - c + n = j + n + d + x
      BY <1>1
    <2>3. j + n + d + x \in Nat
      BY <1>1
    <2> QED BY <2>1, <2>2, <2>3, BoundAssumption
  <1>3. r \in OwnerType
    BY <1>1, <1>2 DEF OwnerType
  <1>4. /\ r.retained = j + n + d + x
        /\ r.entries = o.entries /\ r.marks = o.marks /\ r.queued = q
        /\ r.autoDML = q /\ r.reserved = o.reserved /\ r.mode = o.mode
        /\ r.recovering = FALSE /\ r.inFlight = o.inFlight
    BY <1>1, <1>2 DEF OwnerType
  <1>5. Accounted(r, x)
    <2>1. Journaled(r) = j
      BY <1>4 DEF Journaled
    <2> QED BY <1>4, <2>1 DEF Accounted
  <1>6. MarksOrdered(r) /\ OwnerShape(r)
    BY <1>4 DEF MarksOrdered, OwnerShape, GoodOwner
  <1> QED BY <1>3, <1>4, <1>5, <1>6 DEF GoodOwner, Working, Quiet

\* The journal is cut to its first p entries and k markers.
Cut(o, p, k) ==
    [o EXCEPT !.entries = SubSeq(@, 1, p), !.marks = SubSeq(@, 1, k),
              !.retained = @ - BytesFrom(o.entries, p + 1) - MarkerBytes * (Len(o.marks) - k)]

\* Truncating entries and markers together keeps the accounts, the order of
\* the markers and recovery's shape.
LEMMA CutGood ==
    ASSUME NEW o, NEW x \in Nat, GoodOwner(o, x), o.mode # "none",
           NEW p \in 0..Len(o.entries), NEW k \in 0..Len(o.marks),
           \A i \in 1..k : o.marks[i].pos <= p, o.recovering => k > 0
    PROVE  LET r == Cut(o, p, k)
           IN  /\ GoodOwner(r, x) /\ (Quiet(o) => Quiet(r))
               /\ r.entries = SubSeq(o.entries, 1, p) /\ r.marks = SubSeq(o.marks, 1, k)
               /\ r.mode = o.mode /\ r.recovering = o.recovering /\ r.queued = o.queued
               /\ r.autoDML = o.autoDML /\ r.attempt = o.attempt /\ r.nextID = o.nextID
PROOF
  <1> DEFINE r == Cut(o, p, k)
             es == SubSeq(o.entries, 1, p)
             ms == SubSeq(o.marks, 1, k)
             b == BytesFrom(o.entries, 1)
             c == BytesFrom(o.entries, p + 1)
             l == Len(o.marks)
             q == QueueBytes(o.queued)
             d == o.reserved
             w == o.retained
  <1>1. /\ o \in OwnerType /\ o.entries \in Seq(Entry) /\ o.marks \in Seq(Marker)
        /\ l \in Nat /\ k \in Nat /\ k <= l /\ p \in Nat
    BY AccountTerms DEF GoodOwner
  <1>2. /\ es \in Seq(Entry) /\ Len(es) = p
        /\ ms \in Seq(Marker) /\ Len(ms) = k /\ \A i \in 1..k : ms[i] = o.marks[i]
    BY <1>1, SubSeqProperties
  <1>3. BytesFrom(es, 1) = b - c /\ b \in Nat /\ c \in Nat /\ b - c \in Nat
    BY <1>1, BytesFromPrefix, BytesFromEquation
  <1>4. w = (b + l) + q + d + x /\ q \in Nat /\ d \in Nat /\ w \in Nat /\ w <= JournalLimit
    <2>1. w = Journaled(o) + q + d + x /\ q \in Nat /\ d \in Nat /\ w \in 0..JournalLimit
      BY <1>1, AccountTerms DEF Accounted, GoodOwner, OwnerType
    <2>2. Journaled(o) = b + 1 * l
      BY DEF Journaled, MarkerBytes
    <2> HIDE DEF b, l, q, d, w
    <2> QED BY <1>1, <1>3, <2>1, <2>2, BoundAssumption
  <1>5. /\ w - c - (l - k) = ((b - c) + k) + q + d + x
        /\ w - c - (l - k) \in 0..JournalLimit
        /\ MarkerBytes * (l - k) = l - k
    <2>1. MarkerBytes * (l - k) = 1 * (l - k)
      BY DEF MarkerBytes
    <2> HIDE DEF b, c, l, q, d, w
    <2> QED BY <1>1, <1>3, <1>4, <2>1, BoundAssumption
  <1>6. r = [o EXCEPT !.entries = es, !.marks = ms, !.retained = w - c - (l - k)]
    BY <1>5 DEF Cut
  <1> DEFINE u == w - c - (l - k)
  <1>7. /\ r \in OwnerType
        /\ r.retained = u
        /\ r.entries = es /\ r.marks = ms /\ r.queued = o.queued
        /\ r.autoDML = o.autoDML /\ r.reserved = d /\ r.mode = o.mode
        /\ r.recovering = o.recovering /\ r.inFlight = o.inFlight /\ r.live = o.live
        /\ r.attempt = o.attempt /\ r.nextID = o.nextID
    <2>1. u \in 0..JournalLimit /\ r = [o EXCEPT !.entries = es, !.marks = ms, !.retained = u]
      BY <1>5, <1>6
    <2> HIDE DEF r, es, ms, u
    <2> QED BY <1>1, <1>2, <2>1 DEF OwnerType
  <1> HIDE DEF r, es, ms
  <1>8. Accounted(r, x)
    <2>1. Journaled(r) = (b - c) + k
      <3>1. Journaled(r) = (b - c) + 1 * k
        BY <1>2, <1>3, <1>7 DEF Journaled, MarkerBytes
      <3> HIDE DEF b, c
      <3> QED BY <1>1, <1>3, <3>1
    <2>2. r.retained = ((b - c) + k) + q + d + x
      BY <1>5, <1>7
    <2> QED BY <1>7, <2>1, <2>2 DEF Accounted
  <1>9. MarksOrdered(r)
    <2>1. DOMAIN r.marks = 1..k /\ DOMAIN o.marks = 1..l
      BY <1>1, <1>2, <1>7
    <2>2. \A i, j \in DOMAIN o.marks : i <= j => o.marks[i].pos <= o.marks[j].pos
      BY DEF MarksOrdered, GoodOwner
    <2>3. \A i \in 1..k : i \in DOMAIN o.marks /\ r.marks[i].pos = o.marks[i].pos
      BY <1>1, <1>2, <1>7, <2>1
    <2>4. Len(r.entries) = p
      BY <1>2, <1>7
    <2>5. \A i \in DOMAIN r.marks : r.marks[i].pos <= Len(r.entries)
      BY <2>1, <2>3, <2>4
    <2>6. \A i, j \in DOMAIN r.marks : i <= j => r.marks[i].pos <= r.marks[j].pos
      BY <2>1, <2>2, <2>3
    <2> QED BY <2>5, <2>6 DEF MarksOrdered
  <1>10. OwnerShape(r)
    <2>1. o.recovering => r.marks # <<>>
      BY <1>1, <1>2, <1>7
    <2>2. o.entries = <<>> => r.entries = <<>>
      BY <1>1, <1>2, <1>7
    <2> QED BY <1>7, <2>1, <2>2 DEF OwnerShape, GoodOwner
  <1>11. /\ GoodOwner(r, x) /\ (Quiet(o) => Quiet(r))
         /\ r.entries = es /\ r.marks = ms
         /\ r.mode = o.mode /\ r.recovering = o.recovering /\ r.queued = o.queued
         /\ r.autoDML = o.autoDML /\ r.attempt = o.attempt /\ r.nextID = o.nextID
    BY <1>7, <1>8, <1>9, <1>10 DEF GoodOwner, Quiet
  <1> QED BY <1>11 DEF r, es, ms

\* A retraction cuts the journal before the entry and keeps a prefix of the markers.
LEMMA RetractCuts ==
    ASSUME NEW o, NEW x \in Nat, GoodOwner(o, x), NEW id
    PROVE  \/ Retract(o, id) = o
           \/ \E i \in 1..Len(o.entries), k \in 0..Len(o.marks) :
                 /\ o.entries[i].id = id
                 /\ Retract(o, id) = Cut(o, i - 1, k)
                 /\ \A j \in DOMAIN o.marks : j <= k <=> o.marks[j].pos <= i - 1
PROOF
  <1>1. o.entries \in Seq(Entry) /\ o.marks \in Seq(Marker)
    BY AccountTerms DEF GoodOwner
  <1>2. CASE \E i \in DOMAIN o.entries : o.entries[i].id = id
    <2> DEFINE i == CHOOSE i \in DOMAIN o.entries : o.entries[i].id = id
    <2>1. i \in 1..Len(o.entries) /\ o.entries[i].id = id
      BY <1>1, <1>2
    <2>2. Retract(o, id) = TruncateAfter(o, i - 1)
      BY <1>2 DEF Retract
    <2> HIDE DEF i
    <2>3. PICK k \in 0..Len(o.marks) :
             /\ KeptMarks(o.marks, i - 1) = SubSeq(o.marks, 1, k)
             /\ \A j \in DOMAIN o.marks : j <= k <=> o.marks[j].pos <= i - 1
      <3>1. i - 1 \in Nat
        BY <2>1
      <3>2. \A j, l \in DOMAIN o.marks : j <= l => o.marks[j].pos <= o.marks[l].pos
        BY DEF GoodOwner, MarksOrdered
      <3> QED BY <1>1, <3>1, <3>2, KeptMarksPrefix
    <2>4. Len(SubSeq(o.marks, 1, k)) = k
      BY <1>1, SubSeqProperties
    <2>5. TruncateAfter(o, i - 1) = Cut(o, i - 1, k)
      BY <2>3, <2>4 DEF TruncateAfter, Cut
    <2> QED BY <2>1, <2>2, <2>3, <2>5
  <1>3. CASE ~ \E i \in DOMAIN o.entries : o.entries[i].id = id
    BY <1>3 DEF Retract
  <1> QED BY <1>2, <1>3

----------------------------------------------------------------------------
(* The accounts are kept by every action.                                  *)

\* What AccountInv says outside SAVEPOINT and the backoff
LEMMA OutsideSavepoint ==
    ASSUME AccountInv, pc \notin {"savepoint", "backoff"}
    PROVE  /\ GoodOwner(tc, 0) /\ back = "prompt" /\ held = <<>> /\ ~InSavepoint
           /\ tc \in OwnerType /\ S \in StateType
           /\ pc # "iterate" => Quiet(tc)
           /\ pc \notin {"iterate", "leave", "display"} => tok = NoTok
PROOF
  BY DEF AccountInv, ResultInv, SectionInv, BackoffInv, InSavepoint, TypeOK, Quiet, S, StateType

\* A step to a statement's end, to the display or back to the prompt
LEMMA ShowGood ==
    ASSUME TypeOK, GoodOwner(tc', 0), Quiet(tc'), pc' \in {"prompt", "leave", "display"},
           back' = "prompt", held' = <<>>,
           st' \in [kind: Kinds, op: 0..MaxOps, name: Names \cup {"none"}],
           st'.kind \in StatementKinds => st'.op \in Ops,
           phys' \in Seq(Answer), tok' \in [attempt: Nat, id: Nat, plan: BOOLEAN],
           ops' \in 0..MaxOps, durable' \in Seq(Seq(Ops)), lost' \in Nat, ResultInv'
    PROVE  AccountInv'
PROOF
  <1>1. TypeOK'
    BY DEF TypeOK, PCs, GoodOwner
  <1>2. SectionInv'
    BY DEF SectionInv, InSavepoint, InTxn, ReadWritePCs, Quiet
  <1>3. StatementInv'
    BY DEF StatementInv, InSavepoint, StatementPCs
  <1>4. BackoffInv'
    BY DEF BackoffInv
  <1> QED BY <1>1, <1>2, <1>3, <1>4 DEF AccountInv

\* ... without a result
LEMMA LeaveGood ==
    ASSUME TypeOK, GoodOwner(tc', 0), Quiet(tc'), pc' \in {"prompt", "leave"},
           back' = "prompt", held' = <<>>,
           st' \in [kind: Kinds, op: 0..MaxOps, name: Names \cup {"none"}],
           st'.kind \in StatementKinds => st'.op \in Ops,
           phys' \in Seq(Answer), tok' = NoTok,
           ops' \in 0..MaxOps, durable' \in Seq(Seq(Ops)), lost' \in Nat
    PROVE  AccountInv'
PROOF
  <1>1. tok' \in [attempt: Nat, id: Nat, plan: BOOLEAN] /\ ResultInv'
    BY DEF NoTok, ResultInv
  <1> QED BY <1>1, ShowGood

\* ... and one into a section of a read-write owner
LEMMA EnterGood ==
    ASSUME TypeOK, GoodOwner(tc', 0), Quiet(tc'), tc'.mode # "none", ~tc'.recovering,
           pc' \in {"determine", "enqueue", "flush", "exec", "query", "commit"},
           pc' # "determine" => tc'.mode = "rw",
           back' = "prompt", held' = <<>>,
           st' \in [kind: Kinds, op: 0..MaxOps, name: Names \cup {"none"}],
           st'.kind \in StatementKinds => st'.op \in Ops,
           pc' \in StatementPCs => st'.kind \in StatementKinds,
           phys' \in Seq(Answer), tok' = NoTok,
           ops' \in 0..MaxOps, durable' \in Seq(Seq(Ops)), lost' \in Nat
    PROVE  AccountInv'
PROOF
  <1>1. TypeOK'
    BY DEF TypeOK, PCs, GoodOwner, NoTok
  <1>2. SectionInv'
    BY DEF SectionInv, InSavepoint, InTxn, ReadWritePCs, Quiet
  <1>3. StatementInv'
    BY DEF StatementInv, InSavepoint, StatementPCs
  <1>4. BackoffInv'
    BY DEF BackoffInv
  <1>5. ResultInv'
    BY DEF ResultInv
  <1> QED BY <1>1, <1>2, <1>3, <1>4, <1>5 DEF AccountInv

\* Submitting a DML statement leaves the owner alone.
LEMMA SubmitDMLAccount ==
    ASSUME AccountInv, SubmitDML
    PROVE  AccountInv'
PROOF
  <1>1. PICK k \in {"dml", "mutate", "enqueue", "select", "plan"} : Submit(k, "none", "determine")
    BY DEF SubmitDML
  <1>2. pc = "prompt" /\ InTxn /\ ~tc.recovering /\ ops < MaxOps /\ TypeOK
    BY <1>1 DEF Submit, Accepts, AccountInv
  <1>3. ops + 1 \in Ops /\ ops + 1 \in 0..MaxOps
    BY <1>2, BoundAssumption DEF TypeOK, Ops
  <1>4. /\ st' = [kind |-> k, op |-> ops + 1, name |-> "none"] /\ ops' = ops + 1
        /\ pc' = "determine" /\ UNCHANGED <<back, tc, phys, held, tok, durable, lost>>
    BY <1>1 DEF Submit
  <1>5. k \in StatementKinds /\ k \in Kinds
    BY DEF StatementKinds, Kinds
  <1>6. /\ phys' \in Seq(Answer)
        /\ durable' \in Seq(Seq(Ops)) /\ lost' \in Nat
    BY <1>2, <1>4 DEF TypeOK
  <1>7. GoodOwner(tc, 0) /\ Quiet(tc) /\ back = "prompt" /\ held = <<>> /\ tok = NoTok /\ tc.mode # "none"
    BY <1>2, OutsideSavepoint DEF InTxn
  <1>8. /\ st'.kind \in StatementKinds /\ st'.op \in Ops
        /\ st' \in [kind: Kinds, op: 0..MaxOps, name: Names \cup {"none"}]
    BY <1>3, <1>4, <1>5
  <1> QED BY <1>2, <1>3, <1>4, <1>6, <1>7, <1>8, EnterGood

\* Submitting COMMIT, ROLLBACK or a DDL leaves the owner alone.
LEMMA SubmitEndAccount ==
    ASSUME AccountInv, SubmitEnd
    PROVE  AccountInv'
PROOF
  <1>1. PICK k \in {"runBatch", "commit", "ddl"} :
           /\ Accepts /\ tc.mode = "rw"
           /\ st' = [kind |-> k, op |-> 0, name |-> "none"]
           /\ pc' = IF k = "ddl" THEN "commit" ELSE "flush"
           /\ UNCHANGED <<back, tc, phys, held, tok, ops, durable, lost>>
    BY DEF SubmitEnd
  <1>2. pc = "prompt" /\ ~tc.recovering /\ TypeOK
    BY <1>1 DEF Accepts, AccountInv
  <1>3. /\ phys' \in Seq(Answer)
        /\ durable' \in Seq(Seq(Ops)) /\ lost' \in Nat /\ ops' \in 0..MaxOps
    BY <1>1, <1>2 DEF TypeOK
  <1>4. GoodOwner(tc, 0) /\ Quiet(tc) /\ back = "prompt" /\ held = <<>> /\ tok = NoTok
    BY <1>2, OutsideSavepoint
  <1>5. /\ st' \in [kind: Kinds, op: 0..MaxOps, name: Names \cup {"none"}]
        /\ st'.kind \notin StatementKinds
    BY <1>1, BoundAssumption DEF StatementKinds, Kinds
  <1>6. pc' \in {"flush", "commit"}
    BY <1>1
  <1> QED BY <1>1, <1>2, <1>3, <1>4, <1>5, <1>6, EnterGood DEF StatementPCs

\* Submitting a savepoint statement leaves the owner alone.
LEMMA SubmitSavepointAccount ==
    ASSUME AccountInv, SubmitSavepoint
    PROVE  AccountInv'
PROOF
  <1>1. PICK n \in Names :
           /\ Room(tc, MarkerBytes)
           /\ st' = [kind |-> "savepoint", op |-> 0, name |-> n]
           /\ tc' = Reserve(tc, MarkerBytes)
    BY DEF SubmitSavepoint
  <1>2. /\ pc = "prompt" /\ InTxn /\ ~tc.recovering /\ TypeOK /\ pc' = "savepoint"
        /\ UNCHANGED <<back, phys, held, tok, ops, durable, lost>>
    BY DEF SubmitSavepoint, Accepts, AccountInv
  <1>3. GoodOwner(tc, 0) /\ Quiet(tc) /\ back = "prompt" /\ held = <<>> /\ tok = NoTok /\ tc.mode # "none"
    BY <1>2, OutsideSavepoint DEF InTxn
  <1>4. /\ GoodOwner(tc', 0 + MarkerBytes) /\ Quiet(tc')
        /\ tc'.mode = tc.mode /\ ~tc'.recovering
    <2>1. MarkerBytes \in Nat
      BY DEF MarkerBytes
    <2> QED BY <1>1, <1>2, <1>3, <2>1, ReserveGood
  <1>5. GoodOwner(tc', MarkerBytes)
    BY <1>4 DEF MarkerBytes
  <1>6. TypeOK'
    BY <1>1, <1>2, <1>5, BoundAssumption DEF TypeOK, PCs, Kinds, GoodOwner
  <1>7. SectionInv'
    BY <1>2, <1>3, <1>4, <1>5 DEF SectionInv, InSavepoint, InTxn, ReadWritePCs, Quiet
  <1>8. StatementInv'
    BY <1>1, <1>2, <1>3 DEF StatementInv, InSavepoint, StatementPCs, StatementKinds
  <1>9. BackoffInv'
    BY <1>2, <1>3 DEF BackoffInv
  <1>10. ResultInv'
    BY <1>2, <1>3 DEF ResultInv
  <1> QED BY <1>6, <1>7, <1>8, <1>9, <1>10 DEF AccountInv

\* An owner without a journal
Fresh(o) ==
    /\ o \in OwnerType /\ o.mode # "none"
    /\ o.entries = <<>> /\ o.marks = <<>> /\ o.queued = <<>> /\ o.autoDML = <<>>
    /\ o.retained = 0 /\ o.reserved = 0 /\ o.inFlight = 0 /\ o.recovering = FALSE

\* A new owner has an empty journal and nothing reserved.
LEMMA FreshGood ==
    ASSUME NEW o, Fresh(o)
    PROVE  GoodOwner(o, 0) /\ Quiet(o)
PROOF
  <1>1. Journaled(o) = 0
    <2>1. BytesFrom(<<>>, 1) = 0
      <3>1. <<>> \in Seq(Entry) /\ 1 \in 1..(Len(<<>>) + 1) /\ 1 > Len(<<>>)
        OBVIOUS
      <3> QED BY <3>1, BytesFromEquation
    <2> QED BY <2>1 DEF Journaled, MarkerBytes, Fresh
  <1>2. Accounted(o, 0)
    BY <1>1 DEF Accounted, QueueBytes, Fresh
  <1>3. MarksOrdered(o) /\ OwnerShape(o)
    BY DEF MarksOrdered, OwnerShape, Fresh
  <1> QED BY <1>2, <1>3 DEF GoodOwner, Quiet, Fresh

\* BEGIN starts an owner with exact accounts.
LEMMA BeginAccount ==
    ASSUME AccountInv, Begin
    PROVE  AccountInv'
PROOF
  <1>1. /\ pc = "prompt" /\ ~InTxn /\ TypeOK /\ UNCHANGED <<pc, st, back, tok>>
        /\ back = "prompt" /\ held = <<>> /\ tok = NoTok
    BY OutsideSavepoint DEF Begin, AccountInv
  <1>2. PICK o : Fresh(o) /\ Become([S EXCEPT !.tc = o])
    <2>1. \A r \in BOOLEAN : Fresh([NoOwner EXCEPT !.mode = "pending", !.retry = r])
      BY NoOwnerGood DEF NoOwner, OwnerType, Fresh
    <2>2. \A r \in BOOLEAN :
             Fresh([NoOwner EXCEPT !.mode = "rw", !.retry = r, !.live = TRUE, !.attempt = 1])
      BY NoOwnerGood DEF NoOwner, OwnerType, Fresh
    <2>3. Fresh([NoOwner EXCEPT !.mode = "ro", !.live = TRUE, !.attempt = 1])
      BY NoOwnerGood DEF NoOwner, OwnerType, Fresh
    <2> QED BY <2>1, <2>2, <2>3 DEF Begin
  <1> DEFINE s == [S EXCEPT !.tc = o]
  <1>3. GoodOwner(o, 0) /\ Quiet(o)
    BY <1>2, FreshGood
  <1>4. s.tc = o /\ s.phys = phys /\ s.held = held /\ s.durable = durable
    BY DEF S
  <1>5. Become(s)
    BY <1>2
  <1>6. tc' = o /\ phys' = phys /\ held' = held /\ durable' = durable
        /\ ops' \in 0..MaxOps /\ lost' \in Nat
    <2>1. o \in OwnerType
      BY <1>3 DEF GoodOwner
    <2> HIDE DEF s
    <2> QED BY <1>1, <1>4, <1>5, <2>1, BecomeGood DEF TypeOK
  <1>7. st.kind \in StatementKinds => st.op \in Ops
    BY DEF AccountInv, StatementInv
  <1> QED BY <1>1, <1>3, <1>6, <1>7, LeaveGood DEF TypeOK

\* Become of the current state changes no part of the owner.
LEMMA BecomeSame ==
    ASSUME AccountInv, Become(S)
    PROVE  /\ tc' = tc /\ phys' = phys /\ held' = held /\ durable' = durable
           /\ ops' \in 0..MaxOps /\ lost' \in Nat
PROOF
  <1>1. TypeOK /\ S.tc = tc /\ S.phys = phys /\ S.held = held /\ S.durable = durable
    BY DEF S, AccountInv
  <1> QED BY <1>1, BecomeGood DEF TypeOK

\* Become with another owner changes only the owner.
LEMMA BecomeWith ==
    ASSUME AccountInv, NEW o \in OwnerType, Become([S EXCEPT !.tc = o])
    PROVE  /\ tc' = o /\ phys' = phys /\ held' = held /\ durable' = durable
           /\ ops' \in 0..MaxOps /\ lost' \in Nat
PROOF
  <1> DEFINE s == [S EXCEPT !.tc = o]
  <1>1. s.tc = o /\ s.phys = phys /\ s.held = held /\ s.durable = durable
    BY DEF S
  <1>2. TypeOK
    BY DEF AccountInv
  <1> HIDE DEF s
  <1> QED BY <1>1, <1>2, BecomeGood DEF TypeOK, s

\* Become of the ended state leaves no owner, no answers and no held queue.
LEMMA BecomeEnd ==
    ASSUME AccountInv, Become(End(S))
    PROVE  /\ tc' = NoOwner /\ phys' = <<>> /\ held' = <<>> /\ durable' = durable
           /\ ops' \in 0..MaxOps /\ lost' \in Nat
           /\ GoodOwner(tc', 0) /\ Quiet(tc')
PROOF
  <1>1. /\ End(S).tc = NoOwner /\ End(S).phys = <<>> /\ End(S).held = <<>>
        /\ End(S).durable = durable
    BY DEF End, S
  <1>2. <<>> \in Seq(Answer) /\ <<>> \in Seq(Ops) /\ TypeOK
    BY DEF AccountInv
  <1>3. Quiet(NoOwner)
    BY DEF Quiet, NoOwner
  <1> QED BY <1>1, <1>2, <1>3, NoOwnerGood, BecomeGood DEF TypeOK

\* Taking the implicit decision (determine) keeps the accounts.
LEMMA DetermineAccount ==
    ASSUME AccountInv, Determine
    PROVE  AccountInv'
PROOF
  <1> DEFINE next == CASE st.kind = "mutate" -> "exec" [] st.kind = "enqueue" -> "enqueue"
                     [] OTHER -> "flush"
             o == [tc EXCEPT !.mode = "rw", !.live = TRUE, !.attempt = 1]
  <1>1. /\ pc = "determine" /\ TypeOK /\ UNCHANGED <<st, back, tok>>
        /\ GoodOwner(tc, 0) /\ Quiet(tc) /\ back = "prompt" /\ held = <<>>
        /\ tok = NoTok /\ ~tc.recovering
        /\ st.kind \in StatementKinds /\ st.op \in Ops
    BY OutsideSavepoint DEF Determine, AccountInv, SectionInv, StatementInv, StatementPCs
  <1>2. next \in {"exec", "enqueue", "flush"}
    OBVIOUS
  <1>3. CASE /\ tc.mode = "pending"
             /\ Become([S EXCEPT !.tc.mode = "rw", !.tc.live = TRUE, !.tc.attempt = 1])
             /\ pc' = next
    <2>1. tc \in OwnerType
      BY <1>1 DEF GoodOwner
    <2>2. o \in OwnerType /\ o.mode = "rw" /\ o.recovering = FALSE
      BY <1>1, <2>1 DEF OwnerType
    <2>3. GoodOwner(o, 0) /\ Quiet(o)
      <3>1. /\ o.retained = tc.retained /\ o.entries = tc.entries /\ o.marks = tc.marks
            /\ o.queued = tc.queued /\ o.autoDML = tc.autoDML
            /\ o.reserved = tc.reserved /\ o.inFlight = tc.inFlight
        BY <2>1 DEF OwnerType
      <3> HIDE DEF o
      <3>2. Accounted(o, 0)
        BY <1>1, <1>3, <3>1 DEF Accounted, Journaled, GoodOwner
      <3>3. MarksOrdered(o) /\ OwnerShape(o)
        BY <1>1, <2>2, <3>1 DEF MarksOrdered, OwnerShape, GoodOwner
      <3> QED BY <1>1, <2>2, <3>1, <3>2, <3>3 DEF GoodOwner, Quiet
    <2>4. Become([S EXCEPT !.tc = o])
      <3>1. [S EXCEPT !.tc.mode = "rw", !.tc.live = TRUE, !.tc.attempt = 1] = [S EXCEPT !.tc = o]
        BY <2>1 DEF S, OwnerType
      <3> QED BY <1>3, <3>1
    <2> HIDE DEF o, next
    <2>5. /\ tc' = o /\ phys' = phys /\ held' = held /\ durable' = durable
          /\ ops' \in 0..MaxOps /\ lost' \in Nat
      BY <2>2, <2>4, BecomeWith
    <2>6. pc' \in {"exec", "enqueue", "flush"}
      BY <1>2, <1>3
    <2> QED BY <1>1, <2>2, <2>3, <2>5, <2>6, EnterGood DEF TypeOK
  <1>4. CASE tc.mode \in {"pending", "ro"} /\ Become(S) /\ pc' = "leave"
    BY <1>1, <1>4, BecomeSame, LeaveGood DEF TypeOK
  <1>5. CASE tc.mode = "rw" /\ Become(S) /\ pc' = next
    <2>1. pc' \in {"exec", "enqueue", "flush"}
      BY <1>2, <1>5
    <2> QED BY <1>1, <1>5, <2>1, BecomeSame, EnterGood DEF TypeOK
  <1> QED BY <1>3, <1>4, <1>5 DEF Determine

\* Queueing a DML statement reserves its bytes before it is in the queue.
LEMMA EnqueueAccount ==
    ASSUME AccountInv, Enqueue
    PROVE  AccountInv'
PROOF
  <1> DEFINE q == Append(tc.queued, st.op)
             n == QueueBytes(q) - QueueBytes(tc.queued)
             o == [Reserve(tc, n) EXCEPT !.queued = q, !.autoDML = Append(@, st.op)]
             r == [tc EXCEPT !.retained = tc.retained - QueueBytes(tc.queued) + QueueBytes(q),
                             !.queued = q, !.autoDML = q, !.recovering = FALSE]
  <1>1. /\ pc = "enqueue" /\ TypeOK /\ UNCHANGED <<st, back, tok>> /\ pc' = "leave"
        /\ GoodOwner(tc, 0) /\ Quiet(tc) /\ back = "prompt" /\ held = <<>> /\ tok = NoTok
        /\ tc.mode = "rw" /\ tc.recovering = FALSE /\ st.op \in Ops /\ tc \in OwnerType
    <2>1. tc.recovering \in BOOLEAN
      BY DEF AccountInv, TypeOK, OwnerType
    <2> QED BY <2>1, OutsideSavepoint
         DEF Enqueue, AccountInv, SectionInv, StatementInv, StatementPCs, ReadWritePCs
  <1>2. CASE ~Room(tc, n) /\ Become(S)
    BY <1>1, <1>2, BecomeSame, LeaveGood DEF TypeOK, AccountInv, StatementInv
  <1>3. CASE Room(tc, n) /\ Become([S EXCEPT !.tc = o])
    <2>1. /\ q \in Seq(Ops) /\ tc.queued = tc.autoDML /\ tc.retained \in Nat
          /\ QueueBytes(q) \in Nat /\ QueueBytes(tc.queued) \in Nat
      <3>1. tc.queued = tc.autoDML
        BY <1>1 DEF GoodOwner, OwnerShape
      <3>2. tc.retained \in Nat /\ tc.queued \in Seq(Ops)
        BY <1>1, AccountTerms
      <3>3. q \in Seq(Ops)
        BY <1>1, <3>2
      <3> HIDE DEF q
      <3> QED BY <3>1, <3>2, <3>3, QueueBytesNat
    <2>2. tc.retained + n = tc.retained - QueueBytes(tc.queued) + QueueBytes(q)
      <3> DEFINE w == tc.retained
                 a == QueueBytes(q)
                 b == QueueBytes(tc.queued)
      <3>1. w \in Nat /\ a \in Nat /\ b \in Nat
        BY <2>1
      <3>2. w + (a - b) = w - b + a
        <4> HIDE DEF w, a, b
        <4> QED BY <3>1
      <3> QED BY <3>2
    <2>3. tc.retained - QueueBytes(tc.queued) + QueueBytes(q) <= JournalLimit
      BY <1>3, <2>2 DEF Room
    <2>4. r \in OwnerType /\ GoodOwner(r, 0) /\ Quiet(r)
      <3>1. GoodOwner(r, 0) /\ Working(r, 0)
        <4> HIDE DEF r, q
        <4> QED BY <1>1, <2>1, <2>3, QueueGood DEF r
      <3> HIDE DEF r
      <3> QED BY <3>1 DEF GoodOwner, Working, Quiet
    <2>5. o = r
      <3>1. Append(tc.autoDML, st.op) = q
        BY <2>1
      <3> HIDE DEF n, q
      <3> QED BY <1>1, <2>2, <3>1 DEF Reserve, OwnerType
    <2>6. tc' = r /\ phys' = phys /\ held' = held /\ durable' = durable
          /\ ops' \in 0..MaxOps /\ lost' \in Nat
      <3> HIDE DEF r, o
      <3> QED BY <1>3, <2>4, <2>5, BecomeWith
    <2> HIDE DEF r
    <2> QED BY <1>1, <2>4, <2>6, LeaveGood DEF TypeOK, AccountInv, StatementInv
  <1> QED BY <1>2, <1>3 DEF Enqueue

\* The owner where a section starts
LEMMA SectionStarts ==
    ASSUME AccountInv, pc \in {"flush", "exec", "savepoint", "commit"}
    PROVE  /\ TypeOK /\ pc \in SectionPCs /\ S \in StateType /\ S.tc = tc /\ S.held = <<>>
           /\ S.phys = phys /\ S.durable = durable
           /\ back = "prompt" /\ held = <<>> /\ tok = NoTok
           /\ GoodOwner(tc, MarkerFor(pc)) /\ Quiet(tc) /\ ~tc.recovering
           /\ tc.mode # "none" /\ (pc # "savepoint" => tc.mode = "rw")
           /\ st.kind \in StatementKinds => st.op \in Ops
           /\ pc = "exec" => st.kind \in StatementKinds /\ st.op \in Ops
           /\ pc = "savepoint" => st.kind = "savepoint" /\ st.name \in Names
PROOF
  <1>1. TypeOK /\ S \in StateType /\ S.tc = tc /\ S.held = held /\ S.phys = phys
        /\ S.durable = durable
    BY DEF AccountInv, TypeOK, S, StateType
  <1>2. /\ back = "prompt" /\ held = <<>> /\ tok = NoTok
        /\ GoodOwner(tc, MarkerFor(pc)) /\ Quiet(tc) /\ ~tc.recovering
        /\ tc.mode # "none" /\ (pc # "savepoint" => tc.mode = "rw")
    BY DEF AccountInv, BackoffInv, SectionInv, ResultInv, InSavepoint, MarkerFor, Quiet,
           ReadWritePCs, InTxn
  <1>3. /\ st.kind \in StatementKinds => st.op \in Ops
        /\ pc = "exec" => st.kind \in StatementKinds
        /\ pc = "savepoint" => st.kind = "savepoint" /\ st.name \in Names
    BY DEF AccountInv, StatementInv, InSavepoint, StatementPCs
  <1> QED BY <1>1, <1>2, <1>3 DEF SectionPCs

\* A section under the journal's lock keeps the accounts.
LEMMA SectionAccount ==
    ASSUME AccountInv, Section
    PROVE  AccountInv'
PROOF
  <1>1. CASE pc = "exec" /\ Become(End(S)) /\ pc' = "leave" /\ UNCHANGED <<st, back, tok>>
    BY <1>1, SectionStarts, BecomeEnd, LeaveGood DEF TypeOK
  <1>2. CASE \E f \in Outcomes(pc, S) : Finish(pc, f)
    <2>1. PICK f \in Outcomes(pc, S) : Finish(pc, f)
      BY <1>2
    <2>2. pc \in {"flush", "exec", "savepoint", "commit"}
      BY DEF Section
    <2>3. SectionResult(pc, f)
      BY <2>1, <2>2, SectionStarts, OutcomesGood
    <2> QED BY <2>1, <2>2, <2>3, SectionStarts, FinishGood
  <1> QED BY <1>1, <1>2 DEF Section

\* A query in flight, with n bytes reserved for its entry
Admitted(o, n) == [Reserve(o, n) EXCEPT !.inFlight = 1, !.reserved = n]

\* A query admitted by the journal has its bytes reserved and is the one in
\* flight.
LEMMA AdmittedGood ==
    ASSUME NEW o, NEW n \in Nat, GoodOwner(o, 0), Quiet(o), o.mode = "rw", ~o.recovering,
           Room(o, n)
    PROVE  /\ GoodOwner(Admitted(o, n), 0)
           /\ Admitted(o, n).mode = "rw" /\ ~Admitted(o, n).recovering
           /\ Admitted(o, n).inFlight = 1 /\ Admitted(o, n).reserved = n
PROOF
  <1> DEFINE r == Admitted(o, n)
  <1>1. /\ o \in OwnerType /\ o.retained + n \in 0..JournalLimit
    BY AccountTerms, BoundAssumption DEF GoodOwner, Room
  <1>2. /\ r \in OwnerType
        /\ r.retained = o.retained + n
        /\ r.entries = o.entries /\ r.marks = o.marks /\ r.queued = o.queued
        /\ r.autoDML = o.autoDML /\ r.reserved = n /\ r.mode = o.mode
        /\ r.recovering = o.recovering /\ r.inFlight = 1
    <2>1. Reserve(o, n) = [o EXCEPT !.retained = o.retained + n]
      BY DEF Reserve
    <2>2. 1 \in 0..1
      OBVIOUS
    <2> QED BY <1>1, <2>1, <2>2 DEF Admitted, OwnerType
  <1> HIDE DEF r
  <1>3. Accounted(r, 0)
    <2>1. Journaled(r) = Journaled(o)
      BY <1>2 DEF Journaled
    <2>2. /\ o.retained = Journaled(o) + QueueBytes(o.queued) + o.reserved + 0
          /\ Journaled(o) \in Nat /\ QueueBytes(o.queued) \in Nat /\ o.reserved = 0
      BY <1>1, AccountTerms DEF Accounted, GoodOwner, Quiet
    <2>3. r.retained = Journaled(r) + QueueBytes(r.queued) + r.reserved + 0
      BY <1>2, <2>1, <2>2
    <2> QED BY <2>3 DEF Accounted
  <1>4. MarksOrdered(r) /\ OwnerShape(r)
    BY <1>2 DEF MarksOrdered, OwnerShape, GoodOwner
  <1>5. GoodOwner(r, 0) /\ r.mode = "rw" /\ ~r.recovering /\ r.inFlight = 1 /\ r.reserved = n
    BY <1>2, <1>3, <1>4 DEF GoodOwner
  <1> QED BY <1>5 DEF r

\* The query is over; what was reserved becomes the bytes of its entry.
Answered(o) == [o EXCEPT !.inFlight = 0, !.reserved = 0]

\* The answer of a query takes the reservation back before the entry is
\* retained.
LEMMA AnsweredWorks ==
    ASSUME NEW o, NEW x \in Nat, GoodOwner(o, x), o.mode = "rw", ~o.recovering
    PROVE  Working(Answered(o), x + o.reserved)
PROOF
  <1> DEFINE r == Answered(o)
  <1>1. o \in OwnerType
    BY DEF GoodOwner
  <1>2. /\ r \in OwnerType
        /\ r.retained = o.retained
        /\ r.entries = o.entries /\ r.marks = o.marks /\ r.queued = o.queued
        /\ r.autoDML = o.autoDML /\ r.reserved = 0 /\ r.mode = o.mode
        /\ r.recovering = o.recovering /\ r.inFlight = 0
    <2>1. 0 \in 0..1 /\ 0 \in Nat
      OBVIOUS
    <2> QED BY <1>1, <2>1 DEF Answered, OwnerType
  <1> HIDE DEF r
  <1>3. Accounted(r, x + o.reserved)
    <2>1. Journaled(r) = Journaled(o)
      BY <1>2 DEF Journaled
    <2>2. /\ o.retained = Journaled(o) + QueueBytes(o.queued) + o.reserved + x
          /\ Journaled(o) \in Nat /\ QueueBytes(o.queued) \in Nat /\ o.reserved \in Nat
      BY <1>1, AccountTerms DEF Accounted, GoodOwner
    <2>3. r.retained = Journaled(r) + QueueBytes(r.queued) + r.reserved + (x + o.reserved)
      BY <1>2, <2>1, <2>2
    <2> QED BY <2>3 DEF Accounted
  <1>4. MarksOrdered(r) /\ OwnerShape(r)
    BY <1>2 DEF MarksOrdered, OwnerShape, GoodOwner
  <1>5. Working(r, x + o.reserved)
    BY <1>2, <1>3, <1>4 DEF Working, GoodOwner
  <1> QED BY <1>5 DEF r

\* Starting a query keeps the accounts.
LEMMA QueryAccount ==
    ASSUME AccountInv, Query
    PROVE  AccountInv'
PROOF
  <1> DEFINE n == IF st.kind = "plan" THEN 0 ELSE Bytes(<<st.op>>)
  <1>1. /\ pc = "query" /\ TypeOK /\ UNCHANGED <<st, back>>
        /\ GoodOwner(tc, 0) /\ Quiet(tc) /\ back = "prompt" /\ held = <<>>
        /\ tc.mode = "rw" /\ ~tc.recovering /\ st.op \in Ops /\ st.kind \in StatementKinds
        /\ tc \in OwnerType
    BY OutsideSavepoint
       DEF Query, AccountInv, SectionInv, StatementInv, StatementPCs, ReadWritePCs
  <1>2. n \in Nat
    <2>1. <<st.op>> \in Seq(Ops)
      BY <1>1
    <2> QED BY <2>1, QueueBytesNat
  <1>3. CASE ~Room(tc, n) /\ Become(S) /\ tok' = NoTok /\ pc' = "leave"
    BY <1>1, <1>3, BecomeSame, LeaveGood DEF TypeOK
  <1>4. CASE /\ Room(tc, n) /\ Become([S EXCEPT !.tc = Admitted(tc, n)]) /\ pc' = "iterate"
             /\ tok' = [attempt |-> tc.attempt, id |-> 0, plan |-> st.kind = "plan"]
    <2>1. /\ GoodOwner(Admitted(tc, n), 0)
          /\ Admitted(tc, n).mode = "rw" /\ ~Admitted(tc, n).recovering
          /\ Admitted(tc, n).inFlight = 1 /\ Admitted(tc, n).reserved = n
      <3> HIDE DEF n
      <3> QED BY <1>1, <1>2, <1>4, AdmittedGood
    <2>2. /\ tc' = Admitted(tc, n) /\ phys' = phys /\ held' = held /\ durable' = durable
          /\ ops' \in 0..MaxOps /\ lost' \in Nat
      <3>1. Admitted(tc, n) \in OwnerType
        BY <2>1 DEF GoodOwner
      <3> HIDE DEF n
      <3> QED BY <1>4, <3>1, BecomeWith
    <2>3. /\ tok' \in [attempt: Nat, id: Nat, plan: BOOLEAN]
          /\ tok'.plan = (st.kind = "plan")
      <3>1. tc.attempt \in Nat
        BY <1>1 DEF OwnerType
      <3> QED BY <1>4, <3>1
    <2>4. n = IF tok'.plan THEN 0 ELSE Bytes(<<st.op>>)
      BY <2>3
    <2> HIDE DEF n
    <2>5. TypeOK'
      BY <1>1, <1>4, <2>1, <2>2, <2>3 DEF TypeOK, PCs, GoodOwner
    <2>6. SectionInv'
      BY <1>1, <1>4, <2>1, <2>2, <2>4 DEF SectionInv, InSavepoint, InTxn
    <2>7. StatementInv'
      BY <1>1, <1>4 DEF StatementInv, InSavepoint, StatementPCs
    <2>8. BackoffInv'
      BY <1>1, <1>4, <2>2 DEF BackoffInv
    <2>9. ResultInv'
      BY <1>1, <1>4, <2>1, <2>2 DEF ResultInv
    <2> QED BY <2>5, <2>6, <2>7, <2>8, <2>9 DEF AccountInv
  <1> QED BY <1>3, <1>4 DEF Query, Admitted

\* The owner while a query is iterated
LEMMA Iterating ==
    ASSUME AccountInv, pc = "iterate"
    PROVE  /\ TypeOK /\ S \in StateType /\ S.tc = tc /\ S.held = <<>>
           /\ S.phys = phys /\ S.durable = durable
           /\ GoodOwner(tc, 0) /\ back = "prompt" /\ held = <<>>
           /\ tc.mode = "rw" /\ ~tc.recovering /\ tc \in OwnerType
           /\ st.op \in Ops /\ st.kind \in StatementKinds
           /\ tc.reserved = IF tok.plan THEN 0 ELSE Bytes(<<st.op>>)
PROOF
  <1>1. S.tc = tc /\ S.held = held /\ S.phys = phys /\ S.durable = durable
    BY DEF S
  <1> QED BY <1>1, OutsideSavepoint
          DEF AccountInv, SectionInv, StatementInv, StatementPCs, ReadWritePCs

\* A query whose rows are all read keeps the accounts.
LEMMA QueryDoneAccount ==
    ASSUME AccountInv, QueryDone
    PROVE  AccountInv'
PROOF
  <1>1. pc = "iterate" /\ pc' = "leave" /\ UNCHANGED <<st, back>>
    BY DEF QueryDone
  <1>2. /\ TypeOK /\ GoodOwner(tc, 0) /\ back = "prompt" /\ held = <<>>
        /\ tc.mode = "rw" /\ ~tc.recovering /\ tc \in OwnerType
        /\ st.op \in Ops /\ <<st.op>> \in Seq(Ops)
        /\ tc.reserved = IF tok.plan THEN 0 ELSE Bytes(<<st.op>>)
        /\ tok \in [attempt: Nat, id: Nat, plan: BOOLEAN]
    BY <1>1, Iterating DEF TypeOK
  <1>3. Working(Answered(tc), 0 + tc.reserved)
    BY <1>2, AnsweredWorks
  <1>4. CASE tok.plan /\ Become([S EXCEPT !.tc = Answered(tc)]) /\ UNCHANGED tok
    <2>1. Working(Answered(tc), 0) /\ Answered(tc) \in OwnerType
      <3>1. 0 + tc.reserved = 0
        BY <1>2, <1>4
      <3> QED BY <1>3, <3>1 DEF Working, GoodOwner
    <2>2. /\ tc' = Answered(tc) /\ phys' = phys /\ held' = held /\ durable' = durable
          /\ ops' \in 0..MaxOps /\ lost' \in Nat
      BY <1>4, <2>1, BecomeWith
    <2>3. GoodOwner(tc', 0) /\ Quiet(tc') /\ ResultInv'
      BY <1>1, <2>1, <2>2 DEF Working, Quiet, ResultInv
    <2> QED BY <1>1, <1>2, <1>4, <2>2, <2>3, ShowGood DEF TypeOK
  <1>5. ASSUME ~tok.plan, NEW v \in Observations,
               Become(Executed(S, Answered(tc), <<st.op>>, <<st.op>>, v)),
               tok' = [tok EXCEPT !.id = tc.nextID + 1]
        PROVE  AccountInv'
    <2> DEFINE s == Executed(S, Answered(tc), <<st.op>>, <<st.op>>, v)
    <2>1. Working(Answered(tc), 0 + Bytes(<<st.op>>))
      BY <1>2, <1>3, <1>5
    <2>2. s \in StateType /\ Working(s.tc, 0) /\ Quiet(s.tc) /\ s.held = <<>>
      <3>1. S \in StateType /\ S.held = <<>> /\ <<st.op>> \in Seq(Ops) /\ 0 \in Nat
        BY <1>1, <1>2, Iterating
      <3> DEFINE os == <<st.op>>
                 o == Answered(tc)
      <3> HIDE DEF os, o
      <3>2. s = Executed(S, o, os, os, v) /\ Working(o, 0 + Bytes(os)) /\ os \in Seq(Ops)
        BY <2>1, <3>1 DEF os, o
      <3> HIDE DEF s
      <3>3. s \in StateType /\ Working(s.tc, 0) /\ Quiet(s.tc) /\ s.held = S.held
        BY <3>1, <3>2, ExecutedGood
      <3> QED BY <3>1, <3>3
    <2>3. Become(s)
      BY <1>5
    <2> HIDE DEF s
    <2>4. /\ tc' = s.tc /\ held' = <<>> /\ GoodOwner(tc', 0) /\ Quiet(tc')
          /\ phys' \in Seq(Answer) /\ durable' \in Seq(Seq(Ops)) /\ ops' \in 0..MaxOps
          /\ lost' \in Nat /\ ResultInv'
      BY <1>1, <1>2, <2>2, <2>3, BecomeGood DEF StateType, Working, ResultInv
    <2>5. tok' \in [attempt: Nat, id: Nat, plan: BOOLEAN]
      <3>1. tc.nextID + 1 \in Nat
        BY <1>2 DEF OwnerType
      <3> QED BY <1>2, <1>5, <3>1
    <2> QED BY <1>1, <1>2, <2>4, <2>5, ShowGood DEF TypeOK
  <1>6. CASE ~tok.plan
    <2>1. PICK v \in Observations :
             /\ Become(Executed(S, Answered(tc), <<st.op>>, <<st.op>>, v))
             /\ tok' = [tok EXCEPT !.id = tc.nextID + 1]
      BY <1>6 DEF QueryDone, Executed, Answered
    <2> QED BY <1>5, <1>6, <2>1
  <1> QED BY <1>4, <1>6 DEF QueryDone, Answered

\* A query that fails while its rows are read keeps the accounts.
LEMMA QueryFailedAccount ==
    ASSUME AccountInv, QueryFailed
    PROVE  AccountInv'
PROOF
  <1> DEFINE s == [S EXCEPT !.tc = ReleasePending(tc)]
             g == IF tc.marks # <<>> THEN EnterRecovery(s) ELSE s
  <1>1. pc = "iterate" /\ pc' = "leave" /\ tok' = NoTok /\ UNCHANGED <<st, back>> /\ Become(g)
    BY DEF QueryFailed
  <1>2. /\ TypeOK /\ GoodOwner(tc, 0) /\ back = "prompt" /\ held = <<>>
        /\ tc.mode = "rw" /\ ~tc.recovering /\ tc \in OwnerType
        /\ st.op \in Ops /\ S \in StateType /\ S.held = <<>>
    BY <1>1, Iterating
  <1>3. Working(ReleasePending(tc), 0) /\ ReleasePending(tc) \in OwnerType
    BY <1>2, ReleasePendingWorks DEF Working, GoodOwner
  <1>4. s \in StateType /\ s.tc = ReleasePending(tc) /\ s.held = <<>>
    BY <1>2, <1>3 DEF StateType
  <1>5. ReleasePending(tc).marks = tc.marks
    BY <1>2 DEF ReleasePending, OwnerType
  <1> HIDE DEF s
  <1>6. g \in StateType /\ GoodOwner(g.tc, 0) /\ Quiet(g.tc) /\ g.held = <<>>
    BY <1>3, <1>4, <1>5, EnterRecoveryGood DEF Working, Quiet
  <1> HIDE DEF g
  <1>7. /\ tc' = g.tc /\ held' = <<>> /\ phys' \in Seq(Answer) /\ durable' \in Seq(Seq(Ops))
        /\ ops' \in 0..MaxOps /\ lost' \in Nat
    BY <1>1, <1>2, <1>6, BecomeGood DEF StateType
  <1> QED BY <1>1, <1>2, <1>6, <1>7, LeaveGood DEF TypeOK

\* What ABORTED makes of the owner of a query in flight
LEMMA QueryAbortedCases ==
    ASSUME AccountInv, QueryAborted
    PROVE  LET s == [S EXCEPT !.tc = ReleasePending(tc)]
           IN  /\ s \in StateType /\ s.tc = ReleasePending(tc) /\ s.held = <<>>
               /\ s.phys = phys /\ s.durable = durable /\ Working(s.tc, 0)
               /\ \E f : Finish("query", f) /\ Failed(s, f) /\ SectionResult("query", f)
PROOF
  <1> DEFINE s == [S EXCEPT !.tc = ReleasePending(tc)]
  <1>1. PICK f : /\ Finish("query", f)
                 /\ \/ f \in Outcome(HandleFailure(s), "failed")
                    \/ tc.retry /\ f \in Recover(s)
    BY DEF QueryAborted
  <1>2. pc = "iterate"
    BY DEF QueryAborted
  <1>3. /\ GoodOwner(tc, 0) /\ held = <<>> /\ S.phys = phys /\ S.durable = durable
        /\ tc.mode = "rw" /\ ~tc.recovering /\ tc \in OwnerType
        /\ S \in StateType /\ S.held = <<>>
    BY <1>2, Iterating
  <1>4. Working(ReleasePending(tc), 0) /\ ReleasePending(tc) \in OwnerType
    BY <1>3, ReleasePendingWorks DEF Working, GoodOwner
  <1>5. /\ s \in StateType /\ s.tc = ReleasePending(tc) /\ s.held = <<>>
        /\ s.phys = phys /\ s.durable = durable
        /\ s.tc.retry = tc.retry /\ s.tc.aborts \in Nat
    <2>1. s \in StateType /\ s.tc = ReleasePending(tc) /\ s.held = <<>>
          /\ s.phys = phys /\ s.durable = durable
      BY <1>3, <1>4 DEF StateType
    <2>2. ReleasePending(tc).retry = tc.retry /\ ReleasePending(tc).aborts \in Nat
      BY <1>3, BoundAssumption DEF ReleasePending, OwnerType
    <2> QED BY <2>1, <2>2
  <1> HIDE DEF s
  <1>6. Failed(s, f)
    BY <1>1, <1>5, RecoverCases DEF Outcome, Failed
  <1>7. SectionResult("query", f)
    BY <1>4, <1>5, <1>6, FailedGood DEF SectionResult, MarkerFor, Remembers
  <1> QED BY <1>1, <1>4, <1>5, <1>6, <1>7 DEF s

\* A query aborted while its rows are read keeps the accounts.
LEMMA QueryAbortedAccount ==
    ASSUME AccountInv, QueryAborted
    PROVE  AccountInv'
PROOF
  <1>1. PICK f : Finish("query", f) /\ SectionResult("query", f)
    BY QueryAbortedCases
  <1>2. /\ TypeOK /\ st.op \in Ops /\ st.kind \in StatementKinds
    BY Iterating DEF QueryAborted
  <1> QED BY <1>1, <1>2, FinishGood DEF SectionPCs, StatementKinds

\* Replayed entries give answers.
LEMMA ReplayedType ==
    ASSUME NEW es \in Seq(Entry), NEW seen \in [DOMAIN es -> Observations]
    PROVE  Replayed(es, seen) \in Seq(Answer)
PROOF
  <1> DEFINE r == Replayed(es, seen)
  <1>1. DOMAIN es = 1..Len(es) /\ Len(es) \in Nat
    OBVIOUS
  <1>2. \A i \in 1..Len(es) : es[i].ops \in Seq(Ops)
    <2>1. \A i \in 1..Len(es) : es[i] \in Entry
      OBVIOUS
    <2> QED BY <2>1 DEF Entry
  <1>3. \A i \in 1..Len(es) : seen[i] \in Observations
    BY <1>1
  <1>4. r = [i \in 1..Len(es) |-> [ops |-> es[i].ops, obs |-> seen[i]]]
    BY <1>1 DEF Replayed
  <1>5. \A i \in 1..Len(es) : [ops |-> es[i].ops, obs |-> seen[i]] \in Answer
    BY <1>2, <1>3 DEF Answer
  <1>6. r \in [1..Len(es) -> Answer]
    BY <1>4, <1>5
  <1> HIDE DEF r
  <1>7. r \in Seq(Answer)
    BY <1>1, <1>6
  <1> QED BY <1>7 DEF r

\* A flush that is repeated has back what it took.
LEMMA RestoredGood ==
    ASSUME NEW s \in StateType, NEW x \in Nat, Working(s.tc, x), Remembers(s)
    PROVE  LET r == Restored(s)
           IN  /\ r \in StateType /\ Working(r.tc, x) /\ r.held = <<>>
               /\ r.phys = s.phys /\ r.durable = s.durable
               /\ s.held # <<>> => r.tc.autoDML = s.held /\ r.tc.queued = s.held
               /\ s.held = <<>> => r = s
               /\ r.tc.entries = s.tc.entries /\ r.tc.marks = s.tc.marks
               /\ r.tc.nextID = s.tc.nextID /\ r.tc.attempt = s.tc.attempt
               /\ r.tc.live = s.tc.live /\ r.tc.expired = s.tc.expired
               /\ r.tc.retry = s.tc.retry /\ r.tc.mode = s.tc.mode
PROOF
  <1>1. CASE s.held = <<>>
    BY <1>1 DEF Restored
  <1>2. CASE s.held # <<>>
    <2> DEFINE o == s.tc
               q == s.held
               p == [Reserve(o, QueueBytes(q)) EXCEPT !.autoDML = q, !.queued = q]
               e == [o EXCEPT !.retained = o.retained - QueueBytes(o.queued) + QueueBytes(q),
                              !.queued = q, !.autoDML = q, !.recovering = FALSE]
               r == [s EXCEPT !.tc = p, !.held = <<>>]
    <2>1. /\ o \in OwnerType /\ GoodOwner(o, x) /\ o.mode = "rw" /\ o.recovering = FALSE /\ Quiet(o)
          /\ o.queued = <<>> /\ o.retained + QueueBytes(q) <= JournalLimit /\ q \in Seq(Ops)
          /\ <<>> \in Seq(Ops)
      BY <1>2 DEF Working, GoodOwner, Remembers, StateType, Quiet, OwnerType
    <2>2. /\ QueueBytes(q) \in Nat /\ QueueBytes(<<>>) = 0 /\ o.retained \in Nat
      BY <2>1, QueueBytesNat, AccountTerms
    <2>3. o.retained - QueueBytes(o.queued) + QueueBytes(q) = o.retained + QueueBytes(q)
      BY <2>1, <2>2
    <2>4. GoodOwner(e, x) /\ Working(e, x)
      <3>1. o.retained - QueueBytes(o.queued) + QueueBytes(q) <= JournalLimit
        BY <2>1, <2>3
      <3> HIDE DEF e, o, q
      <3> QED BY <2>1, <3>1, QueueGood DEF e
    <2>5. p = e
      <3> HIDE DEF q
      <3> QED BY <2>1, <2>3 DEF Reserve, OwnerType
    <2>6. Restored(s) = r
      BY <1>2 DEF Restored
    <2>7. /\ p.entries = o.entries /\ p.marks = o.marks /\ p.nextID = o.nextID
          /\ p.attempt = o.attempt /\ p.live = o.live /\ p.expired = o.expired
          /\ p.retry = o.retry /\ p.mode = o.mode /\ p.autoDML = q /\ p.queued = q
      BY <2>1 DEF Reserve, OwnerType
    <2>8. p \in OwnerType
      <3> HIDE DEF p, e
      <3> QED BY <2>4, <2>5 DEF GoodOwner
    <2>9. Working(p, x)
      <3> HIDE DEF p, e
      <3> QED BY <2>4, <2>5
    <2> HIDE DEF p
    <2>10. r \in StateType /\ r.tc = p /\ r.held = <<>> /\ r.phys = s.phys /\ r.durable = s.durable
      BY <2>1, <2>8 DEF StateType
    <2> HIDE DEF r
    <2> QED BY <1>2, <2>6, <2>7, <2>9, <2>10
  <1> QED BY <1>1, <1>2

\* The owner during the backoff
LEMMA Waits ==
    ASSUME AccountInv, pc = "backoff"
    PROVE  /\ TypeOK /\ S \in StateType /\ S.tc = tc /\ S.held = held /\ S.phys = phys
           /\ S.durable = durable
           /\ back \in SectionPCs /\ MarkerFor(back) \in Nat /\ Working(tc, MarkerFor(back))
           /\ tc.retry /\ Remembers(S)
           /\ back \in {"exec", "query"} => held = <<>> /\ st.kind \in StatementKinds
           /\ back = "savepoint" => held # <<>> /\ st.kind = "savepoint" /\ st.name \in Names
           /\ st.kind \in StatementKinds => st.op \in Ops
PROOF
  <1>1. S.tc = tc /\ S.held = held /\ S.phys = phys /\ S.durable = durable
    BY DEF S
  <1>2. TypeOK /\ S \in StateType
    BY DEF AccountInv, TypeOK, S, StateType
  <1>3. back \in SectionPCs
    BY DEF AccountInv, BackoffInv, SectionPCs
  <1>4. MarkerFor(back) = (IF InSavepoint THEN MarkerBytes ELSE 0) /\ MarkerFor(back) \in Nat
    BY DEF MarkerFor, InSavepoint, MarkerBytes
  <1>5. Working(tc, MarkerFor(back))
    <2>1. GoodOwner(tc, MarkerFor(back))
      BY <1>4 DEF AccountInv, SectionInv
    <2> QED BY <2>1 DEF AccountInv, SectionInv, Working, ReadWritePCs
  <1>6. tc.retry /\ Remembers(S)
    BY <1>1 DEF AccountInv, BackoffInv, Remembers
  <1> QED BY <1>1, <1>2, <1>3, <1>4, <1>5, <1>6
          DEF AccountInv, BackoffInv, StatementInv, InSavepoint

\* The three ways a section goes on after the backoff
ResumeFails(f) == f = [s |-> End(S), r |-> "failed"]
\* The journal is replayed and the section runs again.
ResumeRepeats(f, seen) ==
    /\ seen \in [DOMAIN tc.entries -> Observations] /\ Matches(tc.entries, seen)
    /\ f \in Outcomes(back, Restored([S EXCEPT !.phys = Replayed(tc.entries, seen)]))
\* The replay is aborted in its turn.
ResumeAborts(f) ==
    \E g \in Recover(S) : f \in IF held = <<>> THEN {g} ELSE Settle(back, st.name, g)

\* A backoff ends in a failure, in the section repeated on the replayed
\* journal, or in another abort.
LEMMA ResumeCases ==
    ASSUME Resume
    PROVE  \E f : /\ Finish(back, f)
                  /\ ResumeFails(f) \/ (\E seen : ResumeRepeats(f, seen)) \/ ResumeAborts(f)
PROOF
  BY DEF Resume, Outcome, ResumeFails, ResumeRepeats, ResumeAborts

\* What is worked on when the journal has been replayed
Again(seen) == Restored([S EXCEPT !.phys = Replayed(tc.entries, seen)])

\* After the replay the owner works again with the held queue put back.
LEMMA AgainGood ==
    ASSUME AccountInv, pc = "backoff", NEW seen \in [DOMAIN tc.entries -> Observations]
    PROVE  /\ Again(seen) \in StateType /\ Working(Again(seen).tc, MarkerFor(back))
           /\ Again(seen).held = <<>> /\ Again(seen).phys = Replayed(tc.entries, seen)
           /\ Again(seen).durable = durable
           /\ held # <<>> => Again(seen).tc.autoDML = held /\ Again(seen).tc.queued = held
           /\ held = <<>> => Again(seen).tc = tc
           /\ Again(seen).tc.entries = tc.entries /\ Again(seen).tc.marks = tc.marks
           /\ Again(seen).tc.nextID = tc.nextID /\ Again(seen).tc.attempt = tc.attempt
           /\ Again(seen).tc.live = tc.live /\ Again(seen).tc.expired = tc.expired
           /\ Again(seen).tc.retry = tc.retry /\ Again(seen).tc.mode = tc.mode
PROOF
  <1> DEFINE as == Replayed(tc.entries, seen)
             s == [S EXCEPT !.phys = as]
  <1>1. as \in Seq(Answer)
    BY Waits, AccountTerms, ReplayedType DEF Working, GoodOwner
  <1> HIDE DEF as
  <1>2. s \in StateType /\ s.tc = tc /\ s.held = held /\ s.phys = as /\ s.durable = durable
    BY <1>1, Waits DEF StateType
  <1>3. Again(seen) = Restored(s)
    BY DEF Again, as
  <1> HIDE DEF s
  <1>4. Remembers(s) /\ Working(s.tc, MarkerFor(back)) /\ MarkerFor(back) \in Nat
    BY <1>2, Waits DEF Remembers
  <1> QED BY <1>2, <1>3, <1>4, RestoredGood DEF as

\* The attempt is lost again during the backoff.
LEMMA AbortsAgain ==
    ASSUME AccountInv, pc = "backoff", NEW g \in Recover(S)
    PROVE  /\ Failed(S, g)
           /\ g \in ResultType /\ GoodOwner(g.s.tc, MarkerFor(back)) /\ Quiet(g.s.tc)
           /\ g.r # "ok" /\ g.s.tc.mode \in {"none", "rw"}
           /\ g.r = "wait" => /\ Working(g.s.tc, MarkerFor(back)) /\ g.s.tc.retry
                              /\ g.s.held = held /\ Remembers(g.s)
           /\ held # <<>> => FlushResult(g, MarkerFor(back), "rw")
PROOF
  <1>1. Failed(S, g)
    <2>1. S.tc.aborts \in Nat /\ S.tc.retry
      BY Waits, BoundAssumption DEF StateType, OwnerType
    <2> QED BY <2>1, RecoverCases
  <1>2. /\ g \in ResultType /\ GoodOwner(g.s.tc, MarkerFor(back)) /\ Quiet(g.s.tc)
        /\ g.r # "ok" /\ g.s.tc.mode \in {"none", "rw"}
        /\ g.r = "wait" => /\ Working(g.s.tc, MarkerFor(back)) /\ g.s.tc.retry
                           /\ g.s.held = held /\ Remembers(g.s)
    <2>1. Working(S.tc, MarkerFor(back)) /\ S \in StateType /\ MarkerFor(back) \in Nat
      BY Waits
    <2> QED BY <1>1, <2>1, Waits, FailedGood DEF Remembers
  <1> QED BY <1>1, <1>2 DEF FlushResult

\* However the backoff ends, the section's outcome keeps the accounts.
LEMMA ResumeResult ==
    ASSUME AccountInv, pc = "backoff", NEW f,
           ResumeFails(f) \/ (\E seen : ResumeRepeats(f, seen)) \/ ResumeAborts(f)
    PROVE  SectionResult(back, f)
PROOF
  <1>1. CASE ResumeFails(f)
    <2>1. Quiet(NoOwner)
      BY DEF Quiet, NoOwner
    <2> QED BY <1>1, <2>1, Waits, EndGood DEF ResumeFails, SectionResult, ResultType
  <1>2. CASE \E seen : ResumeRepeats(f, seen)
    <2>1. PICK seen \in [DOMAIN tc.entries -> Observations] : f \in Outcomes(back, Again(seen))
      BY <1>2 DEF ResumeRepeats, Again
    <2>2. /\ Again(seen) \in StateType /\ Again(seen).held = <<>>
          /\ Working(Again(seen).tc, MarkerFor(back))
      BY <2>1, AgainGood
    <2> QED BY <2>1, <2>2, Waits, OutcomesGood DEF Working, Quiet
  <1>3. CASE ResumeAborts(f)
    <2>1. PICK g \in Recover(S) : f \in IF held = <<>> THEN {g} ELSE Settle(back, st.name, g)
      BY <1>3 DEF ResumeAborts
    <2>2. /\ g \in ResultType /\ GoodOwner(g.s.tc, MarkerFor(back)) /\ Quiet(g.s.tc)
          /\ g.r # "ok" /\ g.s.tc.mode \in {"none", "rw"}
          /\ g.r = "wait" => /\ Working(g.s.tc, MarkerFor(back)) /\ g.s.tc.retry
                             /\ g.s.held = held /\ Remembers(g.s)
          /\ held # <<>> => FlushResult(g, MarkerFor(back), "rw")
      BY <2>1, AbortsAgain
    <2>4. CASE held = <<>>
      <3>1. f = g /\ back # "savepoint"
        BY <2>1, <2>4, Waits
      <3> QED BY <2>2, <2>4, <3>1 DEF SectionResult, MarkerFor
    <2>5. CASE held # <<>>
      <3>1. f \in Settle(back, st.name, g) /\ back \in {"flush", "savepoint", "commit"}
            /\ (back = "savepoint" => st.name \in Names)
        BY <2>1, <2>5, Waits DEF SectionPCs
      <3> QED BY <2>2, <2>5, <3>1, SettleGood
    <2> QED BY <2>4, <2>5
  <1> QED BY <1>1, <1>2, <1>3

\* The end of a backoff keeps the accounts.
LEMMA ResumeAccount ==
    ASSUME AccountInv, Resume
    PROVE  AccountInv'
PROOF
  <1>1. pc = "backoff"
    BY DEF Resume
  <1>2. PICK f : /\ Finish(back, f)
                 /\ ResumeFails(f) \/ (\E seen : ResumeRepeats(f, seen)) \/ ResumeAborts(f)
    BY ResumeCases
  <1>3. SectionResult(back, f)
    BY <1>1, <1>2, ResumeResult
  <1> QED BY <1>1, <1>2, <1>3, Waits, FinishGood

\* The owner between two statements
LEMMA AtPrompt ==
    ASSUME AccountInv, pc = "prompt"
    PROVE  /\ TypeOK /\ GoodOwner(tc, 0) /\ Quiet(tc) /\ back = "prompt" /\ held = <<>>
           /\ tok = NoTok /\ tc \in OwnerType
           /\ st.kind \in StatementKinds => st.op \in Ops
           /\ tc.entries \in Seq(Entry) /\ tc.marks \in Seq(Marker)
           /\ tc.queued \in Seq(Ops) /\ tc.retained \in Nat
PROOF
  BY OutsideSavepoint, AccountTerms DEF AccountInv, StatementInv

\* RELEASE cuts the markers only.
LEMMA ReleaseCuts ==
    ASSUME NEW o, GoodOwner(o, 0), NEW i \in 1..Len(o.marks)
    PROVE  [o EXCEPT !.marks = SubSeq(@, 1, i - 1),
                     !.retained = @ - MarkerBytes * (Len(o.marks) - i + 1)]
           = Cut(o, Len(o.entries), i - 1)
PROOF
  <1> DEFINE l == Len(o.marks)
             b == BytesFrom(o.entries, Len(o.entries) + 1)
             w == o.retained
  <1>1. /\ o \in OwnerType /\ o.entries \in Seq(Entry) /\ o.marks \in Seq(Marker)
        /\ w \in Nat /\ l \in Nat /\ i \in Nat
    BY AccountTerms DEF GoodOwner
  <1>2. SubSeq(o.entries, 1, Len(o.entries)) = o.entries
    BY <1>1
  <1>3. b = 0
    <2>1. /\ Len(o.entries) + 1 \in 1..(Len(o.entries) + 1)
          /\ Len(o.entries) + 1 > Len(o.entries)
      BY <1>1
    <2> QED BY <1>1, <2>1, BytesFromEquation
  <1>4. w - MarkerBytes * (l - i + 1) = w - b - MarkerBytes * (l - (i - 1))
    <2>1. MarkerBytes = 1
      BY DEF MarkerBytes
    <2> HIDE DEF l, b, w
    <2> QED BY <1>1, <1>3, <2>1
  <1> HIDE DEF b
  <1> QED BY <1>1, <1>2, <1>4 DEF Cut, OwnerType, b

\* RELEASE drops a marker and what follows it, with the bytes they held.
LEMMA ReleaseAccount ==
    ASSUME AccountInv, Release
    PROVE  AccountInv'
PROOF
  <1>1. /\ pc = "prompt" /\ InTxn /\ pc' = "leave" /\ UNCHANGED <<st, back, tok>> /\ ~tc.recovering
    BY DEF Release, Accepts
  <1>2. /\ TypeOK /\ GoodOwner(tc, 0) /\ Quiet(tc) /\ back = "prompt" /\ held = <<>>
        /\ tok = NoTok /\ tc \in OwnerType /\ tc.marks \in Seq(Marker) /\ tc.entries \in Seq(Entry)
        /\ st.kind \in StatementKinds => st.op \in Ops
    BY <1>1, AtPrompt
  <1>3. PICK i \in DOMAIN tc.marks :
           Become([S EXCEPT !.tc.marks = SubSeq(@, 1, i - 1),
                            !.tc.retained = @ - MarkerBytes * (Len(tc.marks) - i + 1)])
    BY DEF Release
  <1> DEFINE o == Cut(tc, Len(tc.entries), i - 1)
  <1>4. i \in 1..Len(tc.marks) /\ i - 1 \in 0..Len(tc.marks) /\ Len(tc.entries) \in 0..Len(tc.entries)
    BY <1>2
  <1>5. [S EXCEPT !.tc.marks = SubSeq(@, 1, i - 1),
                  !.tc.retained = @ - MarkerBytes * (Len(tc.marks) - i + 1)] = [S EXCEPT !.tc = o]
    <2>1. [S EXCEPT !.tc.marks = SubSeq(@, 1, i - 1),
                    !.tc.retained = @ - MarkerBytes * (Len(tc.marks) - i + 1)]
          = [S EXCEPT !.tc = [tc EXCEPT !.marks = SubSeq(@, 1, i - 1),
                                        !.retained = @ - MarkerBytes * (Len(tc.marks) - i + 1)]]
      BY DEF S
    <2> QED BY <1>2, <1>4, <2>1, ReleaseCuts
  <1>6. GoodOwner(o, 0) /\ Quiet(o)
    <2>1. \A j \in 1..(i - 1) : tc.marks[j].pos <= Len(tc.entries)
      BY <1>2, <1>4 DEF GoodOwner, MarksOrdered
    <2> QED BY <1>1, <1>2, <1>4, <2>1, CutGood DEF InTxn
  <1> HIDE DEF o
  <1>7. /\ tc' = o /\ phys' = phys /\ held' = held /\ durable' = durable
        /\ ops' \in 0..MaxOps /\ lost' \in Nat
    BY <1>3, <1>5, <1>6, BecomeWith DEF GoodOwner
  <1> QED BY <1>1, <1>2, <1>6, <1>7, LeaveGood DEF TypeOK

\* The queue of an owner is forgotten, and its recovery over.
Emptied(o) ==
    [o EXCEPT !.retained = o.retained - QueueBytes(o.queued), !.queued = <<>>,
              !.autoDML = <<>>, !.recovering = FALSE]

\* Dropping the queue gives back its bytes and ends recovery.
LEMMA EmptiedGood ==
    ASSUME NEW o, GoodOwner(o, 0), Quiet(o), o.mode # "none"
    PROVE  LET r == Emptied(o)
           IN  /\ GoodOwner(r, 0) /\ Quiet(r)
               /\ r.entries = o.entries /\ r.marks = o.marks /\ r.mode = o.mode
               /\ r.recovering = FALSE /\ r.queued = <<>> /\ r.autoDML = <<>>
               /\ r.attempt = o.attempt /\ r.nextID = o.nextID
PROOF
  <1> DEFINE r == Emptied(o)
  <1>1. /\ o \in OwnerType /\ o.retained \in Nat /\ o.queued \in Seq(Ops)
        /\ QueueBytes(o.queued) \in Nat /\ QueueBytes(<<>>) = 0 /\ <<>> \in Seq(Ops)
        /\ o.retained <= JournalLimit
    BY AccountTerms, QueueBytesNat, BoundAssumption DEF GoodOwner, OwnerType
  <1>2. /\ r.entries = o.entries /\ r.marks = o.marks /\ r.mode = o.mode
        /\ r.recovering = FALSE /\ r.queued = <<>> /\ r.autoDML = <<>>
        /\ r.attempt = o.attempt /\ r.nextID = o.nextID
        /\ r.reserved = o.reserved /\ r.inFlight = o.inFlight
    BY <1>1 DEF Emptied, OwnerType
  <1>3. CASE o.mode = "rw"
    <2> DEFINE n == QueueBytes(o.queued)
               w == o.retained
               e == [o EXCEPT !.retained = o.retained - QueueBytes(o.queued) + QueueBytes(<<>>),
                              !.queued = <<>>, !.autoDML = <<>>, !.recovering = FALSE]
    <2>1. w - n + QueueBytes(<<>>) <= JournalLimit /\ w - n + QueueBytes(<<>>) = w - n
      <3> HIDE DEF n, w
      <3> QED BY <1>1, BoundAssumption DEF n, w
    <2>2. r = e
      BY <1>1, <2>1 DEF Emptied
    <2>3. GoodOwner(e, 0) /\ Working(e, 0)
      <3> DEFINE q == <<>>
      <3>1. /\ q \in Seq(Ops) /\ w - n + QueueBytes(q) <= JournalLimit
            /\ e = [o EXCEPT !.retained = o.retained - QueueBytes(o.queued) + QueueBytes(q),
                             !.queued = q, !.autoDML = q, !.recovering = FALSE]
        BY <1>1, <2>1
      <3> HIDE DEF e, q
      <3>2. GoodOwner(e, 0) /\ (Quiet(o) => Working(e, 0))
        BY <1>3, <3>1, QueueGood
      <3> QED BY <3>2
    <2> HIDE DEF e, r
    <2> QED BY <1>2, <2>2, <2>3 DEF Working, Quiet, r
  <1>4. CASE o.mode # "rw"
    <2>1. o.queued = <<>> /\ o.autoDML = <<>> /\ o.recovering = FALSE
      BY <1>1, <1>4 DEF GoodOwner, OwnerShape, OwnerType
    <2>2. o.retained - QueueBytes(o.queued) = o.retained
      BY <1>1, <2>1
    <2>3. r = o
      BY <1>1, <2>1, <2>2 DEF Emptied, OwnerType
    <2> QED BY <1>2, <2>3
  <1> QED BY <1>3, <1>4

\* ROLLBACK TO empties the queue and cuts the journal at the marker.
RolledBack(o, i) ==
    [RollbackToMarker(DropQueued(o), i) EXCEPT !.autoDML = <<>>, !.recovering = FALSE]

\* ROLLBACK TO is the dropped queue followed by the truncation to the marker.
LEMMA RolledBackCuts ==
    ASSUME NEW o \in OwnerType, NEW i
    PROVE  RolledBack(o, i) = Cut(Emptied(o), o.marks[i].pos, i)
PROOF
  <1> DEFINE d == DropQueued(o)
             e == Emptied(o)
  <1>1. /\ d = [o EXCEPT !.retained = o.retained - QueueBytes(o.queued), !.queued = <<>>]
        /\ d.marks = o.marks /\ d.entries = o.entries
        /\ e = [d EXCEPT !.autoDML = <<>>, !.recovering = FALSE]
        /\ e.marks = o.marks /\ e.entries = o.entries
        /\ e.retained = d.retained
    BY DEF DropQueued, Emptied, OwnerType
  <1>2. DOMAIN d = DOMAIN o
    BY <1>1
  <1> DEFINE p == o.marks[i].pos
             es == SubSeq(o.entries, 1, p)
             ms == SubSeq(o.marks, 1, i)
             w == d.retained - BytesFrom(o.entries, p + 1) - MarkerBytes * (Len(o.marks) - i)
  <1>3. RollbackToMarker(d, i) = [d EXCEPT !.entries = es, !.marks = ms, !.retained = w]
    BY <1>1 DEF RollbackToMarker
  <1>4. Cut(e, p, i) = [e EXCEPT !.entries = es, !.marks = ms, !.retained = w]
    BY <1>1 DEF Cut
  <1> HIDE DEF p, es, ms, w, d, e
  <1>5. [[d EXCEPT !.entries = es, !.marks = ms, !.retained = w]
            EXCEPT !.autoDML = <<>>, !.recovering = FALSE]
        = [e EXCEPT !.entries = es, !.marks = ms, !.retained = w]
    BY <1>1, <1>2 DEF OwnerType
  <1> QED BY <1>3, <1>4, <1>5 DEF RolledBack, p, d, e

\* ROLLBACK TO keeps the accounts, and the marker itself.
LEMMA RolledBackGood ==
    ASSUME NEW o, GoodOwner(o, 0), Quiet(o), o.mode # "none", NEW i \in DOMAIN o.marks
    PROVE  LET r == RolledBack(o, i)
           IN  /\ GoodOwner(r, 0) /\ Quiet(r)
               /\ r.entries = SubSeq(o.entries, 1, o.marks[i].pos)
               /\ r.marks = SubSeq(o.marks, 1, i)
               /\ r.mode = o.mode /\ r.recovering = FALSE /\ r.queued = <<>> /\ r.autoDML = <<>>
               /\ r.attempt = o.attempt /\ r.nextID = o.nextID
PROOF
  <1> DEFINE e == Emptied(o)
             p == o.marks[i].pos
  <1>1. /\ o \in OwnerType /\ o.marks \in Seq(Marker) /\ o.entries \in Seq(Entry)
    BY AccountTerms DEF GoodOwner
  <1>2. /\ GoodOwner(e, 0) /\ Quiet(e)
        /\ e.entries = o.entries /\ e.marks = o.marks /\ e.mode = o.mode
        /\ e.recovering = FALSE /\ e.queued = <<>> /\ e.autoDML = <<>>
        /\ e.attempt = o.attempt /\ e.nextID = o.nextID
    BY EmptiedGood
  <1> HIDE DEF e
  <1>3. /\ i \in 0..Len(e.marks) /\ i \in 1..Len(o.marks)
        /\ p \in 0..Len(e.entries)
        /\ \A j \in 1..i : e.marks[j].pos <= p
    <2>1. i \in 1..Len(o.marks) /\ Len(o.marks) \in Nat
      BY <1>1
    <2>2. p \in Nat /\ p <= Len(o.entries)
      BY <1>1, MarkerFields DEF GoodOwner, MarksOrdered
    <2>3. \A j \in 1..i : j \in DOMAIN o.marks /\ j <= i
      BY <1>1, <2>1
    <2>4. \A j \in 1..i : o.marks[j].pos <= p
      BY <2>3 DEF GoodOwner, MarksOrdered
    <2>5. Len(o.entries) \in Nat
      BY <1>1
    <2> QED BY <1>2, <2>1, <2>2, <2>4, <2>5
  <1> HIDE DEF p
  <1>4. RolledBack(o, i) = Cut(e, p, i)
    BY <1>1, RolledBackCuts DEF e, p
  <1> DEFINE c == Cut(e, p, i)
  <1>5. /\ GoodOwner(c, 0) /\ (Quiet(e) => Quiet(c))
        /\ c.entries = SubSeq(e.entries, 1, p) /\ c.marks = SubSeq(e.marks, 1, i)
        /\ c.mode = e.mode /\ c.recovering = e.recovering /\ c.queued = e.queued
        /\ c.autoDML = e.autoDML /\ c.attempt = e.attempt /\ c.nextID = e.nextID
    BY <1>2, <1>3, CutGood
  <1> HIDE DEF c
  <1>6. RolledBack(o, i) = c
    BY <1>4 DEF c
  <1> QED BY <1>2, <1>5, <1>6 DEF p

\* ROLLBACK TO, replayed at once or left to the next use, keeps the accounts.
LEMMA RollbackToAccount ==
    ASSUME AccountInv, RollbackTo
    PROVE  AccountInv'
PROOF
  <1>1. /\ pc = "prompt" /\ InTxn /\ pc' = "leave" /\ UNCHANGED <<st, back, tok>>
    BY DEF RollbackTo
  <1>2. /\ TypeOK /\ GoodOwner(tc, 0) /\ Quiet(tc) /\ back = "prompt" /\ held = <<>>
        /\ tok = NoTok /\ tc \in OwnerType /\ tc.mode # "none"
        /\ st.kind \in StatementKinds => st.op \in Ops
    BY <1>1, AtPrompt DEF InTxn
  <1>3. PICK i \in DOMAIN tc.marks :
          LET o == RolledBack(tc, i)
          IN  \/ Become([S EXCEPT !.tc = o])
              \/ \E seen \in [DOMAIN o.entries -> Observations] :
                    Become([S EXCEPT !.tc = [o EXCEPT !.live = TRUE, !.attempt = @ + 1],
                                     !.phys = Replayed(o.entries, seen)])
              \/ Become(End(S))
    BY DEF RollbackTo, RolledBack
  <1> DEFINE o == RolledBack(tc, i)
             r == [o EXCEPT !.live = TRUE, !.attempt = @ + 1]
  <1>4. /\ GoodOwner(o, 0) /\ Quiet(o) /\ o.mode = tc.mode /\ o.recovering = FALSE
    BY <1>2, RolledBackGood
  <1> HIDE DEF o
  <1>5. o \in OwnerType /\ o.entries \in Seq(Entry)
    BY <1>4, AccountTerms DEF GoodOwner
  <1>6. CASE Become([S EXCEPT !.tc = o])
    <2>1. /\ tc' = o /\ phys' = phys /\ held' = held /\ durable' = durable
          /\ ops' \in 0..MaxOps /\ lost' \in Nat
      BY <1>5, <1>6, BecomeWith
    <2> QED BY <1>1, <1>2, <1>4, <2>1, LeaveGood DEF TypeOK
  <1>7. ASSUME NEW seen \in [DOMAIN o.entries -> Observations],
               Become([S EXCEPT !.tc = r, !.phys = Replayed(o.entries, seen)])
        PROVE  AccountInv'
    <2> DEFINE s == [S EXCEPT !.tc = r, !.phys = Replayed(o.entries, seen)]
    <2>1. r \in OwnerType /\ SameAccounts(o, r)
      <3>1. r \in OwnerType
        <4>1. o.attempt + 1 \in Nat /\ r = [o EXCEPT !.live = TRUE, !.attempt = o.attempt + 1]
          BY <1>5 DEF OwnerType
        <4> HIDE DEF r
        <4> QED BY <1>5, <4>1 DEF OwnerType
      <3>2. /\ r.retained = o.retained /\ r.entries = o.entries /\ r.marks = o.marks
            /\ r.queued = o.queued /\ r.autoDML = o.autoDML
            /\ r.reserved = o.reserved /\ r.inFlight = o.inFlight
            /\ r.mode = o.mode /\ r.recovering = o.recovering
        BY <1>5 DEF OwnerType
      <3> QED BY <1>4, <3>1, <3>2 DEF SameAccounts
    <2>2. GoodOwner(r, 0) /\ Quiet(r)
      BY <1>2, <1>4, <2>1, SameAccountsGood
    <2>3. Replayed(o.entries, seen) \in Seq(Answer)
      BY <1>5, <1>7, ReplayedType
    <2>4. s.tc = r /\ s.phys = Replayed(o.entries, seen) /\ s.held = held /\ s.durable = durable
      BY DEF S
    <2>5. Become(s)
      BY <1>7
    <2> HIDE DEF s, r
    <2>6. /\ tc' = r /\ phys' \in Seq(Answer) /\ held' = held /\ durable' = durable
          /\ ops' \in 0..MaxOps /\ lost' \in Nat
      BY <1>2, <2>1, <2>3, <2>4, <2>5, BecomeGood DEF TypeOK
    <2> QED BY <1>1, <1>2, <2>2, <2>6, LeaveGood DEF TypeOK
  <1>8. CASE Become(End(S))
    BY <1>1, <1>2, <1>8, AtPrompt, BecomeEnd, LeaveGood DEF TypeOK
  <1> QED BY <1>3, <1>6, <1>7, <1>8 DEF o

\* ROLLBACK ends the owner and its accounts.
LEMMA RollbackAccount ==
    ASSUME AccountInv, Rollback
    PROVE  AccountInv'
PROOF
  <1>1. /\ pc = "prompt" /\ Become(End(S)) /\ pc' = "leave" /\ UNCHANGED <<st, back, tok>>
    BY DEF Rollback
  <1> QED BY <1>1, AtPrompt, BecomeEnd, LeaveGood DEF TypeOK

\* ABORT BATCH drops the queue and gives back its bytes.
LEMMA AbortBatchAccount ==
    ASSUME AccountInv, AbortBatch
    PROVE  AccountInv'
PROOF
  <1>1. /\ pc = "prompt" /\ tc.mode # "none" /\ ~tc.recovering /\ pc' = "leave"
        /\ Become([S EXCEPT !.tc = [DropQueued(tc) EXCEPT !.autoDML = <<>>]])
        /\ st' = [kind |-> "abortBatch", op |-> 0, name |-> "none"]
        /\ UNCHANGED <<back, tok>>
    BY DEF AbortBatch, Accepts, InTxn
  <1>2. /\ TypeOK /\ GoodOwner(tc, 0) /\ Quiet(tc) /\ back = "prompt" /\ held = <<>>
        /\ tok = NoTok /\ tc \in OwnerType
    BY <1>1, AtPrompt
  <1>3. [DropQueued(tc) EXCEPT !.autoDML = <<>>] = Emptied(tc)
    BY <1>1, <1>2 DEF DropQueued, Emptied, OwnerType
  <1>4. GoodOwner(Emptied(tc), 0) /\ Quiet(Emptied(tc))
    BY <1>1, <1>2, EmptiedGood
  <1>5. /\ tc' = Emptied(tc) /\ phys' = phys /\ held' = held /\ durable' = durable
        /\ ops' \in 0..MaxOps /\ lost' \in Nat
    BY <1>1, <1>3, <1>4, BecomeWith DEF GoodOwner
  <1>6. /\ st' \in [kind: Kinds, op: 0..MaxOps, name: Names \cup {"none"}]
        /\ st'.kind \notin StatementKinds
    BY <1>1, BoundAssumption DEF StatementKinds, Kinds
  <1> QED BY <1>1, <1>2, <1>4, <1>5, <1>6, LeaveGood DEF TypeOK

\* Leaving the statement keeps the accounts.
LEMMA LeaveAccount ==
    ASSUME AccountInv, Leave
    PROVE  AccountInv'
PROOF
  <1>1. /\ pc = "leave" /\ Become(IF tc.expired THEN End(S) ELSE S)
        /\ pc' = IF tok = NoTok THEN "prompt" ELSE "display"
        /\ st' = NoStatement /\ UNCHANGED <<back, tok>>
    BY DEF Leave
  <1>2. /\ TypeOK /\ GoodOwner(tc, 0) /\ Quiet(tc) /\ back = "prompt" /\ held = <<>>
    BY <1>1, OutsideSavepoint DEF AccountInv
  <1>3. /\ GoodOwner(tc', 0) /\ Quiet(tc') /\ held' = <<>> /\ phys' \in Seq(Answer)
        /\ durable' \in Seq(Seq(Ops)) /\ ops' \in 0..MaxOps /\ lost' \in Nat
        /\ tc' = tc \/ tc' = NoOwner
    <2>1. CASE Become(End(S))
      <3>1. <<>> \in Seq(Answer)
        OBVIOUS
      <3> QED BY <1>2, <2>1, <3>1, BecomeEnd DEF TypeOK
    <2>2. CASE Become(S)
      BY <1>2, <2>2, BecomeSame DEF TypeOK
    <2> QED BY <1>1, <2>1, <2>2
  <1>4. ResultInv'
    <2>1. NoOwner.mode = "none" /\ ~NoOwner.recovering
      BY DEF NoOwner
    <2> QED BY <1>1, <1>3, <2>1 DEF AccountInv, ResultInv
  <1>5. /\ st' \in [kind: Kinds, op: 0..MaxOps, name: Names \cup {"none"}]
        /\ st'.kind \notin StatementKinds
    BY <1>1, BoundAssumption DEF StatementKinds, Kinds, NoStatement
  <1> QED BY <1>1, <1>2, <1>3, <1>4, <1>5, ShowGood DEF TypeOK

\* The owner after a retraction
LEMMA RetractGood ==
    ASSUME NEW o, GoodOwner(o, 0), Quiet(o), o.mode = "rw", ~o.recovering, NEW id
    PROVE  LET r == Retract(o, id)
           IN  /\ GoodOwner(r, 0) /\ Quiet(r) /\ r.mode = "rw" /\ ~r.recovering
               /\ r.nextID = o.nextID /\ r.attempt = o.attempt
PROOF
  <1>1. CASE Retract(o, id) = o
    BY <1>1
  <1>2. ASSUME NEW i \in 1..Len(o.entries), NEW k \in 0..Len(o.marks),
               Retract(o, id) = Cut(o, i - 1, k),
               \A j \in DOMAIN o.marks : j <= k <=> o.marks[j].pos <= i - 1
        PROVE  LET r == Retract(o, id)
               IN  /\ GoodOwner(r, 0) /\ Quiet(r) /\ r.mode = "rw" /\ ~r.recovering
                   /\ r.nextID = o.nextID /\ r.attempt = o.attempt
    <2>1. o.marks \in Seq(Marker) /\ o.entries \in Seq(Entry)
      BY AccountTerms DEF GoodOwner
    <2>2. i - 1 \in 0..Len(o.entries) /\ \A j \in 1..k : o.marks[j].pos <= i - 1
      BY <1>2, <2>1
    <2> DEFINE p == i - 1
               c == Cut(o, p, k)
    <2>3. p \in 0..Len(o.entries) /\ (\A j \in 1..k : o.marks[j].pos <= p)
      BY <2>2
    <2>4. GoodOwner(c, 0) /\ Quiet(c) /\ c.mode = "rw" /\ ~c.recovering
          /\ c.nextID = o.nextID /\ c.attempt = o.attempt
      <3> HIDE DEF p
      <3> QED BY <2>3, CutGood
    <2> HIDE DEF c
    <2>5. Retract(o, id) = c
      BY <1>2 DEF c
    <2> QED BY <2>4, <2>5
  <1> QED BY <1>1, <1>2, RetractCuts

\* Retracting a statement whose rows could not be displayed keeps the
\* accounts.
LEMMA DisplayFailedAccount ==
    ASSUME AccountInv, DisplayFailed
    PROVE  AccountInv'
PROOF
  <1> DEFINE o == IF tok.plan THEN tc ELSE Retract(tc, tok.id)
             s == [S EXCEPT !.tc = o]
  <1>1. /\ pc = "display" /\ pc' = "prompt" /\ tok' = NoTok /\ UNCHANGED <<st, back>>
        /\ Become(IF ~Belongs THEN S ELSE HandleFailure(s))
    BY DEF DisplayFailed
  <1>2. /\ TypeOK /\ GoodOwner(tc, 0) /\ Quiet(tc) /\ back = "prompt" /\ held = <<>>
        /\ S \in StateType /\ (st.kind \in StatementKinds => st.op \in Ops)
    BY <1>1, OutsideSavepoint DEF AccountInv, StatementInv
  <1>3. CASE Become(S)
    BY <1>1, <1>2, <1>3, BecomeSame, LeaveGood DEF TypeOK
  <1>4. CASE Belongs /\ Become(HandleFailure(s))
    <2>1. tc.mode = "rw" /\ ~tc.recovering
      BY <1>1, <1>4 DEF Belongs, InTxn, AccountInv, ResultInv
    <2>2. GoodOwner(o, 0) /\ Quiet(o) /\ o.mode = "rw"
      BY <1>2, <2>1, RetractGood
    <2> HIDE DEF o
    <2>3. s \in StateType /\ s.tc = o
      BY <1>2, <2>2 DEF StateType, GoodOwner
    <2> HIDE DEF s
    <2> DEFINE h == HandleFailure(s)
    <2>4. h \in StateType /\ GoodOwner(h.tc, 0) /\ Quiet(h.tc) /\ h.held = <<>>
      BY <2>2, <2>3, HandleFailureGood DEF Quiet
    <2> HIDE DEF h
    <2>5. Become(h)
      BY <1>4 DEF h
    <2>6. /\ tc' = h.tc /\ held' = <<>> /\ phys' \in Seq(Answer) /\ durable' \in Seq(Seq(Ops))
          /\ ops' \in 0..MaxOps /\ lost' \in Nat
      BY <1>2, <2>4, <2>5, BecomeGood DEF StateType
    <2> QED BY <1>1, <1>2, <2>4, <2>6, LeaveGood DEF TypeOK
  <1> QED BY <1>1, <1>3, <1>4

\* A displayed statement leaves the owner alone.
LEMMA DisplayDoneAccount ==
    ASSUME AccountInv, DisplayDone
    PROVE  AccountInv'
PROOF
  <1>1. pc = "display" /\ Become(S) /\ pc' = "prompt" /\ tok' = NoTok /\ UNCHANGED <<st, back>>
    BY DEF DisplayDone
  <1> QED BY <1>1, OutsideSavepoint, BecomeSame, LeaveGood DEF AccountInv, StatementInv, TypeOK

\* A transaction that expires between statements keeps its accounts or ends.
LEMMA ExpireAccount ==
    ASSUME AccountInv, Expire
    PROVE  AccountInv'
PROOF
  <1>1. /\ InTxn /\ UNCHANGED <<pc, st, back, tok>>
        /\ Become(IF pc \in {"prompt", "display"} THEN End(S) ELSE [S EXCEPT !.tc.expired = TRUE])
    BY DEF Expire
  <1>2. CASE pc \in {"prompt", "display"} /\ Become(End(S))
    <2>1. /\ TypeOK /\ back = "prompt" /\ (st.kind \in StatementKinds => st.op \in Ops)
      BY <1>2, OutsideSavepoint DEF AccountInv, StatementInv
    <2>2. ResultInv'
      <3>1. NoOwner.mode = "none" /\ ~NoOwner.recovering
        BY DEF NoOwner
      <3> QED BY <1>1, <1>2, <3>1, BecomeEnd DEF AccountInv, ResultInv
    <2>3. <<>> \in Seq(Answer)
      OBVIOUS
    <2> QED BY <1>1, <1>2, <2>1, <2>2, <2>3, BecomeEnd, ShowGood DEF TypeOK
  <1>3. CASE pc \notin {"prompt", "display"} /\ Become([S EXCEPT !.tc.expired = TRUE])
    <2> DEFINE o == [tc EXCEPT !.expired = TRUE]
               m == IF InSavepoint THEN MarkerBytes ELSE 0
    <2>1. tc \in OwnerType /\ GoodOwner(tc, m) /\ tc.mode # "none"
      BY <1>1 DEF AccountInv, TypeOK, SectionInv, InTxn
    <2>2. o \in OwnerType /\ SameAccounts(tc, o) /\ o.retry = tc.retry
      BY <2>1 DEF OwnerType, SameAccounts
    <2>3. GoodOwner(o, m) /\ o.mode # "none"
      BY <2>1, <2>2, SameAccountsGood DEF SameAccounts
    <2>4. [S EXCEPT !.tc.expired = TRUE] = [S EXCEPT !.tc = o]
      BY DEF S
    <2> HIDE DEF o
    <2>5. /\ tc' = o /\ phys' = phys /\ held' = held /\ durable' = durable
          /\ ops' \in 0..MaxOps /\ lost' \in Nat
      BY <1>3, <2>2, <2>4, BecomeWith
    <2>6. TypeOK'
      BY <1>1, <2>2, <2>5 DEF AccountInv, TypeOK
    <2>7. SectionInv'
      BY <1>1, <2>2, <2>3, <2>5 DEF AccountInv, SectionInv, InSavepoint, InTxn, SameAccounts
    <2>8. StatementInv'
      BY <1>1 DEF AccountInv, StatementInv, InSavepoint
    <2>9. BackoffInv'
      BY <1>1, <2>2, <2>5 DEF AccountInv, BackoffInv, SameAccounts
    <2>10. ResultInv'
      BY <1>1, <2>2, <2>5 DEF AccountInv, ResultInv, SameAccounts
    <2> QED BY <2>6, <2>7, <2>8, <2>9, <2>10 DEF AccountInv
  <1> QED BY <1>1, <1>2, <1>3

\* Stuttering changes nothing.
LEMMA StutterAccount ==
    ASSUME AccountInv, UNCHANGED vars
    PROVE  AccountInv'
PROOF
  BY DEF vars, AccountInv, TypeOK, SectionInv, StatementInv, BackoffInv, ResultInv, InSavepoint, InTxn

\* Every step keeps AccountInv.
LEMMA StepAccount == AccountInv /\ [Next]_vars => AccountInv'
PROOF
  BY SubmitDMLAccount, SubmitEndAccount, SubmitSavepointAccount, BeginAccount,
     ReleaseAccount, RollbackToAccount, RollbackAccount, AbortBatchAccount,
     DetermineAccount, EnqueueAccount, SectionAccount, QueryAccount, QueryDoneAccount,
     QueryFailedAccount, QueryAbortedAccount, ResumeAccount, LeaveAccount,
     DisplayFailedAccount, DisplayDoneAccount, ExpireAccount, StutterAccount
  DEF Next, Statement

\* In every state the accounts are exact and the owner has the shape its mode
\* calls for.
THEOREM AccountsInvariant == Spec => []AccountInv
PROOF
  BY InitAccount, StepAccount, PTL DEF Spec

\* TypeOK holds in every state, for every bound: an owner's fields, the
\* journal and its markers, the queue and the answers stay in their types
\* through every retry, replay and recovery.
THEOREM TypeCorrect == Spec => []TypeOK
PROOF
  <1>1. AccountInv => TypeOK
    BY DEF AccountInv
  <1> QED BY <1>1, AccountsInvariant, PTL

----------------------------------------------------------------------------
(* The server transaction and the journal.                                 *)

\* PhysicalMatchesJournal, of a state a section works on
Synced(s) ==
    /\ s.tc.mode = "rw" /\ s.tc.live => s.phys = Answers(s.tc.entries)
    /\ s.tc.mode = "rw" => s.tc.live = ~s.tc.recovering
    /\ s.tc.mode # "rw" => s.phys = <<>>

\* ... and of the result of a section
ResultSynced(f) == IF f.r = "wait" THEN f.s.tc.live ELSE Synced(f.s)

\* The answers of a journal with one more entry.
LEMMA AnswersAppend ==
    ASSUME NEW es \in Seq(Entry), NEW e \in Entry
    PROVE  Answers(Append(es, e)) = Append(Answers(es), [ops |-> e.ops, obs |-> e.obs])
PROOF
  <1> DEFINE a == Answers(Append(es, e))
             b == Append(Answers(es), [ops |-> e.ops, obs |-> e.obs])
             n == Len(es)
  <1>1. /\ n \in Nat /\ DOMAIN es = 1..n /\ DOMAIN Append(es, e) = 1..(n + 1)
        /\ \A i \in 1..n : Append(es, e)[i] = es[i]
        /\ Append(es, e)[n + 1] = e
    OBVIOUS
  <1>2. /\ a = [i \in 1..(n + 1) |-> [ops |-> Append(es, e)[i].ops, obs |-> Append(es, e)[i].obs]]
        /\ Answers(es) = [i \in 1..n |-> [ops |-> es[i].ops, obs |-> es[i].obs]]
    BY <1>1 DEF Answers
  <1>3. \A i \in 1..n : [ops |-> es[i].ops, obs |-> es[i].obs] \in Answer
    <2>1. \A i \in 1..n : es[i] \in Entry
      BY <1>1
    <2> QED BY <2>1 DEF Entry, Answer
  <1>4. Answers(es) \in Seq(Answer) /\ Len(Answers(es)) = n
    BY <1>1, <1>2, <1>3
  <1>5. [ops |-> e.ops, obs |-> e.obs] \in Answer
    BY DEF Entry, Answer
  <1>6. /\ b \in Seq(Answer) /\ Len(b) = n + 1 /\ DOMAIN b = 1..(n + 1)
        /\ b[n + 1] = [ops |-> e.ops, obs |-> e.obs]
        /\ \A i \in 1..n : b[i] = Answers(es)[i]
    BY <1>1, <1>4, <1>5
  <1>7. DOMAIN a = 1..(n + 1) /\ a = [i \in 1..(n + 1) |-> a[i]] /\ b = [i \in 1..(n + 1) |-> b[i]]
    BY <1>2, <1>6
  <1>8. \A i \in 1..(n + 1) : a[i] = b[i]
    <2> HIDE DEF b
    <2>1. \A i \in 1..n : a[i] = b[i]
      BY <1>1, <1>2, <1>6
    <2>2. a[n + 1] = b[n + 1]
      BY <1>1, <1>2, <1>6
    <2> QED BY <1>1, <2>1, <2>2
  <1> HIDE DEF a, b
  <1>9. a = b
    BY <1>7, <1>8
  <1> QED BY <1>9 DEF a, b

\* A replay that is accepted has the answers of the journal.
LEMMA ReplayedAnswers ==
    ASSUME NEW es \in Seq(Entry), NEW seen, Matches(es, seen)
    PROVE  Replayed(es, seen) = Answers(es)
PROOF
  BY DEF Replayed, Answers, Matches

\* Without an owner there are no answers to agree with.
LEMMA NoOwnerSynced ==
    ASSUME NEW s, s.tc = NoOwner, s.phys = <<>>
    PROVE  Synced(s)
PROOF
  BY DEF Synced, NoOwner

\* After a failure the server's transaction is gone or holds what the journal
\* says.
LEMMA FailedSynced ==
    ASSUME NEW s \in StateType, NEW x \in Nat, GoodOwner(s.tc, x), s.tc.mode = "rw",
           NEW f, Failed(s, f)
    PROVE  ResultSynced(f)
PROOF
  <1>1. CASE f.r # "wait" /\ f.s = HandleFailure(s)
    <2>1. Synced(HandleFailure(s))
      BY HandleFailureGood, NoOwnerSynced DEF Synced, StateType, OwnerType
    <2> QED BY <1>1, <2>1 DEF ResultSynced
  <1>2. CASE f.r # "wait" /\ f.s = End(s)
    BY <1>2, EndGood, NoOwnerSynced DEF ResultSynced
  <1>3. CASE f = [s |-> Reconstruct(s), r |-> "wait"]
    <2>1. Reconstruct(s).tc.live = TRUE
      BY DEF Reconstruct, ReleasePending, StateType, OwnerType
    <2> QED BY <1>3, <2>1 DEF ResultSynced
  <1> QED BY <1>1, <1>2, <1>3 DEF Failed

\* The server executes what is journaled.
LEMMA ExecutedSynced ==
    ASSUME NEW s \in StateType, NEW o \in OwnerType, NEW os \in Seq(Ops), NEW v \in Observations,
           o.mode = "rw", o.live => s.phys = Answers(o.entries), o.live = ~o.recovering
    PROVE  Synced(Executed(s, o, os, os, v))
PROOF
  <1> DEFINE e == [id |-> o.nextID + 1, ops |-> os, obs |-> v]
             j == Journal(o, os, v)
             r == [s EXCEPT !.tc = j, !.phys = Append(@, [ops |-> os, obs |-> v])]
  <1>1. e \in Entry /\ o.entries \in Seq(Entry)
    BY AccountTerms DEF Entry, OwnerType
  <1>2. /\ j.mode = "rw" /\ j.live = o.live /\ j.entries = Append(o.entries, e)
        /\ j.recovering = o.recovering
    BY DEF Journal, OwnerType
  <1>3. r.tc = j /\ r.phys = Append(s.phys, [ops |-> os, obs |-> v])
    BY DEF StateType
  <1>4. Answers(Append(o.entries, e)) = Append(Answers(o.entries), [ops |-> os, obs |-> v])
    <2>1. e.ops = os /\ e.obs = v
      OBVIOUS
    <2> HIDE DEF e
    <2> QED BY <1>1, <2>1, AnswersAppend
  <1> HIDE DEF e, j, r
  <1>5. Synced(r)
    BY <1>2, <1>3, <1>4 DEF Synced
  <1> QED BY <1>5 DEF Executed, r, j

\* A DML statement is journaled with the answer the server gave.
LEMMA ExecSynced ==
    ASSUME NEW s \in StateType, NEW os \in Seq(Ops), Working(s.tc, 0), Synced(s),
           NEW f \in ExecOutcomes(s, os)
    PROVE  ResultSynced(f)
PROOF
  <1>1. s.tc.aborts \in Nat /\ s.tc \in OwnerType /\ GoodOwner(s.tc, 0) /\ s.tc.mode = "rw"
    BY BoundAssumption DEF StateType, OwnerType, Working
  <1>2. CASE Failed(s, f)
    BY <1>1, <1>2, FailedSynced
  <1>3. ASSUME NEW v \in Observations, Room(s.tc, Bytes(os)),
               f = [s |-> Executed(s, Reserve(s.tc, Bytes(os)), os, os, v), r |-> "ok"]
        PROVE  ResultSynced(f)
    <2> DEFINE o == Reserve(s.tc, Bytes(os))
    <2>1. o \in OwnerType
      <3>1. Bytes(os) \in Nat /\ Working(s.tc, 0)
        BY QueueBytesNat
      <3> QED BY <1>3, <3>1, ReserveWorks DEF Working, GoodOwner
    <2>2. /\ o.mode = "rw" /\ o.live = s.tc.live /\ o.entries = s.tc.entries
          /\ o.recovering = s.tc.recovering
      BY <1>1 DEF Reserve, OwnerType
    <2> HIDE DEF o
    <2>3. Synced(Executed(s, o, os, os, v))
      BY <1>1, <2>1, <2>2, ExecutedSynced DEF Synced
    <2> QED BY <1>3, <2>3 DEF o, ResultSynced
  <1>4. CASE f = [s |-> s, r |-> "failed"]
    BY <1>4 DEF ResultSynced
  <1> QED BY <1>1, <1>2, <1>3, <1>4, ExecCases

\* A flushed queue is journaled with the answer the server gave.
LEMMA FlushSynced ==
    ASSUME NEW s \in StateType, NEW x \in Nat, GoodOwner(s.tc, x), ~s.tc.recovering, Quiet(s.tc),
           Synced(s), NEW f \in FlushOutcomes(s)
    PROVE  ResultSynced(f)
PROOF
  <1>1. CASE f = [s |-> s, r |-> "ok"]
    BY <1>1 DEF ResultSynced
  <1>2. CASE s.tc.autoDML # <<>>
    <2>1. /\ s.tc \in OwnerType /\ s.tc.mode = "rw" /\ Working(s.tc, x)
          /\ s.tc.queued = s.tc.autoDML /\ s.tc.queued \in Seq(Ops)
      BY <1>2, AccountTerms DEF StateType, OwnerShape, GoodOwner, Working, Quiet
    <2> DEFINE n == QueueBytes(s.tc.queued)
               t == Taken(s).tc
    <2>2. Working(t, x + n) /\ n \in Nat
      <3>1. Working([s.tc EXCEPT !.autoDML = <<>>, !.queued = <<>>], x + n) /\ n \in Nat
        BY <2>1, TakeWorks
      <3>2. t = [s.tc EXCEPT !.autoDML = <<>>, !.queued = <<>>]
        BY TakenFields
      <3> HIDE DEF t, n
      <3> QED BY <3>1, <3>2
    <2>3. Taken(s) \in StateType
      BY <2>2, TakenFields DEF Taken, StateType, Working, GoodOwner
    <2>4. CASE Failed(Released(s), f)
      <3>1. Working([t EXCEPT !.retained = @ - n], x)
        <4>1. GoodOwner(t, x + n) /\ t.mode # "none"
          BY <2>2 DEF Working
        <4> HIDE DEF t, n
        <4> QED BY <2>2, <4>1, GiveBackWorks
      <3>2. Released(s).tc = [t EXCEPT !.retained = @ - n]
        BY TakenFields
      <3>3. GoodOwner(Released(s).tc, x) /\ Released(s).tc.mode = "rw"
        <4> HIDE DEF t, n
        <4> QED BY <3>1, <3>2 DEF Working
      <3>4. Released(s) \in StateType
        BY <2>1, <2>3, <3>3 DEF Released, Taken, StateType, GoodOwner
      <3> QED BY <2>4, <3>3, <3>4, FailedSynced
    <2>5. ASSUME NEW v \in Observations,
                 f = [s |-> Executed(Taken(s), Taken(s).tc, s.tc.queued, s.tc.autoDML, v), r |-> "ok"]
          PROVE  ResultSynced(f)
      <3>1. t \in OwnerType /\ t.mode = "rw" /\ t.live = s.tc.live /\ t.entries = s.tc.entries
            /\ Taken(s).phys = s.phys /\ t.recovering = s.tc.recovering
        BY <2>1, <2>2, TakenFields DEF Working, GoodOwner, OwnerType
      <3> HIDE DEF t
      <3>2. Synced(Executed(Taken(s), t, s.tc.queued, s.tc.queued, v))
        BY <2>1, <2>3, <3>1, ExecutedSynced DEF Synced
      <3> QED BY <2>1, <2>5, <3>2 DEF t, ResultSynced
    <2> QED BY <1>1, <2>4, <2>5, FlushCases
  <1> QED BY <1>1, <1>2, FlushCases

\* A commit that is retried starts from an empty attempt.
LEMMA CommitSynced ==
    ASSUME NEW s \in StateType, Working(s.tc, 0), Synced(s),
           NEW f \in CommitOutcomes(s)
    PROVE  ResultSynced(f)
PROOF
  <1>1. s.tc.aborts \in Nat /\ GoodOwner(s.tc, 0) /\ s.tc.mode = "rw"
    BY BoundAssumption DEF StateType, OwnerType, Working
  <1>2. CASE f = [s |-> End(s), r |-> "failed"]
    BY <1>2, EndGood, NoOwnerSynced DEF ResultSynced
  <1>3. CASE f \in {[s |-> Committed(s), r |-> "ok"], [s |-> Committed(s), r |-> "failed"]}
    <2>1. Committed(s).tc = NoOwner /\ Committed(s).phys = <<>>
      BY EndGood DEF Committed, StateType
    <2> QED BY <1>3, <2>1, NoOwnerSynced DEF ResultSynced
  <1>4. CASE Failed(s, f)
    BY <1>1, <1>4, FailedSynced
  <1> QED BY <1>1, <1>2, <1>3, <1>4, CommitCases

\* Synced depends on these only.
LEMMA SyncedSame ==
    ASSUME NEW s, NEW t, Synced(s), t.tc.mode = s.tc.mode, t.tc.live = s.tc.live,
           t.tc.recovering = s.tc.recovering,
           t.tc.entries = s.tc.entries, t.phys = s.phys
    PROVE  Synced(t)
PROOF
  BY DEF Synced

\* What follows the flush does not touch the server's transaction.
LEMMA SettleSynced ==
    ASSUME NEW p \in {"flush", "savepoint", "commit"}, NEW n,
           NEW m \in {"pending", "rw", "ro"}, p # "savepoint" => m = "rw",
           NEW f, FlushResult(f, MarkerFor(p), m), ResultSynced(f),
           NEW g \in Settle(p, n, f)
    PROVE  ResultSynced(g)
PROOF
  <1> DEFINE o == f.s.tc
  <1>1. f \in ResultType /\ f.s \in StateType /\ o \in OwnerType
    BY DEF FlushResult, ResultType, StateType
  <1>2. CASE /\ f.r = "ok"
             /\ g = [f EXCEPT !.s.tc.marks = Append(@, [name |-> n, pos |-> Len(f.s.tc.entries)])]
    <2>1. /\ g.r = f.r /\ g.s.phys = f.s.phys /\ g.s.tc.mode = o.mode
          /\ g.s.tc.live = o.live /\ g.s.tc.entries = o.entries /\ g.s.tc.recovering = o.recovering
      BY <1>1, <1>2 DEF ResultType, StateType, OwnerType
    <2> QED BY <1>2, <2>1, SyncedSame DEF ResultSynced
  <1>3. CASE f.r # "wait" /\ g = [f EXCEPT !.s.tc.retained = @ - MarkerBytes]
    <2>1. /\ g.r = f.r /\ g.s.phys = f.s.phys /\ g.s.tc.mode = o.mode
          /\ g.s.tc.live = o.live /\ g.s.tc.entries = o.entries /\ g.s.tc.recovering = o.recovering
      BY <1>1, <1>3 DEF ResultType, StateType, OwnerType
    <2> QED BY <1>3, <2>1, SyncedSame DEF ResultSynced
  <1>4. CASE p = "commit" /\ f.r = "ok" /\ g \in CommitOutcomes(f.s)
    <2>1. Working(o, 0)
      BY <1>4 DEF FlushResult, MarkerFor, Working, Quiet
    <2>2. Synced(f.s)
      BY <1>4 DEF ResultSynced
    <2> QED BY <1>1, <1>4, <2>1, <2>2, CommitSynced
  <1>5. CASE p = "commit" /\ f.r = "exhausted" /\ o.mode # "none"
             /\ g \in Outcome(HandleFailure(f.s), "exhausted")
    <2>1. GoodOwner(o, 0) /\ o.mode = "rw"
      BY <1>5 DEF FlushResult, MarkerFor
    <2>2. Failed(f.s, g)
      BY <1>5 DEF Outcome, Failed
    <2> QED BY <1>1, <2>1, <2>2, FailedSynced
  <1>6. CASE g = f
    BY <1>6
  <1> QED BY <1>2, <1>3, <1>4, <1>5, <1>6 DEF Settle

\* Every section leaves the server's transaction with the journal's answers.
LEMMA OutcomesSynced ==
    ASSUME NEW p \in SectionPCs, NEW s \in StateType, GoodOwner(s.tc, MarkerFor(p)),
           s.tc.mode # "none", p # "savepoint" => s.tc.mode = "rw",
           ~s.tc.recovering, Quiet(s.tc), s.held = <<>>,
           p = "exec" => st.op \in Ops,
           Synced(s), NEW f \in Outcomes(p, s)
    PROVE  ResultSynced(f)
PROOF
  <1>1. CASE p = "exec"
    <2>1. f \in ExecOutcomes(s, <<st.op>>) /\ <<st.op>> \in Seq(Ops)
      BY <1>1 DEF Outcomes
    <2>2. Working(s.tc, 0)
      BY <1>1 DEF Working, Quiet, MarkerFor
    <2> QED BY <2>1, <2>2, ExecSynced
  <1>2. CASE p = "query"
    BY <1>2 DEF Outcomes, Outcome, ResultSynced
  <1>3. CASE p \in {"flush", "savepoint", "commit"}
    <2>1. PICK g \in FlushOutcomes(s) : f \in Settle(p, st.name, g)
      BY <1>3 DEF Outcomes
    <2>2. MarkerFor(p) \in Nat
      BY DEF MarkerFor, MarkerBytes
    <2>3. FlushResult(g, MarkerFor(p), s.tc.mode)
      BY <2>2, FlushGood
    <2>4. s.tc.mode \in {"pending", "rw", "ro"}
      BY DEF StateType, OwnerType
    <2>5. ResultSynced(g)
      BY <2>2, FlushSynced
    <2> QED BY <1>3, <2>1, <2>3, <2>4, <2>5, SettleSynced
  <1> QED BY <1>1, <1>2, <1>3 DEF SectionPCs

\* A query aborted while its rows are read ends like a section of its own.
LEMMA QueryAbortedResult ==
    ASSUME AccountInv, QueryAborted
    PROVE  \E f : /\ Finish("query", f) /\ SectionResult("query", f)
                  /\ ResultSynced(f)
PROOF
  <1> DEFINE s == [S EXCEPT !.tc = ReleasePending(tc)]
  <1>1. PICK f : /\ s \in StateType /\ Working(s.tc, 0)
                 /\ Finish("query", f) /\ Failed(s, f) /\ SectionResult("query", f)
    BY QueryAbortedCases
  <1> HIDE DEF s
  <1>2. ResultSynced(f)
    BY <1>1, FailedSynced DEF Working
  <1> QED BY <1>1, <1>2

\* There is no transaction to agree with at the start.
LEMMA InitServer == Init => ServerInv
PROOF
  BY DEF Init, ServerInv, PhysicalMatchesJournal, NoOwner

\* ServerInv is about the state the next section works on.
LEMMA ServerSynced ==
    ASSUME ServerInv
    PROVE  pc # "backoff" => Synced(S)
PROOF
  <1>1. S.tc = tc /\ S.phys = phys
    BY DEF S
  <1> QED BY <1>1 DEF ServerInv, PhysicalMatchesJournal, Synced

\* A next state whose owner agrees with the server satisfies ServerInv.
LEMMA SyncedServer ==
    ASSUME NEW s, Synced(s), tc' = s.tc, phys' = s.phys
    PROVE  ServerInv'
PROOF
  BY DEF ServerInv, PhysicalMatchesJournal, Synced

\* Becoming a state that agrees with the server keeps ServerInv.
LEMMA BecomeServer ==
    ASSUME NEW s, Synced(s), Become(s)
    PROVE  ServerInv'
PROOF
  BY SyncedServer DEF Become

\* A step that leaves the journal and the answers alone keeps ServerInv.
LEMMA SameServer ==
    ASSUME ServerInv, pc # "backoff", tc'.mode = tc.mode, tc'.live = tc.live,
           tc'.entries = tc.entries, tc'.recovering = tc.recovering, phys' = phys
    PROVE  ServerInv'
PROOF
  BY DEF ServerInv, PhysicalMatchesJournal

\* Writing back an outcome that agrees with the server keeps ServerInv.
LEMMA FinishServer ==
    ASSUME AccountInv, NEW p \in SectionPCs, NEW f, SectionResult(p, f), Finish(p, f),
           ResultSynced(f)
    PROVE  ServerInv'
PROOF
  <1>1. CASE f.r = "wait"
    <2>1. /\ pc' = "backoff" /\ tc' = f.s.tc /\ f.s.tc.mode = "rw"
          /\ f.s.tc.live /\ f.s.tc \in OwnerType /\ ~f.s.tc.recovering
      BY <1>1 DEF Finish, SectionResult, ResultSynced, Working, GoodOwner
    <2> QED BY <2>1 DEF ServerInv, PhysicalMatchesJournal, OwnerType
  <1>2. CASE f.r # "wait"
    BY <1>2, SyncedServer DEF Finish, ResultSynced
  <1> QED BY <1>1, <1>2

\* A section that changes the owner only
LEMMA BecomeOwner ==
    ASSUME NEW o, Become([S EXCEPT !.tc = o])
    PROVE  tc' = o /\ phys' = phys /\ held' = held /\ durable' = durable
PROOF
  BY DEF Become, S

\* The fields of the ended state.
LEMMA BecomeEnded ==
    ASSUME Become(End(S))
    PROVE  tc' = NoOwner /\ phys' = <<>> /\ held' = <<>> /\ durable' = durable
PROOF
  BY DEF Become, End, S

\* The fields of the same state.
LEMMA BecomeStay ==
    ASSUME Become(S)
    PROVE  tc' = tc /\ phys' = phys /\ held' = held /\ durable' = durable
PROOF
  BY DEF Become, S

\* The end of the owner keeps ServerInv.
LEMMA EndedServer ==
    ASSUME Become(End(S))
    PROVE  ServerInv'
PROOF
  BY BecomeEnded DEF ServerInv, PhysicalMatchesJournal, NoOwner

\* Submitting a statement leaves the server alone.
LEMMA SubmitServer ==
    ASSUME AccountInv, ServerInv, SubmitDML \/ SubmitEnd \/ SubmitSavepoint
    PROVE  ServerInv'
PROOF
  <1>1. tc \in OwnerType
    BY DEF AccountInv, TypeOK
  <1>2. /\ pc # "backoff" /\ phys' = phys
        /\ tc' = tc \/ tc' = Reserve(tc, MarkerBytes)
    BY DEF SubmitDML, SubmitEnd, SubmitSavepoint, Submit, Accepts
  <1>3. /\ Reserve(tc, MarkerBytes).mode = tc.mode
        /\ Reserve(tc, MarkerBytes).live = tc.live
        /\ Reserve(tc, MarkerBytes).recovering = tc.recovering
        /\ Reserve(tc, MarkerBytes).entries = tc.entries
    BY <1>1 DEF Reserve, OwnerType
  <1> QED BY <1>2, <1>3, SameServer

\* A new owner's attempt has seen nothing.
LEMMA BeginServer ==
    ASSUME AccountInv, ServerInv, Begin
    PROVE  ServerInv'
PROOF
  <1> DEFINE Starts(o) == o.entries = <<>> /\ (o.mode = "rw" => o.live = ~o.recovering)
  <1>1. PICK o : Become([S EXCEPT !.tc = o]) /\ Starts(o)
    <2>1. \A r \in BOOLEAN : Starts([NoOwner EXCEPT !.mode = "pending", !.retry = r])
      BY DEF NoOwner
    <2>2. \A r \in BOOLEAN :
             Starts([NoOwner EXCEPT !.mode = "rw", !.retry = r, !.live = TRUE, !.attempt = 1])
      BY DEF NoOwner
    <2>3. Starts([NoOwner EXCEPT !.mode = "ro", !.live = TRUE, !.attempt = 1])
      BY DEF NoOwner
    <2> HIDE DEF Starts
    <2> QED BY <2>1, <2>2, <2>3 DEF Begin
  <1>2. phys = <<>>
    BY DEF Begin, InTxn, ServerInv
  <1>3. tc' = o /\ phys' = <<>>
    BY <1>1, <1>2, BecomeOwner
  <1>4. Answers(<<>>) = <<>>
    BY DEF Answers
  <1> QED BY <1>1, <1>3, <1>4 DEF ServerInv, PhysicalMatchesJournal

\* The implicit decision leaves the server alone.
LEMMA DetermineServer ==
    ASSUME AccountInv, ServerInv, Determine
    PROVE  ServerInv'
PROOF
  <1>1. tc \in OwnerType /\ GoodOwner(tc, 0) /\ pc # "backoff"
    BY OutsideSavepoint DEF Determine
  <1>2. CASE /\ tc.mode = "pending"
             /\ Become([S EXCEPT !.tc.mode = "rw", !.tc.live = TRUE, !.tc.attempt = 1])
    <2> DEFINE o == [tc EXCEPT !.mode = "rw", !.live = TRUE, !.attempt = 1]
    <2>1. [S EXCEPT !.tc.mode = "rw", !.tc.live = TRUE, !.tc.attempt = 1] = [S EXCEPT !.tc = o]
      BY <1>1 DEF S, OwnerType
    <2>2. o.entries = <<>> /\ o.live = ~o.recovering
      BY <1>1, <1>2 DEF OwnerType, GoodOwner, OwnerShape
    <2>3. phys = <<>>
      BY <1>2 DEF ServerInv
    <2> HIDE DEF o
    <2>4. tc' = o /\ phys' = <<>>
      BY <1>2, <2>1, <2>3, BecomeOwner
    <2>5. Answers(<<>>) = <<>>
      BY DEF Answers
    <2> QED BY <2>2, <2>4, <2>5 DEF ServerInv, PhysicalMatchesJournal
  <1>3. CASE Become(S)
    BY <1>1, <1>3, BecomeStay, SameServer
  <1> QED BY <1>2, <1>3 DEF Determine

\* Queueing a statement sends nothing to the server.
LEMMA EnqueueServer ==
    ASSUME AccountInv, ServerInv, Enqueue
    PROVE  ServerInv'
PROOF
  <1> DEFINE q == Append(tc.queued, st.op)
             n == QueueBytes(q) - QueueBytes(tc.queued)
             o == [Reserve(tc, n) EXCEPT !.queued = q, !.autoDML = Append(@, st.op)]
  <1>1. tc \in OwnerType /\ pc # "backoff"
    BY OutsideSavepoint DEF Enqueue
  <1>2. o.mode = tc.mode /\ o.live = tc.live /\ o.recovering = tc.recovering /\ o.entries = tc.entries
    <2> HIDE DEF n, q
    <2> QED BY <1>1 DEF Reserve, OwnerType
  <1>3. Become(S) \/ Become([S EXCEPT !.tc = o])
    BY DEF Enqueue
  <1> HIDE DEF o
  <1> QED BY <1>1, <1>2, <1>3, BecomeStay, BecomeOwner, SameServer

\* A section leaves the server's transaction with the journal's answers.
LEMMA SectionServer ==
    ASSUME AccountInv, ServerInv, Section
    PROVE  ServerInv'
PROOF
  <1>1. CASE Become(End(S))
    BY <1>1, EndedServer
  <1>2. CASE \E f \in Outcomes(pc, S) : Finish(pc, f)
    <2>1. PICK f \in Outcomes(pc, S) : Finish(pc, f)
      BY <1>2
    <2>2. pc \in SectionPCs /\ pc # "backoff"
      BY DEF Section, SectionPCs
    <2>3. /\ S \in StateType /\ S.tc = tc /\ S.held = <<>>
          /\ GoodOwner(tc, MarkerFor(pc)) /\ Quiet(tc) /\ ~tc.recovering
          /\ tc.mode # "none" /\ (pc # "savepoint" => tc.mode = "rw")
          /\ pc = "exec" => st.op \in Ops
          /\ pc = "savepoint" => st.name \in Names
      BY <2>2, SectionStarts DEF Section
    <2>4. Synced(S)
      BY <2>2, ServerSynced
    <2>5. SectionResult(pc, f)
      BY <2>1, <2>2, <2>3, OutcomesGood
    <2>6. ResultSynced(f)
      BY <2>1, <2>2, <2>3, <2>4, OutcomesSynced
    <2> QED BY <2>1, <2>2, <2>5, <2>6, FinishServer
  <1> QED BY <1>1, <1>2 DEF Section

\* Starting a query leaves the answers alone.
LEMMA QueryServer ==
    ASSUME AccountInv, ServerInv, Query
    PROVE  ServerInv'
PROOF
  <1>1. tc \in OwnerType /\ pc # "backoff"
    BY OutsideSavepoint DEF Query
  <1>2. PICK n : Become(S) \/ Become([S EXCEPT !.tc = Admitted(tc, n)])
    BY DEF Query, Admitted
  <1>3. /\ Admitted(tc, n).mode = tc.mode /\ Admitted(tc, n).live = tc.live
        /\ Admitted(tc, n).recovering = tc.recovering
        /\ Admitted(tc, n).entries = tc.entries
    BY <1>1 DEF Admitted, Reserve, OwnerType
  <1> QED BY <1>1, <1>2, <1>3, BecomeStay, BecomeOwner, SameServer

\* A query read to its end is journaled with its answer.
LEMMA QueryDoneServer ==
    ASSUME AccountInv, ServerInv, QueryDone
    PROVE  ServerInv'
PROOF
  <1>1. /\ pc = "iterate" /\ tc \in OwnerType /\ tc.mode = "rw" /\ GoodOwner(tc, 0)
        /\ ~tc.recovering /\ S \in StateType /\ <<st.op>> \in Seq(Ops)
        /\ S.phys = phys
    <2>1. pc = "iterate"
      BY DEF QueryDone
    <2>2. /\ tc \in OwnerType /\ tc.mode = "rw" /\ GoodOwner(tc, 0) /\ ~tc.recovering
          /\ S \in StateType /\ S.phys = phys /\ st.op \in Ops
      BY <2>1, Iterating
    <2> QED BY <2>1, <2>2
  <1>2. /\ Answered(tc).mode = "rw" /\ Answered(tc).live = tc.live
        /\ Answered(tc).recovering = tc.recovering
        /\ Answered(tc).entries = tc.entries
    BY <1>1 DEF Answered, OwnerType
  <1>3. Answered(tc) \in OwnerType
    <2>1. Working(Answered(tc), 0 + tc.reserved)
      BY <1>1, AnsweredWorks
    <2> QED BY <2>1 DEF Working, GoodOwner
  <1>4. CASE Become([S EXCEPT !.tc = Answered(tc)])
    BY <1>1, <1>2, <1>4, BecomeOwner, SameServer
  <1>5. ASSUME NEW v \in Observations,
               Become(Executed(S, Answered(tc), <<st.op>>, <<st.op>>, v))
        PROVE  ServerInv'
    <2> DEFINE os == <<st.op>>
               o == Answered(tc)
    <2>1. (o.live => S.phys = Answers(o.entries)) /\ o.live = ~o.recovering
      BY <1>1, <1>2 DEF ServerInv, PhysicalMatchesJournal
    <2>2. os \in Seq(Ops) /\ o \in OwnerType /\ o.mode = "rw"
      BY <1>1, <1>2, <1>3
    <2>3. Become(Executed(S, o, os, os, v))
      BY <1>5
    <2> HIDE DEF os, o
    <2>4. Synced(Executed(S, o, os, os, v))
      BY <1>1, <2>1, <2>2, ExecutedSynced
    <2> QED BY <2>3, <2>4, BecomeServer
  <1> QED BY <1>4, <1>5 DEF QueryDone, Executed, Answered

\* A query that failed leaves the answers alone, or its transaction is
\* dropped.
LEMMA QueryFailedServer ==
    ASSUME AccountInv, ServerInv, QueryFailed
    PROVE  ServerInv'
PROOF
  <1> DEFINE s == [S EXCEPT !.tc = ReleasePending(tc)]
  <1>1. /\ pc = "iterate" /\ tc \in OwnerType /\ tc.mode = "rw" /\ GoodOwner(tc, 0)
        /\ ~tc.recovering /\ S \in StateType
    BY Iterating DEF QueryFailed
  <1>2. Working(ReleasePending(tc), 0) /\ ReleasePending(tc) \in OwnerType
    BY <1>1, ReleasePendingWorks DEF Working, GoodOwner
  <1>3. /\ ReleasePending(tc).marks = tc.marks /\ ReleasePending(tc).mode = tc.mode
        /\ ReleasePending(tc).live = tc.live /\ ReleasePending(tc).recovering = tc.recovering
        /\ ReleasePending(tc).entries = tc.entries
    BY <1>1 DEF ReleasePending, OwnerType
  <1>4. CASE tc.marks = <<>> /\ Become(s)
    BY <1>1, <1>3, <1>4, BecomeOwner, SameServer
  <1>5. CASE tc.marks # <<>> /\ Become(EnterRecovery(s))
    <2>1. s \in StateType /\ s.tc = ReleasePending(tc)
      BY <1>1, <1>2 DEF StateType
    <2> DEFINE t == EnterRecovery(s)
    <2>2. t.phys = <<>> /\ t.tc.mode = "rw" /\ t.tc.live = FALSE /\ t.tc.recovering = TRUE
      <3>1. GoodOwner(s.tc, 0) /\ s.tc.mode = "rw" /\ ~s.tc.recovering /\ s.tc.marks # <<>>
        BY <1>2, <1>3, <1>5, <2>1 DEF Working
      <3>2. t \in StateType /\ t.phys = <<>> /\ t.tc.mode = "rw" /\ ~t.tc.live /\ t.tc.recovering
        <4> HIDE DEF s
        <4> QED BY <2>1, <3>1, EnterRecoveryGood
      <3> HIDE DEF t
      <3> QED BY <3>2 DEF StateType, OwnerType
    <2> HIDE DEF t
    <2> QED BY <1>5, <2>2, BecomeServer DEF Synced, t
  <1> QED BY <1>4, <1>5 DEF QueryFailed

\* A query aborted while its rows are read leaves a fresh attempt or no
\* transaction.
LEMMA QueryAbortedServer ==
    ASSUME AccountInv, ServerInv, QueryAborted
    PROVE  ServerInv'
PROOF
  <1>1. PICK f : Finish("query", f) /\ SectionResult("query", f) /\ ResultSynced(f)
    BY QueryAbortedResult
  <1> QED BY <1>1, FinishServer DEF SectionPCs

\* A replay gives the answers the journal has, or the section fails.
LEMMA ResumeServer ==
    ASSUME AccountInv, ServerInv, Resume
    PROVE  ServerInv'
PROOF
  <1>1. pc = "backoff"
    BY DEF Resume
  <1>2. PICK f : /\ Finish(back, f)
                 /\ ResumeFails(f) \/ (\E seen : ResumeRepeats(f, seen)) \/ ResumeAborts(f)
    BY ResumeCases
  <1>3. SectionResult(back, f)
    BY <1>1, <1>2, ResumeResult
  <1>4. back \in SectionPCs
    BY <1>1, Waits
  <1>5. CASE ResumeFails(f)
    <2>1. ResultSynced(f)
      BY <1>1, <1>5, Waits, EndGood, NoOwnerSynced DEF ResumeFails, ResultSynced
    <2> QED BY <1>2, <1>3, <1>4, <2>1, FinishServer
  <1>6. ASSUME NEW seen, ResumeRepeats(f, seen)
        PROVE  ServerInv'
    <2>1. /\ seen \in [DOMAIN tc.entries -> Observations] /\ Matches(tc.entries, seen)
          /\ f \in Outcomes(back, Again(seen))
      BY <1>6 DEF ResumeRepeats, Again
    <2>2. /\ Again(seen) \in StateType /\ Again(seen).held = <<>>
          /\ Working(Again(seen).tc, MarkerFor(back))
          /\ Again(seen).phys = Replayed(tc.entries, seen)
          /\ Again(seen).tc.entries = tc.entries /\ Again(seen).tc.live = tc.live
      BY <1>1, <2>1, AgainGood
    <2>3. Synced(Again(seen))
      <3>1. tc.entries \in Seq(Entry)
        BY <1>1, Waits, AccountTerms DEF Working, GoodOwner
      <3>2. Again(seen).tc.recovering = FALSE /\ tc.live = TRUE
        BY <1>1, <2>2, Waits DEF ServerInv, Working, GoodOwner, OwnerType
      <3> QED BY <2>1, <2>2, <3>1, <3>2, ReplayedAnswers DEF Synced, Working
    <2>4. ResultSynced(f)
      BY <1>1, <1>4, <2>1, <2>2, <2>3, Waits, OutcomesSynced DEF Working, Quiet
    <2> QED BY <1>2, <1>3, <1>4, <2>4, FinishServer
  <1>7. CASE ResumeAborts(f)
    <2>1. PICK g \in Recover(S) : f \in IF held = <<>> THEN {g} ELSE Settle(back, st.name, g)
      BY <1>7 DEF ResumeAborts
    <2>2. Failed(S, g) /\ (held # <<>> => FlushResult(g, MarkerFor(back), "rw"))
      BY <1>1, <2>1, AbortsAgain
    <2>3. ResultSynced(g)
      <3>1. /\ S \in StateType /\ GoodOwner(S.tc, MarkerFor(back))
            /\ S.tc.mode = "rw" /\ MarkerFor(back) \in Nat
        BY <1>1, Waits DEF Working
      <3> QED BY <2>2, <3>1, FailedSynced
    <2>4. ResultSynced(f)
      <3>1. CASE held = <<>>
        BY <2>1, <2>3, <3>1
      <3>2. CASE held # <<>>
        <4>1. back \in {"flush", "savepoint", "commit"} /\ f \in Settle(back, st.name, g)
          BY <1>1, <2>1, <3>2, Waits DEF SectionPCs
        <4> QED BY <2>2, <2>3, <3>2, <4>1, SettleSynced
      <3> QED BY <3>1, <3>2
    <2> QED BY <1>2, <1>3, <1>4, <2>4, FinishServer
  <1> QED BY <1>2, <1>5, <1>6, <1>7

\* RELEASE leaves the entries alone.
LEMMA ReleaseServer ==
    ASSUME AccountInv, ServerInv, Release
    PROVE  ServerInv'
PROOF
  <1>1. pc # "backoff" /\ tc \in OwnerType
    BY OutsideSavepoint DEF Release, Accepts
  <1>2. PICK ms, w : Become([S EXCEPT !.tc.marks = ms, !.tc.retained = w])
    BY DEF Release, S
  <1>3. /\ tc' = [tc EXCEPT !.marks = ms, !.retained = w] /\ phys' = phys
    BY <1>2 DEF Become, S
  <1>4. /\ tc'.mode = tc.mode /\ tc'.live = tc.live
        /\ tc'.recovering = tc.recovering /\ tc'.entries = tc.entries
    BY <1>1, <1>3 DEF OwnerType
  <1> QED BY <1>1, <1>3, <1>4, SameServer

\* ROLLBACK TO replays the journal up to the marker, or leaves no live
\* attempt.
LEMMA RollbackToServer ==
    ASSUME AccountInv, ServerInv, RollbackTo
    PROVE  ServerInv'
PROOF
  <1>1. GoodOwner(tc, 0) /\ Quiet(tc) /\ tc.mode # "none" /\ pc = "prompt"
    BY AtPrompt DEF RollbackTo, InTxn
  <1>2. PICK i \in DOMAIN tc.marks :
          LET o == RolledBack(tc, i)
          IN  \/ tc.mode # "rw" /\ Become([S EXCEPT !.tc = o])
              \/ \E seen \in [DOMAIN o.entries -> Observations] :
                    /\ Matches(o.entries, seen)
                    /\ Become([S EXCEPT !.tc = [o EXCEPT !.live = TRUE, !.attempt = @ + 1],
                                        !.phys = Replayed(o.entries, seen)])
              \/ Become(End(S))
    BY DEF RollbackTo, RolledBack
  <1> DEFINE o == RolledBack(tc, i)
             r == [o EXCEPT !.live = TRUE, !.attempt = @ + 1]
  <1>3. GoodOwner(o, 0) /\ o.mode = tc.mode /\ o.recovering = FALSE
    BY <1>1, RolledBackGood
  <1> HIDE DEF o
  <1>4. o.entries \in Seq(Entry) /\ o \in OwnerType
    BY <1>3, AccountTerms DEF GoodOwner
  <1>5. CASE tc.mode # "rw" /\ Become([S EXCEPT !.tc = o])
    <2>1. tc' = o /\ phys' = phys
      BY <1>5, BecomeOwner
    <2>2. phys = <<>>
      BY <1>5 DEF ServerInv
    <2> QED BY <1>3, <1>5, <2>1, <2>2 DEF ServerInv, PhysicalMatchesJournal
  <1>6. ASSUME NEW seen \in [DOMAIN o.entries -> Observations], Matches(o.entries, seen),
               Become([S EXCEPT !.tc = r, !.phys = Replayed(o.entries, seen)])
        PROVE  ServerInv'
    <2>1. tc' = r /\ phys' = Replayed(o.entries, seen)
      BY <1>6 DEF Become, S
    <2>2. r.entries = o.entries /\ r.mode = o.mode /\ r.live = ~r.recovering
      BY <1>3, <1>4 DEF OwnerType
    <2>3. Replayed(o.entries, seen) = Answers(o.entries)
      BY <1>4, <1>6, ReplayedAnswers
    <2> HIDE DEF r
    <2>4. CASE o.mode = "rw"
      BY <2>1, <2>2, <2>3, <2>4 DEF ServerInv, PhysicalMatchesJournal
    <2>5. CASE o.mode # "rw"
      <3>1. o.entries = <<>>
        BY <1>3, <2>5 DEF GoodOwner, OwnerShape
      <3>2. phys' = <<>>
        BY <2>1, <2>3, <3>1 DEF Answers
      <3> QED BY <2>1, <2>2, <2>5, <3>2 DEF ServerInv, PhysicalMatchesJournal
    <2> QED BY <2>4, <2>5
  <1>7. CASE Become(End(S))
    BY <1>7, EndedServer
  <1> QED BY <1>2, <1>5, <1>6, <1>7 DEF o

\* ABORT BATCH leaves the entries alone.
LEMMA AbortBatchServer ==
    ASSUME AccountInv, ServerInv, AbortBatch
    PROVE  ServerInv'
PROOF
  <1>1. pc # "backoff" /\ tc \in OwnerType
    BY OutsideSavepoint DEF AbortBatch, Accepts
  <1> DEFINE o == [DropQueued(tc) EXCEPT !.autoDML = <<>>]
  <1>2. o.mode = tc.mode /\ o.live = tc.live /\ o.recovering = tc.recovering /\ o.entries = tc.entries
    BY <1>1 DEF DropQueued, OwnerType
  <1>3. Become([S EXCEPT !.tc = o])
    BY DEF AbortBatch
  <1> HIDE DEF o
  <1> QED BY <1>1, <1>2, <1>3, BecomeOwner, SameServer

\* Leaving, ROLLBACK and a displayed statement leave the answers alone or end
\* the owner.
LEMMA LeaveServer ==
    ASSUME AccountInv, ServerInv, Leave \/ Rollback \/ DisplayDone
    PROVE  ServerInv'
PROOF
  <1>1. pc # "backoff" /\ (Become(S) \/ Become(End(S)))
    BY DEF Leave, Rollback, DisplayDone
  <1> QED BY <1>1, BecomeStay, SameServer, EndedServer

\* Retracting a statement replays the rest, or leaves no live attempt.
LEMMA DisplayFailedServer ==
    ASSUME AccountInv, ServerInv, DisplayFailed
    PROVE  ServerInv'
PROOF
  <1> DEFINE o == IF tok.plan THEN tc ELSE Retract(tc, tok.id)
             s == [S EXCEPT !.tc = o]
  <1>1. /\ pc = "display" /\ GoodOwner(tc, 0) /\ Quiet(tc) /\ S \in StateType
        /\ Become(IF ~Belongs THEN S ELSE HandleFailure(s))
    BY OutsideSavepoint DEF DisplayFailed
  <1>2. CASE Become(S)
    BY <1>1, <1>2, BecomeStay, SameServer
  <1>3. CASE Belongs /\ Become(HandleFailure(s))
    <2>1. tc.mode = "rw" /\ ~tc.recovering
      BY <1>1, <1>3 DEF Belongs, InTxn, AccountInv, ResultInv
    <2>2. GoodOwner(o, 0) /\ o.mode = "rw"
      BY <1>1, <2>1, RetractGood
    <2> HIDE DEF o
    <2>3. s \in StateType /\ s.tc = o
      BY <1>1, <2>2 DEF StateType, GoodOwner
    <2> HIDE DEF s
    <2> DEFINE h == HandleFailure(s)
    <2>4. Synced(h)
      BY <2>2, <2>3, HandleFailureGood, NoOwnerSynced DEF Synced, StateType, OwnerType
    <2> HIDE DEF h
    <2> QED BY <1>3, <2>4, BecomeServer DEF h
  <1> QED BY <1>1, <1>2, <1>3

\* A transaction that expires keeps its answers or ends.
LEMMA ExpireServer ==
    ASSUME AccountInv, ServerInv, Expire
    PROVE  ServerInv'
PROOF
  <1>1. /\ tc \in OwnerType /\ pc' = pc
        /\ Become(End(S)) \/ Become([S EXCEPT !.tc.expired = TRUE])
    BY DEF Expire, AccountInv, TypeOK
  <1>2. CASE Become(End(S))
    BY <1>2, EndedServer
  <1>3. CASE Become([S EXCEPT !.tc.expired = TRUE])
    <2>1. tc' = [tc EXCEPT !.expired = TRUE] /\ phys' = phys
      BY <1>3 DEF Become, S
    <2>2. /\ tc'.mode = tc.mode /\ tc'.live = tc.live
          /\ tc'.recovering = tc.recovering /\ tc'.entries = tc.entries
      BY <1>1, <2>1 DEF OwnerType
    <2> QED BY <1>1, <2>1, <2>2 DEF ServerInv, PhysicalMatchesJournal
  <1> QED BY <1>1, <1>2, <1>3

\* Stuttering changes nothing.
LEMMA StutterServer ==
    ASSUME ServerInv, UNCHANGED vars
    PROVE  ServerInv'
PROOF
  BY DEF vars, ServerInv, PhysicalMatchesJournal

\* Every step keeps ServerInv.
LEMMA StepServer == AccountInv /\ ServerInv /\ [Next]_vars => ServerInv'
PROOF
  BY SubmitServer, BeginServer, ReleaseServer, RollbackToServer, AbortBatchServer,
     DetermineServer, EnqueueServer, SectionServer, QueryServer, QueryDoneServer,
     QueryFailedServer, QueryAbortedServer, ResumeServer, LeaveServer,
     DisplayFailedServer, ExpireServer, StutterServer
  DEF Next, Statement

\* In every state a live attempt holds the answers of the journal.
THEOREM ServerInvariant == Spec => []ServerInv
PROOF
  <1>1. Init => ServerInv
    BY InitServer
  <1>2. AccountInv /\ ServerInv /\ [Next]_vars => ServerInv'
    BY StepServer
  <1> QED BY <1>1, <1>2, AccountsInvariant, PTL DEF Spec

\* PhysicalMatchesJournal holds in every state: what the server's live
\* transaction has executed is what the journal would replay, entry by entry,
\* answer by answer.
THEOREM ServerMatchesJournal == Spec => []PhysicalMatchesJournal
PROOF
  <1>1. ServerInv => PhysicalMatchesJournal
    BY DEF ServerInv
  <1> QED BY <1>1, ServerInvariant, PTL

============================================================================
