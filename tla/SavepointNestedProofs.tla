----------------------- MODULE SavepointNestedProofs -----------------------
(***************************************************************************)
(* More theorems about SavepointOwner: what each step makes of the journal,*)
(* the queue and the markers; that no statement is run twice; that markers *)
(* outlive failures; and that the whole implements NestedTransaction.      *)
(***************************************************************************)
EXTENDS SavepointOwnerProofs

----------------------------------------------------------------------------
(* What a section may make of the journal, the queue and the markers.      *)

\* The statements accepted and not yet executed
Queued(s) ==
    CASE s.tc.recovering -> <<>> [] s.held # <<>> -> s.held [] OTHER -> s.tc.autoDML

\* The owner stays in its transaction, usable or not as before, and nothing
\* is committed.
Stays(s, t) ==
    /\ (t.tc.mode = "none") = (s.tc.mode = "none")
    /\ t.tc.recovering = s.tc.recovering /\ t.durable = s.durable
SameJournal(s, t) ==
    t.tc.entries = s.tc.entries /\ t.tc.marks = s.tc.marks /\ t.tc.nextID = s.tc.nextID

\* Neither the journal nor the queue nor the markers change.
Kept(s, t) == Stays(s, t) /\ SameJournal(s, t) /\ Queued(t) = Queued(s)

\* The owner ends without a commit.
Dropped(s, t) == t.tc = NoOwner /\ t.held = <<>> /\ t.durable = s.durable

\* It goes into recovery.
Broken(s, t) ==
    /\ ~s.tc.recovering /\ t.tc.recovering /\ s.tc.marks # <<>>
    /\ s.tc.mode # "none" /\ t.tc.mode # "none"
    /\ SameJournal(s, t) /\ t.held = <<>> /\ t.durable = s.durable

NewEntry(n, os, v) == [id |-> n, ops |-> os, obs |-> v]

\* The statements os are executed and journaled.
Ran(s, t, os) ==
    /\ Stays(s, t) /\ t.tc.mode = "rw" /\ ~t.tc.recovering
    /\ t.tc.marks = s.tc.marks /\ t.tc.nextID = s.tc.nextID + 1
    /\ \E v \in Observations :
          t.tc.entries = Append(s.tc.entries, NewEntry(s.tc.nextID + 1, os, v))
\* The statements are executed beside the queue, or the queue is executed.
Executes(s, t, os) == Ran(s, t, os) /\ Queued(t) = Queued(s)
Flushes(s, t) == Queued(s) # <<>> /\ Ran(s, t, Queued(s)) /\ Queued(t) = <<>>
\* A flush that had something to do, or nothing
FlushDone(s, t) == Flushes(s, t) \/ (Kept(s, t) /\ Queued(s) = <<>>)

\* A marker n is set at the end of the journal.
Marks(s, t, n) ==
    /\ Stays(s, t) /\ ~t.tc.recovering /\ t.tc.mode # "none"
    /\ Queued(t) = Queued(s)
    /\ t.tc.entries = s.tc.entries /\ t.tc.nextID = s.tc.nextID
    /\ t.tc.marks = Append(s.tc.marks, [name |-> n, pos |-> Len(s.tc.entries)])

\* The server makes what it executed durable.
Commits(s, t) ==
    /\ s.tc.mode = "rw" /\ ~s.tc.recovering
    /\ t.tc = NoOwner /\ t.held = <<>> /\ t.durable = Batches(s.phys)

\* A failure in the section of an owner without a retry does not end it if it
\* has a marker.
FailShape(s, f) ==
    \/ f.r # "wait" /\ Dropped(s, f.s) /\ (s.tc.retry \/ s.tc.marks = <<>>)
    \/ f.r # "wait" /\ Broken(s, f.s)
    \/ f.r = "wait" /\ Kept(s, f.s)

\* The outcomes of a commit
CommitShape(s, f) ==
    \/ f.r # "wait" /\ (Dropped(s, f.s) \/ Commits(s, f.s))
    \/ FailShape(s, f)

\* What the section p makes of a flush that succeeded
SettleShape(p, u, n, f) ==
    \/ p = "flush" /\ f = [s |-> u, r |-> "ok"]
    \/ p = "savepoint" /\ f.r = "ok" /\ Marks(u, f.s, n)
    \/ p = "commit" /\ CommitShape(u, f)

\* The outcomes of section p on marker name n
Shape(p, s, n, f) ==
    \/ FailShape(s, f)
    \/ p = "exec" /\ f.r = "failed" /\ Kept(s, f.s)
    \/ p = "query" /\ f.r = "ok" /\ Kept(s, f.s)
    \/ p = "exec" /\ f.r = "ok" /\ Executes(s, f.s, <<st.op>>)
    \/ \E u \in StateType : FlushDone(s, u) /\ Synced(u) /\ SettleShape(p, u, n, f)
    \/ p = "commit" /\ f.r # "wait" /\ Dropped(s, f.s)

\* After a failure the owner is dropped, in recovery, or waits for a retry
\* with the same journal.
LEMMA FailedShape ==
    ASSUME NEW s \in StateType, NEW x \in Nat, Working(s.tc, x), NEW f, Failed(s, f)
    PROVE  FailShape(s, f) /\ f.r # "ok" /\ (f.r # "wait" => f.s.held = <<>>)
PROOF
  <1>1. GoodOwner(s.tc, x) /\ s.tc.mode = "rw" /\ ~s.tc.recovering
    BY DEF Working
  <1>2. CASE f.r \in {"failed", "exhausted"} /\ f.s = HandleFailure(s) /\ s.tc.marks # <<>>
    <2>1. HandleFailure(s) = EnterRecovery(s)
      BY <1>1, <1>2 DEF HandleFailure
    <2> DEFINE t == EnterRecovery(s)
    <2>2. /\ t.held = <<>> /\ t.durable = s.durable
          /\ t.tc.mode = "rw" /\ t.tc.recovering
          /\ t.tc.entries = s.tc.entries /\ t.tc.marks = s.tc.marks /\ t.tc.nextID = s.tc.nextID
      BY <1>1, <1>2, EnterRecoveryGood
    <2> HIDE DEF t
    <2>3. f.s = t
      BY <1>2, <2>1 DEF t
    <2> QED BY <1>1, <1>2, <2>2, <2>3 DEF FailShape, Broken, SameJournal
  <1>3. CASE f.r \in {"failed", "exhausted"} /\ f.s = HandleFailure(s) /\ s.tc.marks = <<>>
    <2>1. HandleFailure(s) = End(s)
      BY <1>3 DEF HandleFailure
    <2> QED BY <1>3, <2>1, EndGood DEF FailShape, Dropped
  <1>4. CASE f = [s |-> End(s), r |-> "failed"] /\ s.tc.retry
    BY <1>4, EndGood DEF FailShape, Dropped
  <1>5. CASE f = [s |-> Reconstruct(s), r |-> "wait"] /\ s.tc.aborts < MaxRetries
    <2> DEFINE t == Reconstruct(s)
    <2>1. /\ Working(t.tc, x) /\ t.held = s.held /\ t.durable = s.durable
          /\ t.tc.autoDML = s.tc.autoDML /\ t.tc.entries = s.tc.entries
          /\ t.tc.marks = s.tc.marks /\ t.tc.nextID = s.tc.nextID /\ t \in StateType
      BY <1>5, ReconstructGood
    <2> HIDE DEF t
    <2>2. Kept(s, t)
      <3>1. t.tc.mode = "rw" /\ t.tc.recovering = FALSE /\ s.tc.recovering = FALSE
        BY <1>1, <2>1 DEF Working, StateType, OwnerType
      <3> QED BY <1>1, <2>1, <3>1 DEF Kept, Stays, SameJournal, Queued
    <2> QED BY <1>5, <2>2 DEF FailShape, t
  <1> QED BY <1>2, <1>3, <1>4, <1>5 DEF Failed

\* What is kept before a failure is kept with it.
LEMMA KeptFails ==
    ASSUME NEW s, NEW u, NEW f, Kept(s, u), u.tc.retry = s.tc.retry, FailShape(u, f)
    PROVE  FailShape(s, f)
PROOF
  BY DEF FailShape, Kept, Stays, SameJournal, Dropped, Broken

\* The fields of an owner that has journaled one more entry.
LEMMA ExecutedShape ==
    ASSUME NEW s \in StateType, NEW o \in OwnerType, NEW os, NEW qs, NEW v \in Observations,
           NEW t, t = Executed(s, o, os, qs, v)
    PROVE  /\ t.tc.mode = o.mode /\ t.tc.recovering = o.recovering /\ t.tc.marks = o.marks
           /\ t.tc.autoDML = o.autoDML /\ t.tc.nextID = o.nextID + 1
           /\ t.tc.entries = Append(o.entries, NewEntry(o.nextID + 1, os, v))
           /\ t.held = s.held /\ t.durable = s.durable
PROOF
  <1> DEFINE j == Journal(o, os, v)
  <1>1. /\ j.mode = o.mode /\ j.recovering = o.recovering /\ j.marks = o.marks /\ j.autoDML = o.autoDML
        /\ j.nextID = o.nextID + 1
        /\ j.entries = Append(o.entries, NewEntry(o.nextID + 1, os, v))
    BY DEF Journal, OwnerType, NewEntry
  <1> HIDE DEF j
  <1>2. /\ t.tc = j /\ t.held = s.held /\ t.durable = s.durable
    BY DEF Executed, StateType, j
  <1> QED BY <1>1, <1>2

\* A DML statement fails in one of the ways a section may, or is journaled.
LEMMA ExecShape ==
    ASSUME NEW s \in StateType, NEW os \in Seq(Ops), Working(s.tc, 0), s.held = <<>>,
           NEW f \in ExecOutcomes(s, os)
    PROVE  /\ \/ FailShape(s, f)
              \/ f = [s |-> s, r |-> "failed"]
              \/ f.r = "ok" /\ Executes(s, f.s, os)
           /\ f.r # "wait" => f.s.held = <<>>
PROOF
  <1>1. /\ s.tc.aborts \in Nat /\ s.tc \in OwnerType /\ s.tc.mode = "rw"
        /\ s.tc.recovering = FALSE
    BY BoundAssumption DEF StateType, OwnerType, Working
  <1>2. CASE Failed(s, f)
    BY <1>2, FailedShape
  <1>3. ASSUME NEW v \in Observations, Room(s.tc, Bytes(os)),
               f = [s |-> Executed(s, Reserve(s.tc, Bytes(os)), os, os, v), r |-> "ok"]
        PROVE  f.r = "ok" /\ Executes(s, f.s, os) /\ f.s.held = <<>>
    <2> DEFINE o == Reserve(s.tc, Bytes(os))
               t == Executed(s, o, os, os, v)
    <2>1. o \in OwnerType
      <3>1. Bytes(os) \in Nat /\ Working(s.tc, 0)
        BY QueueBytesNat
      <3> QED BY <1>3, <3>1, ReserveWorks DEF Working, GoodOwner
    <2>2. /\ o.mode = "rw" /\ o.recovering = FALSE /\ o.entries = s.tc.entries
          /\ o.marks = s.tc.marks /\ o.nextID = s.tc.nextID /\ o.autoDML = s.tc.autoDML
      BY <1>1 DEF Reserve, OwnerType
    <2> HIDE DEF o
    <2>6. t = Executed(s, o, os, os, v)
      OBVIOUS
    <2> HIDE DEF t
    <2>3. /\ t.tc.mode = o.mode /\ t.tc.recovering = o.recovering /\ t.tc.marks = o.marks
          /\ t.tc.autoDML = o.autoDML /\ t.tc.nextID = o.nextID + 1
          /\ t.tc.entries = Append(o.entries, NewEntry(o.nextID + 1, os, v))
          /\ t.held = s.held /\ t.durable = s.durable
      BY <2>1, <2>6, ExecutedShape
    <2>4. Executes(s, t, os)
      BY <1>1, <2>2, <2>3 DEF Executes, Ran, Stays, Queued
    <2>5. f = [s |-> t, r |-> "ok"]
      BY <1>3 DEF t, o
    <2> QED BY <2>3, <2>4, <2>5
  <1>4. CASE f = [s |-> s, r |-> "failed"]
    BY <1>4
  <1> QED BY <1>1, <1>2, <1>3, <1>4, ExecCases

\* A flush fails in one of the ways a section may, or the queue is journaled
\* as one entry.
LEMMA FlushShape ==
    ASSUME NEW s \in StateType, NEW x \in Nat, GoodOwner(s.tc, x), ~s.tc.recovering, Quiet(s.tc),
           s.tc.mode # "none", s.held = <<>>, NEW f \in FlushOutcomes(s)
    PROVE  /\ IF f.r = "ok" THEN FlushDone(s, f.s) ELSE FailShape(s, f)
           /\ f.r # "wait" => f.s.held = <<>>
PROOF
  <1> DEFINE q == s.tc.autoDML
  <1>1. s.tc.recovering = FALSE /\ s.tc \in OwnerType
    BY DEF StateType, OwnerType
  <1>2. CASE q = <<>> /\ f = [s |-> s, r |-> "ok"]
    BY <1>1, <1>2 DEF FlushDone, Kept, Stays, SameJournal, Queued
  <1>3. CASE q # <<>>
    <2>1. /\ s.tc.mode = "rw" /\ Working(s.tc, x)
          /\ s.tc.queued = q /\ q \in Seq(Ops)
      BY <1>1, <1>3, AccountTerms DEF OwnerShape, GoodOwner, Working, Quiet
    <2> DEFINE n == QueueBytes(s.tc.queued)
               t == Taken(s).tc
    <2>2. Working(t, x + n) /\ n \in Nat
      <3>1. Working([s.tc EXCEPT !.autoDML = <<>>, !.queued = <<>>], x + n) /\ n \in Nat
        BY <2>1, TakeWorks
      <3>2. t = [s.tc EXCEPT !.autoDML = <<>>, !.queued = <<>>]
        BY TakenFields
      <3> HIDE DEF t, n
      <3> QED BY <3>1, <3>2
    <2>3. /\ t.mode = "rw" /\ t.recovering = FALSE /\ t.entries = s.tc.entries
          /\ t.marks = s.tc.marks /\ t.nextID = s.tc.nextID /\ t.retry = s.tc.retry
          /\ t.autoDML = <<>> /\ t.attempt = s.tc.attempt /\ t \in OwnerType
      <3>1. t = [s.tc EXCEPT !.autoDML = <<>>, !.queued = <<>>]
        BY TakenFields
      <3>2. t \in OwnerType
        BY <2>2 DEF Working, GoodOwner
      <3> HIDE DEF t
      <3> QED BY <1>1, <2>1, <3>1, <3>2 DEF OwnerType
    <2>4. Taken(s) \in StateType /\ Taken(s).held = <<>> /\ Taken(s).durable = s.durable
      BY <2>3, TakenFields DEF Taken, StateType
    <2>5. CASE Failed(Released(s), f)
      <3> DEFINE u == Released(s)
      <3>1. u.tc = [t EXCEPT !.retained = @ - n] /\ u.held = q /\ u.durable = s.durable
        BY TakenFields
      <3>2. Working([t EXCEPT !.retained = @ - n], x)
        <4>1. GoodOwner(t, x + n) /\ t.mode # "none"
          BY <2>2 DEF Working
        <4> HIDE DEF t, n
        <4> QED BY <2>2, <4>1, GiveBackWorks
      <3>3. Working(u.tc, x)
        <4> HIDE DEF t, n, u
        <4> QED BY <3>1, <3>2
      <3>4. u \in StateType
        BY <2>1, <2>4, <3>3 DEF Released, Taken, StateType, GoodOwner, Working
      <3>5. /\ u.tc.mode = "rw" /\ u.tc.recovering = FALSE /\ u.tc.entries = s.tc.entries
            /\ u.tc.marks = s.tc.marks /\ u.tc.nextID = s.tc.nextID /\ u.tc.retry = s.tc.retry
        <4> HIDE DEF t, n, u
        <4> QED BY <2>3, <3>1 DEF OwnerType
      <3> HIDE DEF u
      <3>6. Kept(s, u)
        BY <1>1, <1>3, <2>1, <3>1, <3>5 DEF Kept, Stays, SameJournal, Queued
      <3>7. FailShape(u, f) /\ f.r # "ok" /\ (f.r # "wait" => f.s.held = <<>>)
        BY <2>5, <3>3, <3>4, FailedShape DEF u
      <3> QED BY <3>5, <3>6, <3>7, KeptFails
    <2>6. ASSUME NEW v \in Observations,
                 f = [s |-> Executed(Taken(s), Taken(s).tc, s.tc.queued, s.tc.autoDML, v), r |-> "ok"]
          PROVE  f.r = "ok" /\ Flushes(s, f.s) /\ f.s.held = <<>>
      <3> DEFINE w == Executed(Taken(s), t, s.tc.queued, s.tc.autoDML, v)
      <3>10. w = Executed(Taken(s), t, s.tc.queued, s.tc.autoDML, v)
        OBVIOUS
      <3>8. f = [s |-> w, r |-> "ok"]
        BY <2>6
      <3>9. t \in OwnerType
        BY <2>3
      <3> HIDE DEF w, t
      <3>1. /\ w.tc.mode = t.mode /\ w.tc.recovering = t.recovering /\ w.tc.marks = t.marks
            /\ w.tc.autoDML = t.autoDML /\ w.tc.nextID = t.nextID + 1
            /\ w.tc.entries = Append(t.entries, NewEntry(t.nextID + 1, s.tc.queued, v))
            /\ w.held = Taken(s).held /\ w.durable = Taken(s).durable
        BY <2>4, <3>10, <3>9, ExecutedShape
      <3>3. Queued(w) = <<>> /\ Queued(s) = q
        BY <1>1, <2>3, <2>4, <3>1 DEF Queued
      <3>4. Flushes(s, w)
        BY <1>1, <1>3, <2>1, <2>3, <2>4, <3>1, <3>3 DEF Flushes, Ran, Stays
      <3> QED BY <2>4, <3>1, <3>8, <3>4
    <2> QED BY <1>3, <2>5, <2>6, FlushCases DEF FlushDone
  <1> QED BY <1>2, <1>3, FlushCases

\* A commit commits the journal, drops the owner, or fails in one of the ways
\* a section may.
LEMMA CommitsShape ==
    ASSUME NEW s \in StateType, Working(s.tc, 0), s.held = <<>>, NEW f \in CommitOutcomes(s)
    PROVE  CommitShape(s, f) /\ (f.r # "wait" => f.s.held = <<>>)
PROOF
  <1>1. s.tc.aborts \in Nat
    BY BoundAssumption DEF StateType, OwnerType
  <1>2. CASE f = [s |-> End(s), r |-> "failed"]
    BY <1>2, EndGood DEF CommitShape, Dropped
  <1>3. CASE f \in {[s |-> Committed(s), r |-> "ok"], [s |-> Committed(s), r |-> "failed"]}
    <2>1. /\ Committed(s).tc = NoOwner /\ Committed(s).held = <<>>
          /\ Committed(s).durable = Batches(s.phys)
      <3>1. End(s).tc = NoOwner /\ End(s).held = <<>> /\ End(s) \in StateType
        BY EndGood
      <3> QED BY <3>1 DEF Committed, StateType
    <2> QED BY <1>3, <2>1 DEF CommitShape, Commits, Working
  <1>4. CASE Failed(s, f)
    BY <1>4, FailedShape DEF CommitShape
  <1> QED BY <1>1, <1>2, <1>3, <1>4, CommitCases

\* Giving back the marker's reservation changes nothing else.
LEMMA SettledShape ==
    ASSUME NEW s, NEW p, NEW n, NEW f \in ResultType, FailShape(s, f), f.r # "ok",
           f.r # "wait" => f.s.held = <<>>, GoodOwner(f.s.tc, MarkerFor(p)),
           NEW g \in Settle(p, n, f)
    PROVE  /\ FailShape(s, g) \/ (p = "commit" /\ g.r # "wait" /\ Dropped(s, g.s))
           /\ g.r # "wait" => g.s.held = <<>>
PROOF
  <1> DEFINE o == f.s.tc
  <1>1. f.s \in StateType /\ o \in OwnerType
    BY DEF ResultType, StateType
  <1>2. CASE f.r # "wait" /\ o.mode # "none" /\ g = [f EXCEPT !.s.tc.retained = @ - MarkerBytes]
    <2>1. Broken(s, f.s)
      BY <1>2 DEF FailShape, Dropped, NoOwner
    <2>2. /\ g.r = f.r /\ g.s.held = f.s.held /\ g.s.durable = f.s.durable
          /\ g.s.tc.mode = o.mode /\ g.s.tc.recovering = o.recovering
          /\ g.s.tc.entries = o.entries /\ g.s.tc.marks = o.marks /\ g.s.tc.nextID = o.nextID
      BY <1>1, <1>2 DEF ResultType, StateType, OwnerType
    <2>3. Broken(s, g.s)
      BY <2>1, <2>2 DEF Broken, SameJournal
    <2> QED BY <1>2, <2>2, <2>3 DEF FailShape
  <1>3. CASE p = "commit" /\ f.r = "exhausted" /\ o.mode # "none"
             /\ g \in Outcome(HandleFailure(f.s), "exhausted")
    <2>1. Broken(s, f.s)
      BY <1>3 DEF FailShape, Dropped, NoOwner
    <2>2. g = [s |-> End(f.s), r |-> "exhausted"]
      BY <1>3, <2>1 DEF Outcome, HandleFailure, Broken
    <2> QED BY <1>1, <1>3, <2>1, <2>2, EndGood DEF Dropped, Broken
  <1>4. CASE g = f
    BY <1>4
  <1> QED BY <1>2, <1>3, <1>4 DEF Settle

\* What a section does after its flush: nothing, the marker, or the commit.
LEMMA SettleShapes ==
    ASSUME NEW p \in {"flush", "savepoint", "commit"}, NEW n, NEW s \in StateType,
           NEW m \in {"pending", "rw", "ro"}, p # "savepoint" => m = "rw",
           NEW f, FlushResult(f, MarkerFor(p), m), ResultSynced(f),
           IF f.r = "ok" THEN FlushDone(s, f.s) ELSE FailShape(s, f),
           f.r # "wait" => f.s.held = <<>>,
           NEW g \in Settle(p, n, f)
    PROVE  Shape(p, s, n, g) /\ (g.r # "wait" => g.s.held = <<>>)
PROOF
  <1> DEFINE u == f.s
             o == f.s.tc
  <1>1. f \in ResultType /\ u \in StateType /\ o \in OwnerType /\ GoodOwner(o, MarkerFor(p))
    BY DEF FlushResult, ResultType, StateType
  <1>2. CASE f.r # "ok"
    BY <1>1, <1>2, SettledShape DEF Shape
  <1>3. CASE f.r = "ok"
    <2>1. /\ FlushDone(s, u) /\ Synced(u) /\ o.mode = m /\ o.recovering = FALSE /\ u.held = <<>>
          /\ o.mode # "none" /\ Quiet(o)
      BY <1>1, <1>3 DEF FlushResult, ResultSynced, OwnerType
    <2>2. f = [s |-> u, r |-> "ok"]
      BY <1>1, <1>3 DEF ResultType
    <2>3. SettleShape(p, u, n, g) /\ (g.r # "wait" => g.s.held = <<>>)
      <3>1. CASE p = "flush"
        <4>1. g = f
          BY <1>3, <3>1 DEF Settle
        <4> QED BY <2>1, <2>2, <3>1, <4>1 DEF SettleShape
      <3>2. CASE p = "savepoint"
        <4> DEFINE h == [f EXCEPT !.s.tc.marks =
                            Append(@, [name |-> n, pos |-> Len(f.s.tc.entries)])]
        <4>1. g = h
          BY <1>3, <3>2 DEF Settle
        <4>2. /\ h.r = "ok" /\ h.s.held = u.held /\ h.s.durable = u.durable
              /\ h.s.tc.mode = o.mode /\ h.s.tc.recovering = o.recovering
              /\ h.s.tc.autoDML = o.autoDML
              /\ h.s.tc.entries = o.entries /\ h.s.tc.nextID = o.nextID
              /\ h.s.tc.marks = Append(o.marks, [name |-> n, pos |-> Len(o.entries)])
          BY <1>1, <1>3 DEF ResultType, StateType, OwnerType
        <4> HIDE DEF h
        <4>3. Queued(h.s) = Queued(u)
          BY <2>1, <4>2 DEF Queued
        <4>4. Marks(u, h.s, n)
          BY <2>1, <4>2, <4>3 DEF Marks, Stays
        <4> QED BY <2>1, <3>2, <4>1, <4>2, <4>4 DEF SettleShape
      <3>3. CASE p = "commit"
        <4>1. g \in CommitOutcomes(u)
          BY <1>3, <3>3 DEF Settle
        <4>2. Working(u.tc, 0)
          BY <1>1, <2>1, <3>3 DEF MarkerFor, Working, Quiet
        <4> HIDE DEF u
        <4> QED BY <1>1, <2>1, <3>3, <4>1, <4>2, CommitsShape DEF SettleShape
      <3> QED BY <3>1, <3>2, <3>3
    <2> HIDE DEF u
    <2> QED BY <1>1, <2>1, <2>3 DEF Shape
  <1> QED BY <1>2, <1>3

\* Every outcome of a section is a failure, or the flush followed by the
\* section's own work.
LEMMA OutcomesShape ==
    ASSUME NEW p \in SectionPCs, NEW s \in StateType, GoodOwner(s.tc, MarkerFor(p)),
           s.tc.mode # "none", p # "savepoint" => s.tc.mode = "rw",
           ~s.tc.recovering, Quiet(s.tc), s.held = <<>>,
           p = "exec" => st.op \in Ops,
           Synced(s), NEW f \in Outcomes(p, s)
    PROVE  Shape(p, s, st.name, f) /\ (f.r # "wait" => f.s.held = <<>>)
PROOF
  <1>1. CASE p = "exec"
    <2>1. f \in ExecOutcomes(s, <<st.op>>) /\ <<st.op>> \in Seq(Ops)
      BY <1>1 DEF Outcomes
    <2>2. Working(s.tc, 0)
      BY <1>1 DEF Working, Quiet, MarkerFor
    <2>3. Kept(s, s)
      BY DEF Kept, Stays, SameJournal
    <2> DEFINE os == <<st.op>>
    <2>4. f \in ExecOutcomes(s, os) /\ os \in Seq(Ops)
      BY <2>1
    <2> HIDE DEF os
    <2>5. /\ \/ FailShape(s, f)
             \/ f = [s |-> s, r |-> "failed"]
             \/ f.r = "ok" /\ Executes(s, f.s, os)
          /\ f.r # "wait" => f.s.held = <<>>
      BY <2>2, <2>4, ExecShape
    <2>6. f = [s |-> s, r |-> "failed"] => f.r = "failed" /\ f.s = s
      OBVIOUS
    <2> QED BY <1>1, <2>3, <2>5, <2>6 DEF Shape, os
  <1>2. CASE p = "query"
    <2>1. Kept(s, s)
      BY DEF Kept, Stays, SameJournal
    <2> QED BY <1>2, <2>1 DEF Outcomes, Outcome, Shape
  <1>3. CASE p \in {"flush", "savepoint", "commit"}
    <2>1. PICK g \in FlushOutcomes(s) : f \in Settle(p, st.name, g)
      BY <1>3 DEF Outcomes
    <2>2. MarkerFor(p) \in Nat
      BY DEF MarkerFor, MarkerBytes
    <2>3. FlushResult(g, MarkerFor(p), s.tc.mode)
      BY <2>2, FlushGood
    <2>4. s.tc.mode \in {"pending", "rw", "ro"}
      BY DEF StateType, OwnerType
    <2>5. ResultSynced(g)
      BY <2>2, FlushSynced
    <2>6. /\ IF g.r = "ok" THEN FlushDone(s, g.s) ELSE FailShape(s, g)
          /\ g.r # "wait" => g.s.held = <<>>
      BY <2>2, FlushShape
    <2> DEFINE m == s.tc.mode
               n == st.name
    <2>7. m \in {"pending", "rw", "ro"} /\ (p # "savepoint" => m = "rw")
      BY <2>4
    <2>8. FlushResult(g, MarkerFor(p), m) /\ f \in Settle(p, n, g)
      BY <2>1, <2>3
    <2> HIDE DEF m, n
    <2>9. Shape(p, s, n, f) /\ (f.r # "wait" => f.s.held = <<>>)
      BY <1>3, <2>5, <2>6, <2>7, <2>8, SettleShapes
    <2> QED BY <2>9 DEF n
  <1> QED BY <1>1, <1>2, <1>3 DEF SectionPCs

----------------------------------------------------------------------------
(* The steps of the sections.                                              *)

\* A section repeated on a replayed owner does to the old owner what it does
\* to the new one.
LEMMA KeptShape ==
    ASSUME NEW s, NEW u, NEW p, NEW n, NEW f, Kept(s, u), u.tc.retry = s.tc.retry, Shape(p, u, n, f)
    PROVE  Shape(p, s, n, f)
PROOF
  <1>1. CASE FailShape(u, f)
    BY <1>1, KeptFails DEF Shape
  <1>2. CASE p = "exec" /\ f.r = "failed" /\ Kept(u, f.s)
    <2>1. Kept(s, f.s)
      BY <1>2 DEF Kept, Stays, SameJournal
    <2> QED BY <1>2, <2>1 DEF Shape
  <1>6. CASE p = "query" /\ f.r = "ok" /\ Kept(u, f.s)
    <2>1. Kept(s, f.s)
      BY <1>6 DEF Kept, Stays, SameJournal
    <2> QED BY <1>6, <2>1 DEF Shape
  <1>3. CASE p = "exec" /\ f.r = "ok" /\ Executes(u, f.s, <<st.op>>)
    BY <1>3 DEF Shape, Kept, Stays, SameJournal, Executes, Ran
  <1>4. CASE \E w \in StateType : FlushDone(u, w) /\ Synced(w) /\ SettleShape(p, w, n, f)
    <2>1. PICK w \in StateType : FlushDone(u, w) /\ Synced(w) /\ SettleShape(p, w, n, f)
      BY <1>4
    <2>2. FlushDone(s, w)
      BY <2>1 DEF FlushDone, Flushes, Ran, Kept, Stays, SameJournal
    <2> QED BY <2>1, <2>2 DEF Shape
  <1>5. CASE p = "commit" /\ f.r # "wait" /\ Dropped(u, f.s)
    BY <1>5 DEF Shape, Dropped, Kept, Stays
  <1> QED BY <1>1, <1>2, <1>3, <1>4, <1>5, <1>6 DEF Shape

\* A section p ends with the result f.
SectionStep(p, f) ==
    /\ p \in SectionPCs /\ SectionResult(p, f) /\ Finish(p, f)
    /\ Shape(p, S, st.name, f)
    /\ f.r # "wait" => f.s.held = <<>>

\* The next state is the section's outcome.
LEMMA SectionStepState ==
    ASSUME NEW p, NEW f, SectionStep(p, f)
    PROVE  S' = f.s
PROOF
  <1>1. f.s \in StateType
    BY DEF SectionStep, SectionResult, ResultType
  <1>2. tc' = f.s.tc /\ phys' = f.s.phys /\ held' = f.s.held /\ durable' = f.s.durable
    BY DEF SectionStep, Finish
  <1> QED BY <1>1, <1>2 DEF S, StateType

\* A section either ends an expired owner or takes one of the steps its pc
\* allows.
LEMMA SectionSteps ==
    ASSUME AccountInv, ServerInv, Section
    PROVE  \/ pc = "exec" /\ tc.expired /\ Become(End(S)) /\ pc' = "leave" /\ UNCHANGED <<st, back, tok>>
           \/ \E f : SectionStep(pc, f)
PROOF
  <1>1. CASE pc = "exec" /\ tc.expired
    BY <1>1 DEF Section
  <1>2. CASE ~(pc = "exec" /\ tc.expired)
    <2>1. PICK f \in Outcomes(pc, S) : Finish(pc, f)
      BY <1>2 DEF Section
    <2>2. pc \in SectionPCs /\ pc # "backoff"
      BY DEF Section, SectionPCs
    <2>3. /\ S \in StateType /\ S.tc = tc /\ S.held = <<>>
          /\ GoodOwner(tc, MarkerFor(pc)) /\ Quiet(tc) /\ ~tc.recovering
          /\ tc.mode # "none" /\ (pc # "savepoint" => tc.mode = "rw")
          /\ pc = "exec" => st.op \in Ops
          /\ pc = "savepoint" => st.name \in Names
      BY <2>2, SectionStarts DEF Section
    <2>4. Synced(S)
      BY <2>2, ServerSynced
    <2>5. SectionResult(pc, f)
      BY <2>1, <2>2, <2>3, OutcomesGood
    <2>6. Shape(pc, S, st.name, f) /\ (f.r # "wait" => f.s.held = <<>>)
      BY <2>1, <2>2, <2>3, <2>4, OutcomesShape
    <2> QED BY <2>1, <2>2, <2>5, <2>6 DEF SectionStep
  <1> QED BY <1>1, <1>2

\* A query aborted while its rows are read is a failed query section.
LEMMA QueryAbortedSteps ==
    ASSUME AccountInv, ServerInv, QueryAborted
    PROVE  \E f : SectionStep("query", f) /\ FailShape(S, f) /\ f.r # "ok"
PROOF
  <1> DEFINE s == [S EXCEPT !.tc = ReleasePending(tc)]
  <1>1. /\ s \in StateType /\ s.tc = ReleasePending(tc) /\ s.held = <<>>
        /\ s.durable = durable /\ Working(s.tc, 0)
        /\ \E f : Finish("query", f) /\ Failed(s, f) /\ SectionResult("query", f)
    BY QueryAbortedCases
  <1>2. /\ tc.mode = "rw" /\ tc.recovering = FALSE /\ S.held = <<>> /\ S.tc = tc
        /\ S.durable = durable /\ tc \in OwnerType
    <2>1. pc = "iterate"
      BY DEF QueryAborted
    <2> QED BY <2>1, Iterating DEF OwnerType
  <1>3. /\ s.tc.mode = tc.mode /\ s.tc.recovering = tc.recovering /\ s.tc.autoDML = tc.autoDML
        /\ s.tc.entries = tc.entries /\ s.tc.marks = tc.marks /\ s.tc.nextID = tc.nextID
        /\ s.tc.retry = tc.retry
    <2> HIDE DEF s
    <2> QED BY <1>1, <1>2 DEF ReleasePending, OwnerType
  <1> HIDE DEF s
  <1>4. Kept(S, s)
    BY <1>1, <1>2, <1>3 DEF Kept, Stays, SameJournal, Queued
  <1>5. PICK f : Finish("query", f) /\ Failed(s, f) /\ SectionResult("query", f)
    BY <1>1
  <1>6. FailShape(s, f) /\ f.r # "ok" /\ (f.r # "wait" => f.s.held = <<>>)
    BY <1>1, <1>5, FailedShape
  <1>7. FailShape(S, f)
    BY <1>2, <1>3, <1>4, <1>6, KeptFails
  <1> QED BY <1>5, <1>6, <1>7 DEF SectionStep, SectionPCs, Shape

\* The end of a backoff is a step of the section that waited.
LEMMA ResumeSteps ==
    ASSUME AccountInv, ServerInv, Resume
    PROVE  \E f : SectionStep(back, f)
PROOF
  <1>1. pc = "backoff"
    BY DEF Resume
  <1>2. PICK f : /\ Finish(back, f)
                 /\ ResumeFails(f) \/ (\E seen : ResumeRepeats(f, seen)) \/ ResumeAborts(f)
    BY ResumeCases
  <1>3. SectionResult(back, f)
    BY <1>1, <1>2, ResumeResult
  <1>4. back \in SectionPCs
    BY <1>1, Waits
  <1>5. CASE ResumeFails(f)
    <2>1. S \in StateType /\ tc.retry /\ S.tc = tc
      BY <1>1, Waits
    <2>2. FailShape(S, f) /\ f.s.held = <<>>
      BY <1>5, <2>1, EndGood DEF ResumeFails, FailShape, Dropped
    <2> QED BY <1>2, <1>3, <1>4, <2>2 DEF SectionStep, Shape
  <1>6. ASSUME NEW seen, ResumeRepeats(f, seen)
        PROVE  SectionStep(back, f)
    <2>1. /\ seen \in [DOMAIN tc.entries -> Observations] /\ Matches(tc.entries, seen)
          /\ f \in Outcomes(back, Again(seen))
      BY <1>6 DEF ResumeRepeats, Again
    <2> DEFINE a == Again(seen)
    <2>2. /\ a \in StateType /\ a.held = <<>>
          /\ Working(a.tc, MarkerFor(back))
          /\ a.phys = Replayed(tc.entries, seen) /\ a.durable = durable
          /\ held # <<>> => a.tc.autoDML = held /\ a.tc.queued = held
          /\ held = <<>> => a.tc = tc
          /\ a.tc.entries = tc.entries /\ a.tc.marks = tc.marks
          /\ a.tc.nextID = tc.nextID /\ a.tc.live = tc.live
          /\ a.tc.retry = tc.retry /\ a.tc.mode = tc.mode
      BY <1>1, <2>1, AgainGood
    <2>3. f \in Outcomes(back, a)
      BY <2>1
    <2> HIDE DEF a
    <2>4. a.tc.recovering = FALSE /\ tc.recovering = FALSE
      BY <1>1, <2>2, Waits DEF Working, GoodOwner, OwnerType
    <2>5. Synced(a)
      <3>1. tc.entries \in Seq(Entry)
        BY <1>1, Waits, AccountTerms DEF Working, GoodOwner
      <3>2. tc.live = TRUE
        BY <1>1, <2>4, Waits DEF ServerInv, Working, GoodOwner, OwnerType
      <3> QED BY <2>1, <2>2, <2>4, <3>1, <3>2, ReplayedAnswers DEF Synced, Working
    <2>6. Shape(back, a, st.name, f) /\ (f.r # "wait" => f.s.held = <<>>)
      BY <1>1, <1>4, <2>2, <2>3, <2>4, <2>5, Waits, OutcomesShape DEF Working, Quiet
    <2>7. Kept(S, a) /\ S.tc = tc
      BY <1>1, <2>2, <2>4, Waits DEF Kept, Stays, SameJournal, Queued
    <2>8. Shape(back, S, st.name, f)
      BY <2>2, <2>6, <2>7, KeptShape
    <2> QED BY <1>2, <1>3, <1>4, <2>6, <2>8 DEF SectionStep
  <1>7. CASE ResumeAborts(f)
    <2>1. PICK g \in Recover(S) : f \in IF held = <<>> THEN {g} ELSE Settle(back, st.name, g)
      BY <1>7 DEF ResumeAborts
    <2>2. Failed(S, g) /\ g \in ResultType /\ GoodOwner(g.s.tc, MarkerFor(back)) /\ g.r # "ok"
      BY <1>1, <2>1, AbortsAgain
    <2>3. FailShape(S, g) /\ (g.r # "wait" => g.s.held = <<>>)
      <3>1. S \in StateType /\ Working(S.tc, MarkerFor(back)) /\ MarkerFor(back) \in Nat
        BY <1>1, Waits
      <3> QED BY <2>2, <3>1, FailedShape
    <2>4. Shape(back, S, st.name, f) /\ (f.r # "wait" => f.s.held = <<>>)
      <3>1. CASE held = <<>>
        BY <2>1, <2>3, <3>1 DEF Shape
      <3>2. CASE held # <<>>
        <4>1. f \in Settle(back, st.name, g)
          BY <2>1, <3>2
        <4> QED BY <2>2, <2>3, <4>1, SettledShape DEF Shape
      <3> QED BY <3>1, <3>2
    <2> QED BY <1>2, <1>3, <1>4, <2>4 DEF SectionStep
  <1> QED BY <1>2, <1>5, <1>6, <1>7

----------------------------------------------------------------------------
(* The steps of the other actions.                                         *)

\* A new owner
Begins(s, t) ==
    /\ s.tc.mode = "none" /\ t.tc.mode # "none" /\ ~t.tc.recovering
    /\ t.tc.entries = <<>> /\ t.tc.marks = <<>> /\ t.tc.nextID = 0
    /\ Queued(t) = <<>> /\ t.durable = s.durable
\* The owner is there and not in recovery.
Usable(s, t) == Stays(s, t) /\ s.tc.mode # "none" /\ ~s.tc.recovering
Queues(s, t, x) == Usable(s, t) /\ SameJournal(s, t) /\ Queued(t) = Append(Queued(s), x)
Unqueues(s, t) == Usable(s, t) /\ SameJournal(s, t) /\ Queued(t) = <<>>
\* A marker and those that follow it are dropped.
Releases(s, t) ==
    /\ Usable(s, t) /\ t.tc.entries = s.tc.entries /\ t.tc.nextID = s.tc.nextID
    /\ Queued(t) = Queued(s)
    /\ \E i \in DOMAIN s.tc.marks : t.tc.marks = SubSeq(s.tc.marks, 1, i - 1)
\* The journal goes back to a marker.
Returns(s, t) ==
    /\ s.tc.mode # "none" /\ t.tc.mode # "none" /\ ~t.tc.recovering /\ t.durable = s.durable
    /\ t.tc.nextID = s.tc.nextID /\ Queued(t) = <<>>
    /\ \E i \in DOMAIN s.tc.marks :
          /\ s.tc.marks[i].pos \in 0..Len(s.tc.entries)
          /\ t.tc.entries = SubSeq(s.tc.entries, 1, s.tc.marks[i].pos)
          /\ t.tc.marks = SubSeq(s.tc.marks, 1, i)

\* The entry of the result in hand and those after it are taken back.
Retracted(s, i, k) ==
    /\ i \in 1..Len(s.tc.entries) /\ k \in 0..Len(s.tc.marks)
    /\ s.tc.entries[i].id = tok.id
    /\ \A j \in DOMAIN s.tc.marks : j <= k <=> s.tc.marks[j].pos <= i - 1
\* The last entry is taken back, and the owner waits in recovery.
Retracts(s, t) ==
    /\ s.tc.mode # "none" /\ ~s.tc.recovering
    /\ t.tc.mode # "none" /\ t.tc.recovering /\ t.held = <<>> /\ t.durable = s.durable
    /\ t.tc.nextID = s.tc.nextID
    /\ \E i, k : /\ Retracted(s, i, k) /\ k # 0
                 /\ t.tc.entries = SubSeq(s.tc.entries, 1, i - 1)
                 /\ t.tc.marks = SubSeq(s.tc.marks, 1, k)
\* ... which leaves no marker.
RetractsAll(s, t) ==
    Dropped(s, t) /\ (s.tc.marks = <<>> \/ (~tok.plan /\ \E i : Retracted(s, i, 0)))

\* The fields of the state a section works on.
LEMMA StateFields ==
    /\ S.tc = tc /\ S.held = held /\ S.durable = durable /\ S.phys = phys
    /\ S'.tc = tc' /\ S'.held = held' /\ S'.durable = durable' /\ S'.phys = phys'
PROOF
  BY DEF S

\* A step that leaves the journal, the queue and the markers alone.
LEMMA OwnerKept ==
    ASSUME NEW o, tc' = o, held' = held, durable' = durable,
           (o.mode = "none") = (tc.mode = "none"), o.recovering = tc.recovering, o.autoDML = tc.autoDML,
           o.entries = tc.entries, o.marks = tc.marks, o.nextID = tc.nextID
    PROVE  Kept(S, S')
PROOF
  BY StateFields DEF Kept, Stays, SameJournal, Queued

\* A step that leaves the owner alone.
LEMMA StayKept ==
    ASSUME tc' = tc, held' = held, durable' = durable
    PROVE  Kept(S, S')
PROOF
  BY OwnerKept

\* The end of the owner.
LEMMA EndDropped ==
    ASSUME Become(End(S))
    PROVE  Dropped(S, S')
PROOF
  BY BecomeEnded, StateFields DEF Dropped

\* Submitting a statement leaves the owner alone.
LEMMA SubmitSteps ==
    ASSUME AccountInv, SubmitDML \/ SubmitEnd \/ SubmitSavepoint
    PROVE  Kept(S, S')
PROOF
  <1>1. tc \in OwnerType
    BY DEF AccountInv, TypeOK
  <1>2. /\ held' = held /\ durable' = durable
        /\ tc' = tc \/ tc' = Reserve(tc, MarkerBytes)
    BY DEF SubmitDML, SubmitEnd, SubmitSavepoint, Submit
  <1> DEFINE o == Reserve(tc, MarkerBytes)
  <1>3. /\ o.mode = tc.mode /\ o.recovering = tc.recovering /\ o.autoDML = tc.autoDML
        /\ o.entries = tc.entries /\ o.marks = tc.marks /\ o.nextID = tc.nextID
    BY <1>1 DEF Reserve, OwnerType
  <1> HIDE DEF o
  <1>4. tc' = tc \/ tc' = o
    BY <1>2 DEF o
  <1> QED BY <1>2, <1>3, <1>4, OwnerKept, StayKept

\* BEGIN starts an owner with nothing in it.
LEMMA BeginSteps ==
    ASSUME AccountInv, Begin
    PROVE  Begins(S, S')
PROOF
  <1> DEFINE Starts(o) == /\ o.entries = <<>> /\ o.mode # "none" /\ o.recovering = FALSE
                          /\ o.marks = <<>> /\ o.nextID = 0 /\ o.autoDML = <<>>
  <1>1. PICK o : Become([S EXCEPT !.tc = o]) /\ Starts(o)
    <2>1. \A r \in BOOLEAN : Starts([NoOwner EXCEPT !.mode = "pending", !.retry = r])
      BY DEF NoOwner
    <2>2. \A r \in BOOLEAN :
             Starts([NoOwner EXCEPT !.mode = "rw", !.retry = r, !.live = TRUE, !.attempt = 1])
      BY DEF NoOwner
    <2>3. Starts([NoOwner EXCEPT !.mode = "ro", !.live = TRUE, !.attempt = 1])
      BY DEF NoOwner
    <2> HIDE DEF Starts
    <2> QED BY <2>1, <2>2, <2>3 DEF Begin
  <1>2. tc.mode = "none" /\ held = <<>>
    BY OutsideSavepoint DEF Begin, InTxn
  <1>3. tc' = o /\ held' = <<>> /\ durable' = durable
    BY <1>1, <1>2, BecomeOwner
  <1>4. Queued(S') = <<>>
    BY <1>1, <1>3, StateFields DEF Queued
  <1> QED BY <1>1, <1>2, <1>3, <1>4, StateFields DEF Begins

\* The implicit decision leaves the journal, the queue and the markers alone.
LEMMA DetermineSteps ==
    ASSUME AccountInv, Determine
    PROVE  Kept(S, S')
PROOF
  <1>1. tc \in OwnerType
    BY DEF AccountInv, TypeOK
  <1>2. CASE /\ tc.mode = "pending"
             /\ Become([S EXCEPT !.tc.mode = "rw", !.tc.live = TRUE, !.tc.attempt = 1])
    <2> DEFINE o == [tc EXCEPT !.mode = "rw", !.live = TRUE, !.attempt = 1]
    <2>1. [S EXCEPT !.tc.mode = "rw", !.tc.live = TRUE, !.tc.attempt = 1] = [S EXCEPT !.tc = o]
      BY <1>1 DEF S, OwnerType
    <2>2. /\ o.mode = "rw" /\ o.recovering = tc.recovering /\ o.autoDML = tc.autoDML
          /\ o.entries = tc.entries /\ o.marks = tc.marks /\ o.nextID = tc.nextID
      BY <1>1 DEF OwnerType
    <2> HIDE DEF o
    <2>3. tc' = o /\ held' = held /\ durable' = durable
      BY <1>2, <2>1, BecomeOwner
    <2> QED BY <1>2, <2>2, <2>3, OwnerKept
  <1>3. CASE Become(S)
    BY <1>3, BecomeStay, StayKept
  <1> QED BY <1>2, <1>3 DEF Determine

\* Queueing puts the statement at the end of the queue, or is refused.
LEMMA EnqueueSteps ==
    ASSUME AccountInv, Enqueue
    PROVE  Kept(S, S') \/ Queues(S, S', st.op)
PROOF
  <1> DEFINE q == Append(tc.queued, st.op)
             n == QueueBytes(q) - QueueBytes(tc.queued)
             w == Append(tc.autoDML, st.op)
             o == [Reserve(tc, n) EXCEPT !.queued = q, !.autoDML = w]
  <1>1. tc \in OwnerType /\ held = <<>> /\ tc.mode = "rw" /\ tc.recovering = FALSE
    <2>1. pc = "enqueue"
      BY DEF Enqueue
    <2> QED BY <2>1, OutsideSavepoint DEF AccountInv, SectionInv, ReadWritePCs, OwnerType
  <1>2. /\ o.mode = tc.mode /\ o.recovering = tc.recovering /\ o.entries = tc.entries
        /\ o.marks = tc.marks /\ o.nextID = tc.nextID /\ o.autoDML = w
    <2> HIDE DEF n, q, w
    <2> QED BY <1>1 DEF Reserve, OwnerType
  <1>3. Become(S) \/ Become([S EXCEPT !.tc = o])
    <2>1. [Reserve(tc, n) EXCEPT !.queued = q, !.autoDML = Append(@, st.op)] = o
      BY <1>1 DEF Reserve, OwnerType
    <2> HIDE DEF o
    <2> QED BY <2>1 DEF Enqueue
  <1> HIDE DEF o
  <1>4. CASE Become(S)
    BY <1>4, BecomeStay, StayKept
  <1>5. CASE Become([S EXCEPT !.tc = o])
    <2>1. tc' = o /\ held' = <<>> /\ durable' = durable
      BY <1>1, <1>5, BecomeOwner
    <2>2. Queued(S') = w /\ Queued(S) = tc.autoDML
      BY <1>1, <1>2, <2>1, StateFields DEF Queued
    <2> HIDE DEF w
    <2>3. Queues(S, S', st.op)
      BY <1>1, <1>2, <2>1, <2>2, StateFields DEF Queues, Usable, Stays, SameJournal, w
    <2> QED BY <2>3
  <1> QED BY <1>3, <1>4, <1>5

\* Starting a query leaves the journal, the queue and the markers alone.
LEMMA QuerySteps ==
    ASSUME AccountInv, Query
    PROVE  Kept(S, S')
PROOF
  <1>1. tc \in OwnerType
    BY DEF AccountInv, TypeOK
  <1>2. PICK n : Become(S) \/ Become([S EXCEPT !.tc = Admitted(tc, n)])
    BY DEF Query, Admitted
  <1> DEFINE o == Admitted(tc, n)
  <1>3. /\ o.mode = tc.mode /\ o.recovering = tc.recovering /\ o.autoDML = tc.autoDML
        /\ o.entries = tc.entries /\ o.marks = tc.marks /\ o.nextID = tc.nextID
    BY <1>1 DEF Admitted, Reserve, OwnerType
  <1> HIDE DEF o
  <1>4. CASE Become(S)
    BY <1>4, BecomeStay, StayKept
  <1>5. CASE Become([S EXCEPT !.tc = o])
    BY <1>3, <1>5, BecomeOwner, OwnerKept
  <1> QED BY <1>2, <1>4, <1>5 DEF o

\* A query read to its end is journaled under a new id, unless it was only
\* planned.
LEMMA QueryDoneSteps ==
    ASSUME AccountInv, QueryDone
    PROVE  \/ tok.plan /\ Kept(S, S')
           \/ ~tok.plan /\ Executes(S, S', <<st.op>>) /\ tc'.attempt = tc.attempt
                        /\ tok' = [tok EXCEPT !.id = tc.nextID + 1]
PROOF
  <1>1. /\ pc = "iterate" /\ tc \in OwnerType /\ tc.mode = "rw" /\ GoodOwner(tc, 0)
        /\ ~tc.recovering /\ S \in StateType /\ held = <<>>
    <2>1. pc = "iterate"
      BY DEF QueryDone
    <2> QED BY <2>1, Iterating
  <1> DEFINE a == Answered(tc)
  <1>2. /\ a.mode = tc.mode /\ a.recovering = tc.recovering /\ a.autoDML = tc.autoDML
        /\ a.entries = tc.entries /\ a.marks = tc.marks /\ a.nextID = tc.nextID
        /\ a.attempt = tc.attempt
    BY <1>1 DEF Answered, OwnerType
  <1>3. CASE tok.plan /\ Become([S EXCEPT !.tc = a])
    <2>1. tc' = a /\ held' = held /\ durable' = durable
      BY <1>3, BecomeOwner
    <2> HIDE DEF a
    <2> QED BY <1>2, <1>3, <2>1, OwnerKept
  <1>4. ASSUME NEW v \in Observations, ~tok.plan,
               Become(Executed(S, a, <<st.op>>, <<st.op>>, v)),
               tok' = [tok EXCEPT !.id = tc.nextID + 1]
        PROVE  Executes(S, S', <<st.op>>) /\ tc'.attempt = tc.attempt
    <2> DEFINE os == <<st.op>>
               t == Executed(S, a, os, os, v)
    <2>1. a \in OwnerType
      <3>1. Working(Answered(tc), 0 + tc.reserved)
        BY <1>1, AnsweredWorks
      <3> QED BY <3>1 DEF Working, GoodOwner
    <2>2. Become(t) /\ t = Executed(S, a, os, os, v)
      BY <1>4
    <2>3. t.tc.attempt = a.attempt
      <3> HIDE DEF a, os
      <3> QED BY <1>1, <2>1 DEF Executed, Journal, StateType, OwnerType
    <2> HIDE DEF a, os, t
    <2>4. /\ t.tc.mode = a.mode /\ t.tc.recovering = a.recovering /\ t.tc.marks = a.marks
          /\ t.tc.autoDML = a.autoDML /\ t.tc.nextID = a.nextID + 1
          /\ t.tc.entries = Append(a.entries, NewEntry(a.nextID + 1, os, v))
          /\ t.held = S.held /\ t.durable = S.durable
      BY <1>1, <2>1, <2>2, ExecutedShape
    <2>5. tc' = t.tc /\ held' = t.held /\ durable' = t.durable
      BY <2>2 DEF Become
    <2>6. Queued(S') = Queued(S)
      BY <1>1, <1>2, <2>4, <2>5, StateFields DEF Queued
    <2>7. Executes(S, S', os)
      BY <1>1, <1>2, <2>4, <2>5, <2>6, StateFields DEF Executes, Ran, Stays
    <2> QED BY <1>2, <2>3, <2>5, <2>7 DEF os
  <1> QED BY <1>3, <1>4 DEF QueryDone, Executed, Answered

\* A query that failed leaves the journal alone or puts the owner into
\* recovery.
LEMMA QueryFailedSteps ==
    ASSUME AccountInv, QueryFailed
    PROVE  Kept(S, S') \/ Broken(S, S')
PROOF
  <1> DEFINE s == [S EXCEPT !.tc = ReleasePending(tc)]
             o == ReleasePending(tc)
  <1>1. /\ pc = "iterate" /\ tc \in OwnerType /\ tc.mode = "rw" /\ GoodOwner(tc, 0)
        /\ ~tc.recovering /\ S \in StateType
    BY Iterating DEF QueryFailed
  <1>2. Working(o, 0) /\ o \in OwnerType
    BY <1>1, ReleasePendingWorks DEF Working, GoodOwner
  <1>3. /\ o.marks = tc.marks /\ o.mode = tc.mode /\ o.autoDML = tc.autoDML
        /\ o.recovering = tc.recovering /\ o.entries = tc.entries /\ o.nextID = tc.nextID
    BY <1>1 DEF ReleasePending, OwnerType
  <1>4. CASE tc.marks = <<>> /\ Become([S EXCEPT !.tc = o])
    <2>1. tc' = o /\ held' = held /\ durable' = durable
      BY <1>4, BecomeOwner
    <2> HIDE DEF o
    <2> QED BY <1>3, <2>1, OwnerKept
  <1>5. CASE tc.marks # <<>> /\ Become(EnterRecovery(s))
    <2>1. s \in StateType /\ s.tc = o /\ s.durable = durable
      <3> HIDE DEF o
      <3> QED BY <1>1, <1>2, StateFields DEF StateType, o
    <2> HIDE DEF s
    <2> DEFINE t == EnterRecovery(s)
    <2>2. /\ t.held = <<>> /\ t.durable = s.durable
          /\ t.tc.mode = "rw" /\ t.tc.recovering
          /\ t.tc.entries = s.tc.entries /\ t.tc.marks = s.tc.marks
          /\ t.tc.nextID = s.tc.nextID
      <3>1. GoodOwner(s.tc, 0) /\ s.tc.mode = "rw" /\ ~s.tc.recovering /\ s.tc.marks # <<>>
        BY <1>2, <1>3, <1>5, <2>1 DEF Working
      <3> QED BY <2>1, <3>1, EnterRecoveryGood
    <2>3. tc' = t.tc /\ held' = t.held /\ durable' = t.durable
      BY <1>5 DEF Become, s
    <2> HIDE DEF t, o
    <2> QED BY <1>1, <1>3, <1>5, <2>1, <2>2, <2>3, StateFields DEF Broken, SameJournal
  <1> QED BY <1>4, <1>5 DEF QueryFailed

\* RELEASE drops a marker and those that follow it.
LEMMA ReleaseSteps ==
    ASSUME AccountInv, Release
    PROVE  Releases(S, S')
PROOF
  <1>1. tc \in OwnerType /\ held = <<>> /\ tc.mode # "none" /\ tc.recovering = FALSE
    BY OutsideSavepoint DEF Release, Accepts, InTxn, OwnerType
  <1>2. PICK i \in DOMAIN tc.marks :
          Become([S EXCEPT !.tc.marks = SubSeq(@, 1, i - 1),
                           !.tc.retained = @ - MarkerBytes * (Len(tc.marks) - i + 1)])
    BY DEF Release
  <1> DEFINE w == tc.retained - MarkerBytes * (Len(tc.marks) - i + 1)
  <1>3. tc' = [tc EXCEPT !.marks = SubSeq(tc.marks, 1, i - 1), !.retained = w]
        /\ held' = held /\ durable' = durable
    BY <1>1, <1>2 DEF Become, S, OwnerType
  <1> HIDE DEF w
  <1>4. /\ tc'.mode = tc.mode /\ tc'.recovering = FALSE /\ tc'.entries = tc.entries
        /\ tc'.nextID = tc.nextID /\ tc'.autoDML = tc.autoDML
        /\ tc'.marks = SubSeq(tc.marks, 1, i - 1)
    BY <1>1, <1>3 DEF OwnerType
  <1>5. Queued(S') = Queued(S)
    BY <1>1, <1>3, <1>4, StateFields DEF Queued
  <1> QED BY <1>1, <1>2, <1>3, <1>4, <1>5, StateFields DEF Releases, Usable, Stays

\* ROLLBACK TO goes back to the marker, or the owner is dropped.
LEMMA RollbackToSteps ==
    ASSUME AccountInv, RollbackTo
    PROVE  Returns(S, S') \/ Dropped(S, S')
PROOF
  <1>1. GoodOwner(tc, 0) /\ Quiet(tc) /\ tc.mode # "none" /\ pc = "prompt" /\ held = <<>>
    BY AtPrompt DEF RollbackTo, InTxn
  <1>2. PICK i \in DOMAIN tc.marks :
          LET o == RolledBack(tc, i)
          IN  \/ tc.mode # "rw" /\ Become([S EXCEPT !.tc = o])
              \/ \E seen \in [DOMAIN o.entries -> Observations] :
                    Become([S EXCEPT !.tc = [o EXCEPT !.live = TRUE, !.attempt = @ + 1],
                                     !.phys = Replayed(o.entries, seen)])
              \/ Become(End(S))
    BY DEF RollbackTo, RolledBack
  <1> DEFINE o == RolledBack(tc, i)
             r == [o EXCEPT !.live = TRUE, !.attempt = @ + 1]
  <1>3. /\ GoodOwner(o, 0) /\ o.mode = tc.mode /\ o.recovering = FALSE
        /\ o.entries = SubSeq(tc.entries, 1, tc.marks[i].pos)
        /\ o.marks = SubSeq(tc.marks, 1, i) /\ o.autoDML = <<>> /\ o.nextID = tc.nextID
    BY <1>1, RolledBackGood
  <1> HIDE DEF o
  <1>4. o \in OwnerType
    BY <1>3 DEF GoodOwner
  <1>8. tc.marks[i].pos \in 0..Len(tc.entries)
    <2>1. tc.marks \in Seq(Marker) /\ tc.entries \in Seq(Entry)
      BY <1>1, AccountTerms DEF GoodOwner
    <2>2. tc.marks[i].pos \in Nat /\ tc.marks[i].pos <= Len(tc.entries)
      BY <1>1, <1>2, <2>1, MarkerFields DEF GoodOwner, MarksOrdered
    <2> QED BY <2>1, <2>2
  <1>5. CASE Become(End(S))
    BY <1>5, EndDropped
  <1>6. CASE Become([S EXCEPT !.tc = o])
    <2>1. tc' = o /\ held' = <<>> /\ durable' = durable
      BY <1>1, <1>6, BecomeOwner
    <2>2. Queued(S') = <<>>
      BY <1>3, <2>1, StateFields DEF Queued
    <2> QED BY <1>1, <1>2, <1>3, <1>8, <2>1, <2>2, StateFields DEF Returns
  <1>7. ASSUME NEW seen, Become([S EXCEPT !.tc = r, !.phys = Replayed(o.entries, seen)])
        PROVE  Returns(S, S')
    <2>1. tc' = r /\ held' = <<>> /\ durable' = durable
      BY <1>1, <1>7 DEF Become, S
    <2>2. /\ r.mode = o.mode /\ r.recovering = o.recovering /\ r.entries = o.entries
          /\ r.marks = o.marks /\ r.autoDML = o.autoDML /\ r.nextID = o.nextID
      BY <1>4 DEF OwnerType
    <2> HIDE DEF r
    <2>3. Queued(S') = <<>>
      BY <1>3, <2>1, <2>2, StateFields DEF Queued
    <2> QED BY <1>1, <1>2, <1>3, <1>8, <2>1, <2>2, <2>3, StateFields DEF Returns
  <1> QED BY <1>2, <1>5, <1>6, <1>7 DEF o

\* ABORT BATCH drops the queue and nothing else.
LEMMA AbortBatchSteps ==
    ASSUME AccountInv, AbortBatch
    PROVE  Unqueues(S, S') /\ st'.kind = "abortBatch"
PROOF
  <1>1. tc \in OwnerType /\ held = <<>> /\ tc.mode # "none" /\ tc.recovering = FALSE
    BY OutsideSavepoint DEF AbortBatch, Accepts, InTxn, OwnerType
  <1> DEFINE o == [DropQueued(tc) EXCEPT !.autoDML = <<>>]
  <1>2. /\ o.mode = tc.mode /\ o.recovering = FALSE /\ o.entries = tc.entries
        /\ o.marks = tc.marks /\ o.nextID = tc.nextID /\ o.autoDML = <<>>
    BY <1>1 DEF DropQueued, OwnerType
  <1>3. Become([S EXCEPT !.tc = o])
    BY DEF AbortBatch
  <1> HIDE DEF o
  <1>4. tc' = o /\ held' = <<>> /\ durable' = durable
    BY <1>1, <1>3, BecomeOwner
  <1>5. Queued(S') = <<>>
    BY <1>2, <1>4, StateFields DEF Queued
  <1>6. st'.kind = "abortBatch"
    BY DEF AbortBatch
  <1> QED BY <1>1, <1>2, <1>4, <1>5, <1>6, StateFields DEF Unqueues, Usable, Stays, SameJournal

\* Leaving a statement leaves the journal alone, or drops an expired owner.
LEMMA LeaveSteps ==
    ASSUME AccountInv, Leave
    PROVE  Kept(S, S') \/ (tc.expired /\ Dropped(S, S'))
PROOF
  BY BecomeStay, StayKept, EndDropped DEF Leave

\* A failed display retracts the statement it belongs to, breaks the attempt,
\* or changes nothing.
LEMMA DisplayFailedSteps ==
    ASSUME AccountInv, DisplayFailed
    PROVE  \/ ~Belongs /\ Kept(S, S')
           \/ Belongs /\ tc.mode = "rw" /\ ~tc.recovering
              /\ \/ Broken(S, S')
                 \/ Retracts(S, S')
                 \/ RetractsAll(S, S')
PROOF
  <1> DEFINE o == IF tok.plan THEN tc ELSE Retract(tc, tok.id)
             s == [S EXCEPT !.tc = o]
  <1>1. /\ pc = "display" /\ GoodOwner(tc, 0) /\ Quiet(tc) /\ S \in StateType
        /\ Become(IF ~Belongs THEN S ELSE HandleFailure(s))
    BY OutsideSavepoint DEF DisplayFailed
  <1>2. CASE ~Belongs
    BY <1>1, <1>2, BecomeStay, StayKept
  <1>3. CASE Belongs
    <2>1. tc.mode = "rw" /\ ~tc.recovering
      BY <1>1, <1>3 DEF Belongs, InTxn, AccountInv, ResultInv
    <2>2. /\ GoodOwner(o, 0) /\ o.mode = "rw" /\ ~o.recovering /\ o.nextID = tc.nextID
      BY <1>1, <2>1, RetractGood
    <2>3. \/ o.entries = tc.entries /\ o.marks = tc.marks
          \/ ~tok.plan /\ \E i, k : /\ Retracted(S, i, k)
                       /\ o.entries = SubSeq(tc.entries, 1, i - 1)
                       /\ o.marks = SubSeq(tc.marks, 1, k)
      <3>1. CASE tok.plan \/ Retract(tc, tok.id) = tc
        BY <3>1
      <3>2. ASSUME ~tok.plan,
                   NEW i \in 1..Len(tc.entries), NEW k \in 0..Len(tc.marks),
                   tc.entries[i].id = tok.id,
                   Retract(tc, tok.id) = Cut(tc, i - 1, k),
                   \A j \in DOMAIN tc.marks : j <= k <=> tc.marks[j].pos <= i - 1
            PROVE  Retracted(S, i, k) /\ o.entries = SubSeq(tc.entries, 1, i - 1)
                                      /\ o.marks = SubSeq(tc.marks, 1, k)
        <4>1. Retracted(S, i, k)
          BY <3>2, StateFields DEF Retracted
        <4>2. tc \in OwnerType
          BY <1>1 DEF GoodOwner
        <4>3. /\ Cut(tc, i - 1, k).entries = SubSeq(tc.entries, 1, i - 1)
              /\ Cut(tc, i - 1, k).marks = SubSeq(tc.marks, 1, k)
          BY <4>2 DEF Cut, OwnerType
        <4> QED BY <3>2, <4>1, <4>3
      <3>3. GoodOwner(tc, 0) /\ 0 \in Nat
        BY <1>1
      <3> HIDE DEF o
      <3>4. o = IF tok.plan THEN tc ELSE Retract(tc, tok.id)
        BY DEF o
      <3>5. \/ Retract(tc, tok.id) = tc
            \/ \E i \in 1..Len(tc.entries), k \in 0..Len(tc.marks) :
                  /\ tc.entries[i].id = tok.id
                  /\ Retract(tc, tok.id) = Cut(tc, i - 1, k)
                  /\ \A j \in DOMAIN tc.marks : j <= k <=> tc.marks[j].pos <= i - 1
        BY <3>3, RetractCuts
      <3> QED BY <3>1, <3>2, <3>4, <3>5
    <2> HIDE DEF o
    <2>4. s \in StateType /\ s.tc = o /\ s.durable = durable
      BY <1>1, <2>2, StateFields DEF StateType, GoodOwner
    <2> HIDE DEF s
    <2>5. CASE o.marks = <<>>
      <3>1. Become(End(s))
        BY <1>1, <1>3, <2>4, <2>5 DEF HandleFailure
      <3>2. End(s).tc = NoOwner /\ End(s).held = <<>> /\ End(s).durable = s.durable
        BY <2>4, EndGood
      <3>3. Dropped(S, S')
        BY <2>4, <3>1, <3>2, StateFields DEF Dropped, Become
      <3>4. tc.marks = <<>> \/ (~tok.plan /\ \E i : Retracted(S, i, 0))
        <4>1. ASSUME NEW i, NEW k, Retracted(S, i, k), SubSeq(tc.marks, 1, k) = <<>>
              PROVE  k = 0
          <5>1. k \in 0..Len(tc.marks) /\ tc.marks \in Seq(Marker)
            BY <1>1, <4>1, StateFields, AccountTerms DEF Retracted, GoodOwner
          <5> QED BY <4>1, <5>1
        <4> QED BY <2>3, <2>5, <4>1
      <3> QED BY <1>3, <2>1, <3>3, <3>4, StateFields DEF RetractsAll
    <2>6. CASE o.marks # <<>>
      <3> DEFINE h == EnterRecovery(s)
      <3>1. Become(h)
        BY <1>1, <1>3, <2>2, <2>4, <2>6 DEF HandleFailure
      <3>2. /\ h.held = <<>> /\ h.durable = s.durable
            /\ h.tc.mode = "rw" /\ h.tc.recovering
            /\ h.tc.entries = s.tc.entries /\ h.tc.marks = s.tc.marks
            /\ h.tc.nextID = s.tc.nextID
        BY <2>2, <2>4, <2>6, EnterRecoveryGood
      <3> HIDE DEF h
      <3>3. tc' = h.tc /\ held' = h.held /\ durable' = h.durable
        BY <3>1 DEF Become
      <3>4. CASE o.entries = tc.entries /\ o.marks = tc.marks
        <4>1. Broken(S, S')
          BY <2>1, <2>2, <2>4, <2>6, <3>2, <3>3, <3>4, StateFields DEF Broken, SameJournal
        <4> QED BY <1>3, <2>1, <4>1
      <3>5. ASSUME NEW i, NEW k, Retracted(S, i, k),
                   o.entries = SubSeq(tc.entries, 1, i - 1), o.marks = SubSeq(tc.marks, 1, k)
            PROVE  Retracts(S, S')
        <4>1. k # 0
          BY <2>6, <3>5
        <4> QED BY <2>1, <2>2, <2>4, <3>2, <3>3, <3>5, <4>1, StateFields DEF Retracts
      <3> QED BY <1>3, <2>1, <2>3, <3>4, <3>5
    <2> QED BY <2>5, <2>6
  <1> QED BY <1>2, <1>3

\* Expiry leaves the journal alone or drops the owner.
LEMMA ExpireSteps ==
    ASSUME AccountInv, Expire
    PROVE  Kept(S, S') \/ Dropped(S, S')
PROOF
  <1>1. /\ tc \in OwnerType
        /\ Become(End(S)) \/ Become([S EXCEPT !.tc.expired = TRUE])
    BY DEF Expire, AccountInv, TypeOK
  <1>2. CASE Become(End(S))
    BY <1>2, EndDropped
  <1>3. CASE Become([S EXCEPT !.tc.expired = TRUE])
    <2> DEFINE o == [tc EXCEPT !.expired = TRUE]
    <2>1. tc' = o /\ held' = held /\ durable' = durable
      BY <1>3 DEF Become, S
    <2>2. /\ o.mode = tc.mode /\ o.recovering = tc.recovering /\ o.autoDML = tc.autoDML
          /\ o.entries = tc.entries /\ o.marks = tc.marks /\ o.nextID = tc.nextID
      BY <1>1 DEF OwnerType
    <2> HIDE DEF o
    <2> QED BY <2>1, <2>2, OwnerKept
  <1> QED BY <1>1, <1>2, <1>3

----------------------------------------------------------------------------
(* No statement twice.                                                     *)

\* StatementsOnce, of a journal and a queue
Once(es, q) ==
    /\ \A i, j \in DOMAIN es : \A k \in DOMAIN es[i].ops, l \in DOMAIN es[j].ops :
          es[i].ops[k] = es[j].ops[l] => i = j /\ k = l
    /\ \A k, l \in DOMAIN q : q[k] = q[l] => k = l
    /\ \A i \in DOMAIN es : \A k \in DOMAIN es[i].ops, l \in DOMAIN q : es[i].ops[k] # q[l]

\* All their statements are among the first m, and x is not among them.
Within(es, q, m) ==
    /\ \A i \in DOMAIN es : \A k \in DOMAIN es[i].ops : es[i].ops[k] <= m
    /\ \A k \in DOMAIN q : q[k] <= m
\* The statement x is neither in the journal nor in the queue.
Absent(es, q, x) ==
    /\ \A i \in DOMAIN es : \A k \in DOMAIN es[i].ops : es[i].ops[k] # x
    /\ \A k \in DOMAIN q : q[k] # x

\* A prefix of the journal, with the queue or without, repeats no statement.
LEMMA OncePrefix ==
    ASSUME NEW es \in Seq(Entry), NEW q, NEW p \in 0..Len(es), NEW r \in {q, <<>>}
    PROVE  /\ Once(es, q) => Once(SubSeq(es, 1, p), r)
           /\ \A m : Within(es, q, m) => Within(SubSeq(es, 1, p), r, m)
           /\ \A x : Absent(es, q, x) => Absent(SubSeq(es, 1, p), r, x)
PROOF
  <1> DEFINE fs == SubSeq(es, 1, p)
  <1>1. /\ DOMAIN fs = 1..p /\ DOMAIN es = 1..Len(es) /\ p <= Len(es) /\ Len(es) \in Nat /\ p \in Nat
        /\ \A i \in 1..p : fs[i] = es[i]
    OBVIOUS
  <1>2. \A i \in DOMAIN fs : i \in DOMAIN es /\ fs[i] = es[i]
    BY <1>1
  <1>3. \A k \in DOMAIN r : k \in DOMAIN q /\ r[k] = q[k]
    <2>1. CASE r = <<>>
      <3>1. DOMAIN r = {}
        BY <2>1
      <3> QED BY <3>1
    <2> QED BY <2>1
  <1> HIDE DEF fs
  <1>4. Once(es, q) => Once(fs, r)
    BY <1>2, <1>3 DEF Once
  <1>5. \A m : Within(es, q, m) => Within(fs, r, m)
    BY <1>2, <1>3 DEF Within
  <1>6. \A x : Absent(es, q, x) => Absent(fs, r, x)
    BY <1>2, <1>3 DEF Absent
  <1> QED BY <1>4, <1>5, <1>6 DEF fs

\* An entry os more, and the queue without its statements
LEMMA OnceAppend ==
    ASSUME NEW es \in Seq(Entry), NEW q, NEW os, NEW r, NEW n \in Nat, NEW v \in Observations,
           os \in Seq(Ops), Once(es, q),
           \A k, l \in DOMAIN os : os[k] = os[l] => k = l,
           \A i \in DOMAIN es : \A k \in DOMAIN es[i].ops, l \in DOMAIN os : es[i].ops[k] # os[l],
           r = <<>> \/ (r = q /\ \A k \in DOMAIN os, l \in DOMAIN q : os[k] # q[l])
    PROVE  /\ Once(Append(es, NewEntry(n, os, v)), r)
           /\ \A m : Within(es, q, m) /\ (\A k \in DOMAIN os : os[k] <= m)
                        => Within(Append(es, NewEntry(n, os, v)), r, m)
           /\ \A x : Absent(es, q, x) /\ (\A k \in DOMAIN os : os[k] # x)
                        => Absent(Append(es, NewEntry(n, os, v)), r, x)
PROOF
  <1> DEFINE e == NewEntry(n, os, v)
             fs == Append(es, e)
             N == Len(es) + 1
  <1>1. e \in Entry /\ e.ops = os
    BY DEF NewEntry, Entry
  <1> HIDE DEF e
  <1>2. /\ DOMAIN fs = 1..N /\ DOMAIN es = 1..(N - 1) /\ N \in Nat /\ fs[N] = e
        /\ \A i \in 1..(N - 1) : fs[i] = es[i]
    BY <1>1
  <1>3. \A i \in DOMAIN fs : (i \in DOMAIN es /\ fs[i] = es[i]) \/ (i = N /\ fs[i].ops = os)
    BY <1>1, <1>2
  <1>4. \A k \in DOMAIN r : k \in DOMAIN q /\ r[k] = q[k] /\ \A l \in DOMAIN os : os[l] # r[k]
    <2>1. CASE r = <<>>
      <3>1. DOMAIN r = {}
        BY <2>1
      <3> QED BY <3>1
    <2> QED BY <2>1
  <1> HIDE DEF fs, N
  <1>5. Once(fs, r)
    <2>1. ASSUME NEW i \in DOMAIN fs, NEW j \in DOMAIN fs,
                 NEW k \in DOMAIN fs[i].ops, NEW l \in DOMAIN fs[j].ops,
                 fs[i].ops[k] = fs[j].ops[l]
          PROVE  i = j /\ k = l
      <3>1. CASE i \in DOMAIN es /\ fs[i] = es[i] /\ j \in DOMAIN es /\ fs[j] = es[j]
        BY <2>1, <3>1 DEF Once
      <3>2. CASE i \in DOMAIN es /\ fs[i] = es[i] /\ j = N /\ fs[j].ops = os
        BY <2>1, <3>2
      <3>3. CASE j \in DOMAIN es /\ fs[j] = es[j] /\ i = N /\ fs[i].ops = os
        BY <2>1, <3>3
      <3>4. CASE i = N /\ j = N /\ fs[i].ops = os
        BY <2>1, <3>4
      <3> QED BY <1>3, <3>1, <3>2, <3>3, <3>4
    <2>2. \A k, l \in DOMAIN r : r[k] = r[l] => k = l
      BY <1>4 DEF Once
    <2>3. \A i \in DOMAIN fs : \A k \in DOMAIN fs[i].ops, l \in DOMAIN r : fs[i].ops[k] # r[l]
      BY <1>3, <1>4 DEF Once
    <2> QED BY <2>1, <2>2, <2>3 DEF Once
  <1>6. \A m : Within(es, q, m) /\ (\A k \in DOMAIN os : os[k] <= m) => Within(fs, r, m)
    BY <1>3, <1>4 DEF Within
  <1>7. \A x : Absent(es, q, x) /\ (\A k \in DOMAIN os : os[k] # x) => Absent(fs, r, x)
    BY <1>3, <1>4 DEF Absent
  <1> QED BY <1>5, <1>6, <1>7 DEF fs, e

\* Queueing a statement that is not there yet repeats none.
LEMMA OnceQueued ==
    ASSUME NEW es, NEW q \in Seq(Ops), NEW x \in Ops, Once(es, q), Absent(es, q, x)
    PROVE  /\ Once(es, Append(q, x))
           /\ \A m : Within(es, q, m) /\ x <= m => Within(es, Append(q, x), m)
PROOF
  <1> DEFINE r == Append(q, x)
             N == Len(q) + 1
  <1>1. /\ DOMAIN r = 1..N /\ DOMAIN q = 1..(N - 1) /\ N \in Nat /\ r[N] = x
        /\ \A i \in 1..(N - 1) : r[i] = q[i]
    OBVIOUS
  <1>2. \A i \in DOMAIN r : (i \in DOMAIN q /\ r[i] = q[i]) \/ (i = N /\ r[i] = x)
    BY <1>1
  <1> HIDE DEF r, N
  <1>3. Once(es, r)
    BY <1>2 DEF Once, Absent
  <1>4. \A m : Within(es, q, m) /\ x <= m => Within(es, r, m)
    BY <1>2 DEF Within
  <1> QED BY <1>3, <1>4 DEF r

----------------------------------------------------------------------------
\* No statement is there twice, and none has a number above m.
Numbered(s, m) == Once(s.tc.entries, Queued(s)) /\ Within(s.tc.entries, Queued(s), m)
Lacks(s, x) == Absent(s.tc.entries, Queued(s), x)

\* A prefix of the journal is kept, and all or nothing of the queue.
Shrinks(s, t) ==
    /\ \E p \in 0..Len(s.tc.entries) : t.tc.entries = SubSeq(s.tc.entries, 1, p)
    /\ Queued(t) \in {Queued(s), <<>>}
    /\ t.tc.entries = <<>> \/ t.tc.nextID = s.tc.nextID

\* A step that only drops statements repeats none.
LEMMA ShrinksNumbered ==
    ASSUME NEW s \in StateType, NEW t, Shrinks(s, t)
    PROVE  /\ \A m : Numbered(s, m) => Numbered(t, m)
           /\ \A x : Lacks(s, x) => Lacks(t, x)
PROOF
  <1>1. PICK p \in 0..Len(s.tc.entries) : t.tc.entries = SubSeq(s.tc.entries, 1, p)
    BY DEF Shrinks
  <1>2. s.tc.entries \in Seq(Entry) /\ Queued(t) \in {Queued(s), <<>>}
    BY DEF StateType, OwnerType, Shrinks
  <1> DEFINE es == s.tc.entries
             q == Queued(s)
             r == Queued(t)
  <1>3. es \in Seq(Entry) /\ p \in 0..Len(es) /\ r \in {q, <<>>} /\ t.tc.entries = SubSeq(es, 1, p)
    BY <1>1, <1>2
  <1>4. /\ Once(es, q) => Once(SubSeq(es, 1, p), r)
        /\ \A m : Within(es, q, m) => Within(SubSeq(es, 1, p), r, m)
        /\ \A x : Absent(es, q, x) => Absent(SubSeq(es, 1, p), r, x)
    <2> HIDE DEF es, q, r
    <2> QED BY <1>3, OncePrefix
  <1> QED BY <1>3, <1>4 DEF Numbered, Lacks

\* The queue holds statements, the journal entries.
LEMMA QueuedType ==
    ASSUME NEW s \in StateType
    PROVE  Queued(s) \in Seq(Ops) /\ s.tc.entries \in Seq(Entry) /\ s.tc.nextID \in Nat
PROOF
  <1>1. <<>> \in Seq(Ops)
    OBVIOUS
  <1> QED BY <1>1 DEF Queued, StateType, OwnerType

\* Journaling the queue moves its statements and repeats none.
LEMMA FlushNumbered ==
    ASSUME NEW s \in StateType, NEW t, FlushDone(s, t), NEW m, Numbered(s, m)
    PROVE  Numbered(t, m) /\ \A x : Lacks(s, x) => Lacks(t, x)
PROOF
  <1>1. CASE Kept(s, t)
    BY <1>1 DEF Kept, SameJournal, Numbered, Lacks
  <1>2. CASE Flushes(s, t)
    <2> DEFINE es == s.tc.entries
               q == Queued(s)
               n == s.tc.nextID + 1
    <2>1. q \in Seq(Ops) /\ es \in Seq(Entry) /\ n \in Nat
      BY QueuedType
    <2>2. PICK v \in Observations : t.tc.entries = Append(es, NewEntry(n, q, v))
      BY <1>2 DEF Flushes, Ran
    <2>3. Queued(t) = <<>> /\ Once(es, q) /\ Within(es, q, m)
      BY <1>2 DEF Flushes, Numbered
    <2>4. /\ \A k, l \in DOMAIN q : q[k] = q[l] => k = l
          /\ \A i \in DOMAIN es : \A k \in DOMAIN es[i].ops, l \in DOMAIN q : es[i].ops[k] # q[l]
          /\ \A k \in DOMAIN q : q[k] <= m
          /\ \A x : Absent(es, q, x) => \A k \in DOMAIN q : q[k] # x
      <3> HIDE DEF es, q
      <3> QED BY <2>3 DEF Once, Within, Absent
    <2>5. /\ Once(Append(es, NewEntry(n, q, v)), <<>>)
          /\ Within(Append(es, NewEntry(n, q, v)), <<>>, m)
          /\ \A x : Absent(es, q, x) => Absent(Append(es, NewEntry(n, q, v)), <<>>, x)
      <3> HIDE DEF es, q, n
      <3> QED BY <2>1, <2>3, <2>4, OnceAppend
    <2> QED BY <2>2, <2>3, <2>5 DEF Numbered, Lacks
  <1> QED BY <1>1, <1>2 DEF FlushDone

\* Journaling a statement that is not there yet repeats none.
LEMMA ExecutesNumbered ==
    ASSUME NEW s \in StateType, NEW t, NEW x \in Ops, Executes(s, t, <<x>>),
           NEW m, x <= m, Numbered(s, m), Lacks(s, x)
    PROVE  Numbered(t, m)
PROOF
  <1> DEFINE es == s.tc.entries
             q == Queued(s)
             n == s.tc.nextID + 1
             os == <<x>>
  <1>1. q \in Seq(Ops) /\ es \in Seq(Entry) /\ n \in Nat
    BY QueuedType
  <1>2. PICK v \in Observations : t.tc.entries = Append(es, NewEntry(n, os, v))
    BY DEF Executes, Ran
  <1>3. Queued(t) = q /\ Once(es, q) /\ Within(es, q, m) /\ Absent(es, q, x)
    BY DEF Executes, Numbered, Lacks
  <1>4. os \in Seq(Ops) /\ DOMAIN os = {1} /\ os[1] = x
    OBVIOUS
  <1> HIDE DEF es, q, n, os
  <1>5. /\ \A k, l \in DOMAIN os : os[k] = os[l] => k = l
        /\ \A i \in DOMAIN es : \A k \in DOMAIN es[i].ops, l \in DOMAIN os : es[i].ops[k] # os[l]
        /\ \A k \in DOMAIN os : os[k] <= m
        /\ \A k \in DOMAIN os, l \in DOMAIN q : os[k] # q[l]
    BY <1>3, <1>4 DEF Absent
  <1>6. /\ Once(Append(es, NewEntry(n, os, v)), q)
        /\ Within(Append(es, NewEntry(n, os, v)), q, m)
    BY <1>1, <1>3, <1>4, <1>5, OnceAppend
  <1> QED BY <1>2, <1>3, <1>6 DEF Numbered

\* Queueing a statement that is not there yet repeats none.
LEMMA QueuesNumbered ==
    ASSUME NEW s \in StateType, NEW t, NEW x \in Ops, Queues(s, t, x),
           NEW m, x <= m, Numbered(s, m), Lacks(s, x)
    PROVE  Numbered(t, m)
PROOF
  <1>1. Queued(s) \in Seq(Ops)
    BY QueuedType
  <1>2. t.tc.entries = s.tc.entries /\ Queued(t) = Append(Queued(s), x)
    BY DEF Queues, SameJournal
  <1> QED BY <1>1, <1>2, OnceQueued DEF Numbered, Lacks

\* Statements are numbered; the one being executed is new.
Pending == pc \in StatementPCs \cup {"flush", "backoff"} /\ st.kind \in StatementKinds
KindInv == pc = "commit" \/ back = "commit" => st.kind \in {"commit", "ddl"}
\* No statement is there twice, and the one still to run is not there.
NumberedInv ==
    /\ Numbered(S, ops)
    /\ Pending => st.op = ops /\ Lacks(S, st.op)
    /\ KindInv

\* The queue may be journaled, then statements may be dropped.
Moves(s, t) == \E u \in StateType : (u = s \/ FlushDone(s, u)) /\ Shrinks(u, t)

\* The state a section works on has its type.
LEMMA StateTyped ==
    ASSUME AccountInv
    PROVE  S \in StateType
PROOF
  BY DEF AccountInv, TypeOK, S, StateType

\* Dropping the queue drops statements.
LEMMA SameShrinks ==
    ASSUME NEW s \in StateType, NEW t, t.tc.entries = s.tc.entries,
           Queued(t) \in {Queued(s), <<>>}, t.tc.nextID = s.tc.nextID
    PROVE  Shrinks(s, t)
PROOF
  <1> DEFINE es == s.tc.entries
  <1>1. es \in Seq(Entry)
    BY QueuedType
  <1>2. Len(es) \in 0..Len(es) /\ es = SubSeq(es, 1, Len(es))
    <2> HIDE DEF es
    <2> QED BY <1>1
  <1> QED BY <1>2 DEF Shrinks

\* The end of the owner drops every statement.
LEMMA NothingShrinks ==
    ASSUME NEW s \in StateType, NEW t, t.tc.entries = <<>>, Queued(t) = <<>>
    PROVE  Shrinks(s, t)
PROOF
  <1> DEFINE es == s.tc.entries
  <1>1. es \in Seq(Entry)
    BY QueuedType
  <1>2. 0 \in 0..Len(es) /\ <<>> = SubSeq(es, 1, 0)
    <2> HIDE DEF es
    <2> QED BY <1>1
  <1> QED BY <1>2 DEF Shrinks

\* Neither an owner that has ended nor one in recovery has a queue.
LEMMA EndQueued ==
    ASSUME NEW t, t.held = <<>>
    PROVE  /\ t.tc = NoOwner => t.tc.entries = <<>> /\ Queued(t) = <<>>
           /\ t.tc.recovering => Queued(t) = <<>>
PROOF
  BY DEF NoOwner, Queued

\* Steps that execute and queue nothing
LEMMA MoreShrinks ==
    ASSUME NEW s \in StateType, NEW t, NEW n,
           \/ Kept(s, t) \/ Broken(s, t) \/ Dropped(s, t) \/ Commits(s, t) \/ Marks(s, t, n)
           \/ Begins(s, t) \/ Unqueues(s, t) \/ Releases(s, t) \/ Returns(s, t) \/ Retracts(s, t)
    PROVE  Shrinks(s, t)
PROOF
  <1>1. CASE Kept(s, t) \/ Unqueues(s, t) \/ Releases(s, t) \/ Marks(s, t, n)
    BY <1>1, SameShrinks DEF Kept, Unqueues, Releases, Marks, SameJournal
  <1>2. CASE Broken(s, t)
    BY <1>2, SameShrinks, EndQueued DEF Broken, SameJournal
  <1>3. CASE Dropped(s, t) \/ Commits(s, t) \/ Begins(s, t)
    BY <1>3, NothingShrinks, EndQueued DEF Dropped, Commits, Begins
  <1>4. CASE Returns(s, t)
    BY <1>4 DEF Returns, Shrinks
  <1>5. CASE Retracts(s, t)
    <2>1. PICK i, k : Retracted(s, i, k) /\ t.tc.entries = SubSeq(s.tc.entries, 1, i - 1)
      BY <1>5 DEF Retracts
    <2>2. i - 1 \in 0..Len(s.tc.entries)
      BY <2>1, QueuedType DEF Retracted
    <2>3. Queued(t) = <<>>
      BY <1>5, EndQueued DEF Retracts
    <2> QED BY <1>5, <2>1, <2>2, <2>3 DEF Shrinks, Retracts
  <1> QED BY <1>1, <1>2, <1>3, <1>4, <1>5

\* A section moves statements from the queue to the journal or drops them;
\* only exec journals one of its own.
LEMMA SectionMoves ==
    ASSUME AccountInv, NEW p, NEW f, SectionStep(p, f)
    PROVE  Moves(S, S') \/ (p = "exec" /\ f.r = "ok" /\ Executes(S, S', <<st.op>>))
PROOF
  <1>1. S \in StateType /\ f.s \in StateType /\ S' = f.s
    BY StateTyped, SectionStepState DEF SectionStep, SectionResult, ResultType
  <1>2. \A u \in StateType : Kept(u, f.s) \/ Broken(u, f.s) \/ Dropped(u, f.s) => Shrinks(u, f.s)
    BY MoreShrinks
  <1>3. \A u \in StateType : FailShape(u, f) => Shrinks(u, f.s)
    BY <1>2 DEF FailShape
  <1>4. CASE FailShape(S, f) \/ Kept(S, f.s) \/ Dropped(S, f.s)
    BY <1>1, <1>2, <1>3, <1>4 DEF Moves
  <1>5. CASE p = "exec" /\ f.r = "ok" /\ Executes(S, f.s, <<st.op>>)
    BY <1>1, <1>5
  <1>6. ASSUME NEW u \in StateType, FlushDone(S, u), SettleShape(p, u, st.name, f)
        PROVE  Moves(S, S')
    <2>1. CASE f = [s |-> u, r |-> "ok"]
      <3>1. Shrinks(u, f.s)
        BY <2>1, SameShrinks
      <3> QED BY <1>1, <1>6, <3>1 DEF Moves
    <2>2. CASE Marks(u, f.s, st.name) \/ Commits(u, f.s) \/ Dropped(u, f.s) \/ FailShape(u, f)
      <3>1. Shrinks(u, f.s)
        BY <1>3, <2>2, MoreShrinks
      <3> QED BY <1>1, <1>6, <3>1 DEF Moves
    <2> QED BY <1>6, <2>1, <2>2 DEF SettleShape, CommitShape
  <1>7. CASE \E u \in StateType : FlushDone(S, u) /\ Synced(u) /\ SettleShape(p, u, st.name, f)
    BY <1>6, <1>7
  <1> QED BY <1>4, <1>5, <1>7 DEF SectionStep, Shape

\* Moving statements from the queue to the journal, and dropping some,
\* repeats none.
LEMMA MovesNumbered ==
    ASSUME NEW s \in StateType, NEW t, Moves(s, t), NEW m, Numbered(s, m)
    PROVE  Numbered(t, m) /\ \A x : Lacks(s, x) => Lacks(t, x)
PROOF
  <1>1. PICK u \in StateType : (u = s \/ FlushDone(s, u)) /\ Shrinks(u, t)
    BY DEF Moves
  <1>2. Numbered(u, m) /\ \A x : Lacks(s, x) => Lacks(u, x)
    BY <1>1, FlushNumbered
  <1> QED BY <1>1, <1>2, ShrinksNumbered

\* The statement is done.
Finishes == Pending /\ pc' = "leave"

\* A step that only drops statements is a move without a flush.
LEMMA ShrinksMoves ==
    ASSUME AccountInv, NEW t, Shrinks(S, t)
    PROVE  Moves(S, t)
PROOF
  BY StateTyped DEF Moves

\* A DML statement that was journaled is not executed again: its section is
\* left.
LEMMA SectionExecutes ==
    ASSUME AccountInv, NEW f, SectionStep("exec", f), f.r = "ok", pc = "exec" \/ back = "exec"
    PROVE  Finishes
PROOF
  <1>1. pc' = "leave"
    BY DEF SectionStep, Finish, After
  <1>2. pc \in {"exec", "backoff"} /\ st.kind \in StatementKinds
    BY DEF AccountInv, StatementInv, BackoffInv, StatementPCs
  <1> QED BY <1>1, <1>2 DEF Finishes, Pending, StatementPCs

\* Every step: only a statement of its own is executed or queued.
StepKinds(s, t) ==
    \/ Moves(s, t)
    \/ Finishes /\ (Executes(s, t, <<st.op>>) \/ Queues(s, t, st.op))

\* Every step moves or drops statements, queues the current one, or executes
\* it and is done with it.
LEMMA StepMoves ==
    ASSUME AccountInv, ServerInv, [Next]_vars
    PROVE  StepKinds(S, S')
PROOF
  <1>0. \A n : \/ Kept(S, S') \/ Broken(S, S') \/ Dropped(S, S') \/ Begins(S, S')
               \/ Unqueues(S, S') \/ Releases(S, S') \/ Returns(S, S') \/ Retracts(S, S')
               => Moves(S, S')
    BY MoreShrinks, ShrinksMoves, StateTyped
  <1>1. CASE SubmitDML \/ SubmitEnd \/ SubmitSavepoint \/ Begin
    BY <1>0, <1>1, SubmitSteps, BeginSteps DEF StepKinds
  <1>2. CASE Release \/ RollbackTo \/ Rollback \/ AbortBatch
    BY <1>0, <1>2, ReleaseSteps, RollbackToSteps, AbortBatchSteps, EndDropped DEF StepKinds, Rollback
  <1>3. CASE Determine \/ Query \/ QueryFailed \/ Leave \/ Expire
    BY <1>0, <1>3, DetermineSteps, QuerySteps, QueryFailedSteps, LeaveSteps, ExpireSteps DEF StepKinds
  <1>4. CASE DisplayDone
    <2>1. Kept(S, S')
      BY <1>4, BecomeStay, StayKept DEF DisplayDone
    <2> QED BY <1>0, <2>1 DEF StepKinds
  <1>5. CASE DisplayFailed
    BY <1>0, <1>5, DisplayFailedSteps DEF StepKinds, RetractsAll
  <1>6. CASE Enqueue
    <2>1. Finishes
      BY <1>6 DEF Enqueue, Finishes, Pending, AccountInv, StatementInv, StatementPCs
    <2> QED BY <1>0, <1>6, <2>1, EnqueueSteps DEF StepKinds
  <1>7. CASE QueryDone
    <2>1. Finishes
      BY <1>7 DEF QueryDone, Finishes, Pending, AccountInv, StatementInv, StatementPCs
    <2> QED BY <1>0, <1>7, <2>1, QueryDoneSteps DEF StepKinds
  <1>8. CASE Section
    <2>1. CASE Become(End(S))
      BY <1>0, <2>1, EndDropped DEF StepKinds
    <2>2. CASE \E f : SectionStep(pc, f)
      BY <2>2, SectionMoves, SectionExecutes DEF StepKinds
    <2> QED BY <1>8, <2>1, <2>2, SectionSteps
  <1>9. CASE QueryAborted
    BY <1>9, QueryAbortedSteps, SectionMoves DEF StepKinds
  <1>10. CASE Resume
    BY <1>10, ResumeSteps, SectionMoves, SectionExecutes DEF StepKinds
  <1>11. CASE UNCHANGED vars
    <2>1. Kept(S, S')
      BY <1>11, StayKept DEF vars
    <2> QED BY <1>0, <2>1 DEF StepKinds
  <1> QED BY <1>1, <1>2, <1>3, <1>4, <1>5, <1>6, <1>7, <1>8, <1>9, <1>10, <1>11 DEF Next, Statement

\* What a section in p leaves pending
LEMMA SectionPending ==
    ASSUME NEW p, NEW f, SectionStep(p, f), pc' \in StatementPCs \cup {"flush", "backoff"}
    PROVE  ops' = ops /\ st' = st
PROOF
  <1>1. CASE f.r = "wait"
    BY <1>1 DEF SectionStep, SectionResult, Working, Finish
  <1>2. CASE f.r = "ok"
    BY <1>2 DEF SectionStep, SectionResult, Finish, After, StatementPCs
  <1>3. CASE f.r \in {"failed", "exhausted"}
    BY <1>3 DEF SectionStep, Finish, StatementPCs
  <1> QED BY <1>1, <1>2, <1>3 DEF SectionStep, Finish

\* A statement stays pending until it is done.
LEMMA StepPending ==
    ASSUME AccountInv, AccountInv', ServerInv, KindInv, [Next]_vars, Pending'
    PROVE  SubmitDML \/ (Pending /\ st' = st /\ ops' = ops)
PROOF
  <1>1. pc' \in StatementPCs \cup {"flush", "backoff"} /\ st'.kind \in StatementKinds
    BY DEF Pending
  <1>0. tc'.mode # "none"
    BY <1>1 DEF AccountInv, SectionInv, InTxn, ReadWritePCs, StatementPCs
  <1>11. \A s : Become(s) => ops' = ops
    BY <1>0 DEF Become
  <1>2. CASE SubmitEnd \/ SubmitSavepoint
    BY <1>1, <1>2 DEF SubmitEnd, SubmitSavepoint, StatementKinds
  <1>3. CASE \/ Begin \/ Release \/ RollbackTo \/ Rollback \/ AbortBatch
             \/ Leave \/ DisplayDone \/ DisplayFailed \/ Enqueue \/ QueryDone \/ QueryFailed
    BY <1>1, <1>3 DEF Begin, Release, RollbackTo, Rollback, AbortBatch, Leave, DisplayDone,
       DisplayFailed, Enqueue, QueryDone, QueryFailed, StatementPCs
  <1>4. CASE Determine
    BY <1>1, <1>4, <1>11 DEF Determine, Pending, StatementPCs
  <1>5. CASE Query
    BY <1>1, <1>5, <1>11 DEF Query, Pending, StatementPCs
  <1>6. CASE Expire
    BY <1>1, <1>6, <1>11 DEF Expire, Pending
  <1>7. CASE Section
    <2>1. PICK f : SectionStep(pc, f)
      BY <1>1, <1>7, SectionSteps DEF StatementPCs
    <2>2. ops' = ops /\ st' = st
      BY <1>1, <2>1, SectionPending
    <2>3. pc \in {"flush", "exec"}
      BY <1>1, <1>7, <2>2 DEF Section, AccountInv, StatementInv, InSavepoint, KindInv, StatementKinds
    <2> QED BY <1>1, <2>2, <2>3 DEF Pending, StatementPCs
  <1>8. CASE QueryAborted
    <2>1. PICK f : SectionStep("query", f)
      BY <1>8, QueryAbortedSteps
    <2>2. ops' = ops /\ st' = st
      BY <1>1, <2>1, SectionPending
    <2> QED BY <1>1, <1>8, <2>2 DEF Pending, StatementPCs, QueryAborted
  <1>9. CASE Resume
    <2>1. PICK f : SectionStep(back, f)
      BY <1>9, ResumeSteps
    <2>2. ops' = ops /\ st' = st
      BY <1>1, <2>1, SectionPending
    <2> QED BY <1>1, <1>9, <2>2 DEF Pending, StatementPCs, Resume
  <1>10. CASE UNCHANGED vars
    BY <1>1, <1>10 DEF vars, Pending
  <1> QED BY <1>2, <1>3, <1>4, <1>5, <1>6, <1>7, <1>8, <1>9, <1>10 DEF Next, Statement

\* Only COMMIT and a DDL reach the commit section.
LEMMA StepKind ==
    ASSUME AccountInv, AccountInv', ServerInv, KindInv, [Next]_vars
    PROVE  KindInv'
PROOF
  <1>1. \A p, f : /\ SectionStep(p, f)
                  /\ p = "commit" => st.kind \in {"commit", "ddl"}
                  => KindInv'
    BY DEF SectionStep, Finish, After, KindInv
  <1>2. pc' # "backoff" => back' = "prompt"
    BY DEF AccountInv, BackoffInv
  <1>3. pc # "backoff" => back = "prompt"
    BY DEF AccountInv, BackoffInv
  <1>4. CASE SubmitDML \/ SubmitEnd \/ SubmitSavepoint
    BY <1>2, <1>4 DEF SubmitDML, SubmitEnd, SubmitSavepoint, Submit, KindInv
  <1>5. CASE \/ Begin \/ Release \/ RollbackTo \/ Rollback \/ AbortBatch
             \/ Leave \/ DisplayDone \/ DisplayFailed \/ Enqueue \/ QueryDone \/ QueryFailed
    BY <1>2, <1>5 DEF Begin, Release, RollbackTo, Rollback, AbortBatch, Leave, DisplayDone,
       DisplayFailed, Enqueue, QueryDone, QueryFailed, KindInv
  <1>6. CASE Determine \/ Query
    BY <1>2, <1>6 DEF Determine, Query, KindInv
  <1>7. CASE Expire \/ UNCHANGED vars
    BY <1>7 DEF Expire, vars, KindInv
  <1>8. CASE Section
    <2>1. pc = "commit" => st.kind \in {"commit", "ddl"}
      BY DEF KindInv
    <2>2. CASE pc' = "leave"
      BY <1>2, <2>2 DEF KindInv
    <2>3. CASE \E f : SectionStep(pc, f)
      BY <1>1, <2>1, <2>3
    <2> QED BY <1>8, <2>2, <2>3, SectionSteps
  <1>9. CASE QueryAborted
    BY <1>1, <1>9, QueryAbortedSteps
  <1>10. CASE Resume
    <2>1. back = "commit" => st.kind \in {"commit", "ddl"}
      BY DEF KindInv
    <2> QED BY <1>1, <1>10, <2>1, ResumeSteps
  <1> QED BY <1>4, <1>5, <1>6, <1>7, <1>8, <1>9, <1>10 DEF Next, Statement

\* Only the submission of a DML statement takes a new number.
LEMMA StepOps ==
    ASSUME [Next]_vars, tc'.mode # "none", ~SubmitDML
    PROVE  ops' = ops
PROOF
  <1>1. \A s : Become(s) => ops' = ops
    BY DEF Become
  <1>2. \A p, f : Finish(p, f) => ops' = ops
    BY DEF Finish
  <1>3. CASE SubmitEnd \/ SubmitSavepoint \/ UNCHANGED vars
    BY <1>3 DEF SubmitEnd, SubmitSavepoint, vars
  <1>4. CASE Begin \/ Release \/ RollbackTo \/ Rollback \/ AbortBatch \/ Expire
    BY <1>1, <1>4 DEF Begin, Release, RollbackTo, Rollback, AbortBatch, Expire
  <1>5. CASE Determine \/ Enqueue \/ Query \/ QueryDone \/ QueryFailed
    BY <1>1, <1>5 DEF Determine, Enqueue, Query, QueryDone, QueryFailed
  <1>6. CASE Leave \/ DisplayFailed \/ DisplayDone
    BY <1>1, <1>6 DEF Leave, DisplayFailed, DisplayDone
  <1>7. CASE Section \/ QueryAborted
    BY <1>1, <1>2, <1>7 DEF Section, QueryAborted
  <1>8. CASE Resume
    BY <1>2, <1>8, ResumeCases
  <1> QED BY <1>3, <1>4, <1>5, <1>6, <1>7, <1>8 DEF Next, Statement

\* An owner without statements repeats none.
LEMMA NothingNumbered ==
    ASSUME NEW t, NEW m, t.tc.entries = <<>>, Queued(t) = <<>>
    PROVE  Numbered(t, m)
PROOF
  <1>1. DOMAIN <<>> = {}
    OBVIOUS
  <1> QED BY <1>1 DEF Numbered, Once, Within

\* The next number is in neither the journal nor the queue.
LEMMA NextNumber ==
    ASSUME NEW s \in StateType, NEW m \in Nat, Numbered(s, m)
    PROVE  Numbered(s, m + 1) /\ Lacks(s, m + 1)
PROOF
  <1> DEFINE es == s.tc.entries
             q == Queued(s)
  <1>1. es \in Seq(Entry) /\ q \in Seq(Ops)
    BY QueuedType
  <1>0. \A x \in Ops : x \in Nat
    BY BoundAssumption DEF Ops
  <1>2. \A i \in DOMAIN es : \A k \in DOMAIN es[i].ops : es[i].ops[k] \in Nat
    <2>1. ASSUME NEW i \in DOMAIN es
          PROVE  es[i].ops \in Seq(Ops)
      <3>1. es[i] \in Entry
        <4> HIDE DEF es
        <4> QED BY <1>1, <2>1
      <3> QED BY <3>1 DEF Entry
    <2>2. \A i \in DOMAIN es : \A k \in DOMAIN es[i].ops : es[i].ops[k] \in Ops
      <3> HIDE DEF es
      <3> QED BY <2>1
    <2> HIDE DEF es
    <2> QED BY <1>0, <2>2
  <1>3. \A k \in DOMAIN q : q[k] \in Nat
    <2> HIDE DEF q
    <2>1. \A k \in DOMAIN q : q[k] \in Ops
      BY <1>1
    <2> QED BY <1>0, <2>1
  <1>4. Once(es, q) /\ Within(es, q, m)
    BY DEF Numbered
  <1> HIDE DEF es, q
  <1>5. Within(es, q, m + 1) /\ Absent(es, q, m + 1)
    BY <1>2, <1>3, <1>4 DEF Within, Absent
  <1> QED BY <1>4, <1>5 DEF Numbered, Lacks, es, q

\* A step that leaves the journal and the queue alone repeats no statement.
LEMMA KeptNumbered ==
    ASSUME NEW s, NEW t, Kept(s, t)
    PROVE  /\ \A m : Numbered(s, m) => Numbered(t, m)
           /\ \A x : Lacks(s, x) => Lacks(t, x)
PROOF
  BY DEF Kept, SameJournal, Numbered, Lacks

\* There is no statement at the start.
LEMMA InitNumbered == Init => NumberedInv
PROOF
  <1> SUFFICES ASSUME Init PROVE NumberedInv
    OBVIOUS
  <1>1. S.tc.entries = <<>> /\ Queued(S) = <<>>
    BY DEF Init, S, Queued, NoOwner
  <1>2. Numbered(S, ops)
    BY <1>1, NothingNumbered
  <1>3. ~Pending /\ KindInv
    BY DEF Init, Pending, KindInv, StatementPCs
  <1> QED BY <1>2, <1>3 DEF NumberedInv

\* Every step keeps NumberedInv.
LEMMA StepNumbered ==
    ASSUME AccountInv, AccountInv', ServerInv, NumberedInv, [Next]_vars
    PROVE  NumberedInv'
PROOF
  <1>1. KindInv /\ KindInv' /\ Numbered(S, ops) /\ S \in StateType /\ ops \in Nat
    BY StepKind, StateTyped, BoundAssumption DEF NumberedInv, AccountInv, TypeOK
  <1>2. Numbered(S', ops') /\ (Pending' => st'.op = ops' /\ Lacks(S', st'.op))
    <2>1. CASE SubmitDML
      <3>1. ops' = ops + 1 /\ st'.op = ops + 1
        BY <2>1 DEF SubmitDML, Submit
      <3>2. Kept(S, S')
        BY <2>1, SubmitSteps
      <3>3. Numbered(S, ops + 1) /\ Lacks(S, ops + 1)
        BY <1>1, NextNumber
      <3> QED BY <3>1, <3>2, <3>3, KeptNumbered
    <2>2. CASE tc'.mode = "none"
      <3>1. /\ tc' = NoOwner /\ held' = <<>> /\ ~Pending'
        BY <2>2 DEF AccountInv, SectionInv, GoodOwner, OwnerShape, BackoffInv, InTxn, Pending,
                    ReadWritePCs, StatementPCs
      <3>2. S'.tc.entries = <<>> /\ Queued(S') = <<>>
        BY <3>1, EndQueued, StateFields
      <3> QED BY <3>1, <3>2, NothingNumbered
    <2>3. CASE ~SubmitDML /\ tc'.mode # "none"
      <3>1. ops' = ops /\ (Pending' => Pending /\ st' = st)
        BY <1>1, <2>3, StepOps, StepPending
      <3>2. Pending => st.op = ops /\ Lacks(S, st.op) /\ st.op \in Ops
        BY DEF NumberedInv, Pending, AccountInv, StatementInv
      <3>3. CASE Moves(S, S')
        BY <1>1, <3>1, <3>2, <3>3, MovesNumbered
      <3>4. CASE Finishes /\ (Executes(S, S', <<st.op>>) \/ Queues(S, S', st.op))
        <4>1. ~Pending' /\ Pending
          BY <3>4 DEF Finishes, Pending, StatementPCs
        <4>2. st.op \in Ops /\ st.op = ops /\ st.op <= ops /\ Lacks(S, st.op)
          BY <1>1, <3>2, <4>1
        <4> QED BY <1>1, <3>1, <3>4, <4>1, <4>2, ExecutesNumbered, QueuesNumbered
      <3> QED BY <3>3, <3>4, StepMoves DEF StepKinds
    <2> QED BY <2>1, <2>2, <2>3
  <1> QED BY <1>1, <1>2 DEF NumberedInv

\* In every state no statement is twice in journal and queue, and one that is
\* still to run is in neither.
THEOREM NumberedInvariant == Spec => []NumberedInv
PROOF
  <1>1. Init => NumberedInv
    BY InitNumbered
  <1>2. AccountInv /\ AccountInv' /\ ServerInv /\ NumberedInv /\ [Next]_vars => NumberedInv'
    BY StepNumbered
  <1> QED BY <1>1, <1>2, AccountsInvariant, ServerInvariant, PTL DEF Spec

\* The statements the model calls waiting are the queue.
LEMMA WaitingQueued ==
    ASSUME AccountInv
    PROVE  Waiting = Queued(S)
PROOF
  <1>1. tc.autoDML \in Seq(Ops) /\ held \in Seq(Ops) /\ tc.queued \in Seq(Ops)
    BY DEF AccountInv, TypeOK, OwnerType
  <1>2. CASE tc.recovering
    <2>1. held = <<>>
      BY <1>2 DEF AccountInv, SectionInv, BackoffInv
    <2>2. Waiting = <<>> \o <<>>
      BY <1>2, <2>1 DEF Waiting
    <2>3. <<>> \o <<>> = <<>>
      OBVIOUS
    <2>4. Queued(S) = <<>>
      BY <1>2, <2>1, StateFields, EndQueued
    <2> QED BY <2>2, <2>3, <2>4
  <1>3. CASE ~tc.recovering /\ held # <<>>
    <2>1. tc.autoDML = <<>>
      BY <1>3 DEF AccountInv, BackoffInv, SectionInv, GoodOwner, OwnerShape
    <2> QED BY <1>1, <1>3, <2>1, StateFields DEF Queued, Waiting
  <1>4. CASE ~tc.recovering /\ held = <<>>
    BY <1>1, <1>4, StateFields DEF Queued, Waiting
  <1> QED BY <1>2, <1>3, <1>4

\* StatementsOnce follows from the numbering.
LEMMA NumberedOnce ==
    ASSUME AccountInv, NumberedInv
    PROVE  StatementsOnce
PROOF
  <1>1. Once(tc.entries, Waiting)
    BY WaitingQueued, StateFields DEF NumberedInv, Numbered
  <1>2. IsInjective(Waiting)
    BY <1>1 DEF Once, IsInjective
  <1>3. \A i \in DOMAIN tc.entries : Range(tc.entries[i].ops) \cap Range(Waiting) = {}
    BY <1>1 DEF Once, Range
  <1> QED BY <1>1, <1>2, <1>3 DEF Once, StatementsOnce

\* The parts of JournalExact that are about bytes and recovery follow from
\* the accounts.
LEMMA AccountExact ==
    ASSUME AccountInv
    PROVE  RetainedExact /\ RecoveryShape
PROOF
  <1>1. RecoveryShape
    BY DEF AccountInv, SectionInv, GoodOwner, OwnerShape, RecoveryShape
  <1>2. ASSUME InTxn
        PROVE  tc.retained = BytesFrom(tc.entries, 1) + MarkerBytes * Len(tc.marks)
                             + QueueBytes(tc.queued) + tc.reserved
                             + (IF InSavepoint THEN MarkerBytes ELSE 0)
    BY <1>2 DEF AccountInv, SectionInv, GoodOwner, Accounted, Journaled, InTxn
  <1>3. InSavepoint => st.kind = "savepoint"
    BY DEF AccountInv, StatementInv
  <1> QED BY <1>1, <1>2, <1>3 DEF RetainedExact, InSavepoint

\* JournalExact holds in every state: the retained bytes are those of the
\* journal, the markers and the queue, no statement is in the journal and the
\* queue together or twice in either, and recovery has the shape the code
\* relies on.
THEOREM ExactJournal == Spec => []JournalExact
PROOF
  <1>1. AccountInv /\ NumberedInv => JournalExact
    BY NumberedOnce, AccountExact DEF JournalExact
  <1> QED BY <1>1, AccountsInvariant, NumberedInvariant, PTL

----------------------------------------------------------------------------
(* The capture token.                                                      *)

\* The identifiers of a journal increase up to the latest, n.
Ids(es, n) ==
    /\ \A i \in DOMAIN es : es[i].id <= n
    /\ \A i, j \in DOMAIN es : i < j => es[i].id < es[j].id

\* The result in hand is that of the latest entry ever journaled.
TokenInv ==
    /\ Ids(tc.entries, tc.nextID)
    /\ pc \in {"leave", "display"} /\ tok # NoTok /\ ~tok.plan /\ InTxn => tok.id = tc.nextID

\* A truncated journal has fresh ids ahead of it.
LEMMA IdsPrefix ==
    ASSUME NEW es \in Seq(Entry), NEW n, Ids(es, n), NEW p \in 0..Len(es)
    PROVE  Ids(SubSeq(es, 1, p), n)
PROOF
  <1>1. /\ DOMAIN SubSeq(es, 1, p) = 1..p /\ DOMAIN es = 1..Len(es)
        /\ \A i \in 1..p : i \in 1..Len(es) /\ SubSeq(es, 1, p)[i] = es[i]
    OBVIOUS
  <1> QED BY <1>1 DEF Ids

\* A journaled entry with the next id.
LEMMA IdsAppend ==
    ASSUME NEW es \in Seq(Entry), NEW n \in Nat, Ids(es, n), NEW e \in Entry, e.id = n + 1
    PROVE  Ids(Append(es, e), n + 1)
PROOF
  <1> DEFINE fs == Append(es, e)
             N == Len(es) + 1
  <1>1. /\ DOMAIN fs = 1..N /\ DOMAIN es = 1..(N - 1) /\ N \in Nat /\ fs[N] = e
        /\ \A i \in 1..(N - 1) : fs[i] = es[i]
    OBVIOUS
  <1>2. \A i \in DOMAIN es : es[i].id \in Nat
    <2>1. \A i \in DOMAIN es : es[i] \in Entry
      OBVIOUS
    <2> QED BY <2>1 DEF Entry
  <1> HIDE DEF fs, N
  <1>3. \A i \in DOMAIN fs : fs[i].id <= n + 1
    BY <1>1, <1>2 DEF Ids
  <1>4. ASSUME NEW i \in DOMAIN fs, NEW j \in DOMAIN fs, i < j
        PROVE  fs[i].id < fs[j].id
    <2>1. i \in DOMAIN es /\ fs[i] = es[i]
      BY <1>1, <1>4
    <2>2. CASE j = N
      BY <1>1, <1>2, <2>1, <2>2 DEF Ids
    <2>3. CASE j # N
      BY <1>1, <1>4, <2>1, <2>3 DEF Ids
    <2> QED BY <2>2, <2>3
  <1> QED BY <1>3, <1>4 DEF Ids, fs

\* Executed statements are journaled under the next id.
LEMMA RanIds ==
    ASSUME NEW s \in StateType, NEW t, NEW os \in Seq(Ops), Ran(s, t, os),
           Ids(s.tc.entries, s.tc.nextID)
    PROVE  Ids(t.tc.entries, t.tc.nextID)
PROOF
  <1> DEFINE es == s.tc.entries
             n == s.tc.nextID
  <1>1. PICK v \in Observations : t.tc.entries = Append(es, NewEntry(n + 1, os, v))
    BY DEF Ran
  <1>2. es \in Seq(Entry) /\ n \in Nat /\ t.tc.nextID = n + 1
    BY QueuedType DEF Ran
  <1> DEFINE e == NewEntry(n + 1, os, v)
  <1>3. e \in Entry /\ e.id = n + 1
    <2> HIDE DEF n
    <2> QED BY <1>2 DEF NewEntry, Entry
  <1>4. Ids(es, n) /\ t.tc.entries = Append(es, e)
    BY <1>1
  <1> HIDE DEF es, n, e
  <1> QED BY <1>2, <1>3, <1>4, IdsAppend

\* Truncation leaves the ids ordered.
LEMMA ShrinksIds ==
    ASSUME NEW s \in StateType, NEW t, Shrinks(s, t), Ids(s.tc.entries, s.tc.nextID)
    PROVE  Ids(t.tc.entries, t.tc.nextID)
PROOF
  <1>1. s.tc.entries \in Seq(Entry)
    BY QueuedType
  <1>2. CASE t.tc.entries = <<>>
    <2>1. DOMAIN <<>> = {}
      OBVIOUS
    <2> QED BY <1>2, <2>1 DEF Ids
  <1>3. CASE t.tc.nextID = s.tc.nextID
    <2>1. PICK p \in 0..Len(s.tc.entries) : t.tc.entries = SubSeq(s.tc.entries, 1, p)
      BY DEF Shrinks
    <2> QED BY <1>1, <1>3, <2>1, IdsPrefix
  <1> QED BY <1>2, <1>3 DEF Shrinks

\* Every step leaves the entries' ids ordered and below the next one.
LEMMA StepIds ==
    ASSUME AccountInv, ServerInv, [Next]_vars, Ids(tc.entries, tc.nextID)
    PROVE  Ids(tc'.entries, tc'.nextID)
PROOF
  <1>1. S \in StateType /\ Ids(S.tc.entries, S.tc.nextID)
    BY StateTyped, StateFields
  <1>2. Ids(S'.tc.entries, S'.tc.nextID)
    <2>1. CASE Moves(S, S')
      <3>1. PICK u \in StateType : (u = S \/ FlushDone(S, u)) /\ Shrinks(u, S')
        BY <2>1 DEF Moves
      <3>2. FlushDone(S, u) => Ids(u.tc.entries, u.tc.nextID)
        BY <1>1, QueuedType, RanIds DEF FlushDone, Flushes, Kept, SameJournal
      <3> QED BY <1>1, <3>1, <3>2, ShrinksIds
    <2>2. CASE Finishes /\ Executes(S, S', <<st.op>>)
      <3>1. st.op \in Ops
        BY <2>2 DEF Finishes, Pending, AccountInv, StatementInv
      <3> DEFINE os == <<st.op>>
      <3>2. os \in Seq(Ops) /\ Ran(S, S', os)
        BY <2>2, <3>1 DEF Executes
      <3> HIDE DEF os
      <3> QED BY <1>1, <3>2, RanIds
    <2>3. CASE Queues(S, S', st.op)
      BY <1>1, <2>3 DEF Queues, SameJournal
    <2> QED BY <2>1, <2>2, <2>3, StepMoves DEF StepKinds
  <1> QED BY <1>2, StateFields

\* Every step keeps TokenInv.
LEMMA StepToken ==
    ASSUME AccountInv, ServerInv, TokenInv, [Next]_vars
    PROVE  TokenInv'
PROOF
  <1>1. Ids(tc'.entries, tc'.nextID)
    BY StepIds DEF TokenInv
  <1>2. pc' \in {"leave", "display"} /\ tok' # NoTok /\ ~tok'.plan /\ InTxn'
        => tok'.id = tc'.nextID
    <2>1. pc \notin {"iterate", "leave", "display"} => tok = NoTok
      BY DEF AccountInv, ResultInv
    <2>2. \A p, f : SectionStep(p, f) => tok' = NoTok \/ tok'.id = tc'.nextID
      BY DEF SectionStep, Finish, LatestTok
    <2>3. CASE SubmitDML \/ SubmitEnd \/ SubmitSavepoint \/ Begin
      BY <2>1, <2>3 DEF SubmitDML, SubmitEnd, SubmitSavepoint, Submit, Begin, Accepts
    <2>4. CASE Release \/ RollbackTo \/ Rollback \/ AbortBatch \/ Determine \/ Enqueue
      BY <2>1, <2>4 DEF Release, RollbackTo, Rollback, AbortBatch, Determine, Enqueue, Accepts
    <2>5. CASE Query \/ QueryFailed \/ DisplayFailed \/ DisplayDone
      BY <2>5 DEF Query, QueryFailed, DisplayFailed, DisplayDone
    <2>6. CASE QueryDone
      <3>1. tok' = tok \/ tok' = [tok EXCEPT !.id = tc.nextID + 1]
        BY <2>6, QueryDoneSteps DEF QueryDone
      <3>2. CASE tok.plan
        BY <2>6, <3>2 DEF QueryDone
      <3>3. CASE ~tok.plan
        <4>1. tok'.id = tc.nextID + 1
          BY <2>6, <3>3, QueryDoneSteps DEF AccountInv, TypeOK
        <4>2. tc'.nextID = tc.nextID + 1
          BY <2>6, <3>3, QueryDoneSteps, StateFields DEF Executes, Ran
        <4> QED BY <4>1, <4>2
      <3> QED BY <3>2, <3>3
    <2>7. CASE Section
      <3>1. CASE UNCHANGED tok
        BY <2>1, <2>7, <3>1 DEF Section
      <3> QED BY <2>2, <2>7, <3>1, SectionSteps
    <2>8. CASE QueryAborted \/ Resume
      BY <2>2, <2>8, QueryAbortedSteps, ResumeSteps
    <2>9. CASE Leave
      <3>1. CASE tc.expired
        BY <2>9, <3>1, BecomeEnded DEF Leave, NoOwner, InTxn
      <3>2. CASE ~tc.expired
        BY <2>9, <3>2, BecomeStay DEF Leave, TokenInv, InTxn
      <3> QED BY <3>1, <3>2
    <2>10. CASE Expire
      <3>1. CASE Become(End(S))
        BY <3>1, BecomeEnded DEF NoOwner, InTxn
      <3>2. CASE Become([S EXCEPT !.tc.expired = TRUE])
        <4>1. tc' = [tc EXCEPT !.expired = TRUE] /\ tc \in OwnerType
          BY <3>2 DEF Become, S, AccountInv, TypeOK
        <4>2. tc'.mode = tc.mode /\ tc'.nextID = tc.nextID
          BY <4>1 DEF OwnerType
        <4> QED BY <2>10, <4>2 DEF Expire, TokenInv, InTxn
      <3> QED BY <2>10, <3>1, <3>2 DEF Expire
    <2>11. CASE UNCHANGED vars
      BY <2>11 DEF vars, TokenInv, InTxn
    <2> QED BY <2>3, <2>4, <2>5, <2>6, <2>7, <2>8, <2>9, <2>10, <2>11 DEF Next, Statement
  <1> QED BY <1>1, <1>2 DEF TokenInv

\* In every state the token of the statement being displayed names the entry
\* it made.
THEOREM TokenInvariant == Spec => []TokenInv
PROOF
  <1>1. Init => TokenInv
    <2>1. DOMAIN <<>> = {}
      OBVIOUS
    <2> QED BY <2>1 DEF Init, TokenInv, Ids, NoOwner
  <1>2. AccountInv /\ ServerInv /\ TokenInv /\ [Next]_vars => TokenInv'
    BY StepToken
  <1> QED BY <1>1, <1>2, AccountsInvariant, ServerInvariant, PTL DEF Spec

\* The steps MarkersSurvive speaks of
Survives ==
    ~tc.retry /\ ~tc.expired /\ pc \notin {"prompt", "commit"} /\ ~Expire /\ UsableMarker

\* Without automatic retry no section but the commit ends an owner that has
\* markers.
LEMMA SectionSurvives ==
    ASSUME NEW p, NEW f, SectionStep(p, f), p # "commit", ~tc.retry, tc.marks # <<>>,
           tc.mode # "none"
    PROVE  tc'.mode # "none"
PROOF
  <1>1. S' = f.s /\ S'.tc = tc' /\ S.tc = tc
    BY SectionStepState, StateFields
  <1>2. Shape(p, S, st.name, f)
    BY DEF SectionStep
  <1>3. CASE FailShape(S, f)
    BY <1>1, <1>3 DEF FailShape, Broken, Kept, Stays
  <1>4. CASE Kept(S, f.s) \/ Executes(S, f.s, <<st.op>>)
    BY <1>1, <1>4 DEF Kept, Stays, Executes, Ran
  <1>5. ASSUME NEW u, FlushDone(S, u), SettleShape(p, u, st.name, f)
        PROVE  tc'.mode # "none"
    <2>1. u.tc.mode # "none"
      BY <1>1, <1>5 DEF FlushDone, Flushes, Ran, Kept, Stays
    <2>2. f.s = u \/ Marks(u, f.s, st.name)
      BY <1>5 DEF SettleShape
    <2> QED BY <1>1, <2>1, <2>2 DEF Marks
  <1> QED BY <1>2, <1>3, <1>4, <1>5 DEF Shape

\* The entry of the result in hand is the latest.
LEMMA TokenLatest ==
    ASSUME AccountInv, TokenInv, pc = "display", InTxn, ~tok.plan,
           NEW i, Retracted(S, i, 0)
    PROVE  i = Len(tc.entries)
PROOF
  <1> DEFINE es == tc.entries
             n == Len(es)
  <1>1. es \in Seq(Entry)
    BY DEF AccountInv, TypeOK, OwnerType
  <1>2. n \in Nat /\ DOMAIN es = 1..n /\ \A j \in DOMAIN es : es[j].id \in Nat
    <2> HIDE DEF es
    <2>1. n \in Nat /\ DOMAIN es = 1..n /\ \A j \in DOMAIN es : es[j] \in Entry
      BY <1>1
    <2> QED BY <2>1 DEF Entry
  <1>3. i \in 1..n /\ es[i].id = tok.id
    BY StateFields DEF Retracted
  <1>4. tok.id = tc.nextID /\ Ids(es, tc.nextID)
    BY DEF TokenInv, AccountInv, ResultInv
  <1> HIDE DEF es, n
  <1>5. ~(i < n)
    <2> SUFFICES ASSUME i < n PROVE FALSE
      OBVIOUS
    <2>1. n \in DOMAIN es /\ i \in DOMAIN es
      BY <1>2, <1>3
    <2>2. es[i].id < es[n].id /\ es[n].id <= tc.nextID
      BY <1>4, <2>1 DEF Ids
    <2>3. tc.nextID \in Nat
      BY DEF AccountInv, TypeOK, OwnerType
    <2> QED BY <1>2, <1>3, <1>4, <2>1, <2>2, <2>3
  <1>6. i = n
    BY <1>2, <1>3, <1>5
  <1> QED BY <1>6 DEF n, es

\* A step MarkersSurvive speaks of does not end the owner.
LEMMA StepSurvives ==
    ASSUME AccountInv, ServerInv, TokenInv, [Next]_vars, Survives
    PROVE  tc'.mode # "none"
PROOF
  <1>1. tc.marks # <<>> /\ tc.mode # "none" /\ pc # "prompt" /\ tc \in OwnerType
    <2>1. tc.marks # <<>>
      <3>1. DOMAIN <<>> = {}
        OBVIOUS
      <3> QED BY <3>1 DEF Survives, UsableMarker
    <2>2. NoOwner.marks = <<>>
      BY DEF NoOwner
    <2> QED BY <2>1, <2>2 DEF Survives, AccountInv, TypeOK, SectionInv, GoodOwner, OwnerShape
  <1>2. Kept(S, S') \/ Broken(S, S') \/ Retracts(S, S') => tc'.mode # "none"
    BY <1>1, StateFields DEF Kept, Stays, Broken, Retracts
  <1>3. CASE \/ SubmitDML \/ SubmitEnd \/ SubmitSavepoint \/ Begin
             \/ Release \/ RollbackTo \/ Rollback \/ AbortBatch
    BY <1>1, <1>3 DEF SubmitDML, SubmitEnd, SubmitSavepoint, Submit, Accepts, Begin, Release,
       RollbackTo, Rollback, AbortBatch
  <1>4. CASE Determine \/ Query \/ QueryFailed \/ Leave
    BY <1>2, <1>4, DetermineSteps, QuerySteps, QueryFailedSteps, LeaveSteps DEF Survives
  <1>5. CASE Enqueue \/ QueryDone
    BY <1>1, <1>2, <1>5, EnqueueSteps, QueryDoneSteps, StateFields
    DEF Queues, Usable, Stays, Executes, Ran
  <1>6. CASE Section
    <2>1. PICK f : SectionStep(pc, f)
      BY <1>6, SectionSteps DEF Survives
    <2> QED BY <1>1, <2>1, SectionSurvives DEF Survives
  <1>7. CASE QueryAborted
    <2>1. PICK f : SectionStep("query", f)
      BY <1>7, QueryAbortedSteps
    <2> QED BY <1>1, <2>1, SectionSurvives DEF Survives
  <1>8. CASE Resume
    BY <1>8 DEF Resume, AccountInv, BackoffInv, Survives
  <1>9. CASE DisplayDone
    BY <1>1, <1>9, BecomeStay DEF DisplayDone
  <1>10. CASE DisplayFailed
    <2>1. pc = "display"
      BY <1>10 DEF DisplayFailed
    <2>2. ASSUME Belongs, RetractsAll(S, S')
          PROVE  FALSE
      <3>1. PICK i : ~tok.plan /\ Retracted(S, i, 0)
        BY <1>1, <2>2, StateFields DEF RetractsAll
      <3>2. i = Len(tc.entries)
        BY <2>1, <2>2, <3>1, TokenLatest DEF Belongs
      <3>3. PICK j \in DOMAIN tc.marks : tc.marks[j].pos < Len(tc.entries)
        BY <2>1 DEF Survives, UsableMarker
      <3>4. j \in Nat \ {0} /\ tc.marks[j].pos \in Nat /\ Len(tc.entries) \in Nat
        BY <1>1, <3>3, MarkerFields DEF OwnerType
      <3>5. j <= 0 <=> tc.marks[j].pos <= i - 1
        BY <3>1, <3>3, StateFields DEF Retracted
      <3> QED BY <3>2, <3>3, <3>4, <3>5
    <2> QED BY <1>2, <1>10, <2>2, DisplayFailedSteps
  <1>11. CASE Expire
    BY <1>11 DEF Survives
  <1>12. CASE UNCHANGED vars
    BY <1>1, <1>12 DEF vars
  <1> QED BY <1>3, <1>4, <1>5, <1>6, <1>7, <1>8, <1>9, <1>10, <1>11, <1>12 DEF Next, Statement

\* MarkersSurvive holds in every behaviour: an explicit transaction that has
\* markers and no automatic retry outlives every failed statement, every
\* broken attempt and every failed display, so its markers stay there to go
\* back to.
THEOREM MarkersOutlive == Spec => MarkersSurvive
PROOF
  <1>1. AccountInv /\ ServerInv /\ TokenInv /\ [Next]_vars
        => [~tc.retry /\ ~tc.expired /\ pc \notin {"prompt", "commit"} /\ ~Expire /\ UsableMarker
            => tc'.mode # "none"]_vars
    BY StepSurvives DEF Survives
  <1> QED BY <1>1, AccountsInvariant, ServerInvariant, TokenInvariant, PTL DEF Spec, MarkersSurvive

----------------------------------------------------------------------------
(* The refinement of NestedTransaction: its variables, of a state.         *)

\* The journal and its markers as the abstract transaction has them
WorkOf(s) == Batches(s.tc.entries)
SnapshotOf(s, i) ==
    [name |-> s.tc.marks[i].name, work |-> SubSeq(WorkOf(s), 1, s.tc.marks[i].pos)]
SnapshotsOf(s) == [i \in DOMAIN s.tc.marks |-> SnapshotOf(s, i)]
SnapshotType == [name: Names, work: Seq(Seq(Ops))]

\* The journal as the abstract transaction's work.
LEMMA WorkType ==
    ASSUME NEW s \in StateType
    PROVE  /\ WorkOf(s) \in Seq(Seq(Ops)) /\ Len(WorkOf(s)) = Len(s.tc.entries)
           /\ Len(s.tc.entries) \in Nat
           /\ \A i \in 1..Len(s.tc.entries) : WorkOf(s)[i] = s.tc.entries[i].ops
PROOF
  <1> DEFINE es == s.tc.entries
             n == Len(es)
  <1>1. es \in Seq(Entry)
    BY QueuedType
  <1>2. n \in Nat /\ DOMAIN es = 1..n /\ \A i \in 1..n : es[i].ops \in Seq(Ops)
    <2> HIDE DEF es
    <2>1. n \in Nat /\ DOMAIN es = 1..n /\ \A i \in 1..n : es[i] \in Entry
      BY <1>1
    <2> QED BY <2>1 DEF Entry
  <1>3. WorkOf(s) = [i \in 1..n |-> es[i].ops]
    BY <1>2 DEF WorkOf, Batches
  <1> HIDE DEF es, n
  <1>4. WorkOf(s) \in Seq(Seq(Ops)) /\ Len(WorkOf(s)) = n
    BY <1>2, <1>3
  <1> QED BY <1>2, <1>3, <1>4 DEF es, n

\* A journaled entry is one more batch of work.
LEMMA WorkAppend ==
    ASSUME NEW s \in StateType, NEW t, NEW n \in Nat, NEW os \in Seq(Ops), NEW v \in Observations,
           t.tc.entries = Append(s.tc.entries, NewEntry(n, os, v))
    PROVE  WorkOf(t) = Append(WorkOf(s), os)
PROOF
  <1> DEFINE es == s.tc.entries
             e == NewEntry(n, os, v)
             fs == Append(es, e)
             N == Len(es)
             w == WorkOf(s)
  <1>1. es \in Seq(Entry) /\ N \in Nat
    BY QueuedType, WorkType
  <1>2. e \in Entry /\ e.ops = os
    BY DEF NewEntry, Entry
  <1>3. w \in Seq(Seq(Ops)) /\ Len(w) = N /\ \A i \in 1..N : w[i] = es[i].ops
    BY WorkType
  <1> HIDE DEF es, e, w
  <1>4. /\ DOMAIN fs = 1..(N + 1) /\ fs[N + 1] = e /\ \A i \in 1..N : fs[i] = es[i]
    BY <1>1, <1>2
  <1> DEFINE x == Append(w, os)
  <1>5. /\ x \in Seq(Seq(Ops)) /\ DOMAIN x = 1..(N + 1)
        /\ x[N + 1] = os /\ \A i \in 1..N : x[i] = w[i]
    BY <1>1, <1>3
  <1>6. WorkOf(t) = [i \in 1..(N + 1) |-> fs[i].ops]
    BY <1>4 DEF WorkOf, Batches, es, e
  <1> HIDE DEF fs, N, x
  <1>7. \A i \in 1..(N + 1) : fs[i].ops = x[i]
    <2>1. \A i \in 1..(N + 1) : i \in 1..N \/ i = N + 1
      BY <1>1
    <2>2. \A i \in 1..N : fs[i].ops = x[i]
      BY <1>3, <1>4, <1>5
    <2> QED BY <1>2, <1>4, <1>5, <2>1, <2>2
  <1>8. x = [i \in 1..(N + 1) |-> x[i]]
    BY <1>5
  <1> QED BY <1>6, <1>7, <1>8 DEF x, w

\* A truncated journal is a prefix of the work.
LEMMA WorkPrefix ==
    ASSUME NEW s \in StateType, NEW t, NEW p \in 0..Len(s.tc.entries),
           t.tc.entries = SubSeq(s.tc.entries, 1, p)
    PROVE  WorkOf(t) = SubSeq(WorkOf(s), 1, p)
PROOF
  <1> DEFINE es == s.tc.entries
             fs == SubSeq(es, 1, p)
             w == WorkOf(s)
             x == SubSeq(w, 1, p)
             N == Len(es)
  <1>1. es \in Seq(Entry) /\ N \in Nat /\ p \in 0..N
    BY QueuedType, WorkType
  <1>2. w \in Seq(Seq(Ops)) /\ Len(w) = N /\ \A i \in 1..N : w[i] = es[i].ops
    BY WorkType
  <1>3. WorkOf(t) = [i \in DOMAIN fs |-> fs[i].ops]
    BY DEF WorkOf, Batches
  <1> HIDE DEF es, w
  <1>4. DOMAIN fs = 1..p /\ \A i \in 1..p : fs[i] = es[i]
    BY <1>1
  <1>5. x \in Seq(Seq(Ops)) /\ DOMAIN x = 1..p /\ \A i \in 1..p : x[i] = w[i]
    BY <1>1, <1>2
  <1> HIDE DEF fs, N, x
  <1>6. \A i \in 1..p : fs[i].ops = x[i]
    BY <1>1, <1>2, <1>4, <1>5
  <1>7. x = [i \in 1..p |-> x[i]]
    BY <1>5
  <1> QED BY <1>3, <1>4, <1>6, <1>7 DEF x, w

\* The prefix of a prefix.
LEMMA PrefixOfPrefix ==
    ASSUME NEW X, NEW w \in Seq(X), NEW q \in 0..Len(w), NEW p \in 0..q
    PROVE  /\ SubSeq(SubSeq(w, 1, q), 1, p) = SubSeq(w, 1, p)
           /\ SubSeq(w, 1, p) \in Seq(X) /\ Len(SubSeq(w, 1, p)) = p
PROOF
  <1> DEFINE c == SubSeq(w, 1, q)
             a == SubSeq(c, 1, p)
             b == SubSeq(w, 1, p)
  <1>1. c \in Seq(X) /\ Len(c) = q /\ \A i \in 1..q : c[i] = w[i]
    OBVIOUS
  <1>2. b \in Seq(X) /\ Len(b) = p /\ \A i \in 1..p : b[i] = w[i]
    OBVIOUS
  <1>3. a \in Seq(X) /\ Len(a) = p /\ \A i \in 1..p : a[i] = c[i]
    <2> HIDE DEF c
    <2> QED BY <1>1
  <1> HIDE DEF a, b, c
  <1>4. a = b
    BY <1>1, <1>2, <1>3, SeqEqual
  <1> QED BY <1>2, <1>4 DEF a, b, c

\* Appending leaves the prefixes alone.
LEMMA PrefixOfAppend ==
    ASSUME NEW X, NEW w \in Seq(X), NEW x \in X, NEW p \in 0..Len(w)
    PROVE  SubSeq(Append(w, x), 1, p) = SubSeq(w, 1, p)
PROOF
  <1> DEFINE v == Append(w, x)
             a == SubSeq(v, 1, p)
             b == SubSeq(w, 1, p)
  <1>1. v \in Seq(X) /\ Len(v) = Len(w) + 1 /\ \A i \in 1..Len(w) : v[i] = w[i]
    OBVIOUS
  <1>2. b \in Seq(X) /\ Len(b) = p /\ \A i \in 1..p : b[i] = w[i]
    OBVIOUS
  <1>3. a \in Seq(X) /\ Len(a) = p /\ \A i \in 1..p : a[i] = v[i]
    <2> HIDE DEF v
    <2> QED BY <1>1
  <1> HIDE DEF a, b, v
  <1>4. p \in Nat /\ \A i \in 1..p : i \in 1..Len(w)
    OBVIOUS
  <1>5. a = b
    BY <1>1, <1>2, <1>3, <1>4, SeqEqual
  <1> QED BY <1>5 DEF a, b, v

\* A marker's position, read as the work done when it was set.
LEMMA SnapshotsType ==
    ASSUME NEW s \in StateType, MarksOrdered(s.tc)
    PROVE  /\ SnapshotsOf(s) \in Seq(SnapshotType) /\ DOMAIN SnapshotsOf(s) = DOMAIN s.tc.marks
           /\ Len(SnapshotsOf(s)) = Len(s.tc.marks) /\ DOMAIN s.tc.marks = 1..Len(s.tc.marks)
           /\ Len(s.tc.marks) \in Nat
           /\ \A i \in DOMAIN s.tc.marks :
                 /\ s.tc.marks[i].pos \in 0..Len(s.tc.entries)
                 /\ SnapshotsOf(s)[i] = SnapshotOf(s, i)
                 /\ SnapshotOf(s, i) \in SnapshotType
                 /\ SnapshotOf(s, i).name = s.tc.marks[i].name
                 /\ SnapshotOf(s, i).work = SubSeq(WorkOf(s), 1, s.tc.marks[i].pos)
                 /\ Len(SnapshotOf(s, i).work) = s.tc.marks[i].pos
PROOF
  <1> DEFINE ms == s.tc.marks
             N == Len(ms)
             w == WorkOf(s)
  <1>1. ms \in Seq(Marker)
    BY DEF StateType, OwnerType
  <1>2. N \in Nat /\ DOMAIN ms = 1..N
        /\ \A i \in DOMAIN ms : ms[i].pos \in Nat /\ ms[i].name \in Names
    <2> HIDE DEF ms
    <2> QED BY <1>1, MarkerFields
  <1>3. w \in Seq(Seq(Ops)) /\ Len(w) = Len(s.tc.entries) /\ Len(s.tc.entries) \in Nat
    BY WorkType
  <1>4. \A i \in DOMAIN ms : ms[i].pos \in 0..Len(w)
    BY <1>2, <1>3 DEF MarksOrdered
  <1>5. \A i \in DOMAIN ms : SnapshotOf(s, i) = [name |-> ms[i].name, work |-> SubSeq(w, 1, ms[i].pos)]
    BY DEF SnapshotOf
  <1>6. SnapshotsOf(s) = [i \in DOMAIN ms |-> SnapshotOf(s, i)]
    BY DEF SnapshotsOf
  <1> HIDE DEF ms, N, w
  <1>7. \A i \in DOMAIN ms : SubSeq(w, 1, ms[i].pos) \in Seq(Seq(Ops))
                             /\ Len(SubSeq(w, 1, ms[i].pos)) = ms[i].pos
    BY <1>3, <1>4
  <1>8. \A i \in DOMAIN ms :
           /\ SnapshotOf(s, i) \in SnapshotType /\ SnapshotOf(s, i).name = ms[i].name
           /\ SnapshotOf(s, i).work = SubSeq(w, 1, ms[i].pos)
    <2> TAKE i \in DOMAIN ms
    <2> DEFINE y == SubSeq(w, 1, ms[i].pos)
               m == ms[i].name
    <2>1. SnapshotOf(s, i) = [name |-> m, work |-> y] /\ y \in Seq(Seq(Ops)) /\ m \in Names
      BY <1>2, <1>5, <1>7
    <2> HIDE DEF y, m
    <2>2. [name |-> m, work |-> y] \in SnapshotType
      BY <2>1 DEF SnapshotType
    <2>3. SnapshotOf(s, i) \in SnapshotType /\ SnapshotOf(s, i).name = m /\ SnapshotOf(s, i).work = y
      BY <2>1, <2>2
    <2> QED BY <2>3 DEF m, y
  <1>9. SnapshotsOf(s) \in Seq(SnapshotType) /\ Len(SnapshotsOf(s)) = N
    BY <1>2, <1>6, <1>8
  <1> QED BY <1>2, <1>3, <1>4, <1>6, <1>7, <1>8, <1>9 DEF ms, N, w

\* Dropping the last markers drops their snapshots.
LEMMA SnapshotsPrefix ==
    ASSUME NEW s \in StateType, MarksOrdered(s.tc), NEW t, NEW k \in 0..Len(s.tc.marks),
           t.tc.marks = SubSeq(s.tc.marks, 1, k),
           \A i \in 1..k : SubSeq(WorkOf(t), 1, s.tc.marks[i].pos)
                          = SubSeq(WorkOf(s), 1, s.tc.marks[i].pos)
    PROVE  SnapshotsOf(t) = SubSeq(SnapshotsOf(s), 1, k)
PROOF
  <1> DEFINE ms == s.tc.marks
             ls == SubSeq(ms, 1, k)
             N == Len(ms)
             z == SnapshotsOf(s)
  <1>1. ms \in Seq(Marker) /\ N \in Nat
    BY SnapshotsType DEF StateType, OwnerType
  <1>2. z \in Seq(SnapshotType) /\ Len(z) = N /\ \A i \in 1..N : z[i] = SnapshotOf(s, i)
    BY SnapshotsType
  <1>3. DOMAIN ls = 1..k /\ \A i \in 1..k : ls[i] = ms[i]
    <2> HIDE DEF ms
    <2> QED BY <1>1
  <1>0. k \in 0..N
    OBVIOUS
  <1>4. SnapshotsOf(t) = [i \in 1..k |-> SnapshotOf(t, i)]
    BY <1>3 DEF SnapshotsOf
  <1>5. \A i \in 1..k : SnapshotOf(t, i) = z[i]
    <2> TAKE i \in 1..k
    <2>1. t.tc.marks[i] = ms[i] /\ i \in 1..N
      BY <1>1, <1>3
    <2>2. SubSeq(WorkOf(t), 1, ms[i].pos) = SubSeq(WorkOf(s), 1, ms[i].pos)
      OBVIOUS
    <2> QED BY <1>2, <2>1, <2>2 DEF SnapshotOf
  <1> HIDE DEF ms, ls, z, N
  <1>6. /\ SubSeq(z, 1, k) \in Seq(SnapshotType) /\ DOMAIN SubSeq(z, 1, k) = 1..k
        /\ \A i \in 1..k : SubSeq(z, 1, k)[i] = z[i]
    BY <1>1, <1>2, <1>0
  <1>7. SubSeq(z, 1, k) = [i \in 1..k |-> SubSeq(z, 1, k)[i]]
    BY <1>6
  <1> QED BY <1>4, <1>5, <1>6, <1>7 DEF z

\* As long as the work before a marker stays, so does its snapshot.
LEMMA SnapshotsSame ==
    ASSUME NEW s \in StateType, MarksOrdered(s.tc), NEW t, t.tc.marks = s.tc.marks,
           \A i \in DOMAIN s.tc.marks :
              SubSeq(WorkOf(t), 1, s.tc.marks[i].pos) = SubSeq(WorkOf(s), 1, s.tc.marks[i].pos)
    PROVE  SnapshotsOf(t) = SnapshotsOf(s)
PROOF
  BY DEF SnapshotsOf, SnapshotOf

\* The work with the queue executed
Flushed(s) == WorkOf(s) \o (IF Queued(s) = <<>> THEN <<>> ELSE <<Queued(s)>>)

\* After the flush the queue is the last batch of the work, and the snapshots
\* are unchanged.
LEMMA FlushDoneWork ==
    ASSUME NEW s \in StateType, MarksOrdered(s.tc), NEW u \in StateType, FlushDone(s, u)
    PROVE  /\ WorkOf(u) = Flushed(s) /\ Queued(u) = <<>> /\ SnapshotsOf(u) = SnapshotsOf(s)
           /\ MarksOrdered(u.tc) /\ u.tc.marks = s.tc.marks /\ Stays(s, u)
           /\ Len(WorkOf(s)) <= Len(WorkOf(u))
           /\ SubSeq(Flushed(s), 1, Len(Flushed(s))) = Flushed(s)
PROOF
  <1>1. /\ WorkOf(s) \in Seq(Seq(Ops)) /\ WorkOf(u) \in Seq(Seq(Ops))
        /\ Len(WorkOf(s)) = Len(s.tc.entries) /\ Len(WorkOf(u)) = Len(u.tc.entries)
        /\ Queued(s) \in Seq(Ops) /\ s.tc.nextID \in Nat
    BY WorkType, QueuedType
  <1> DEFINE w == WorkOf(s)
             q == Queued(s)
             n == s.tc.nextID + 1
  <1>2. CASE Flushes(s, u)
    <2>1. PICK v \in Observations : u.tc.entries = Append(s.tc.entries, NewEntry(n, q, v))
      BY <1>2 DEF Flushes, Ran
    <2>2. n \in Nat /\ q \in Seq(Ops)
      BY <1>1
    <2> HIDE DEF n, q
    <2>3. WorkOf(u) = Append(w, q)
      BY <2>1, <2>2, WorkAppend
    <2>4. Append(w, q) = w \o <<q>> /\ Len(Append(w, q)) = Len(w) + 1 /\ Len(w) \in Nat
      <3> HIDE DEF w
      <3>1. w \in Seq(Seq(Ops))
        BY <1>1 DEF w
      <3> QED BY <2>2, <3>1
    <2>5. u.tc.marks = s.tc.marks /\ Stays(s, u) /\ Queued(u) = <<>> /\ q # <<>>
      BY <1>2 DEF Flushes, Ran, q
    <2>6. \A i \in DOMAIN s.tc.marks :
             SubSeq(WorkOf(u), 1, s.tc.marks[i].pos) = SubSeq(WorkOf(s), 1, s.tc.marks[i].pos)
      <3> TAKE i \in DOMAIN s.tc.marks
      <3> DEFINE p == s.tc.marks[i].pos
      <3>1. p \in 0..Len(w)
        BY <1>1, SnapshotsType
      <3>2. w \in Seq(Seq(Ops))
        BY <1>1
      <3> HIDE DEF p, w
      <3>3. SubSeq(Append(w, q), 1, p) = SubSeq(w, 1, p)
        BY <2>2, <3>1, <3>2, PrefixOfAppend
      <3> QED BY <2>3, <3>3 DEF p, w
    <2>7. SnapshotsOf(u) = SnapshotsOf(s)
      BY <2>5, <2>6, SnapshotsSame
    <2>8. MarksOrdered(u.tc)
      <3>1. Len(u.tc.entries) = Len(s.tc.entries) + 1 /\ Len(s.tc.entries) \in Nat
        BY <1>1, <2>3, <2>4
      <3>2. \A i \in DOMAIN s.tc.marks : s.tc.marks[i].pos \in 0..Len(s.tc.entries)
        BY SnapshotsType
      <3> QED BY <2>5, <3>1, <3>2 DEF MarksOrdered
    <2>9. WorkOf(u) = Flushed(s)
      BY <2>3, <2>4, <2>5 DEF Flushed, q
    <2>10. Len(WorkOf(s)) <= Len(WorkOf(u))
      <3> HIDE DEF w
      <3>1. Len(WorkOf(u)) = Len(w) + 1 /\ Len(w) \in Nat
        BY <2>3, <2>4
      <3>2. Len(w) <= Len(WorkOf(u))
        BY <3>1
      <3> QED BY <3>2 DEF w
    <2>11. SubSeq(WorkOf(u), 1, Len(WorkOf(u))) = WorkOf(u)
      BY <1>1, SubSeqFull
    <2> QED BY <2>5, <2>7, <2>8, <2>9, <2>10, <2>11
  <1>3. CASE Kept(s, u) /\ Queued(s) = <<>>
    <2>1. /\ u.tc.entries = s.tc.entries /\ u.tc.marks = s.tc.marks /\ Stays(s, u)
          /\ Queued(u) = <<>>
      BY <1>3 DEF Kept, SameJournal
    <2>2. WorkOf(u) = WorkOf(s) /\ SnapshotsOf(u) = SnapshotsOf(s)
      BY <2>1 DEF WorkOf, SnapshotsOf, SnapshotOf
    <2>3. w \o <<>> = w /\ Len(w) <= Len(w)
      <3>1. w \in Seq(Seq(Ops))
        BY <1>1
      <3> HIDE DEF w
      <3> QED BY <3>1
    <2>4. MarksOrdered(u.tc)
      BY <2>1 DEF MarksOrdered
    <2>5. Flushed(s) = WorkOf(u)
      BY <1>3, <2>2, <2>3 DEF Flushed
    <2> QED BY <1>1, <2>1, <2>2, <2>3, <2>4, <2>5, SubSeqFull
  <1> QED BY <1>2, <1>3 DEF FlushDone

\* What the abstract transaction's variables stand for.
LEMMA NestedFields ==
    /\ InTxn = (S.tc.mode # "none") /\ tc.recovering = S.tc.recovering /\ durable = S.durable
    /\ Work = WorkOf(S) /\ Queue = Queued(S) /\ Snapshots = SnapshotsOf(S)
    /\ Nested!Flushed = Flushed(S)
PROOF
  <1>1. /\ InTxn = (S.tc.mode # "none") /\ tc.recovering = S.tc.recovering /\ durable = S.durable
        /\ Work = WorkOf(S) /\ Queue = Queued(S) /\ Snapshots = SnapshotsOf(S)
    BY DEF Work, Queue, Snapshots, WorkOf, Queued, SnapshotsOf, SnapshotOf, S, InTxn
  <1> QED BY <1>1 DEF Nested!Flushed, Nested!AsBatch, Flushed

\* What they stand for in the next state.
LEMMA NestedFieldsNext ==
    /\ InTxn' = (S'.tc.mode # "none") /\ tc'.recovering = S'.tc.recovering /\ durable' = S'.durable
    /\ Work' = WorkOf(S') /\ Queue' = Queued(S') /\ Snapshots' = SnapshotsOf(S')
PROOF
  BY DEF Work, Queue, Snapshots, WorkOf, Queued, SnapshotsOf, SnapshotOf, S, InTxn

\* The steps of NestedTransaction over states.
LEMMA NestedKept ==
    ASSUME Kept(S, S')
    PROVE  UNCHANGED Nested!vars
PROOF
  <1>1. WorkOf(S') = WorkOf(S) /\ SnapshotsOf(S') = SnapshotsOf(S) /\ Queued(S') = Queued(S)
    BY DEF Kept, SameJournal, WorkOf, SnapshotsOf, SnapshotOf
  <1> QED BY <1>1, NestedFields, NestedFieldsNext DEF Kept, Stays, Nested!vars

\* An owner that has ended is the abstract transaction that is not open.
LEMMA EndedState ==
    ASSUME NEW t, t.tc = NoOwner, t.held = <<>>
    PROVE  /\ t.tc.mode = "none" /\ t.tc.recovering = FALSE
           /\ WorkOf(t) = <<>> /\ Queued(t) = <<>> /\ SnapshotsOf(t) = <<>>
PROOF
  <1>1. /\ t.tc.mode = "none" /\ t.tc.recovering = FALSE
        /\ t.tc.entries = <<>> /\ t.tc.marks = <<>> /\ Queued(t) = <<>>
    BY DEF NoOwner, Queued
  <1>2. DOMAIN <<>> = {} /\ Batches(<<>>) = <<>>
    BY DEF Batches
  <1>3. SnapshotsOf(t) = <<>>
    BY <1>1, <1>2 DEF SnapshotsOf
  <1> QED BY <1>1, <1>2, <1>3 DEF WorkOf

\* Without an owner nothing is held.
LEMMA NoneEnded ==
    ASSUME AccountInv, S.tc.mode = "none"
    PROVE  S.tc = NoOwner /\ S.held = <<>>
PROOF
  BY StateFields DEF AccountInv, SectionInv, GoodOwner, OwnerShape, BackoffInv, ReadWritePCs

\* A dropped owner is an abandoned transaction.
LEMMA NestedAbandon ==
    ASSUME AccountInv, Dropped(S, S')
    PROVE  Nested!Abandon \/ UNCHANGED Nested!vars
PROOF
  <1>1. /\ S'.tc.mode = "none" /\ S'.tc.recovering = FALSE
        /\ WorkOf(S') = <<>> /\ Queued(S') = <<>> /\ SnapshotsOf(S') = <<>>
        /\ S'.durable = S.durable
    BY EndedState DEF Dropped
  <1>2. CASE S.tc.mode = "none"
    <2>1. /\ S.tc.recovering = FALSE
          /\ WorkOf(S) = <<>> /\ Queued(S) = <<>> /\ SnapshotsOf(S) = <<>>
      BY <1>2, NoneEnded, EndedState
    <2> QED BY <1>1, <1>2, <2>1, NestedFields, NestedFieldsNext DEF Nested!vars
  <1>3. CASE S.tc.mode # "none"
    BY <1>1, <1>3, NestedFields, NestedFieldsNext DEF Nested!Abandon, Nested!Ended
  <1> QED BY <1>2, <1>3

\* A new owner is a new transaction.
LEMMA NestedBegin ==
    ASSUME AccountInv, Begins(S, S')
    PROVE  Nested!Begin
PROOF
  <1>1. /\ S.tc.mode = "none" /\ S.tc.recovering = FALSE
        /\ WorkOf(S) = <<>> /\ Queued(S) = <<>> /\ SnapshotsOf(S) = <<>>
    BY NoneEnded, EndedState DEF Begins
  <1>2. /\ S'.tc.mode # "none" /\ S'.tc.recovering = FALSE
        /\ WorkOf(S') = <<>> /\ Queued(S') = <<>> /\ SnapshotsOf(S') = <<>>
        /\ S'.durable = S.durable
    <2>1. DOMAIN <<>> = {} /\ Batches(<<>>) = <<>>
      BY DEF Batches
    <2> QED BY <2>1 DEF Begins, WorkOf, SnapshotsOf
  <1> QED BY <1>1, <1>2, NestedFields, NestedFieldsNext DEF Nested!Begin

\* Queueing a statement, in the abstract transaction.
LEMMA NestedEnqueue ==
    ASSUME Queues(S, S', st.op), st.op \in Ops
    PROVE  Nested!Enqueue
PROOF
  <1>1. /\ WorkOf(S') = WorkOf(S) /\ SnapshotsOf(S') = SnapshotsOf(S)
        /\ Queued(S') = Append(Queued(S), st.op)
    BY DEF Queues, SameJournal, WorkOf, SnapshotsOf, SnapshotOf
  <1> QED BY <1>1, NestedFields, NestedFieldsNext DEF Nested!Enqueue, Nested!Usable, Queues, Usable, Stays

\* ABORT BATCH, in the abstract transaction.
LEMMA NestedDropQueue ==
    ASSUME Unqueues(S, S'), st'.kind = "abortBatch"
    PROVE  Nested!DropQueue
PROOF
  <1>1. WorkOf(S') = WorkOf(S) /\ SnapshotsOf(S') = SnapshotsOf(S) /\ Queued(S') = <<>>
    BY DEF Unqueues, SameJournal, WorkOf, SnapshotsOf, SnapshotOf
  <1> QED BY <1>1, NestedFields, NestedFieldsNext
         DEF Nested!DropQueue, Nested!Usable, Unqueues, Usable, Stays

\* A journaled statement, in the abstract transaction.
LEMMA NestedExecute ==
    ASSUME AccountInv, Executes(S, S', <<st.op>>), st.op \in Ops
    PROVE  Nested!Execute
PROOF
  <1> DEFINE os == <<st.op>>
             w == WorkOf(S)
             n == S.tc.nextID + 1
  <1>1. os \in Seq(Ops) /\ S \in StateType /\ MarksOrdered(S.tc) /\ n \in Nat
    BY StateTyped, StateFields, QueuedType DEF AccountInv, SectionInv, GoodOwner
  <1>2. PICK v \in Observations : S'.tc.entries = Append(S.tc.entries, NewEntry(n, os, v))
    BY DEF Executes, Ran
  <1>3. w \in Seq(Seq(Ops)) /\ Len(w) = Len(S.tc.entries)
    BY <1>1, WorkType
  <1>4. S'.tc.marks = S.tc.marks
    BY DEF Executes, Ran
  <1> HIDE DEF os, w, n
  <1>5. WorkOf(S') = Append(w, os)
    BY <1>1, <1>2, WorkAppend DEF w
  <1>6. SnapshotsOf(S') = SnapshotsOf(S)
    <2>1. \A i \in DOMAIN S.tc.marks :
             SubSeq(WorkOf(S'), 1, S.tc.marks[i].pos) = SubSeq(w, 1, S.tc.marks[i].pos)
      BY <1>1, <1>3, <1>5, SnapshotsType, PrefixOfAppend
    <2> QED BY <1>1, <1>4, <2>1, SnapshotsSame DEF w
  <1>7. WorkOf(S') = Append(WorkOf(S), <<st.op>>) /\ Queued(S') = Queued(S)
    BY <1>5 DEF w, os, Executes
  <1> QED BY <1>6, <1>7, NestedFields, NestedFieldsNext
         DEF Nested!Execute, Nested!Usable, Executes, Ran, Stays

\* The markers are in the order of their positions.
LEMMA OwnerPlaced ==
    ASSUME AccountInv
    PROVE  S \in StateType /\ MarksOrdered(S.tc)
PROOF
  BY StateTyped, StateFields DEF AccountInv, SectionInv, GoodOwner

\* A flushed queue, in the abstract transaction.
LEMMA NestedFlush ==
    ASSUME AccountInv, S.tc.mode # "none", ~S.tc.recovering,
           NEW u \in StateType, FlushDone(S, u), S' = u \/ Kept(u, S')
    PROVE  Nested!Flush
PROOF
  <1>1. /\ WorkOf(u) = Flushed(S) /\ Queued(u) = <<>> /\ SnapshotsOf(u) = SnapshotsOf(S)
        /\ Stays(S, u)
    BY OwnerPlaced, FlushDoneWork
  <1>2. /\ WorkOf(S') = WorkOf(u) /\ Queued(S') = Queued(u) /\ SnapshotsOf(S') = SnapshotsOf(u)
        /\ Stays(S, S')
    BY <1>1 DEF Kept, SameJournal, Stays, WorkOf, SnapshotsOf, SnapshotOf
  <1> QED BY <1>1, <1>2, NestedFields, NestedFieldsNext DEF Nested!Flush, Nested!Usable, Stays

\* SAVEPOINT marks the work done so far, the flushed queue included.
LEMMA NestedMark ==
    ASSUME AccountInv, S.tc.mode # "none", NEW u \in StateType, FlushDone(S, u), NEW n \in Names,
           Marks(u, S', n), ~Marked(S.tc, n)
    PROVE  Nested!Mark
PROOF
  <1>1. /\ S \in StateType /\ MarksOrdered(S.tc)
    BY OwnerPlaced
  <1>2. /\ WorkOf(u) = Flushed(S) /\ Queued(u) = <<>> /\ SnapshotsOf(u) = SnapshotsOf(S)
        /\ MarksOrdered(u.tc) /\ u.tc.marks = S.tc.marks /\ Stays(S, u)
    BY <1>1, FlushDoneWork
  <1>3. /\ WorkOf(S') = WorkOf(u) /\ Queued(S') = <<>> /\ Stays(S, S')
        /\ S'.tc.recovering = FALSE /\ S'.tc.mode # "none"
        /\ S'.tc.marks = Append(u.tc.marks, [name |-> n, pos |-> Len(u.tc.entries)])
    <2>1. S'.tc.recovering = u.tc.recovering /\ u.tc.recovering \in BOOLEAN /\ ~S'.tc.recovering
      BY DEF Marks, Stays, StateType, OwnerType
    <2> QED BY <1>2, <2>1 DEF Marks, Stays, WorkOf
  <1> DEFINE ms == u.tc.marks
             N == Len(ms)
             w == WorkOf(u)
             p == Len(u.tc.entries)
             x == [name |-> n, work |-> w]
             z == SnapshotsOf(u)
  <1>4. ms \in Seq(Marker) /\ N \in Nat /\ w \in Seq(Seq(Ops)) /\ Len(w) = p /\ p \in Nat
    BY WorkType DEF StateType, OwnerType
  <1>5. z \in Seq(SnapshotType) /\ Len(z) = N /\ \A i \in 1..N : z[i] = SnapshotOf(u, i)
    BY <1>2, SnapshotsType
  <1>6. SnapshotsOf(S') = Append(z, x)
    <2> DEFINE m == [name |-> n, pos |-> p]
               ls == Append(ms, m)
               a == Append(z, x)
    <2>1. m \in Marker /\ m.name = n /\ m.pos = p
      <3> HIDE DEF p
      <3> QED BY <1>4 DEF Marker
    <2>2. x \in SnapshotType
      <3> HIDE DEF w
      <3> QED BY <1>4 DEF SnapshotType
    <2>3. SubSeq(w, 1, p) = w
      <3> HIDE DEF w, p
      <3> QED BY <1>4, SubSeqFull
    <2> HIDE DEF ms, w, p, x, z, m
    <2>4. DOMAIN ls = 1..(N + 1) /\ ls[N + 1] = m /\ \A i \in 1..N : ls[i] = ms[i]
      BY <1>4, <2>1
    <2>5. /\ a \in Seq(SnapshotType) /\ DOMAIN a = 1..(N + 1) /\ a[N + 1] = x
          /\ \A i \in 1..N : a[i] = z[i]
      <3> HIDE DEF N
      <3> QED BY <1>4, <1>5, <2>2
    <2> HIDE DEF ls, a
    <2>6. S'.tc.marks = ls /\ WorkOf(S') = w
      BY <1>3 DEF ls, m, ms, p, w
    <2>7. SnapshotsOf(S') = [i \in 1..(N + 1) |-> SnapshotOf(S', i)]
      BY <2>4, <2>6 DEF SnapshotsOf
    <2>8. \A i \in 1..N : SnapshotOf(S', i) = a[i]
      BY <1>5, <2>4, <2>5, <2>6 DEF SnapshotOf, ms, w
    <2>9. SnapshotOf(S', N + 1) = a[N + 1]
      <3>1. SnapshotOf(S', N + 1) = [name |-> ls[N + 1].name, work |-> SubSeq(w, 1, ls[N + 1].pos)]
        BY <2>6 DEF SnapshotOf
      <3> QED BY <2>1, <2>3, <2>4, <2>5, <3>1 DEF x
    <2> HIDE DEF N
    <2>10. \A i \in 1..(N + 1) : SnapshotOf(S', i) = a[i]
      <3>1. \A i \in 1..(N + 1) : i \in 1..N \/ i = N + 1
        BY <1>4
      <3> QED BY <2>8, <2>9, <3>1
    <2>11. a = [i \in 1..(N + 1) |-> a[i]]
      BY <2>5
    <2> QED BY <2>7, <2>10, <2>11 DEF a
  <1>7. \A i \in DOMAIN SnapshotsOf(S) : SnapshotsOf(S)[i].name # n
    BY <1>1, SnapshotsType DEF Marked
  <1>8. WorkOf(S') = Nested!Flushed
    BY <1>2, <1>3, NestedFields
  <1>9. SnapshotsOf(S') = Append(SnapshotsOf(S), [name |-> n, work |-> WorkOf(S')])
    BY <1>2, <1>3, <1>6
  <1> HIDE DEF ms, N, w, p, x, z
  <1> QED BY <1>3, <1>7, <1>8, <1>9, NestedFields, NestedFieldsNext DEF Nested!Mark, Nested!Usable, Stays

\* RELEASE, in the abstract transaction.
LEMMA NestedRelease ==
    ASSUME AccountInv, Releases(S, S')
    PROVE  Nested!Release
PROOF
  <1>1. S \in StateType /\ MarksOrdered(S.tc)
    BY OwnerPlaced
  <1>2. PICK i \in DOMAIN S.tc.marks : S'.tc.marks = SubSeq(S.tc.marks, 1, i - 1)
    BY DEF Releases
  <1>3. WorkOf(S') = WorkOf(S) /\ Queued(S') = Queued(S)
    BY DEF Releases, WorkOf
  <1>4. i \in DOMAIN SnapshotsOf(S) /\ i - 1 \in 0..Len(S.tc.marks)
    BY <1>1, SnapshotsType
  <1>5. SnapshotsOf(S') = SubSeq(SnapshotsOf(S), 1, i - 1)
    BY <1>1, <1>2, <1>3, <1>4, SnapshotsPrefix
  <1>6. \E j \in DOMAIN SnapshotsOf(S) : SnapshotsOf(S') = SubSeq(SnapshotsOf(S), 1, j - 1)
    BY <1>4, <1>5
  <1> QED BY <1>3, <1>6, NestedFields, NestedFieldsNext
         DEF Nested!Release, Nested!Usable, Releases, Usable, Stays

\* The work after a return to a position, and the snapshots up to it
LEMMA PrefixSnapshots ==
    ASSUME NEW s \in StateType, MarksOrdered(s.tc), NEW t,
           NEW p \in 0..Len(s.tc.entries), t.tc.entries = SubSeq(s.tc.entries, 1, p),
           NEW k \in 0..Len(s.tc.marks), t.tc.marks = SubSeq(s.tc.marks, 1, k),
           \A j \in 1..k : s.tc.marks[j].pos <= p
    PROVE  WorkOf(t) = SubSeq(WorkOf(s), 1, p) /\ SnapshotsOf(t) = SubSeq(SnapshotsOf(s), 1, k)
PROOF
  <1> DEFINE w == WorkOf(s)
  <1>1. w \in Seq(Seq(Ops)) /\ Len(w) = Len(s.tc.entries) /\ Len(w) \in Nat
    BY WorkType
  <1>2. WorkOf(t) = SubSeq(w, 1, p)
    BY WorkPrefix
  <1>3. \A j \in 1..k : s.tc.marks[j].pos \in 0..p
    BY <1>1, SnapshotsType
  <1> HIDE DEF w
  <1>4. \A j \in 1..k : SubSeq(WorkOf(t), 1, s.tc.marks[j].pos) = SubSeq(w, 1, s.tc.marks[j].pos)
    BY <1>1, <1>2, <1>3, PrefixOfPrefix
  <1> QED BY <1>2, <1>4, SnapshotsPrefix DEF w

\* ROLLBACK TO goes back to the work done when the marker was set.
LEMMA NestedRollbackTo ==
    ASSUME AccountInv, Returns(S, S')
    PROVE  Nested!RollbackTo
PROOF
  <1>1. S \in StateType /\ MarksOrdered(S.tc)
    BY OwnerPlaced
  <1>2. PICK i \in DOMAIN S.tc.marks :
          /\ S'.tc.entries = SubSeq(S.tc.entries, 1, S.tc.marks[i].pos)
          /\ S'.tc.marks = SubSeq(S.tc.marks, 1, i)
    BY DEF Returns
  <1> DEFINE p == S.tc.marks[i].pos
  <1>3. /\ p \in 0..Len(S.tc.entries) /\ i \in 0..Len(S.tc.marks) /\ i \in DOMAIN SnapshotsOf(S)
        /\ SnapshotsOf(S)[i].work = SubSeq(WorkOf(S), 1, p)
        /\ Len(S.tc.marks) \in Nat /\ DOMAIN S.tc.marks = 1..Len(S.tc.marks)
    BY <1>1, SnapshotsType
  <1>4. \A j \in 1..i : S.tc.marks[j].pos <= p
    BY <1>1, <1>3 DEF MarksOrdered
  <1>5. WorkOf(S') = SubSeq(WorkOf(S), 1, p) /\ SnapshotsOf(S') = SubSeq(SnapshotsOf(S), 1, i)
    BY <1>1, <1>2, <1>3, <1>4, PrefixSnapshots
  <1>6. \E j \in DOMAIN SnapshotsOf(S) :
           WorkOf(S') = SnapshotsOf(S)[j].work /\ SnapshotsOf(S') = SubSeq(SnapshotsOf(S), 1, j)
    BY <1>3, <1>5
  <1>7. S'.tc.recovering = FALSE
    <2>1. S' \in StateType \/ S'.tc.recovering = FALSE
      BY DEF Returns
    <2> QED BY <2>1 DEF Returns, StateType, OwnerType
  <1> QED BY <1>6, <1>7, NestedFields, NestedFieldsNext DEF Nested!RollbackTo, Returns

\* Flushing adds to the work and takes nothing from it.
LEMMA FlushedWork ==
    ASSUME NEW s \in StateType
    PROVE  /\ Flushed(s) \in Seq(Seq(Ops)) /\ Len(Flushed(s)) \in Nat
           /\ Len(WorkOf(s)) <= Len(Flushed(s))
           /\ \A p \in 0..Len(WorkOf(s)) : SubSeq(Flushed(s), 1, p) = SubSeq(WorkOf(s), 1, p)
PROOF
  <1> DEFINE w == WorkOf(s)
             q == Queued(s)
             b == IF q = <<>> THEN <<>> ELSE <<q>>
             f == w \o b
  <1>1. w \in Seq(Seq(Ops)) /\ q \in Seq(Ops)
    BY WorkType, QueuedType
  <1> HIDE DEF w, q
  <1>2. b \in Seq(Seq(Ops)) /\ Len(b) \in Nat
    BY <1>1
  <1> HIDE DEF b
  <1>3. /\ f \in Seq(Seq(Ops)) /\ Len(f) \in Nat /\ Len(w) \in Nat
        /\ Len(f) = Len(w) + Len(b) /\ \A i \in 1..Len(w) : f[i] = w[i]
    BY <1>1, <1>2
  <1> HIDE DEF f
  <1>4. Len(w) <= Len(f)
    BY <1>2, <1>3
  <1>5. ASSUME NEW p \in 0..Len(w)
        PROVE  SubSeq(f, 1, p) = SubSeq(w, 1, p)
    <2> DEFINE x == SubSeq(f, 1, p)
               y == SubSeq(w, 1, p)
    <2>1. /\ p \in Nat /\ \A i \in 1..p : i \in 1..Len(w)
          /\ p \in 0..Len(f)
      BY <1>3, <1>4
    <2>2. x \in Seq(Seq(Ops)) /\ Len(x) = p /\ \A i \in 1..p : x[i] = f[i]
      BY <1>3, <2>1
    <2>3. y \in Seq(Seq(Ops)) /\ Len(y) = p /\ \A i \in 1..p : y[i] = w[i]
      BY <1>1, <2>1
    <2> HIDE DEF x, y
    <2>4. x = y
      BY <1>3, <2>1, <2>2, <2>3, SeqEqual
    <2> QED BY <2>4 DEF x, y
  <1>6. Flushed(s) = f
    BY DEF Flushed, f, b, w, q
  <1> QED BY <1>3, <1>4, <1>5, <1>6 DEF w

\* A break that leaves p batches of the work and k markers
LEMMA BreakStep ==
    ASSUME AccountInv, S.tc.mode # "none", ~S.tc.recovering,
           S'.tc.mode # "none", S'.tc.recovering, S'.held = <<>>, S'.durable = S.durable,
           NEW p \in 0..Len(Flushed(S)), WorkOf(S') = SubSeq(Flushed(S), 1, p),
           NEW k \in 1..Len(S.tc.marks), SnapshotsOf(S') = SubSeq(SnapshotsOf(S), 1, k),
           \A j \in DOMAIN S.tc.marks : j <= k <=> S.tc.marks[j].pos <= p
    PROVE  Nested!Break
PROOF
  <1> DEFINE z == SnapshotsOf(S)
             y == SubSeq(z, 1, k)
             f == Flushed(S)
             w == SubSeq(f, 1, p)
             N == Len(S.tc.marks)
  <1>1. S \in StateType /\ MarksOrdered(S.tc)
    BY OwnerPlaced
  <1>2. /\ z \in Seq(SnapshotType) /\ Len(z) = N /\ DOMAIN z = 1..N /\ N \in Nat
        /\ DOMAIN S.tc.marks = 1..N
        /\ \A j \in 1..N : Len(z[j].work) = S.tc.marks[j].pos
    BY <1>1, SnapshotsType
  <1>3. f \in Seq(Seq(Ops)) /\ Len(f) \in Nat
    BY <1>1, FlushedWork
  <1> HIDE DEF z, f, N
  <1>4. k \in 1..N /\ p \in 0..Len(f)
    BY DEF N, f
  <1>5. Len(w) = p
    BY <1>3, <1>4
  <1>6. Len(y) = k /\ DOMAIN y = 1..k /\ y # <<>>
    <2>1. k \in 1..Len(z) /\ k \in Nat \ {0}
      BY <1>2, <1>4
    <2>2. y \in Seq(SnapshotType) /\ Len(y) = k /\ DOMAIN y = 1..k
      BY <1>2, <2>1
    <2> HIDE DEF y
    <2>3. Len(<<>>) = 0
      OBVIOUS
    <2> QED BY <2>1, <2>2, <2>3
  <1> HIDE DEF w, y
  <1>7. WorkOf(S') = w /\ SnapshotsOf(S') = y
    BY DEF w, y, z, f
  <1>8. w \in Nested!Prefixes(f) /\ y \in Nested!Prefixes(z) \ {<<>>}
    <2>1. k \in 0..Len(z)
      BY <1>2, <1>4
    <2> QED BY <1>4, <1>6, <2>1 DEF Nested!Prefixes, w, y
  <1>9. \A j \in DOMAIN z : j \in DOMAIN y <=> Len(z[j].work) <= Len(w)
    <2>1. \A j \in 1..N : j \in 1..k <=> j <= k
      BY <1>2, <1>4
    <2> QED BY <1>2, <1>5, <1>6, <2>1
  <1>10. /\ Snapshots = z /\ Nested!Flushed = f
         /\ Work' = w /\ Snapshots' = y
    BY <1>7, NestedFields, NestedFieldsNext DEF z, f
  <1>11. /\ InTxn /\ tc.recovering = FALSE /\ InTxn' = InTxn /\ tc'.recovering = TRUE
         /\ Queue' = <<>> /\ durable' = durable
    <2>1. tc.recovering \in BOOLEAN /\ tc'.recovering = TRUE
      <3>1. S'.tc.recovering = TRUE \/ ~(S' \in StateType)
        BY DEF StateType, OwnerType
      <3> QED BY <1>1, <3>1, StateFields DEF StateType, OwnerType
    <2> QED BY <2>1, EndQueued, NestedFields, NestedFieldsNext
  <1> QED BY <1>8, <1>9, <1>10, <1>11 DEF Nested!Break

\* An attempt that goes into recovery is a broken transaction, its flushed
\* queue kept or not.
LEMMA NestedBroken ==
    ASSUME AccountInv, S.tc.mode # "none", NEW u \in StateType, u = S \/ FlushDone(S, u),
           Broken(u, S')
    PROVE  Nested!Break
PROOF
  <1>1. S \in StateType /\ MarksOrdered(S.tc) /\ WorkOf(S) \in Seq(Seq(Ops))
    BY OwnerPlaced, WorkType
  <1>2. PICK p \in 0..Len(Flushed(S)) :
           WorkOf(u) = SubSeq(Flushed(S), 1, p) /\ Len(WorkOf(S)) <= p
    <2>1. CASE u = S
      <3> DEFINE n == Len(WorkOf(S))
      <3>1. n \in 0..Len(Flushed(S)) /\ n \in Nat /\ n \in 0..n
        BY <1>1, FlushedWork
      <3>2. SubSeq(Flushed(S), 1, n) = SubSeq(WorkOf(S), 1, n)
        BY <1>1, <3>1, FlushedWork
      <3>3. SubSeq(WorkOf(S), 1, n) = WorkOf(S)
        BY <1>1, SubSeqFull
      <3>4. WorkOf(u) = SubSeq(Flushed(S), 1, n) /\ n \in 0..Len(Flushed(S)) /\ n <= n
        BY <2>1, <3>1, <3>2, <3>3
      <3> HIDE DEF n
      <3>5. Len(WorkOf(S)) <= n
        BY <3>4 DEF n
      <3> QED BY <3>4, <3>5
    <2>2. CASE FlushDone(S, u)
      <3>1. /\ WorkOf(u) = Flushed(S) /\ Len(WorkOf(S)) <= Len(WorkOf(u))
            /\ SubSeq(Flushed(S), 1, Len(Flushed(S))) = Flushed(S)
        BY <1>1, <2>2, FlushDoneWork
      <3>2. Len(Flushed(S)) \in 0..Len(Flushed(S))
        BY <1>1, FlushedWork
      <3> QED BY <3>1, <3>2
    <2> QED BY <2>1, <2>2
  <1>3. /\ u.tc.marks = S.tc.marks /\ SnapshotsOf(u) = SnapshotsOf(S)
        /\ u.tc.recovering = S.tc.recovering /\ u.durable = S.durable
    BY <1>1, FlushDoneWork DEF Stays
  <1>4. /\ WorkOf(S') = WorkOf(u) /\ SnapshotsOf(S') = SnapshotsOf(u)
        /\ S'.tc.mode # "none" /\ S'.tc.recovering /\ S'.held = <<>> /\ S'.durable = S.durable
        /\ ~S.tc.recovering /\ S.tc.marks # <<>>
    BY <1>3 DEF Broken, SameJournal, WorkOf, SnapshotsOf, SnapshotOf
  <1> DEFINE k == Len(S.tc.marks)
             z == SnapshotsOf(S)
  <1>5. /\ z \in Seq(SnapshotType) /\ Len(z) = k /\ k \in Nat /\ DOMAIN S.tc.marks = 1..k
        /\ Len(WorkOf(S)) = Len(S.tc.entries) /\ Len(S.tc.entries) \in Nat
        /\ \A j \in DOMAIN S.tc.marks : S.tc.marks[j].pos \in 0..Len(S.tc.entries)
    BY <1>1, SnapshotsType, WorkType
  <1>6. k \in 1..Len(S.tc.marks)
    <2>1. S.tc.marks \in Seq(Marker)
      BY <1>1 DEF StateType, OwnerType
    <2>2. S.tc.marks # <<>> => Len(S.tc.marks) \in Nat \ {0}
      BY <2>1, EmptySeq
    <2> QED BY <1>4, <2>2
  <1>7. SnapshotsOf(S') = SubSeq(z, 1, k)
    <2> HIDE DEF z
    <2>1. SubSeq(z, 1, k) = z
      BY <1>5, SubSeqFull
    <2> QED BY <1>3, <1>4, <2>1 DEF z
  <1>8. \A j \in DOMAIN S.tc.marks : j <= k <=> S.tc.marks[j].pos <= p
    <2> TAKE j \in DOMAIN S.tc.marks
    <2>1. j \in 1..k /\ S.tc.marks[j].pos \in 0..Len(S.tc.entries)
      BY <1>5
    <2> HIDE DEF k
    <2>2. j <= k
      BY <1>5, <2>1
    <2>3. S.tc.marks[j].pos <= p
      <3> DEFINE x == S.tc.marks[j].pos
                 n == Len(S.tc.entries)
      <3>1. x \in 0..n /\ n \in Nat /\ n <= p
        BY <1>2, <1>5, <2>1
      <3>2. p \in Nat
        BY <1>1, <1>2, FlushedWork
      <3> HIDE DEF x, n
      <3>3. x <= p
        BY <3>1, <3>2
      <3> QED BY <3>3 DEF x
    <2> QED BY <2>2, <2>3
  <1> HIDE DEF k, z
  <1> QED BY <1>2, <1>4, <1>6, <1>7, <1>8, BreakStep DEF z

\* A retracted statement breaks the abstract transaction.
LEMMA NestedRetracts ==
    ASSUME AccountInv, Retracts(S, S')
    PROVE  Nested!Break
PROOF
  <1>1. S \in StateType /\ MarksOrdered(S.tc)
    BY OwnerPlaced
  <1>2. PICK i, k : /\ Retracted(S, i, k) /\ k # 0
                    /\ S'.tc.entries = SubSeq(S.tc.entries, 1, i - 1)
                    /\ S'.tc.marks = SubSeq(S.tc.marks, 1, k)
    BY DEF Retracts
  <1> DEFINE p == i - 1
  <1>3. /\ Len(S.tc.entries) \in Nat /\ Len(S.tc.marks) \in Nat
        /\ DOMAIN S.tc.marks = 1..Len(S.tc.marks)
        /\ Len(WorkOf(S)) = Len(S.tc.entries)
    BY <1>1, SnapshotsType, WorkType
  <1>4. p \in 0..Len(S.tc.entries) /\ k \in 0..Len(S.tc.marks) /\ k \in 1..Len(S.tc.marks)
    BY <1>2, <1>3 DEF Retracted
  <1>5. \A j \in DOMAIN S.tc.marks : j <= k <=> S.tc.marks[j].pos <= p
    BY <1>2 DEF Retracted
  <1>6. \A j \in 1..k : S.tc.marks[j].pos <= p
    BY <1>3, <1>4, <1>5
  <1>7. WorkOf(S') = SubSeq(WorkOf(S), 1, p) /\ SnapshotsOf(S') = SubSeq(SnapshotsOf(S), 1, k)
    BY <1>1, <1>2, <1>4, <1>6, PrefixSnapshots
  <1> HIDE DEF p
  <1>8. p \in 0..Len(Flushed(S)) /\ WorkOf(S') = SubSeq(Flushed(S), 1, p)
    <2>1. p \in 0..Len(WorkOf(S))
      BY <1>3, <1>4
    <2>2. SubSeq(Flushed(S), 1, p) = SubSeq(WorkOf(S), 1, p)
      BY <1>1, <2>1, FlushedWork
    <2>3. Len(WorkOf(S)) \in Nat /\ Len(Flushed(S)) \in Nat /\ Len(WorkOf(S)) <= Len(Flushed(S))
      BY <1>1, <1>3, FlushedWork
    <2>4. p \in 0..Len(Flushed(S))
      BY <2>1, <2>3
    <2> QED BY <1>7, <2>2, <2>4
  <1> QED BY <1>4, <1>5, <1>7, <1>8, BreakStep DEF Retracts

\* What the server commits is the work of the abstract transaction, the
\* flushed queue included.
LEMMA NestedCommit ==
    ASSUME AccountInv, S.tc.mode # "none", st.kind \in {"commit", "ddl"},
           NEW u \in StateType, FlushDone(S, u), Synced(u), Commits(u, S')
    PROVE  Nested!Commit
PROOF
  <1>1. S \in StateType /\ MarksOrdered(S.tc)
    BY OwnerPlaced
  <1>2. WorkOf(u) = Flushed(S) /\ Stays(S, u)
    BY <1>1, FlushDoneWork
  <1>3. Batches(u.phys) = WorkOf(u)
    <2> DEFINE es == u.tc.entries
    <2>1. u.phys = Answers(es)
      BY DEF Synced, Commits
    <2>2. Batches(Answers(es)) = Batches(es)
      BY DEF Batches, Answers
    <2> QED BY <2>1, <2>2 DEF WorkOf
  <1>4. /\ S'.tc.mode = "none" /\ S'.tc.recovering = FALSE
        /\ WorkOf(S') = <<>> /\ Queued(S') = <<>> /\ SnapshotsOf(S') = <<>>
    BY EndedState DEF Commits
  <1>5. S'.durable = Flushed(S) /\ ~S.tc.recovering
    BY <1>2, <1>3 DEF Commits, Stays
  <1> QED BY <1>4, <1>5, NestedFields, NestedFieldsNext DEF Nested!Commit, Nested!Ended

\* A savepoint being created has a name that no marker has.
NameInv == InSavepoint => ~Marked(tc, st.name)

\* Only SAVEPOINT waits in a savepoint section.
LEMMA SectionName ==
    ASSUME NEW p, NEW f, SectionStep(p, f), back' = "savepoint"
    PROVE  p = "savepoint" /\ tc'.marks = tc.marks /\ st' = st
PROOF
  <1>1. f.r = "wait" /\ p = "savepoint" /\ st' = st
    BY DEF SectionStep, Finish
  <1>2. Kept(S, f.s)
    BY <1>1 DEF SectionStep, Shape, FailShape, SettleShape
  <1> QED BY <1>1, <1>2, SectionStepState, StateFields DEF Kept, SameJournal

\* Every step keeps NameInv.
LEMMA StepName ==
    ASSUME AccountInv, AccountInv', ServerInv, NameInv, [Next]_vars
    PROVE  NameInv'
PROOF
  <1> SUFFICES ASSUME InSavepoint' PROVE ~Marked(tc', st'.name)
    BY DEF NameInv
  <1>1. pc' # "backoff" => back' = "prompt"
    BY DEF AccountInv, BackoffInv
  <1>2. \A p, f : SectionStep(p, f) => pc' # "savepoint"
    BY DEF SectionStep, Finish, After
  <1>3. \A p, f : SectionStep(p, f) /\ (p = "savepoint" => InSavepoint) => ~Marked(tc', st'.name)
    BY <1>2, SectionName DEF NameInv, InSavepoint, Marked
  <1>4. CASE SubmitDML \/ SubmitEnd
    BY <1>1, <1>4 DEF SubmitDML, SubmitEnd, Submit, InSavepoint
  <1>5. CASE SubmitSavepoint
    <2>1. PICK n \in Names : ~Marked(tc, n) /\ st' = [kind |-> "savepoint", op |-> 0, name |-> n]
                             /\ tc' = Reserve(tc, MarkerBytes)
      BY <1>5 DEF SubmitSavepoint
    <2>2. tc'.marks = tc.marks
      BY <2>1 DEF Reserve, AccountInv, TypeOK, OwnerType
    <2> QED BY <2>1, <2>2 DEF Marked
  <1>6. CASE \/ Begin \/ Release \/ RollbackTo \/ Rollback \/ AbortBatch
             \/ Leave \/ DisplayDone \/ DisplayFailed \/ Enqueue \/ QueryDone \/ QueryFailed
    BY <1>1, <1>6 DEF Begin, Release, RollbackTo, Rollback, AbortBatch, Leave, DisplayDone,
       DisplayFailed, Enqueue, QueryDone, QueryFailed, InSavepoint
  <1>7. CASE Determine \/ Query
    BY <1>1, <1>7 DEF Determine, Query, InSavepoint
  <1>8. CASE Expire
    <2>1. InSavepoint /\ st' = st
      BY <1>8 DEF Expire, InSavepoint
    <2>2. tc'.marks = tc.marks \/ tc'.marks = <<>>
      BY <1>8, ExpireSteps, StateFields DEF Kept, SameJournal, Dropped, NoOwner
    <2>3. DOMAIN <<>> = {}
      OBVIOUS
    <2> QED BY <2>1, <2>2, <2>3 DEF NameInv, Marked
  <1>9. CASE Section
    <2>1. CASE pc' = "leave"
      BY <1>1, <2>1 DEF InSavepoint
    <2>2. CASE \E f : SectionStep(pc, f)
      BY <1>3, <2>2 DEF InSavepoint
    <2> QED BY <1>9, <2>1, <2>2, SectionSteps
  <1>10. CASE QueryAborted
    BY <1>3, <1>10, QueryAbortedSteps
  <1>11. CASE Resume
    BY <1>3, <1>11, ResumeSteps DEF InSavepoint
  <1>12. CASE UNCHANGED vars
    BY <1>12 DEF vars, InSavepoint, NameInv
  <1> QED BY <1>4, <1>5, <1>6, <1>7, <1>8, <1>9, <1>10, <1>11, <1>12 DEF Next, Statement

\* SAVEPOINT never runs with a marker of that name in place: its predecessor
\* was released first.
LEMMA NameInvariant == Spec => []NameInv
PROOF
  <1>1. Init => NameInv
    BY DEF Init, NameInv, InSavepoint
  <1>2. AccountInv /\ AccountInv' /\ ServerInv /\ NameInv /\ [Next]_vars => NameInv'
    BY StepName
  <1> QED BY <1>1, <1>2, AccountsInvariant, ServerInvariant, PTL DEF Spec

\* A section is one step of the abstract transaction or none.
LEMMA SectionNested ==
    ASSUME AccountInv, NEW p, NEW f, SectionStep(p, f), tc.mode # "none", ~tc.recovering,
           p = "exec" => st.op \in Ops,
           p = "savepoint" => st.name \in Names /\ ~Marked(tc, st.name),
           p = "commit" => st.kind \in {"commit", "ddl"}
    PROVE  Nested!Next \/ UNCHANGED Nested!vars
PROOF
  <1>1. S' = f.s /\ f.s \in StateType /\ S.tc = tc
    BY SectionStepState, StateFields DEF SectionStep, SectionResult, ResultType
  <1>2. \A u : u = S \/ (u \in StateType /\ FlushDone(S, u)) => (Dropped(u, f.s) => Dropped(S, f.s))
    <2>1. \A u : FlushDone(S, u) => u.durable = S.durable
      BY DEF FlushDone, Flushes, Ran, Kept, Stays
    <2> QED BY <2>1 DEF Dropped
  <1>3. ASSUME NEW u \in StateType, u = S \/ FlushDone(S, u), Broken(u, f.s)
        PROVE  Nested!Next
    BY <1>1, <1>3, NestedBroken DEF Nested!Next
  <1>4. CASE Dropped(S, f.s)
    BY <1>1, <1>4, NestedAbandon DEF Nested!Next
  <1>5. CASE Kept(S, f.s)
    BY <1>1, <1>5, NestedKept
  <1>6. CASE FailShape(S, f)
    BY <1>3, <1>4, <1>5, <1>6, StateTyped DEF FailShape
  <1>7. CASE p = "exec" /\ Executes(S, f.s, <<st.op>>)
    BY <1>1, <1>7, NestedExecute DEF Nested!Next
  <1>8. ASSUME NEW u \in StateType, FlushDone(S, u), Synced(u), SettleShape(p, u, st.name, f)
        PROVE  Nested!Next \/ UNCHANGED Nested!vars
    <2>1. CASE f.s = u
      BY <1>1, <1>8, <2>1, NestedFlush DEF Nested!Next
    <2>2. CASE p = "savepoint" /\ Marks(u, f.s, st.name)
      BY <1>1, <1>8, <2>2, NestedMark DEF Nested!Next
    <2>3. CASE p = "commit" /\ Commits(u, f.s)
      BY <1>1, <1>8, <2>3, NestedCommit DEF Nested!Next
    <2>4. CASE Dropped(u, f.s)
      BY <1>2, <1>4, <1>8, <2>4
    <2>5. CASE Broken(u, f.s)
      BY <1>3, <1>8, <2>5
    <2>6. CASE Kept(u, f.s)
      BY <1>1, <1>8, <2>6, NestedFlush DEF Nested!Next
    <2> QED BY <1>8, <2>1, <2>2, <2>3, <2>4, <2>5, <2>6 DEF SettleShape, CommitShape, FailShape
  <1> QED BY <1>4, <1>5, <1>6, <1>7, <1>8 DEF SectionStep, Shape

\* Every step is one step of the abstract transaction or none.
LEMMA StepNested ==
    ASSUME AccountInv, ServerInv, KindInv, NameInv, [Next]_vars
    PROVE  Nested!Next \/ UNCHANGED Nested!vars
PROOF
  <1>1. Kept(S, S') => UNCHANGED Nested!vars
    BY NestedKept
  <1>2. Dropped(S, S') => Nested!Next \/ UNCHANGED Nested!vars
    BY NestedAbandon DEF Nested!Next
  <1>3. Broken(S, S') => Nested!Next
    BY StateTyped, NestedBroken DEF Nested!Next, Broken
  <1>4. CASE SubmitDML \/ SubmitEnd \/ SubmitSavepoint
    BY <1>1, <1>4, SubmitSteps
  <1>5. CASE Begin
    BY <1>5, BeginSteps, NestedBegin DEF Nested!Next
  <1>6. CASE Release
    BY <1>6, ReleaseSteps, NestedRelease DEF Nested!Next
  <1>7. CASE RollbackTo
    BY <1>2, <1>7, RollbackToSteps, NestedRollbackTo DEF Nested!Next
  <1>8. CASE Rollback
    BY <1>2, <1>8, EndDropped DEF Rollback
  <1>9. CASE AbortBatch
    BY <1>9, AbortBatchSteps, NestedDropQueue DEF Nested!Next
  <1>10. CASE Determine \/ Query \/ QueryFailed \/ Leave \/ Expire
    BY <1>1, <1>2, <1>3, <1>10, DetermineSteps, QuerySteps, QueryFailedSteps, LeaveSteps, ExpireSteps
  <1>11. CASE DisplayDone
    <2>1. Kept(S, S')
      BY <1>11, BecomeStay, StayKept DEF DisplayDone
    <2> QED BY <1>1, <2>1
  <1>12. CASE DisplayFailed
    BY <1>1, <1>2, <1>3, <1>12, DisplayFailedSteps, NestedRetracts DEF RetractsAll, Nested!Next
  <1>13. CASE Enqueue
    <2>1. st.op \in Ops
      BY <1>13 DEF Enqueue, AccountInv, StatementInv, StatementPCs
    <2> QED BY <1>1, <1>13, <2>1, EnqueueSteps, NestedEnqueue DEF Nested!Next
  <1>14. CASE QueryDone
    <2>1. st.op \in Ops
      BY <1>14 DEF QueryDone, AccountInv, StatementInv, StatementPCs
    <2> QED BY <1>1, <1>14, <2>1, QueryDoneSteps, NestedExecute DEF Nested!Next
  <1>15. CASE Section
    <2>1. CASE Become(End(S))
      BY <1>2, <2>1, EndDropped
    <2>2. CASE \E f : SectionStep(pc, f)
      <3>1. /\ tc.mode # "none" /\ ~tc.recovering
            /\ pc = "exec" => st.op \in Ops
            /\ pc = "savepoint" => st.name \in Names /\ ~Marked(tc, st.name)
            /\ pc = "commit" => st.kind \in {"commit", "ddl"}
        BY <1>15 DEF Section, AccountInv, SectionInv, StatementInv, StatementPCs, InSavepoint, InTxn,
           ReadWritePCs, NameInv, KindInv
      <3> QED BY <2>2, <3>1, SectionNested
    <2> QED BY <1>15, <2>1, <2>2, SectionSteps
  <1>16. CASE QueryAborted
    <2>1. tc.mode # "none" /\ ~tc.recovering
      BY <1>16 DEF QueryAborted, AccountInv, SectionInv, ReadWritePCs
    <2> QED BY <1>16, <2>1, QueryAbortedSteps, SectionNested
  <1>17. CASE Resume
    <2>1. /\ tc.mode # "none" /\ ~tc.recovering
          /\ back = "exec" => st.op \in Ops
          /\ back = "savepoint" => st.name \in Names /\ ~Marked(tc, st.name)
          /\ back = "commit" => st.kind \in {"commit", "ddl"}
      BY <1>17 DEF Resume, AccountInv, SectionInv, StatementInv, InSavepoint, ReadWritePCs, NameInv,
         KindInv
    <2> QED BY <1>17, <2>1, ResumeSteps, SectionNested
  <1>18. CASE UNCHANGED vars
    <2>1. Kept(S, S')
      BY <1>18, StayKept DEF vars
    <2> QED BY <1>1, <2>1
  <1> QED BY <1>4, <1>5, <1>6, <1>7, <1>8, <1>9, <1>10, <1>11, <1>12, <1>13, <1>14, <1>15,
             <1>16, <1>17, <1>18 DEF Next, Statement

\* The savepoint owner implements a nested transaction: through batching,
\* replay after ABORTED, recovery and retraction, what is executed, marked,
\* gone back to and committed is what NestedTransaction allows.
THEOREM ImplementsNested == Spec => NestedSpec
PROOF
  <1>1. Init => Nested!Init
    <2>1. DOMAIN <<>> = {} /\ Batches(<<>>) = <<>>
      BY DEF Batches
    <2> QED BY <2>1 DEF Init, Nested!Init, Nested!Idle, NoOwner, Work, Queue, Snapshots, InTxn
  <1>2. AccountInv /\ ServerInv /\ NumberedInv /\ NameInv /\ [Next]_vars
        => [Nested!Next]_(Nested!vars)
    BY StepNested DEF NumberedInv
  <1> QED BY <1>1, <1>2, AccountsInvariant, ServerInvariant, NumberedInvariant, NameInvariant, PTL
          DEF Spec, NestedSpec, Nested!Spec

============================================================================
