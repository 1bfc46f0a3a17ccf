--------------------------- MODULE HeartbeatProofs ---------------------------
(***************************************************************************)
(* Safety of the keepalive, for every set of owners and of goroutines and  *)
(* every bound on the attempts.                                            *)
(*                                                                         *)
(* The heart of the invariant is a predicate of a pair (an owner, the      *)
(* goroutines), because that is what Stop, Enable, Publish and the others  *)
(* map: one lemma for each of them says that it keeps the predicate, and   *)
(* every action is a composition of them.                                  *)
(***************************************************************************)
EXTENDS Heartbeat, TLAPS

Runs(s, b) == s.beat[b].stage # "off" /\ ~s.beat[b].cancelled

\* The handle of the owner is the goroutine that runs for its attempt.
Held(s) ==
    s.tc.cancel # Nil =>
        /\ Runs(s, s.tc.cancel)
        /\ s.beat[s.tc.cancel].owner = s.tc.id
        /\ s.beat[s.tc.cancel].attempt = s.tc.attempt
        /\ s.tc.sendHeartbeat /\ s.tc.live

OwnerShape(o) ==
    /\ o.sendHeartbeat => o.mode = "rw" /\ ~o.keepAliveDisabled
    /\ o.mode = "none" <=> o.id = Nil
    /\ o.live => o.mode = "rw" /\ o.attempt > 0
    /\ o.mode # "rw" => o.attempt = 0

Good(s) ==
    /\ s.tc \in OwnerType /\ s.beat \in [Beats -> BeatType]
    /\ \A b \in Beats : Runs(s, b) => s.tc.cancel = b
    /\ Held(s)
    /\ OwnerShape(s.tc)

\* A pair whose owner holds no goroutine: none runs.
Quiet(s) == Good(s) /\ s.tc.cancel = Nil

\* An owner without a handle belongs to a pair in which nothing runs.
LEMMA QuietShape ==
    ASSUME NEW o \in OwnerType, NEW bs \in [Beats -> BeatType],
           o.cancel = Nil, OwnerShape(o), \A b \in Beats : ~Runs(State(o, bs), b)
    PROVE  Quiet(State(o, bs))
BY DEF Quiet, Good, Held, State

\* Cancelling the handle leaves nothing that runs.
LEMMA StopQuiet ==
    ASSUME NEW s, Good(s)
    PROVE  /\ Quiet(Stop(s))
           /\ Stop(s).tc = [s.tc EXCEPT !.cancel = Nil]
<1>1. CASE s.tc.cancel = Nil
    <2>1. Stop(s) = s
        BY <1>1 DEF Stop
    <2>2. s.tc = [s.tc EXCEPT !.cancel = Nil]
        BY <1>1 DEF Good, OwnerType
    <2> QED BY <1>1, <2>1, <2>2 DEF Quiet
<1>2. CASE s.tc.cancel # Nil
    <2> DEFINE o == [s.tc EXCEPT !.cancel = Nil]
               bs == [s.beat EXCEPT ![s.tc.cancel].cancelled = TRUE]
    <2>1. Stop(s) = State(o, bs)
        BY <1>2 DEF Stop
    <2>2. s.tc \in OwnerType /\ s.beat \in [Beats -> BeatType] /\ s.tc.cancel \in Beats
        BY <1>2 DEF Good, OwnerType
    <2>3. o \in OwnerType
        BY <2>2 DEF OwnerType
    <2>4. bs \in [Beats -> BeatType]
        BY <2>2 DEF BeatType
    <2>5. o.cancel = Nil /\ OwnerShape(o)
        BY <2>2 DEF Good, OwnerShape, OwnerType
    <2>6. ASSUME NEW b \in Beats PROVE ~Runs(State(o, bs), b)
        BY <2>2 DEF Good, Runs, State
    <2>7. Quiet(State(o, bs))
        BY <2>3, <2>4, <2>5, <2>6, QuietShape
    <2>8. State(o, bs).tc = o
        BY DEF State
    <2> QED BY <2>1, <2>7, <2>8
<1> QED BY <1>1, <1>2

\* Discarding an attempt stops its goroutine.
LEMMA DiscardQuiet ==
    ASSUME NEW s, Good(s)
    PROVE  /\ Quiet(DiscardPhysical(s))
           /\ DiscardPhysical(s).tc = [s.tc EXCEPT !.cancel = Nil, !.live = FALSE]
<1> DEFINE q == Stop(s)
           o == [q.tc EXCEPT !.live = FALSE]
<1>1. Quiet(q) /\ q.tc = [s.tc EXCEPT !.cancel = Nil]
    BY StopQuiet
<1>2. DiscardPhysical(s) = State(o, q.beat)
    BY DEF DiscardPhysical
<1>3. q.tc \in OwnerType /\ q.beat \in [Beats -> BeatType] /\ q.tc.cancel = Nil
    BY <1>1 DEF Quiet, Good
<1>4. o \in OwnerType
    <2>1. FALSE \in BOOLEAN
        OBVIOUS
    <2> QED BY <1>3, <2>1 DEF OwnerType
<1>5. o.cancel = Nil /\ OwnerShape(o)
    BY <1>1, <1>3 DEF Quiet, Good, OwnerShape, OwnerType
<1>6. \A b \in Beats : ~Runs(State(o, q.beat), b)
    BY <1>1, NilAssumption DEF Quiet, Good, Runs, State
<1>7. Quiet(State(o, q.beat))
    BY <1>3, <1>4, <1>5, <1>6, QuietShape
<1>8. State(o, q.beat).tc = [s.tc EXCEPT !.cancel = Nil, !.live = FALSE]
    BY <1>1 DEF State
<1> HIDE DEF q, o
<1> QED BY <1>2, <1>7, <1>8

\* A retired owner leaves no goroutine.
LEMMA RetiredQuiet ==
    ASSUME NEW s, Good(s)
    PROVE  Quiet(Retired(s)) /\ Retired(s).tc = NoOwner
<1> DEFINE q == Stop(s)
<1>1. Quiet(q)
    BY StopQuiet
<1>2. NoOwner \in OwnerType
    BY AttemptAssumption DEF NoOwner, OwnerType
<1>3. NoOwner.cancel = Nil /\ OwnerShape(NoOwner)
    BY DEF NoOwner, OwnerShape
<1>4. q.beat \in [Beats -> BeatType] /\ \A b \in Beats : ~Runs(State(NoOwner, q.beat), b)
    BY <1>1, NilAssumption DEF Quiet, Good, Runs, State
<1>5. Quiet(State(NoOwner, q.beat))
    BY <1>2, <1>3, <1>4, QuietShape
<1>6. Retired(s) = State(NoOwner, q.beat) /\ State(NoOwner, q.beat).tc = NoOwner
    BY DEF Retired, State
<1> HIDE DEF q
<1> QED BY <1>5, <1>6

\* A new attempt of a read-write owner, before its keepalive.
LEMMA PublishQuiet ==
    ASSUME NEW s, Quiet(s), s.tc.mode = "rw", s.tc.attempt < MaxAttempt
    PROVE  /\ Quiet(Publish(s))
           /\ Publish(s).tc = [s.tc EXCEPT !.live = TRUE, !.attempt = s.tc.attempt + 1]
<1> DEFINE o == [s.tc EXCEPT !.live = TRUE, !.attempt = s.tc.attempt + 1]
<1>1. Publish(s) = State(o, s.beat)
    BY DEF Publish
<1>2. s.tc \in OwnerType /\ s.beat \in [Beats -> BeatType] /\ s.tc.cancel = Nil
    BY DEF Quiet, Good
<1>3. s.tc.attempt + 1 \in 0..MaxAttempt
    BY <1>2, AttemptAssumption DEF OwnerType
<1>4. TRUE \in BOOLEAN
    OBVIOUS
<1>5. o \in OwnerType
    BY <1>2, <1>3, <1>4 DEF OwnerType
<1>6. o.cancel = Nil /\ OwnerShape(o)
    BY <1>2, <1>3 DEF Quiet, Good, OwnerShape, OwnerType
<1>7. \A b \in Beats : ~Runs(State(o, s.beat), b)
    BY NilAssumption DEF Quiet, Good, Runs, State
<1>8. Quiet(State(o, s.beat))
    BY <1>2, <1>5, <1>6, <1>7, QuietShape
<1>9. State(o, s.beat).tc = o
    BY DEF State
<1> QED BY <1>1, <1>8, <1>9

\* An enabled keepalive has its goroutine; nothing else of the owner changes.
LEMMA EnableGood ==
    ASSUME NEW s, Good(s), s.tc.live, NEW h \in Beats, s.beat[h].stage = "off"
    PROVE  LET e == Enable(s, h) IN
           /\ Good(e)
           /\ e.tc.sendHeartbeat => e.tc.cancel # Nil
           /\ \A f \in {"id", "mode", "attempt"} : e.tc[f] = s.tc[f]
           /\ e.tc.live = s.tc.live /\ e.tc.expirePending = s.tc.expirePending
           /\ e.tc.asked = s.tc.asked
<1>0. s.tc \in OwnerType /\ s.beat \in [Beats -> BeatType] /\ OwnerShape(s.tc) /\ s.tc.id # Nil
    BY DEF Good, OwnerShape
<1>1. CASE s.tc.mode # "rw" \/ s.tc.keepAliveDisabled
    BY <1>0, <1>1 DEF Enable, OwnerShape
<1>2. CASE s.tc.mode = "rw" /\ ~s.tc.keepAliveDisabled /\ s.tc.cancel # Nil
    <2>1. s.tc.sendHeartbeat
        BY <1>2 DEF Good, Held
    <2> DEFINE o == [s.tc EXCEPT !.sendHeartbeat = TRUE]
    <2>2. o = s.tc
        BY <1>0, <2>1 DEF OwnerType
    <2>3. Enable(s, h) = State(s.tc, s.beat)
        BY <1>2, <2>2 DEF Enable
    <2>4. Good(State(s.tc, s.beat))
        BY DEF Good, Held, Runs, State
    <2>5. State(s.tc, s.beat).tc = s.tc
        BY DEF State
    <2> QED BY <1>2, <2>3, <2>4, <2>5
<1>3. CASE s.tc.mode = "rw" /\ ~s.tc.keepAliveDisabled /\ s.tc.cancel = Nil
    <2> DEFINE o == [s.tc EXCEPT !.sendHeartbeat = TRUE, !.cancel = h]
               g == [stage |-> "select", owner |-> s.tc.id,
                     attempt |-> s.tc.attempt, cancelled |-> FALSE]
               bs == [s.beat EXCEPT ![h] = g]
    <2>1. Enable(s, h) = State(o, bs)
        BY <1>3 DEF Enable
    <2>2. TRUE \in BOOLEAN /\ FALSE \in BOOLEAN
        OBVIOUS
    <2>3. o \in OwnerType
        BY <1>0, <2>2 DEF OwnerType
    <2>4. g \in BeatType
        BY <1>0, <2>2 DEF OwnerType, BeatType
    <2>5. bs \in [Beats -> BeatType]
        BY <1>0, <2>4
    <2>6. o.cancel = h /\ o.id = s.tc.id /\ o.attempt = s.tc.attempt /\ o.sendHeartbeat
          /\ o.live = s.tc.live /\ o.mode = s.tc.mode /\ o.expirePending = s.tc.expirePending
          /\ o.keepAliveDisabled = s.tc.keepAliveDisabled /\ o.asked = s.tc.asked
        BY <1>0 DEF OwnerType
    <2>7. bs[h] = g /\ \A b \in Beats \ {h} : bs[b] = s.beat[b]
        BY <1>0
    <2> HIDE DEF o, bs
    <2>8. \A b \in Beats : Runs(State(o, bs), b) => o.cancel = b
        BY <1>3, <2>6, <2>7, NilAssumption DEF Good, Runs, State
    <2>9. Held(State(o, bs))
        <3>1. State(o, bs).tc = o /\ State(o, bs).beat = bs
            BY DEF State
        <3>2. bs[h].stage # "off" /\ ~bs[h].cancelled
            BY <2>7
        <3>3. bs[h].owner = o.id /\ bs[h].attempt = o.attempt
            BY <2>6, <2>7
        <3>4. o.sendHeartbeat /\ o.live
            BY <2>6
        <3>5. Runs(State(o, bs), h)
            BY <3>1, <3>2 DEF Runs
        <3> HIDE DEF g
        <3> QED BY <2>6, <3>1, <3>3, <3>4, <3>5 DEF Held
    <2>10. OwnerShape(o)
        BY <1>0, <1>3, <2>6 DEF OwnerShape
    <2>11. Good(State(o, bs))
        BY <2>3, <2>5, <2>8, <2>9, <2>10 DEF Good, State
    <2>12. State(o, bs).tc = o
        BY DEF State
    <2>13. o.cancel # Nil
        BY <2>6, NilAssumption
    <2> QED BY <2>1, <2>6, <2>11, <2>12, <2>13
<1> QED BY <1>1, <1>2, <1>3

----------------------------------------------------------------------------
(* The invariant.                                                          *)

QueryMatches == queried \in [by: Attempts, on: Attempts] /\ queried.by = queried.on

\* A backoff has its next attempt, and no keepalive yet.
BackoffShape ==
    /\ pc = "backoff" => Physical /\ tc.cancel = Nil
    /\ pc = "implicitBackoff" => Physical /\ ~tc.sendHeartbeat

CoveredIsHeld == Covered => tc.cancel # Nil

IInv ==
    /\ pc \in {"prompt", "body", "backoff", "implicitBackoff"}
    /\ keepAlive \in BOOLEAN
    /\ QueryMatches
    /\ Good(Now)
    /\ BackoffShape
    /\ CoveredIsHeld

\* A step that becomes a good pair has a good pair and queries nothing.
LEMMA BecomeGood ==
    ASSUME NEW s, Good(s), Become(s)
    PROVE  Good(Now') /\ QueryMatches'
<1>1. tc' = s.tc /\ beat' = s.beat /\ queried' = NoQuery
    BY DEF Become
<1>2. Good(Now')
    BY <1>1 DEF Good, Held, Runs, Now, State
<1>3. QueryMatches'
    BY <1>1 DEF QueryMatches, NoQuery, Attempts
<1> QED BY <1>2, <1>3

\* The initial state satisfies the invariant.
LEMMA InitInvariant == Init => IInv
<1> SUFFICES ASSUME Init PROVE IInv
    OBVIOUS
<1>1. NoOwner \in OwnerType /\ NoOwner.cancel = Nil /\ OwnerShape(NoOwner)
    BY AttemptAssumption DEF NoOwner, OwnerType, OwnerShape
<1>2. Off \in BeatType
    BY AttemptAssumption DEF Off, BeatType
<1>3. beat \in [Beats -> BeatType] /\ \A b \in Beats : ~Runs(State(NoOwner, beat), b)
    BY <1>2 DEF Init, Runs, State, Off
<1>4. Quiet(State(NoOwner, beat))
    BY <1>1, <1>3, QuietShape
<1>5. Good(Now)
    BY <1>4 DEF Quiet, Now, Init
<1>6. QueryMatches
    BY DEF Init, QueryMatches, NoQuery, Attempts
<1>7. BackoffShape /\ CoveredIsHeld
    BY DEF Init, BackoffShape, CoveredIsHeld, Covered, Physical, NoOwner
<1>8. pc \in {"prompt", "body", "backoff", "implicitBackoff"} /\ keepAlive \in BOOLEAN
    BY DEF Init
<1> QED BY <1>5, <1>6, <1>7, <1>8 DEF IInv

\* A new owner without an attempt, and the attempt it is activated with.
LEMMA OwnerBegins ==
    ASSUME IInv, NEW p \in Owners, NEW m \in {"none", "pending"}, ~InTxn
    PROVE  LET o == [NoOwner EXCEPT !.id = p, !.mode = m, !.asked = keepAlive] IN
           /\ o \in OwnerType /\ o.cancel = Nil /\ o.attempt = 0 /\ ~o.expirePending
           /\ \A b \in Beats : ~Runs(Now, b)
           /\ ~o.live /\ ~o.sendHeartbeat /\ o.id = p /\ o.mode = m
<1> DEFINE o == [NoOwner EXCEPT !.id = p, !.mode = m, !.asked = keepAlive]
<1>1. o \in OwnerType
    <2>1. NoOwner \in OwnerType
        BY AttemptAssumption DEF NoOwner, OwnerType
    <2>2. keepAlive \in BOOLEAN
        BY DEF IInv
    <2> QED BY <2>1, <2>2 DEF OwnerType
<1>2. o.cancel = Nil /\ o.attempt = 0 /\ ~o.expirePending /\ ~o.live /\ ~o.sendHeartbeat
      /\ o.id = p /\ o.mode = m
    BY DEF NoOwner
<1>3. Good(Now) /\ tc.id = Nil
    BY DEF IInv, InTxn
<1>4. Now.tc = tc
    BY DEF Now, State
<1>5. tc.mode = "none"
    BY <1>3, <1>4 DEF Good, OwnerShape
<1>6. ~tc.sendHeartbeat
    BY <1>3, <1>4, <1>5 DEF Good, OwnerShape
<1>7. tc.cancel = Nil
    BY <1>3, <1>4, <1>6 DEF Good, Held
<1>8. \A b \in Beats : ~Runs(Now, b)
    BY <1>3, <1>4, <1>7, NilAssumption DEF Good
<1> QED BY <1>1, <1>2, <1>8

\* activateTransactionLocked: the first attempt of an owner, without keepalive.
LEMMA ActivatedQuiet ==
    ASSUME IInv, NEW o \in OwnerType, o.cancel = Nil, o.attempt = 0, o.id # Nil,
           \A b \in Beats : ~Runs(Now, b)
    PROVE  /\ Quiet(Activated(o))
           /\ Activated(o).tc.mode = "rw" /\ Activated(o).tc.live
           /\ ~Activated(o).tc.sendHeartbeat /\ Activated(o).tc.attempt = 1
<1> DEFINE r == [o EXCEPT !.mode = "rw", !.sendHeartbeat = FALSE]
           s == Publish(State(r, beat))
           a == [s.tc EXCEPT !.keepAliveDisabled = ~keepAlive]
<1>1. s = State([r EXCEPT !.live = TRUE, !.attempt = r.attempt + 1], beat)
    <2> HIDE DEF r
    <2> QED BY DEF Publish, State
<1>2. Activated(o) = State(a, s.beat)
    BY DEF Activated
<1>3. TRUE \in BOOLEAN /\ FALSE \in BOOLEAN /\ (~keepAlive) \in BOOLEAN
    BY DEF IInv
<1>4. 1 \in 0..MaxAttempt
    BY AttemptAssumption
<1>5. r \in OwnerType /\ r.attempt = 0
    BY <1>3 DEF OwnerType
<1>6. s.tc = [r EXCEPT !.live = TRUE, !.attempt = 1] /\ s.beat = beat
    <2> HIDE DEF r, s
    <2>1. r.attempt + 1 = 1
        BY <1>5
    <2> QED BY <1>1, <2>1 DEF State
<1>7. s.tc \in OwnerType
    BY <1>3, <1>4, <1>5, <1>6 DEF OwnerType
<1>8. a \in OwnerType
    BY <1>3, <1>7 DEF OwnerType
<1>9. s.tc.id = o.id /\ s.tc.mode = "rw" /\ s.tc.live /\ ~s.tc.sendHeartbeat
      /\ s.tc.attempt = 1 /\ s.tc.cancel = Nil
    BY <1>5, <1>6 DEF OwnerType
<1> HIDE DEF r, s
<1>10. a.id = o.id /\ a.mode = "rw" /\ a.live /\ ~a.sendHeartbeat /\ a.attempt = 1
       /\ a.cancel = Nil
    BY <1>7, <1>9 DEF OwnerType
<1> HIDE DEF a
<1>11. OwnerShape(a)
    BY <1>10 DEF OwnerShape
<1>12. beat \in [Beats -> BeatType]
    BY DEF IInv, Good, Now, State
<1>13. \A b \in Beats : ~Runs(State(a, beat), b)
    BY DEF Runs, State, Now
<1>14. Quiet(State(a, beat))
    BY <1>8, <1>10, <1>11, <1>12, <1>13, QuietShape
<1>15. State(a, beat).tc = a
    BY DEF State
<1> QED BY <1>2, <1>6, <1>10, <1>14, <1>15

\* A marked owner keeps its attempt and loses its goroutine.
LEMMA MarkQuiet ==
    ASSUME NEW s, Good(s)
    PROVE  LET m == State([Stop(s).tc EXCEPT !.expirePending = TRUE], Stop(s).beat) IN
           /\ Quiet(m) /\ m.tc.expirePending
           /\ m.tc.mode = s.tc.mode /\ m.tc.live = s.tc.live
           /\ m.tc.sendHeartbeat = s.tc.sendHeartbeat
<1> DEFINE q == Stop(s)
           o == [q.tc EXCEPT !.expirePending = TRUE]
<1>1. Quiet(q) /\ q.tc = [s.tc EXCEPT !.cancel = Nil]
    BY StopQuiet
<1>2. s.tc \in OwnerType /\ q.tc \in OwnerType /\ q.beat \in [Beats -> BeatType]
      /\ q.tc.cancel = Nil /\ OwnerShape(q.tc)
    BY <1>1 DEF Quiet, Good
<1>3. q.tc.mode = s.tc.mode /\ q.tc.live = s.tc.live /\ q.tc.sendHeartbeat = s.tc.sendHeartbeat
    BY <1>1, <1>2 DEF OwnerType
<1>4. \A b \in Beats : ~Runs(q, b)
    BY <1>1, NilAssumption DEF Quiet, Good
<1> HIDE DEF q
<1>5. TRUE \in BOOLEAN
    OBVIOUS
<1>6. o \in OwnerType
    BY <1>2, <1>5 DEF OwnerType
<1>7. o.cancel = Nil /\ o.expirePending /\ o.mode = q.tc.mode /\ o.live = q.tc.live
      /\ o.sendHeartbeat = q.tc.sendHeartbeat /\ o.id = q.tc.id /\ o.attempt = q.tc.attempt
      /\ o.keepAliveDisabled = q.tc.keepAliveDisabled
    BY <1>2 DEF OwnerType
<1> HIDE DEF o
<1>8. OwnerShape(o)
    BY <1>2, <1>7 DEF OwnerShape
<1>9. \A b \in Beats : ~Runs(State(o, q.beat), b)
    BY <1>4 DEF Runs, State
<1>10. Quiet(State(o, q.beat))
    BY <1>2, <1>6, <1>7, <1>8, <1>9, QuietShape
<1>11. State(o, q.beat).tc = o
    BY DEF State
<1> USE DEF q, o
<1> QED BY <1>3, <1>7, <1>10, <1>11

\* What is left to show of a step that becomes the pair s.
LEMMA BecomeInvariant ==
    ASSUME NEW s, Good(s), Become(s),
           pc' \in {"prompt", "body", "backoff", "implicitBackoff"},
           keepAlive' \in BOOLEAN,
           pc' = "backoff" => s.tc.mode = "rw" /\ s.tc.live /\ s.tc.cancel = Nil,
           pc' = "implicitBackoff" => s.tc.mode = "rw" /\ s.tc.live /\ ~s.tc.sendHeartbeat,
           s.tc.live /\ s.tc.sendHeartbeat /\ ~s.tc.expirePending /\ pc' # "backoff"
                => s.tc.cancel # Nil
    PROVE  IInv'
<1>1. tc' = s.tc
    BY DEF Become
<1>2. Good(Now') /\ QueryMatches'
    BY BecomeGood
<1>3. BackoffShape'
    BY <1>1 DEF BackoffShape, Physical
<1>4. CoveredIsHeld'
    BY <1>1 DEF CoveredIsHeld, Covered, Physical
<1> QED BY <1>2, <1>3, <1>4 DEF IInv

\* The pair as it is.
LEMMA NowGood ==
    ASSUME IInv
    PROVE  /\ Good(Now) /\ Now.tc = tc /\ Now.beat = beat
           /\ pc = "body" =>
                (tc.live /\ tc.sendHeartbeat /\ ~tc.expirePending => tc.cancel # Nil)
<1>1. Good(Now) /\ Now.tc = tc /\ Now.beat = beat
    BY DEF IInv, Now, State
<1>2. tc.live => tc.mode = "rw"
    BY <1>1 DEF Good, OwnerShape
<1> QED BY <1>1, <1>2 DEF IInv, CoveredIsHeld, Covered, Physical

\* A step to a pair without a physical transaction, or that keeps it covered,
\* inside a statement or at its end.
LEMMA Settles ==
    ASSUME IInv, NEW s, Good(s), Become(s), pc' \in {"prompt", "body"},
           keepAlive' \in BOOLEAN,
           s.tc.live /\ s.tc.sendHeartbeat /\ ~s.tc.expirePending => s.tc.cancel # Nil
    PROVE  IInv'
BY BecomeInvariant

\* Retirement settles, wherever it happens.
LEMMA RetiredSettles ==
    ASSUME IInv, NEW s, Good(s), Become(Retired(s)), pc' \in {"prompt", "body"},
           keepAlive' \in BOOLEAN
    PROVE  IInv'
<1>1. Good(Retired(s)) /\ ~Retired(s).tc.live
    BY RetiredQuiet DEF Quiet, NoOwner
<1> QED BY <1>1, Settles

\* Discarding the attempt settles.
LEMMA DiscardSettles ==
    ASSUME IInv, NEW s, Good(s), Become(DiscardPhysical(s)), pc' = "body",
           keepAlive' \in BOOLEAN
    PROVE  IInv'
<1>1. Good(DiscardPhysical(s)) /\ DiscardPhysical(s).tc = [s.tc EXCEPT !.cancel = Nil, !.live = FALSE]
    BY DiscardQuiet DEF Quiet
<1>2. ~DiscardPhysical(s).tc.live
    BY <1>1 DEF Good, OwnerType
<1> QED BY <1>1, <1>2, Settles

\* The next attempt of an owner, not yet kept alive.
LEMMA NextAttempt ==
    ASSUME NEW s, Good(s), s.tc.mode = "rw", s.tc.attempt < MaxAttempt
    PROVE  LET n == Publish(DiscardPhysical(s)) IN
           /\ Quiet(n) /\ n.tc.mode = "rw" /\ n.tc.live
           /\ n.tc.sendHeartbeat = s.tc.sendHeartbeat
<1> DEFINE d == DiscardPhysical(s)
<1>1. Quiet(d) /\ d.tc = [s.tc EXCEPT !.cancel = Nil, !.live = FALSE]
    BY DiscardQuiet
<1>2. s.tc \in OwnerType
    BY DEF Good
<1>3. d.tc.mode = "rw" /\ d.tc.attempt = s.tc.attempt
      /\ d.tc.sendHeartbeat = s.tc.sendHeartbeat
    BY <1>1, <1>2 DEF OwnerType
<1>4. d.tc \in OwnerType
    BY <1>1 DEF Quiet, Good
<1> HIDE DEF d
<1>5. Quiet(Publish(d))
      /\ Publish(d).tc = [d.tc EXCEPT !.live = TRUE, !.attempt = d.tc.attempt + 1]
    BY <1>1, <1>3, PublishQuiet
<1>6. Publish(d).tc.mode = "rw" /\ Publish(d).tc.live
      /\ Publish(d).tc.sendHeartbeat = d.tc.sendHeartbeat
    BY <1>3, <1>4, <1>5 DEF OwnerType
<1> USE DEF d
<1> QED BY <1>3, <1>5, <1>6

\* Its keepalive restarts where the owner had one.
LEMMA EnableAgainGood ==
    ASSUME NEW s, Good(s), s.tc.live, NEW h \in Beats, s.beat[h].stage = "off"
    PROVE  /\ Good(EnableAgain(s, h))
           /\ EnableAgain(s, h).tc.sendHeartbeat => EnableAgain(s, h).tc.cancel # Nil
BY EnableGood DEF EnableAgain

\* Replacing an attempt ends no goroutine by itself, it only cancels one.
LEMMA StageStays ==
    ASSUME NEW s, Good(s), NEW h \in Beats, s.beat[h].stage = "off"
    PROVE  Publish(DiscardPhysical(s)).beat[h].stage = "off"
<1>1. Publish(DiscardPhysical(s)).beat = Stop(s).beat
    BY DEF Publish, DiscardPhysical, State
<1>2. s.beat \in [Beats -> BeatType] /\ s.tc \in OwnerType
    BY DEF Good
<1>3. CASE s.tc.cancel = Nil
    BY <1>1, <1>3 DEF Stop
<1>4. CASE s.tc.cancel # Nil
    <2>1. Stop(s).beat = [s.beat EXCEPT ![s.tc.cancel].cancelled = TRUE]
        BY <1>4 DEF Stop, State
    <2>2. s.beat[h] \in BeatType
        BY <1>2
    <2>3. CASE h = s.tc.cancel
        <3>1. Stop(s).beat[h] = [s.beat[h] EXCEPT !.cancelled = TRUE]
            BY <1>2, <2>1, <2>3
        <3> QED BY <1>1, <2>2, <3>1 DEF BeatType
    <2>4. CASE h # s.tc.cancel
        BY <1>1, <1>2, <2>1, <2>4
    <2> QED BY <2>3, <2>4
<1> QED BY <1>3, <1>4

----------------------------------------------------------------------------
(* One lemma per group of actions.                                         *)

\* The frame of a statement, SET KEEP_TRANSACTION_ALIVE, and every retirement
\* of the CLI goroutine.
LEMMA FrameStep ==
    ASSUME IInv, Enter \/ Leave \/ Sync \/ SetKeepAlive \/ EndTransaction
    PROVE  IInv'
<1>0. Good(Now) /\ Now.tc = tc /\ keepAlive \in BOOLEAN
    BY NowGood DEF IInv
<1>1. CASE Enter
    <2>1. pc = "prompt"
        BY <1>1 DEF Enter
    <2>2. tc.live => tc.mode = "rw"
        BY <1>0 DEF Good, OwnerShape
    <2>3. tc.live /\ tc.sendHeartbeat /\ ~tc.expirePending => tc.cancel # Nil
        BY <2>1, <2>2 DEF IInv, CoveredIsHeld, Covered, Physical
    <2> QED BY <1>0, <1>1, <2>3, Settles DEF Enter
<1>2. CASE Leave
    <2>1. CASE tc.expirePending
        BY <1>0, <1>2, <2>1, RetiredSettles DEF Leave
    <2>2. CASE ~tc.expirePending
        BY <1>0, <1>2, <2>2, NowGood, Settles DEF Leave
    <2> QED BY <2>1, <2>2
<1>3. CASE Sync
    BY <1>0, <1>3, RetiredSettles DEF Sync
<1>4. CASE SetKeepAlive
    BY <1>0, <1>4, NowGood, Settles DEF SetKeepAlive
<1>5. CASE EndTransaction
    BY <1>0, <1>5, RetiredSettles DEF EndTransaction
<1> QED BY <1>1, <1>2, <1>3, <1>4, <1>5

\* BEGIN, and DML outside a transaction.
LEMMA BeginStep ==
    ASSUME IInv, BeginPending \/ BeginReadWrite \/ ImplicitDML
    PROVE  IInv'
<1>0. Good(Now) /\ Now.tc = tc /\ keepAlive \in BOOLEAN /\ beat \in [Beats -> BeatType]
    BY NowGood DEF IInv, Good
<1>1. CASE BeginPending
    <2>1. PICK p \in Fresh :
            Become(State([NoOwner EXCEPT !.id = p, !.mode = "pending", !.asked = keepAlive], beat))
        BY <1>1 DEF BeginPending
    <2> DEFINE o == [NoOwner EXCEPT !.id = p, !.mode = "pending", !.asked = keepAlive]
    <2>2. p \in Owners /\ ~InTxn /\ pc = "body"
        BY <1>1 DEF Fresh, BeginPending
    <2>3. o \in OwnerType /\ o.cancel = Nil /\ o.attempt = 0 /\ ~o.live /\ ~o.sendHeartbeat
          /\ o.id = p /\ o.mode = "pending" /\ \A b \in Beats : ~Runs(Now, b)
        BY <2>2, OwnerBegins
    <2> HIDE DEF o
    <2>4. OwnerShape(o)
        BY <2>2, <2>3, NilAssumption DEF OwnerShape
    <2>5. \A b \in Beats : ~Runs(State(o, beat), b)
        BY <2>3 DEF Runs, State, Now
    <2>6. Good(State(o, beat))
        BY <1>0, <2>3, <2>4, <2>5, QuietShape DEF Quiet
    <2>7. State(o, beat).tc = o
        BY DEF State
    <2>8. Become(State(o, beat))
        BY <2>1 DEF o
    <2> QED BY <1>0, <1>1, <2>3, <2>6, <2>7, <2>8, Settles DEF BeginPending
<1>2. ASSUME NEW p \in Fresh, ~InTxn
      PROVE  /\ Quiet(Activated(New(p))) /\ Activated(New(p)).tc.mode = "rw"
             /\ Activated(New(p)).tc.live /\ ~Activated(New(p)).tc.sendHeartbeat
             /\ Activated(New(p)).tc.attempt = 1
    <2>1. p \in Owners
        BY DEF Fresh
    <2>2. New(p) = [NoOwner EXCEPT !.id = p, !.mode = "none", !.asked = keepAlive]
        <3>1. NoOwner \in OwnerType
            BY AttemptAssumption DEF NoOwner, OwnerType
        <3>2. NoOwner.mode = "none"
            BY DEF NoOwner
        <3> QED BY <3>1, <3>2 DEF New, OwnerType
    <2>3. New(p) \in OwnerType /\ New(p).cancel = Nil /\ New(p).attempt = 0 /\ New(p).id = p
          /\ \A b \in Beats : ~Runs(Now, b)
        <3> DEFINE o == [NoOwner EXCEPT !.id = p, !.mode = "none", !.asked = keepAlive]
        <3>1. o \in OwnerType /\ o.cancel = Nil /\ o.attempt = 0 /\ o.id = p
              /\ \A b \in Beats : ~Runs(Now, b)
            BY <1>2, <2>1, OwnerBegins
        <3> HIDE DEF o
        <3>2. New(p) = o
            BY <2>2 DEF o
        <3> QED BY <3>1, <3>2
    <2> QED BY <2>1, <2>3, ActivatedQuiet, NilAssumption
<1>3. CASE BeginReadWrite
    <2>1. CASE tc.mode = "pending" /\ Become(Activated(tc))
        <3>1. tc \in OwnerType /\ OwnerShape(tc) /\ tc.attempt = 0 /\ tc.id # Nil
            BY <1>0, <2>1 DEF Good, OwnerShape
        <3>2. tc.cancel = Nil
            BY <1>0, <2>1 DEF Good, Held, OwnerShape
        <3>3. \A b \in Beats : ~Runs(Now, b)
            BY <1>0, <3>2, NilAssumption DEF Good
        <3>4. Quiet(Activated(tc)) /\ ~Activated(tc).tc.sendHeartbeat
            BY <3>1, <3>2, <3>3, ActivatedQuiet
        <3> QED BY <1>0, <1>3, <2>1, <3>4, Settles DEF BeginReadWrite, Quiet
    <2>2. CASE ~InTxn /\ \E p \in Fresh : Become(Activated(New(p)))
        BY <1>0, <1>2, <1>3, <2>2, Settles DEF BeginReadWrite, Quiet
    <2>3. CASE Become(Now)
        BY <1>0, <1>3, <2>3, NowGood, Settles DEF BeginReadWrite
    <2> QED BY <1>3, <2>1, <2>2, <2>3 DEF BeginReadWrite
<1>4. CASE ImplicitDML
    <2>1. PICK p \in Fresh : Become(Publish(DiscardPhysical(Activated(New(p)))))
        BY <1>4 DEF ImplicitDML
    <2>2. ~InTxn /\ 1 < MaxAttempt
        BY <1>4 DEF ImplicitDML
    <2> DEFINE n == Publish(DiscardPhysical(Activated(New(p))))
    <2>3. Quiet(n) /\ n.tc.mode = "rw" /\ n.tc.live /\ ~n.tc.sendHeartbeat
        BY <1>2, <2>2, NextAttempt DEF Quiet
    <2> HIDE DEF n
    <2>4. Become(n)
        BY <2>1 DEF n
    <2> QED BY <1>0, <1>4, <2>3, <2>4, BecomeInvariant DEF ImplicitDML, Quiet
<1> QED BY <1>1, <1>3, <1>4

\* User SQL starts the keepalive.
LEMMA EnabledNow ==
    ASSUME IInv, Physical, NEW h \in Idle
    PROVE  LET e == Enable(Now, h) IN
           /\ Good(e)
           /\ e.tc.sendHeartbeat => e.tc.cancel # Nil
           /\ e.tc.mode = "rw" /\ e.tc.attempt = tc.attempt
<1>1. Good(Now) /\ Now.tc = tc /\ Now.beat = beat
    BY NowGood
<1>2. h \in Beats /\ Now.beat[h].stage = "off" /\ Now.tc.live /\ Now.tc.mode = "rw"
    BY <1>1 DEF Idle, Physical
<1>3. \A f \in {"id", "mode", "attempt"} : Enable(Now, h).tc[f] = Now.tc[f]
    BY <1>1, <1>2, EnableGood
<1>4. Enable(Now, h).tc.mode = Now.tc.mode /\ Enable(Now, h).tc.attempt = Now.tc.attempt
    BY <1>3
<1> QED BY <1>1, <1>2, <1>4, EnableGood

LEMMA UserSQLStep == ASSUME IInv, UserSQL PROVE IInv'
<1>1. PICK h \in Idle : LET s == Enable(Now, h) IN
          Become(s) \/ Become(Retired(s)) \/ Become(DiscardPhysical(s))
    BY DEF UserSQL
<1>2. pc = "body" /\ pc' = "body" /\ keepAlive' \in BOOLEAN /\ Physical
    BY DEF UserSQL, IInv
<1>3. Good(Enable(Now, h))
      /\ (Enable(Now, h).tc.sendHeartbeat => Enable(Now, h).tc.cancel # Nil)
    BY <1>2, EnabledNow
<1>4. CASE Become(Enable(Now, h))
    BY <1>2, <1>3, <1>4, Settles
<1>5. CASE Become(Retired(Enable(Now, h)))
    BY <1>2, <1>3, <1>5, RetiredSettles
<1>6. CASE Become(DiscardPhysical(Enable(Now, h)))
    BY <1>2, <1>3, <1>6, DiscardSettles
<1> QED BY <1>1, <1>4, <1>5, <1>6

\* ABORTED and its backoff, and ROLLBACK TO: the attempt is replaced.
LEMMA AbortStep == ASSUME IInv, Aborted PROVE IInv'
<1>0. Good(Now) /\ Now.tc = tc /\ Physical /\ pc = "body" /\ keepAlive' \in BOOLEAN
    BY NowGood DEF Aborted, IInv
<1>1. PICK h \in Idle : \E s \in {Now, Enable(Now, h)} :
        IF tc.expirePending
        THEN Become(Retired(s)) /\ UNCHANGED pc
        ELSE \/ Become(Retired(DiscardPhysical(s))) /\ UNCHANGED pc
             \/ /\ tc.attempt < MaxAttempt
                /\ Become(Publish(DiscardPhysical(s)))
                /\ pc' = "backoff"
    BY DEF Aborted
<1>2. PICK s \in {Now, Enable(Now, h)} :
        IF tc.expirePending
        THEN Become(Retired(s)) /\ UNCHANGED pc
        ELSE \/ Become(Retired(DiscardPhysical(s))) /\ UNCHANGED pc
             \/ /\ tc.attempt < MaxAttempt
                /\ Become(Publish(DiscardPhysical(s)))
                /\ pc' = "backoff"
    BY <1>1
<1>3. Good(s) /\ s.tc.mode = "rw" /\ s.tc.attempt = tc.attempt
    BY <1>0, EnabledNow DEF Physical
<1>4. CASE Become(Retired(s)) /\ UNCHANGED pc
    BY <1>0, <1>3, <1>4, RetiredSettles
<1>5. CASE Become(Retired(DiscardPhysical(s))) /\ UNCHANGED pc
    BY <1>0, <1>3, <1>5, DiscardQuiet, RetiredSettles DEF Quiet
<1>6. CASE tc.attempt < MaxAttempt /\ Become(Publish(DiscardPhysical(s))) /\ pc' = "backoff"
    <2> DEFINE n == Publish(DiscardPhysical(s))
    <2>1. Quiet(n) /\ n.tc.mode = "rw" /\ n.tc.live
        BY <1>3, <1>6, NextAttempt
    <2> HIDE DEF n
    <2>2. Become(n)
        BY <1>6 DEF n
    <2> QED BY <1>0, <1>6, <2>1, <2>2, BecomeInvariant DEF Quiet
<1> QED BY <1>2, <1>4, <1>5, <1>6

LEMMA ResumeStep == ASSUME IInv, Resume PROVE IInv'
<1>0. Good(Now) /\ Now.tc = tc /\ Now.beat = beat /\ Physical /\ pc = "backoff"
      /\ keepAlive' \in BOOLEAN
    BY NowGood DEF Resume, IInv, BackoffShape
<1>1. PICK h \in Idle :
        \/ Become(Retired(Now)) /\ pc' = "body"
        \/ Become(EnableAgain(Now, h)) /\ pc' = "body"
        \/ tc.attempt < MaxAttempt /\ Become(Publish(DiscardPhysical(Now))) /\ UNCHANGED pc
    BY DEF Resume
<1>2. CASE Become(Retired(Now)) /\ pc' = "body"
    BY <1>0, <1>2, RetiredSettles
<1>3. CASE Become(EnableAgain(Now, h)) /\ pc' = "body"
    <2>1. h \in Beats /\ Now.beat[h].stage = "off" /\ Now.tc.live
        BY <1>0 DEF Idle, Physical
    <2>2. Good(EnableAgain(Now, h))
          /\ (EnableAgain(Now, h).tc.sendHeartbeat => EnableAgain(Now, h).tc.cancel # Nil)
        BY <1>0, <2>1, EnableAgainGood
    <2> QED BY <1>0, <1>3, <2>2, Settles
<1>4. CASE tc.attempt < MaxAttempt /\ Become(Publish(DiscardPhysical(Now))) /\ UNCHANGED pc
    <2> DEFINE n == Publish(DiscardPhysical(Now))
    <2>1. Quiet(n) /\ n.tc.mode = "rw" /\ n.tc.live
        BY <1>0, <1>4, NextAttempt DEF Physical
    <2> HIDE DEF n
    <2>2. Become(n)
        BY <1>4 DEF n
    <2> QED BY <1>0, <1>4, <2>1, <2>2, BecomeInvariant DEF Quiet
<1> QED BY <1>1, <1>2, <1>3, <1>4

LEMMA RollbackToStep == ASSUME IInv, RollbackTo PROVE IInv'
<1>0. Good(Now) /\ Now.tc = tc /\ Now.beat = beat /\ tc.mode = "rw"
      /\ tc.attempt < MaxAttempt /\ pc' = "body" /\ keepAlive' \in BOOLEAN
    BY NowGood DEF RollbackTo, IInv
<1>1. PICK h \in Idle :
        \/ Become(EnableAgain(Publish(DiscardPhysical(Now)), h))
        \/ Become(Retired(Now))
    BY DEF RollbackTo
<1>2. CASE Become(EnableAgain(Publish(DiscardPhysical(Now)), h))
    <2> DEFINE n == Publish(DiscardPhysical(Now))
    <2>1. h \in Beats /\ Now.beat[h].stage = "off"
        BY <1>0 DEF Idle
    <2>2. Good(n) /\ n.tc.live
        BY <1>0, NextAttempt DEF Quiet
    <2>3. n.beat[h].stage = "off"
        BY <1>0, <2>1, StageStays
    <2> HIDE DEF n
    <2>4. Good(EnableAgain(n, h))
          /\ (EnableAgain(n, h).tc.sendHeartbeat => EnableAgain(n, h).tc.cancel # Nil)
        BY <2>1, <2>2, <2>3, EnableAgainGood
    <2>5. Become(EnableAgain(n, h))
        BY <1>2 DEF n
    <2> QED BY <1>0, <2>4, <2>5, Settles
<1>3. CASE Become(Retired(Now))
    BY <1>0, <1>3, RetiredSettles
<1> QED BY <1>1, <1>2, <1>3

\* The backoff of an implicit transaction, which has no keepalive.
LEMMA ResumeImplicitStep == ASSUME IInv, ResumeImplicit PROVE IInv'
<1>0. Good(Now) /\ Now.tc = tc /\ Physical /\ ~tc.sendHeartbeat
      /\ pc = "implicitBackoff" /\ keepAlive' \in BOOLEAN
    BY NowGood DEF ResumeImplicit, IInv, BackoffShape
<1>1. CASE Become(Retired(Now)) /\ pc' = "body"
    BY <1>0, <1>1, RetiredSettles
<1>2. CASE tc.attempt < MaxAttempt /\ Become(Publish(DiscardPhysical(Now))) /\ UNCHANGED pc
    <2> DEFINE n == Publish(DiscardPhysical(Now))
    <2>1. Quiet(n) /\ n.tc.mode = "rw" /\ n.tc.live /\ ~n.tc.sendHeartbeat
        BY <1>0, <1>2, NextAttempt DEF Physical
    <2> HIDE DEF n
    <2>2. Become(n)
        BY <1>2 DEF n
    <2> QED BY <1>0, <1>2, <2>1, <2>2, BecomeInvariant DEF Quiet
<1> QED BY <1>1, <1>2 DEF ResumeImplicit

\* A watcher retires the owner at the prompt and marks it inside a statement.
LEMMA ExpireStep == ASSUME IInv, Expire PROVE IInv'
<1>0. Good(Now) /\ Now.tc = tc /\ keepAlive' \in BOOLEAN /\ pc' = pc
    BY NowGood DEF Expire, IInv
<1>1. CASE pc = "prompt"
    BY <1>0, <1>1, RetiredSettles DEF Expire
<1>2. CASE pc # "prompt"
    <2> DEFINE m == State([Stop(Now).tc EXCEPT !.expirePending = TRUE], Stop(Now).beat)
    <2>1. Quiet(m) /\ m.tc.expirePending /\ m.tc.mode = tc.mode /\ m.tc.live = tc.live
          /\ m.tc.sendHeartbeat = tc.sendHeartbeat
        BY <1>0, MarkQuiet
    <2>2. Become(m)
        BY <1>2 DEF Expire
    <2> HIDE DEF m
    <2>3. pc' = "backoff" => m.tc.mode = "rw" /\ m.tc.live /\ m.tc.cancel = Nil
        BY <1>0, <2>1 DEF IInv, BackoffShape, Physical, Quiet
    <2>4. pc' = "implicitBackoff" => m.tc.mode = "rw" /\ m.tc.live /\ ~m.tc.sendHeartbeat
        BY <1>0, <2>1 DEF IInv, BackoffShape, Physical
    <2>5. pc' \in {"prompt", "body", "backoff", "implicitBackoff"}
        BY <1>0 DEF IInv
    <2> QED BY <1>0, <2>1, <2>2, <2>3, <2>4, <2>5, BecomeInvariant DEF Quiet
<1> QED BY <1>1, <1>2

----------------------------------------------------------------------------
(* The goroutines.                                                         *)

\* A goroutine that runs moves to another stage.
LEMMA StageMoves ==
    ASSUME IInv, NEW b \in Beats, beat[b].stage # "off", NEW g \in {"select", "acquire"},
           beat' = [beat EXCEPT ![b].stage = g], tc' = tc, pc' = pc,
           keepAlive' = keepAlive, QueryMatches'
    PROVE  IInv'
<1>0. Good(Now) /\ Now.tc = tc /\ Now.beat = beat
    BY NowGood
<1>1. beat \in [Beats -> BeatType] /\ tc \in OwnerType
    BY <1>0 DEF Good
<1>2. beat' \in [Beats -> BeatType]
    BY <1>1 DEF BeatType
<1>3. \A c \in Beats : /\ beat'[c].owner = beat[c].owner
                       /\ beat'[c].attempt = beat[c].attempt
                       /\ beat'[c].cancelled = beat[c].cancelled
                       /\ beat'[c].stage = "off" <=> beat[c].stage = "off"
    <2> TAKE c \in Beats
    <2>1. CASE c = b
        <3>1. beat'[b] = [beat[b] EXCEPT !.stage = g] /\ beat[b] \in BeatType
            BY <1>1
        <3>2. beat'[b].stage = g /\ beat'[b].owner = beat[b].owner
              /\ beat'[b].attempt = beat[b].attempt /\ beat'[b].cancelled = beat[b].cancelled
            BY <3>1 DEF BeatType
        <3> QED BY <2>1, <3>2
    <2>2. CASE c # b
        BY <1>1, <2>2
    <2> QED BY <2>1, <2>2
<1>4. \A c \in Beats : Runs(Now', c) <=> Runs(Now, c)
    BY <1>3 DEF Runs, Now, State
<1>5. tc.cancel # Nil => tc.cancel \in Beats
    BY <1>1 DEF OwnerType
<1>6. Now'.tc = tc /\ Now'.beat = beat'
    BY DEF Now, State
<1>7. Held(Now')
    BY <1>0, <1>3, <1>4, <1>5, <1>6 DEF Held, Good
<1>8. Good(Now')
    BY <1>0, <1>1, <1>2, <1>4, <1>6, <1>7 DEF Good
<1> QED BY <1>8 DEF IInv, BackoffShape, CoveredIsHeld, Covered, Physical

\* A goroutine whose handle nobody holds ends.
LEMMA GoroutineEnds ==
    ASSUME IInv, NEW b \in Beats, tc.cancel # b,
           beat' = [beat EXCEPT ![b] = Off], tc' = tc, pc' = pc,
           keepAlive' = keepAlive, QueryMatches'
    PROVE  IInv'
<1>0. Good(Now) /\ Now.tc = tc /\ Now.beat = beat
    BY NowGood
<1>1. beat \in [Beats -> BeatType] /\ tc \in OwnerType
    BY <1>0 DEF Good
<1>2. Off \in BeatType /\ Off.stage = "off"
    BY AttemptAssumption DEF Off, BeatType
<1>3. beat' \in [Beats -> BeatType] /\ beat'[b] = Off
      /\ \A c \in Beats \ {b} : beat'[c] = beat[c]
    BY <1>1, <1>2
<1>4. Now'.tc = tc /\ Now'.beat = beat'
    BY DEF Now, State
<1>5. \A c \in Beats : Runs(Now', c) => c # b /\ Runs(Now, c)
    BY <1>0, <1>2, <1>3, <1>4 DEF Runs
<1>6. tc.cancel # Nil => tc.cancel \in Beats \ {b}
    BY <1>1 DEF OwnerType
<1>7. Held(Now')
    <2> SUFFICES ASSUME tc.cancel # Nil PROVE Held(Now')
        BY <1>4 DEF Held
    <2>1. beat'[tc.cancel] = beat[tc.cancel]
        BY <1>3, <1>6
    <2> QED BY <1>0, <1>4, <2>1 DEF Held, Good, Runs
<1>8. Good(Now')
    BY <1>0, <1>1, <1>3, <1>4, <1>5, <1>7 DEF Good
<1> QED BY <1>8 DEF IInv, BackoffShape, CoveredIsHeld, Covered, Physical

\* The goroutine of the current attempt passes the check of its tick.
LEMMA HeldIsCurrent ==
    ASSUME IInv, NEW b \in Beats, tc.cancel = b
    PROVE  Physical /\ Current(b) /\ InTxn
<1>0. Good(Now) /\ Now.tc = tc /\ Now.beat = beat
    BY NowGood
<1>1. Runs(Now, b) /\ beat[b].owner = tc.id /\ beat[b].attempt = tc.attempt
      /\ tc.sendHeartbeat /\ tc.live
    BY <1>0, NilAssumption DEF Good, Held
<1>2. tc.mode = "rw" /\ ~tc.keepAliveDisabled /\ tc.id # Nil
    BY <1>0, <1>1 DEF Good, OwnerShape
<1> QED BY <1>0, <1>1, <1>2 DEF Physical, Current, InTxn, Runs

LEMMA BeatStep ==
    ASSUME IInv, NEW b \in Beats, Tick(b) \/ Acquire(b) \/ Done(b)
    PROVE  IInv'
<1>0. Good(Now) /\ Now.tc = tc /\ Now.beat = beat /\ tc \in OwnerType
    BY NowGood DEF Good
<1>1. queried' = NoQuery => QueryMatches'
    BY DEF QueryMatches, NoQuery, Attempts
<1>2. CASE Tick(b)
    <2>1. CASE ~InTxn
        BY <1>1, <1>2, <2>1, HeldIsCurrent, GoroutineEnds DEF Tick
    <2>2. CASE InTxn /\ tc.mode = "rw" /\ tc.sendHeartbeat
        BY <1>1, <1>2, <2>2, StageMoves DEF Tick
    <2>3. CASE InTxn /\ ~(tc.mode = "rw" /\ tc.sendHeartbeat)
        <3>1. beat' = beat /\ tc' = tc /\ pc' = pc /\ keepAlive' = keepAlive /\ QueryMatches'
            BY <1>1, <1>2, <2>3 DEF Tick
        <3>2. Good(Now')
            BY <1>0, <3>1 DEF Good, Held, Runs, Now, State
        <3> QED BY <3>1, <3>2 DEF IInv, BackoffShape, CoveredIsHeld, Covered, Physical
    <2> QED BY <2>1, <2>2, <2>3
<1>3. CASE Acquire(b)
    <2>1. CASE Physical /\ Current(b)
        <3>1. tc.id \in Owners /\ tc.attempt \in 1..MaxAttempt
            BY <1>0, <2>1, AttemptAssumption DEF Physical, Good, OwnerShape, OwnerType
        <3>2. queried' = [by |-> <<beat[b].owner, beat[b].attempt>>, on |-> <<tc.id, tc.attempt>>]
            BY <1>3, <2>1 DEF Acquire
        <3>3. <<tc.id, tc.attempt>> \in Attempts
              /\ <<beat[b].owner, beat[b].attempt>> = <<tc.id, tc.attempt>>
            BY <2>1, <3>1 DEF Attempts, Current
        <3>4. QueryMatches'
            BY <3>2, <3>3 DEF QueryMatches, Attempts
        <3> QED BY <1>3, <2>1, <3>4, StageMoves DEF Acquire
    <2>2. CASE ~(Physical /\ Current(b))
        BY <1>1, <1>3, <2>2, HeldIsCurrent, GoroutineEnds DEF Acquire
    <2> QED BY <2>1, <2>2
<1>4. CASE Done(b)
    BY <1>1, <1>4, HeldIsCurrent, GoroutineEnds DEF Done, Current
<1> QED BY <1>2, <1>3, <1>4

LEMMA StutterStep == ASSUME IInv, UNCHANGED vars PROVE IInv'
<1>1. tc' = tc /\ beat' = beat /\ pc' = pc /\ keepAlive' = keepAlive /\ queried' = queried
    BY DEF vars
<1>2. Good(Now')
    BY <1>1 DEF IInv, Good, Held, Runs, Now, State
<1> QED BY <1>1, <1>2 DEF IInv, QueryMatches, BackoffShape, CoveredIsHeld, Covered, Physical

\* The invariant holds in every reachable state.
THEOREM Invariance == Spec => []IInv
<1>1. IInv /\ [Next]_vars => IInv'
    BY FrameStep, BeginStep, UserSQLStep, AbortStep, ResumeStep, RollbackToStep,
       ResumeImplicitStep, ExpireStep, BeatStep, StutterStep DEF Next
<1> QED
    BY InitInvariant, <1>1, PTL DEF Spec

----------------------------------------------------------------------------
(* The properties.                                                         *)

\* Every variable keeps its type.
THEOREM TypeCorrect == Spec => []TypeOK
<1>1. IInv => TypeOK
    BY DEF IInv, TypeOK, Good, Now, State, QueryMatches
<1> QED
    BY Invariance, <1>1, PTL

\* No path that replaces or retires an attempt leaks its goroutine.
THEOREM NoHeartbeatLeaks == Spec => []SoleHeartbeat
<1>1. IInv => SoleHeartbeat
    <2> SUFFICES ASSUME IInv, NEW b \in Beats, Running(b)
                 PROVE  /\ tc.cancel = b
                        /\ beat[b].owner = tc.id /\ beat[b].attempt = tc.attempt
                        /\ tc.sendHeartbeat /\ ~tc.keepAliveDisabled
        BY DEF SoleHeartbeat
    <2>1. Good(Now) /\ Now.tc = tc /\ Now.beat = beat
        BY NowGood
    <2>2. tc.cancel = b
        BY <2>1 DEF Good, Runs, Running
    <2>3. Current(b)
        BY <2>2, HeldIsCurrent
    <2>4. tc.sendHeartbeat
        BY <2>1, <2>2, NilAssumption DEF Good, Held
    <2> QED BY <2>2, <2>3, <2>4 DEF Current
<1> QED
    BY Invariance, <1>1, PTL

\* A transaction whose keepalive is owed has the goroutine that sends it.
THEOREM OwedKeepaliveRuns == Spec => []KeepaliveCovered
<1>1. IInv => KeepaliveCovered
    <2> SUFFICES ASSUME IInv, Covered PROVE \E b \in Beats : Running(b) /\ Current(b)
        BY DEF KeepaliveCovered
    <2>1. Good(Now) /\ Now.tc = tc /\ Now.beat = beat /\ tc \in OwnerType
        BY NowGood DEF Good
    <2>2. tc.cancel # Nil
        BY DEF IInv, CoveredIsHeld
    <2>3. tc.cancel \in Beats
        BY <2>1, <2>2 DEF OwnerType
    <2>4. Running(tc.cancel)
        BY <2>1, <2>2 DEF Good, Held, Runs, Running
    <2>5. Current(tc.cancel)
        BY <2>3, HeldIsCurrent
    <2> QED BY <2>3, <2>4, <2>5
<1> QED
    BY Invariance, <1>1, PTL

\* SELECT 1 is never issued on another attempt than the goroutine's own.
THEOREM HeartbeatKeepsToItsAttempt == Spec => []HeartbeatSparesReplacement
<1>1. IInv => HeartbeatSparesReplacement
    BY DEF IInv, QueryMatches, HeartbeatSparesReplacement
<1> QED
    BY Invariance, <1>1, PTL
=============================================================================
