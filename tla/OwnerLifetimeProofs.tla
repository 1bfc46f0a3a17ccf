------------------------ MODULE OwnerLifetimeProofs ------------------------
(***************************************************************************)
(* Theorems about OwnerLifetime, for every set of owner identities, every  *)
(* bound and both settings of AUTOCOMMIT and READONLY: its invariants, its *)
(* action properties, and that it implements LocalScope.                   *)
(***************************************************************************)
EXTENDS MCOwnerLifetime, TLAPS, WellFoundedInduction

----------------------------------------------------------------------------
(* The inductive invariant.                                                *)

\* Between statements: no ExecuteStatement frame is open.
AtRest ==
    \/ pc \in {"prompt", "enter", "unhold"}
    \/ pc = "restore" /\ ret \in {"prompt", "unhold"}

BarrierReturns == {"notice", "beginBody", "setVar"} \cup InstallPoints

\* The frame counters follow the program counter, one nested frame deep.
FrameInv ==
    /\ depth = 0 <=> AtRest
    /\ depth = 2 => stmt.kind = "dml"
    /\ hold = 0 <=> pc = "prompt" \/ (pc = "restore" /\ ret = "prompt")
    /\ pc = "sync" => ret \in BarrierReturns
    /\ pc = "restore" => ret \in BarrierReturns \cup {"leave", "unhold", "prompt"}

\* SET LOCAL's saved value lives between the setter and the push.
SavedInv ==
    /\ SetLocalKeepsOwner
    /\ pc \notin {"setLocalApply", "setLocalPush"} => saved = <<>>

\* An unread notice is only there before a statement works, or after.
NoticeInv ==
    notice => /\ \/ pc \in {"prompt", "enter", "entry", "notice", "unhold"}
                 \/ pc \in {"sync", "restore"} /\ ret \in {"notice", "unhold", "prompt"}
              /\ depth < 2

\* What is true of an owner o with the watchers in flight: a missing owner is
\* blank, the deadline's mark and its watcher imply a spent budget, and a
\* watcher of the current idle interval implies that it elapsed, or that work
\* done since is remembered and will start another.
GoodOwner(o) ==
    /\ o.id = Nil => o = NoOwner
    /\ o.expirePending => o.passed
    /\ \A p \in dlFired : o.id = p => o.passed
    /\ \A f \in idleFired :
          f.id = o.id =>
             /\ o.work /\ f.gen <= o.gen
             /\ f.gen = o.gen /\ o.idle > 0 => o.quiet \/ o.rearm
    /\ o.rearm => o.work
    /\ o.held => o.work /\ (o.quiet \/ o.rearm)
    /\ o.timer = "running" => o.work

\* The mark lasts as long as a statement, work to be timed as long as the hold.
ScopeInv ==
    /\ owner.expirePending => depth > 0
    /\ owner.rearm => hold > 0

IInv == TypeOK /\ FrameInv /\ SavedInv /\ NoticeInv /\ GoodOwner(owner) /\ ScopeInv

----------------------------------------------------------------------------
(* Types of the operators.                                                 *)

\* The least index at which a log names v: what Replay chooses exists.
LEMMA FirstEntryExists ==
    ASSUME NEW log \in Seq(LocalVar), NEW v,
           \E i \in DOMAIN log : log[i].name = v
    PROVE  \E i \in DOMAIN log : /\ log[i].name = v
                                 /\ \A j \in 1..(i - 1) : log[j].name # v
PROOF
  <1> DEFINE T == {i \in DOMAIN log : log[i].name = v}
             R == OpToRel(<, Nat)
  <1>1. IsWellFoundedOn(R, Nat)
    BY NatLessThanWellFounded
  <1>2. T \subseteq Nat /\ T # {}
    OBVIOUS
  <1>3. \E i \in T : \A j \in T : ~ (<<j, i>> \in R)
    BY <1>1, <1>2, WFMin
  <1>4. PICK i \in T : \A j \in T : ~ (<<j, i>> \in R)
    BY <1>3
  <1>5. \A j \in T : ~ (j < i)
    BY <1>2, <1>4 DEF OpToRel
  <1>6. \A j \in 1..(i - 1) : log[j].name # v
    BY <1>2, <1>5
  <1> QED BY <1>4, <1>6

LEMMA ReplayType ==
    ASSUME NEW vals \in [VarNames -> Durations], NEW log \in Seq(LocalVar)
    PROVE  Replay(vals, log) \in [VarNames -> Durations]
PROOF
  <1> SUFFICES ASSUME NEW v \in VarNames
               PROVE  Replay(vals, log)[v] \in Durations
    BY DEF Replay
  <1>1. CASE \E i \in DOMAIN log : log[i].name = v
    <2> DEFINE First(i) == log[i].name = v /\ \A j \in 1..(i - 1) : log[j].name # v
    <2>1. \E i \in DOMAIN log : First(i)
      BY <1>1, FirstEntryExists
    <2>2. (CHOOSE i \in DOMAIN log : First(i)) \in DOMAIN log
      BY <2>1
    <2>3. \A i \in DOMAIN log : log[i] \in LocalVar
      OBVIOUS
    <2>4. \A e \in LocalVar : e.old \in Durations
      BY DEF LocalVar
    <2>5. \A i \in DOMAIN log : log[i].old \in Durations
      BY <2>3, <2>4
    <2> QED BY <1>1, <2>2, <2>5 DEF Replay
  <1>2. CASE ~ \E i \in DOMAIN log : log[i].name = v
    BY <1>2 DEF Replay
  <1> QED BY <1>1, <1>2

\* With nothing to undo the registry holds the session's values.
LEMMA ReplayEmpty ==
    ASSUME NEW vals \in [VarNames -> Durations]
    PROVE  Replay(vals, <<>>) = vals
BY DEF Replay

LEMMA DropNameType ==
    ASSUME NEW log \in Seq(LocalVar), NEW v
    PROVE  DropName(log, v) \in Seq(LocalVar)
BY DEF DropName, LocalVar, Deleted, NoName, Durations

LEMMA NoOwnerType == NoOwner \in OwnerType
BY DEF OwnerType, NoOwner, TimerStates, OwnerModes, Durations

LEMMA NewOwnerType ==
    ASSUME NEW p \in Owners, NEW m \in OwnerModes,
           sysVars \in [VarNames -> Durations]
    PROVE  NewOwner(p, m) \in OwnerType
PROOF
  <1>1. sysVars["timeout"] \in Durations /\ sysVars["idle"] \in Durations
    BY DEF VarNames
  <1>2. \A x, y \in Durations :
           [NoOwner EXCEPT !.id = p, !.mode = m, !.timeout = x, !.idle = y] \in OwnerType
    BY NoOwnerType DEF OwnerType
  <1> QED BY <1>1, <1>2 DEF NewOwner

LEMMA ArmType ==
    ASSUME NEW o \in OwnerType
    PROVE  Arm(o) \in OwnerType
PROOF
  <1> DEFINE Armed(b) == [o EXCEPT !.firstUse = TRUE, !.armed = b]
  <1>1. \A b \in BOOLEAN : Armed(b) \in OwnerType
    BY DEF OwnerType
  <1>2. (o.armed \/ o.timeout > 0) \in BOOLEAN
    OBVIOUS
  <1>3. Arm(o) = o \/ Arm(o) = Armed(o.armed \/ o.timeout > 0)
    BY DEF Arm
  <1> QED BY <1>1, <1>2, <1>3

LEMMA NoteWorkType ==
    ASSUME NEW o \in OwnerType
    PROVE  NoteWork(o) \in OwnerType
PROOF
  <1> DEFINE Worked(b) == [o EXCEPT !.work = TRUE, !.held = FALSE, !.timer = "off",
                                    !.rearm = b, !.quiet = FALSE]
  <1>1. \A b \in BOOLEAN : Worked(b) \in OwnerType
    BY DEF OwnerType, TimerStates
  <1>2. (o.idle > 0) \in BOOLEAN
    OBVIOUS
  <1>3. NoteWork(o) = Worked(o.idle > 0)
    BY DEF NoteWork
  <1> QED BY <1>1, <1>2, <1>3

LEMMA RearmType ==
    ASSUME NEW o \in OwnerType
    PROVE  Rearm(o) \in OwnerType
PROOF
  <1> DEFINE Timed(n) == [o EXCEPT !.rearm = FALSE, !.held = FALSE, !.gen = n,
                                  !.timer = "running"]
  <1>1. \A n \in Nat : Timed(n) \in OwnerType
    BY DEF OwnerType, TimerStates
  <1>2. o.gen + 1 \in Nat
    BY DEF OwnerType
  <1> QED BY <1>1, <1>2 DEF Rearm

\* Each operator changes these fields, and only these, of an owner.
LEMMA ArmFields ==
    ASSUME NEW o \in OwnerType
    PROVE  LET a == Arm(o) IN
           /\ a.id = o.id /\ a.mode = o.mode /\ a.undo = o.undo /\ a.gen = o.gen
           /\ a.passed = o.passed /\ a.expirePending = o.expirePending
           /\ a.idle = o.idle /\ a.timeout = o.timeout /\ a.timer = o.timer
           /\ a.work = o.work /\ a.rearm = o.rearm /\ a.held = o.held /\ a.quiet = o.quiet
BY DEF OwnerType, Arm

LEMMA NoteWorkFields ==
    ASSUME NEW o \in OwnerType
    PROVE  LET a == NoteWork(o) IN
           /\ a.id = o.id /\ a.mode = o.mode /\ a.undo = o.undo /\ a.gen = o.gen
           /\ a.passed = o.passed /\ a.expirePending = o.expirePending
           /\ a.idle = o.idle /\ a.timeout = o.timeout /\ a.timer = "off"
           /\ a.work /\ (a.rearm <=> o.idle > 0) /\ ~a.held /\ ~a.quiet
BY DEF OwnerType, NoteWork

----------------------------------------------------------------------------
(* The operators keep an owner good.                                       *)

LEMMA NoOwnerFields ==
    /\ NoOwner.id = Nil /\ NoOwner.mode = "none" /\ NoOwner.undo = <<>>
    /\ NoOwner.timer = "off" /\ NoOwner.gen = 0
    /\ ~NoOwner.expirePending /\ ~NoOwner.passed
    /\ ~NoOwner.rearm /\ ~NoOwner.held /\ ~NoOwner.work
BY DEF NoOwner

LEMMA NoOwnerGood ==
    ASSUME TypeOK
    PROVE  GoodOwner(NoOwner)
BY NoOwnerFields, NilAssumption DEF GoodOwner, TypeOK, IdleFiring

LEMMA NewOwnerFields ==
    ASSUME NEW p \in Owners, NEW m \in OwnerModes
    PROVE  LET a == NewOwner(p, m) IN
           /\ a.id = p /\ a.mode = m /\ a.undo = <<>> /\ a.timer = "off" /\ a.gen = 0
           /\ a.timeout = sysVars["timeout"] /\ a.idle = sysVars["idle"]
           /\ ~a.expirePending /\ ~a.passed /\ ~a.rearm /\ ~a.held /\ ~a.work
BY DEF NewOwner, NoOwner

LEMMA NewOwnerGood ==
    ASSUME TypeOK, NEW p \in Fresh, NEW m \in OwnerModes
    PROVE  GoodOwner(NewOwner(p, m))
BY NewOwnerFields, NilAssumption DEF GoodOwner, Fresh

LEMMA ArmGood ==
    ASSUME NEW o \in OwnerType, GoodOwner(o), o.id # Nil
    PROVE  GoodOwner(Arm(o))
BY ArmFields DEF GoodOwner

LEMMA NoteWorkGood ==
    ASSUME TypeOK, NEW o \in OwnerType, GoodOwner(o), o.id # Nil
    PROVE  GoodOwner(NoteWork(o))
BY NoteWorkFields DEF GoodOwner

LEMMA ModeGood ==
    ASSUME NEW o \in OwnerType, GoodOwner(o), o.id # Nil, NEW m \in OwnerModes
    PROVE  LET a == [o EXCEPT !.mode = m] IN
           /\ a \in OwnerType /\ GoodOwner(a)
           /\ a.id = o.id /\ a.mode = m /\ a.undo = o.undo
           /\ a.timeout = o.timeout /\ a.idle = o.idle
           /\ a.expirePending = o.expirePending /\ a.passed = o.passed
BY DEF OwnerType, GoodOwner

\* Retirement leaves no owner and detaches a well-typed log.
LEMMA RetireFacts ==
    ASSUME IInv, Retire
    PROVE  /\ owner' = NoOwner /\ owner' \in OwnerType /\ GoodOwner(owner')
           /\ pend' \in Seq(LocalVar)
           /\ ~owner'.expirePending /\ ~owner'.rearm
PROOF
  <1>1. owner.undo \in Seq(LocalVar)
    BY DEF IInv, TypeOK, OwnerType
  <1> QED BY <1>1, NoOwnerFields, NoOwnerType, NoOwnerGood DEF IInv, TypeOK, Retire

LEMMA RestoreFacts ==
    ASSUME IInv, RestoreLocalVars
    PROVE  pend' \in Seq(LocalVar) /\ sysVars' \in [VarNames -> Durations]
PROOF
  <1>1. pend \in Seq(LocalVar) /\ sysVars \in [VarNames -> Durations]
    BY DEF IInv, TypeOK
  <1>2. <<>> \in Seq(LocalVar)
    OBVIOUS
  <1> QED BY <1>1, <1>2, ReplayType DEF RestoreLocalVars

LEMMA RearmGood ==
    ASSUME TypeOK, GoodOwner(owner), owner.rearm
    PROVE  LET a == Rearm(owner) IN
           /\ a \in OwnerType /\ GoodOwner(a)
           /\ a.id = owner.id /\ a.expirePending = owner.expirePending /\ ~a.rearm
PROOF
  <1>1. Rearm(owner) \in OwnerType
    BY RearmType DEF TypeOK
  <1>2. owner.id # Nil
    BY NoOwnerFields DEF GoodOwner
  <1>3. LET a == Rearm(owner) IN
        /\ a.id = owner.id /\ a.work = owner.work /\ a.gen = owner.gen + 1
        /\ a.expirePending = owner.expirePending /\ a.passed = owner.passed
        /\ a.idle = owner.idle /\ ~a.rearm /\ ~a.held
    BY DEF Rearm, TypeOK, OwnerType
  <1>4. owner.gen \in Nat /\ \A f \in idleFired : f.gen \in Nat
    BY DEF TypeOK, OwnerType, IdleFiring
  <1> QED BY <1>1, <1>2, <1>3, <1>4 DEF GoodOwner

\* The owner a begin works on: the current one, or a fresh one that has
\* captured the registry's durations.
LEMMA ActivatedFacts ==
    ASSUME IInv, NEW o \in {owner} \cup {NewOwner(p, "none") : p \in Fresh},
           Activated(o)
    PROVE  /\ o \in OwnerType /\ GoodOwner(o) /\ o.id # Nil
           /\ InTxn => o = owner
           /\ ~InTxn => /\ ~o.expirePending
                        /\ o.timeout = sysVars["timeout"] /\ o.idle = sysVars["idle"]
PROOF
  <1>1. CASE InTxn
    BY <1>1 DEF Activated, IInv, TypeOK, InTxn
  <1>2. CASE ~InTxn
    <2>1. PICK p \in Fresh : o = NewOwner(p, "none")
      BY <1>2 DEF Activated
    <2>2. p \in Owners /\ "none" \in OwnerModes /\ sysVars \in [VarNames -> Durations]
      BY DEF Fresh, OwnerModes, IInv, TypeOK
    <2> QED BY <1>2, <2>1, <2>2, NewOwnerType, NewOwnerGood, NewOwnerFields, NilAssumption
            DEF IInv
  <1> QED BY <1>1, <1>2

\* What a begin guarantees of the owner it leaves.
Begun ==
    /\ owner' \in OwnerType /\ GoodOwner(owner')
    /\ owner'.expirePending => owner.expirePending
    /\ InTxn => owner'.id = owner.id
    /\ ~InTxn /\ owner'.id # Nil => /\ owner'.timeout = sysVars["timeout"]
                                   /\ owner'.idle = sysVars["idle"]

LEMMA BeginReadWriteFacts ==
    ASSUME IInv, NEW ACTION A, NEW ACTION B, BeginReadWrite(A, B)
    PROVE  Begun /\ (A \/ B)
PROOF
  <1>1. PICK o \in {owner} \cup {NewOwner(p, "none") : p \in Fresh} :
           /\ Activated(o)
           /\ \/ /\ owner' = NoteWork([Arm(o) EXCEPT !.mode = "rw"])
                 /\ A
              \/ /\ owner' = IF InTxn THEN Arm(o) ELSE NoOwner
                 /\ B
    BY DEF BeginReadWrite
  <1>2. /\ o \in OwnerType /\ GoodOwner(o) /\ o.id # Nil
        /\ InTxn => o = owner
        /\ ~InTxn => /\ ~o.expirePending
                     /\ o.timeout = sysVars["timeout"] /\ o.idle = sysVars["idle"]
    BY <1>1, ActivatedFacts
  <1>3. /\ Arm(o) \in OwnerType /\ GoodOwner(Arm(o)) /\ Arm(o).id = o.id
        /\ Arm(o).expirePending = o.expirePending
        /\ Arm(o).timeout = o.timeout /\ Arm(o).idle = o.idle
    BY <1>2, ArmType, ArmGood, ArmFields
  <1>4. CASE owner' = NoteWork([Arm(o) EXCEPT !.mode = "rw"]) /\ A
    <2> DEFINE a == [Arm(o) EXCEPT !.mode = "rw"]
    <2>1. /\ a \in OwnerType /\ GoodOwner(a) /\ a.id = o.id
          /\ a.expirePending = o.expirePending
          /\ a.timeout = o.timeout /\ a.idle = o.idle
      BY <1>2, <1>3, ModeGood, "rw" \in OwnerModes DEF OwnerModes
    <2>2. /\ NoteWork(a) \in OwnerType /\ GoodOwner(NoteWork(a))
          /\ NoteWork(a).id = o.id /\ NoteWork(a).expirePending = o.expirePending
          /\ NoteWork(a).timeout = o.timeout /\ NoteWork(a).idle = o.idle
      BY <1>2, <2>1, NoteWorkType, NoteWorkGood, NoteWorkFields DEF IInv
    <2> QED BY <1>2, <1>4, <2>2 DEF Begun
  <1>5. CASE owner' = (IF InTxn THEN Arm(o) ELSE NoOwner) /\ B
    BY <1>2, <1>3, <1>5, NoOwnerType, NoOwnerGood, NoOwnerFields DEF Begun, IInv
  <1> QED BY <1>1, <1>4, <1>5

LEMMA BeginReadOnlyFacts ==
    ASSUME IInv, NEW ACTION A, NEW ACTION B, BeginReadOnly(A, B)
    PROVE  Begun /\ (A \/ B)
PROOF
  <1>1. CASE owner' = owner /\ B
    BY <1>1 DEF Begun, IInv, TypeOK, InTxn
  <1>2. CASE \E o \in {owner} \cup {NewOwner(p, "none") : p \in Fresh} :
                /\ Activated(o)
                /\ owner' = NoteWork([o EXCEPT !.mode = "ro"])
                /\ A
    <2>1. PICK o \in {owner} \cup {NewOwner(p, "none") : p \in Fresh} :
             Activated(o) /\ owner' = NoteWork([o EXCEPT !.mode = "ro"]) /\ A
      BY <1>2
    <2>2. /\ o \in OwnerType /\ GoodOwner(o) /\ o.id # Nil
          /\ InTxn => o = owner
          /\ ~InTxn => /\ ~o.expirePending
                       /\ o.timeout = sysVars["timeout"] /\ o.idle = sysVars["idle"]
      BY <2>1, ActivatedFacts
    <2> DEFINE a == [o EXCEPT !.mode = "ro"]
    <2>3. /\ a \in OwnerType /\ GoodOwner(a) /\ a.id = o.id
          /\ a.expirePending = o.expirePending
          /\ a.timeout = o.timeout /\ a.idle = o.idle
      BY <2>2, ModeGood, "ro" \in OwnerModes DEF OwnerModes
    <2>4. /\ NoteWork(a) \in OwnerType /\ GoodOwner(NoteWork(a))
          /\ NoteWork(a).id = o.id /\ NoteWork(a).expirePending = o.expirePending
          /\ NoteWork(a).timeout = o.timeout /\ NoteWork(a).idle = o.idle
      BY <2>2, <2>3, NoteWorkType, NoteWorkGood, NoteWorkFields DEF IInv
    <2> QED BY <2>1, <2>2, <2>4 DEF Begun
  <1> QED BY <1>1, <1>2 DEF BeginReadOnly

LEMMA DetermineFacts ==
    ASSUME IInv, NEW ACTION A, NEW ACTION B, DetermineTransaction(A, B)
    PROVE  Begun /\ (A \/ B)
PROOF
  <1>1. CASE owner.mode # "pending"
    BY <1>1 DEF DetermineTransaction, Begun, IInv, TypeOK, InTxn
  <1>2. CASE owner.mode = "pending" /\ ReadOnly
    BY <1>2, BeginReadOnlyFacts DEF DetermineTransaction
  <1>3. CASE owner.mode = "pending" /\ ~ReadOnly
    BY <1>3, BeginReadWriteFacts DEF DetermineTransaction
  <1> QED BY <1>1, <1>2, <1>3


\* An owner's undo log says nothing of its timers.
LEMMA UndoGood ==
    ASSUME NEW o \in OwnerType, GoodOwner(o), NEW log \in Seq(LocalVar)
    PROVE  LET a == [o EXCEPT !.undo = log] IN
           /\ a \in OwnerType
           /\ (o.id = Nil => log = o.undo) => GoodOwner(a)
           /\ a.id = o.id /\ a.expirePending = o.expirePending /\ a.rearm = o.rearm
PROOF
  <1> DEFINE a == [o EXCEPT !.undo = log]
  <1>1. a \in OwnerType
    BY DEF OwnerType
  <1>2. log = o.undo => a = o
    BY DEF OwnerType
  <1>3. o.id # Nil => GoodOwner(a)
    BY DEF OwnerType, GoodOwner
  <1>4. a.id = o.id /\ a.expirePending = o.expirePending /\ a.rearm = o.rearm
    BY DEF OwnerType
  <1> QED BY <1>1, <1>2, <1>3, <1>4

\* SET LOCAL changes a duration only while nothing depends on it.
LEMMA DurationGood ==
    ASSUME TypeOK, NEW o \in OwnerType, GoodOwner(o), o.id # Nil,
           NEW v \in VarNames, NEW d \in Durations,
           v = "idle" => ~o.work \/ o.idle = d
    PROVE  LET a == [o EXCEPT ![v] = d] IN
           /\ a \in OwnerType /\ GoodOwner(a)
           /\ a.id = o.id /\ a.expirePending = o.expirePending /\ a.rearm = o.rearm
PROOF
  <1>1. CASE v = "timeout"
    <2> DEFINE a == [o EXCEPT !.timeout = d]
    <2>1. a \in OwnerType /\ GoodOwner(a)
          /\ a.id = o.id /\ a.expirePending = o.expirePending /\ a.rearm = o.rearm
      BY DEF OwnerType, GoodOwner
    <2> QED BY <1>1, <2>1
  <1>2. CASE v = "idle"
    <2> DEFINE a == [o EXCEPT !.idle = d]
    <2>1. a \in OwnerType /\ GoodOwner(a)
          /\ a.id = o.id /\ a.expirePending = o.expirePending /\ a.rearm = o.rearm
      BY <1>2 DEF OwnerType, GoodOwner
    <2> QED BY <1>2, <2>1
  <1> QED BY <1>1, <1>2 DEF VarNames
----------------------------------------------------------------------------
(* Every action keeps the invariant: one lemma an action, one step a part. *)
(* Step <1>0, where there is one, says what the action does to the owner,  *)
(* and <1>a what it does to the rest.                                      *)

LEMMA SubmitStep ==
    ASSUME IInv, NEW s \in Statements, Submit(s)
    PROVE  IInv'
PROOF
  <1>1. TypeOK'
    BY DEF IInv, TypeOK, PCs, InstallPoints, Statement, Statements, FrameInv,
      AtRest, BarrierReturns, Submit, Goto
  <1>2. FrameInv'
    BY DEF IInv, TypeOK, FrameInv, AtRest, BarrierReturns, InstallPoints,
      Submit, Goto
  <1>3. SavedInv'
    BY DEF IInv, SavedInv, SetLocalKeepsOwner, InTxn, FrameInv, AtRest,
      BarrierReturns, InstallPoints, Submit, Goto
  <1>4. NoticeInv'
    BY DEF IInv, TypeOK, NoticeInv, FrameInv, AtRest, BarrierReturns,
      InstallPoints, Submit, Goto
  <1>5. GoodOwner(owner)'
    BY DEF IInv, GoodOwner, Submit, Goto
  <1>6. ScopeInv'
    BY DEF IInv, TypeOK, ScopeInv, FrameInv, AtRest, Submit, Goto
  <1> QED BY <1>1, <1>2, <1>3, <1>4, <1>5, <1>6 DEF IInv

LEMMA EnterStep ==
    ASSUME IInv, Enter
    PROVE  IInv'
PROOF
  <1>1. TypeOK'
    BY DEF IInv, TypeOK, PCs, InstallPoints, Statement, Statements, FrameInv,
      AtRest, BarrierReturns, Enter, Goto
  <1>2. FrameInv'
    BY DEF IInv, TypeOK, FrameInv, AtRest, BarrierReturns, InstallPoints,
      Enter, Goto
  <1>3. SavedInv'
    BY DEF IInv, SavedInv, SetLocalKeepsOwner, InTxn, FrameInv, AtRest,
      BarrierReturns, InstallPoints, Enter, Goto
  <1>4. NoticeInv'
    BY DEF IInv, TypeOK, NoticeInv, FrameInv, AtRest, BarrierReturns,
      InstallPoints, Enter, Goto
  <1>5. GoodOwner(owner)'
    BY DEF IInv, GoodOwner, Enter, Goto
  <1>6. ScopeInv'
    BY DEF IInv, TypeOK, ScopeInv, FrameInv, AtRest, Enter, Goto
  <1> QED BY <1>1, <1>2, <1>3, <1>4, <1>5, <1>6 DEF IInv

LEMMA EntryRestoreStep ==
    ASSUME IInv, EntryRestore
    PROVE  IInv'
PROOF
  <1>1. TypeOK'
    BY RestoreFacts DEF IInv, TypeOK, PCs, InstallPoints, Statement,
      Statements, FrameInv, AtRest, BarrierReturns, EntryRestore, Barrier
  <1>2. FrameInv'
    BY RestoreFacts DEF IInv, TypeOK, FrameInv, AtRest, BarrierReturns,
      InstallPoints, EntryRestore, Barrier
  <1>3. SavedInv'
    BY RestoreFacts DEF IInv, SavedInv, SetLocalKeepsOwner, InTxn, FrameInv,
      AtRest, BarrierReturns, InstallPoints, EntryRestore, Barrier
  <1>4. NoticeInv'
    BY RestoreFacts DEF IInv, TypeOK, NoticeInv, FrameInv, AtRest,
      BarrierReturns, InstallPoints, EntryRestore, Barrier
  <1>5. GoodOwner(owner)'
    BY RestoreFacts DEF IInv, GoodOwner, EntryRestore, Barrier
  <1>6. ScopeInv'
    BY RestoreFacts DEF IInv, TypeOK, ScopeInv, FrameInv, AtRest,
      EntryRestore, Barrier
  <1> QED BY <1>1, <1>2, <1>3, <1>4, <1>5, <1>6 DEF IInv

LEMMA SyncStep ==
    ASSUME IInv, Sync
    PROVE  IInv'
PROOF
  <1>1. TypeOK'
    BY RetireFacts, NilAssumption DEF IInv, TypeOK, PCs, InstallPoints,
      Statement, Statements, FrameInv, AtRest, BarrierReturns, Sync, Goto
  <1>2. FrameInv'
    BY RetireFacts, NilAssumption DEF IInv, TypeOK, FrameInv, AtRest,
      BarrierReturns, InstallPoints, Sync, Goto
  <1>3. SavedInv'
    BY RetireFacts, NilAssumption DEF IInv, SavedInv, SetLocalKeepsOwner,
      InTxn, FrameInv, AtRest, BarrierReturns, InstallPoints, Sync, Goto
  <1>4. NoticeInv'
    BY RetireFacts, NilAssumption DEF IInv, TypeOK, NoticeInv, FrameInv,
      AtRest, BarrierReturns, InstallPoints, Sync, Goto
  <1>5. GoodOwner(owner)'
    BY RetireFacts, NilAssumption DEF IInv, GoodOwner, Sync, Goto
  <1>6. ScopeInv'
    BY RetireFacts, NilAssumption DEF IInv, TypeOK, ScopeInv, FrameInv,
      AtRest, Sync, Goto
  <1> QED BY <1>1, <1>2, <1>3, <1>4, <1>5, <1>6 DEF IInv

LEMMA RestoreStep ==
    ASSUME IInv, Restore
    PROVE  IInv'
PROOF
  <1>1. TypeOK'
    BY RestoreFacts DEF IInv, TypeOK, PCs, InstallPoints, Statement,
      Statements, FrameInv, AtRest, BarrierReturns, Restore, Goto
  <1>2. FrameInv'
    BY RestoreFacts DEF IInv, TypeOK, FrameInv, AtRest, BarrierReturns,
      InstallPoints, Restore, Goto
  <1>3. SavedInv'
    BY RestoreFacts DEF IInv, SavedInv, SetLocalKeepsOwner, InTxn, FrameInv,
      AtRest, BarrierReturns, InstallPoints, Restore, Goto
  <1>4. NoticeInv'
    BY RestoreFacts DEF IInv, TypeOK, NoticeInv, FrameInv, AtRest,
      BarrierReturns, InstallPoints, Restore, Goto
  <1>5. GoodOwner(owner)'
    BY RestoreFacts DEF IInv, GoodOwner, Restore, Goto
  <1>6. ScopeInv'
    BY RestoreFacts DEF IInv, TypeOK, ScopeInv, FrameInv, AtRest, Restore,
      Goto
  <1> QED BY <1>1, <1>2, <1>3, <1>4, <1>5, <1>6 DEF IInv

LEMMA ConsumeNoticeStep ==
    ASSUME IInv, ConsumeNotice
    PROVE  IInv'
PROOF
  <1>1. TypeOK'
    BY DEF IInv, TypeOK, PCs, InstallPoints, Statement, Statements, FrameInv,
      AtRest, BarrierReturns, ConsumeNotice, Goto
  <1>2. FrameInv'
    BY DEF IInv, TypeOK, FrameInv, AtRest, BarrierReturns, InstallPoints,
      ConsumeNotice, Goto
  <1>3. SavedInv'
    BY DEF IInv, SavedInv, SetLocalKeepsOwner, InTxn, FrameInv, AtRest,
      BarrierReturns, InstallPoints, ConsumeNotice, Goto
  <1>4. NoticeInv'
    BY DEF IInv, TypeOK, NoticeInv, FrameInv, AtRest, BarrierReturns,
      InstallPoints, ConsumeNotice, Goto
  <1>5. GoodOwner(owner)'
    BY DEF IInv, GoodOwner, ConsumeNotice, Goto
  <1>6. ScopeInv'
    BY DEF IInv, TypeOK, ScopeInv, FrameInv, AtRest, ConsumeNotice, Goto
  <1> QED BY <1>1, <1>2, <1>3, <1>4, <1>5, <1>6 DEF IInv

LEMMA EnsureLazyOwnerStep ==
    ASSUME IInv, EnsureLazyOwner
    PROVE  IInv'
PROOF
  <1>1. TypeOK'
    BY DEF IInv, TypeOK, PCs, InstallPoints, Statement, Statements, FrameInv,
      AtRest, BarrierReturns, EnsureLazyOwner, Goto, Barrier
  <1>2. FrameInv'
    BY DEF IInv, TypeOK, FrameInv, AtRest, BarrierReturns, InstallPoints,
      EnsureLazyOwner, Goto, Barrier
  <1>3. SavedInv'
    BY DEF IInv, SavedInv, SetLocalKeepsOwner, InTxn, FrameInv, AtRest,
      BarrierReturns, InstallPoints, EnsureLazyOwner, Goto, Barrier
  <1>4. NoticeInv'
    BY DEF IInv, TypeOK, NoticeInv, FrameInv, AtRest, BarrierReturns,
      InstallPoints, EnsureLazyOwner, Goto, Barrier
  <1>5. GoodOwner(owner)'
    BY DEF IInv, GoodOwner, EnsureLazyOwner, Goto, Barrier
  <1>6. ScopeInv'
    BY DEF IInv, TypeOK, ScopeInv, FrameInv, AtRest, EnsureLazyOwner, Goto,
      Barrier
  <1> QED BY <1>1, <1>2, <1>3, <1>4, <1>5, <1>6 DEF IInv

LEMMA LeaveStep ==
    ASSUME IInv, Leave
    PROVE  IInv'
PROOF
  <1>1. TypeOK'
    BY RetireFacts, NilAssumption DEF IInv, TypeOK, PCs, InstallPoints,
      Statement, Statements, FrameInv, AtRest, BarrierReturns, Leave,
      Decremented
  <1>2. FrameInv'
    BY RetireFacts, NilAssumption DEF IInv, TypeOK, FrameInv, AtRest,
      BarrierReturns, InstallPoints, Leave, Decremented
  <1>3. SavedInv'
    BY RetireFacts, NilAssumption DEF IInv, SavedInv, SetLocalKeepsOwner,
      InTxn, FrameInv, AtRest, BarrierReturns, InstallPoints, Leave,
      Decremented
  <1>4. NoticeInv'
    BY RetireFacts, NilAssumption DEF IInv, TypeOK, NoticeInv, FrameInv,
      AtRest, BarrierReturns, InstallPoints, Leave, Decremented
  <1>5. GoodOwner(owner)'
    BY RetireFacts, NilAssumption DEF IInv, GoodOwner, Leave, Decremented
  <1>6. ScopeInv'
    BY RetireFacts, NilAssumption DEF IInv, TypeOK, ScopeInv, FrameInv,
      AtRest, Leave, Decremented
  <1> QED BY <1>1, <1>2, <1>3, <1>4, <1>5, <1>6 DEF IInv

LEMMA UnholdStep ==
    ASSUME IInv, Unhold
    PROVE  IInv'
PROOF
  <1>0. /\ owner' \in OwnerType /\ GoodOwner(owner') /\ pend' \in Seq(LocalVar)
        /\ (owner'.expirePending => owner.expirePending) /\ ~owner'.rearm
    <2>1. CASE owner.rearm /\ owner' = Rearm(owner) /\ UNCHANGED pend
      BY <2>1, RearmGood DEF IInv, TypeOK
    <2>2. CASE Retire
      BY <2>2, RetireFacts
    <2>3. CASE ~owner.rearm /\ UNCHANGED <<owner, pend>>
      BY <2>3 DEF IInv, TypeOK
    <2> QED BY <2>1, <2>2, <2>3 DEF Unhold
  <1>a. /\ pc = "unhold" /\ pc' = "restore" /\ ret' = "prompt"
        /\ hold = 1 /\ hold' = 0 /\ notice' \in BOOLEAN
        /\ stmt' = NoStatement /\ NoStatement \in Statement
        /\ UNCHANGED <<depth, sysVars, saved, dlFired, idleFired>>
    <2>1. hold = 1
      BY DEF Unhold, IInv, TypeOK, FrameInv
    <2>2. NoStatement \in Statement
      BY DEF NoStatement, Statement, Kinds, VarNames, Durations
    <2>3. notice' \in BOOLEAN
      BY DEF Unhold, IInv, TypeOK
    <2> QED BY <2>1, <2>2, <2>3 DEF Unhold, Decremented
  <1>1. TypeOK'
    BY <1>0, <1>a DEF IInv, TypeOK, PCs, InstallPoints, Statement, Statements,
      FrameInv, AtRest, BarrierReturns, InTxn
  <1>2. FrameInv'
    BY <1>0, <1>a DEF IInv, TypeOK, FrameInv, AtRest, BarrierReturns,
      InstallPoints, InTxn
  <1>3. SavedInv'
    BY <1>0, <1>a DEF IInv, SavedInv, SetLocalKeepsOwner, InTxn, FrameInv,
      AtRest, BarrierReturns, InstallPoints
  <1>4. NoticeInv'
    BY <1>0, <1>a DEF IInv, TypeOK, NoticeInv, FrameInv, AtRest,
      BarrierReturns, InstallPoints, InTxn
  <1>5. GoodOwner(owner)'
    BY <1>0, <1>a DEF IInv, GoodOwner, InTxn
  <1>6. ScopeInv'
    BY <1>0, <1>a DEF IInv, TypeOK, ScopeInv, FrameInv, AtRest, InTxn
  <1> QED BY <1>1, <1>2, <1>3, <1>4, <1>5, <1>6 DEF IInv

LEMMA DetermineStep ==
    ASSUME IInv, Determine
    PROVE  IInv'
PROOF
  <1>1. TypeOK'
    BY DetermineFacts DEF IInv, TypeOK, PCs, InstallPoints, Statement,
      Statements, FrameInv, AtRest, BarrierReturns, Determine, Goto, Exit,
      Begun
  <1>2. FrameInv'
    BY DetermineFacts DEF IInv, TypeOK, FrameInv, AtRest, BarrierReturns,
      InstallPoints, Determine, Goto, Exit, Begun
  <1>3. SavedInv'
    BY DetermineFacts DEF IInv, SavedInv, SetLocalKeepsOwner, InTxn, FrameInv,
      AtRest, BarrierReturns, InstallPoints, Determine, Goto, Exit, Begun
  <1>4. NoticeInv'
    BY DetermineFacts DEF IInv, TypeOK, NoticeInv, FrameInv, AtRest,
      BarrierReturns, InstallPoints, Determine, Goto, Exit, Begun
  <1>5. GoodOwner(owner)'
    BY DetermineFacts DEF IInv, GoodOwner, Determine, Goto, Exit, Begun
  <1>6. ScopeInv'
    BY DetermineFacts DEF IInv, TypeOK, ScopeInv, FrameInv, AtRest, Determine,
      Goto, Exit, Begun
  <1> QED BY <1>1, <1>2, <1>3, <1>4, <1>5, <1>6 DEF IInv

LEMMA InstallRetryStep ==
    ASSUME IInv, InstallRetry
    PROVE  IInv'
PROOF
  <1>1. TypeOK'
    BY DEF IInv, TypeOK, PCs, InstallPoints, Statement, Statements, FrameInv,
      AtRest, BarrierReturns, InstallRetry, Barrier, InstallBlocked
  <1>2. FrameInv'
    BY DEF IInv, TypeOK, FrameInv, AtRest, BarrierReturns, InstallPoints,
      InstallRetry, Barrier, InstallBlocked
  <1>3. SavedInv'
    BY DEF IInv, SavedInv, SetLocalKeepsOwner, InTxn, FrameInv, AtRest,
      BarrierReturns, InstallPoints, InstallRetry, Barrier, InstallBlocked
  <1>4. NoticeInv'
    BY DEF IInv, TypeOK, NoticeInv, FrameInv, AtRest, BarrierReturns,
      InstallPoints, InstallRetry, Barrier, InstallBlocked
  <1>5. GoodOwner(owner)'
    BY DEF IInv, GoodOwner, InstallRetry, Barrier, InstallBlocked
  <1>6. ScopeInv'
    BY DEF IInv, TypeOK, ScopeInv, FrameInv, AtRest, InstallRetry, Barrier,
      InstallBlocked
  <1> QED BY <1>1, <1>2, <1>3, <1>4, <1>5, <1>6 DEF IInv

LEMMA InstallPendingStep ==
    ASSUME IInv, InstallPending
    PROVE  IInv'
PROOF
  <1>0. /\ owner' \in OwnerType /\ GoodOwner(owner') /\ ~owner'.expirePending /\ ~owner'.rearm
    <2>1. PICK p \in Fresh : owner' = NewOwner(p, "pending")
      BY DEF InstallPending
    <2>2. p \in Owners /\ "pending" \in OwnerModes
      BY DEF Fresh, OwnerModes
    <2> QED BY <2>1, <2>2, NewOwnerType, NewOwnerGood, NewOwnerFields DEF IInv, TypeOK
  <1>1. TypeOK'
    BY <1>0 DEF IInv, TypeOK, PCs, InstallPoints, Statement, Statements,
      FrameInv, AtRest, BarrierReturns, InstallPending, Goto, Exit,
      InstallBlocked, InTxn
  <1>2. FrameInv'
    BY <1>0 DEF IInv, TypeOK, FrameInv, AtRest, BarrierReturns, InstallPoints,
      InstallPending, Goto, Exit, InstallBlocked, InTxn
  <1>3. SavedInv'
    BY <1>0 DEF IInv, SavedInv, SetLocalKeepsOwner, InTxn, FrameInv, AtRest,
      BarrierReturns, InstallPoints, InstallPending, Goto, Exit,
      InstallBlocked
  <1>4. NoticeInv'
    BY <1>0 DEF IInv, TypeOK, NoticeInv, FrameInv, AtRest, BarrierReturns,
      InstallPoints, InstallPending, Goto, Exit, InstallBlocked, InTxn
  <1>5. GoodOwner(owner)'
    BY <1>0 DEF IInv, GoodOwner, InstallPending, Goto, Exit, InstallBlocked,
      InTxn
  <1>6. ScopeInv'
    BY <1>0 DEF IInv, TypeOK, ScopeInv, FrameInv, AtRest, InstallPending,
      Goto, Exit, InstallBlocked, InTxn
  <1> QED BY <1>1, <1>2, <1>3, <1>4, <1>5, <1>6 DEF IInv

LEMMA InstallRWStep ==
    ASSUME IInv, InstallRW
    PROVE  IInv'
PROOF
  <1>1. TypeOK'
    BY BeginReadWriteFacts DEF IInv, TypeOK, PCs, InstallPoints, Statement,
      Statements, FrameInv, AtRest, BarrierReturns, InstallRW, Exit,
      InstallBlocked, Begun
  <1>2. FrameInv'
    BY BeginReadWriteFacts DEF IInv, TypeOK, FrameInv, AtRest, BarrierReturns,
      InstallPoints, InstallRW, Exit, InstallBlocked, Begun
  <1>3. SavedInv'
    BY BeginReadWriteFacts DEF IInv, SavedInv, SetLocalKeepsOwner, InTxn,
      FrameInv, AtRest, BarrierReturns, InstallPoints, InstallRW, Exit,
      InstallBlocked, Begun
  <1>4. NoticeInv'
    BY BeginReadWriteFacts DEF IInv, TypeOK, NoticeInv, FrameInv, AtRest,
      BarrierReturns, InstallPoints, InstallRW, Exit, InstallBlocked, Begun
  <1>5. GoodOwner(owner)'
    BY BeginReadWriteFacts DEF IInv, GoodOwner, InstallRW, Exit,
      InstallBlocked, Begun
  <1>6. ScopeInv'
    BY BeginReadWriteFacts DEF IInv, TypeOK, ScopeInv, FrameInv, AtRest,
      InstallRW, Exit, InstallBlocked, Begun
  <1> QED BY <1>1, <1>2, <1>3, <1>4, <1>5, <1>6 DEF IInv

LEMMA InstallROStep ==
    ASSUME IInv, InstallRO
    PROVE  IInv'
PROOF
  <1>1. TypeOK'
    BY BeginReadOnlyFacts DEF IInv, TypeOK, PCs, InstallPoints, Statement,
      Statements, FrameInv, AtRest, BarrierReturns, InstallRO, Exit,
      InstallBlocked, Begun
  <1>2. FrameInv'
    BY BeginReadOnlyFacts DEF IInv, TypeOK, FrameInv, AtRest, BarrierReturns,
      InstallPoints, InstallRO, Exit, InstallBlocked, Begun
  <1>3. SavedInv'
    BY BeginReadOnlyFacts DEF IInv, SavedInv, SetLocalKeepsOwner, InTxn,
      FrameInv, AtRest, BarrierReturns, InstallPoints, InstallRO, Exit,
      InstallBlocked, Begun
  <1>4. NoticeInv'
    BY BeginReadOnlyFacts DEF IInv, TypeOK, NoticeInv, FrameInv, AtRest,
      BarrierReturns, InstallPoints, InstallRO, Exit, InstallBlocked, Begun
  <1>5. GoodOwner(owner)'
    BY BeginReadOnlyFacts DEF IInv, GoodOwner, InstallRO, Exit,
      InstallBlocked, Begun
  <1>6. ScopeInv'
    BY BeginReadOnlyFacts DEF IInv, TypeOK, ScopeInv, FrameInv, AtRest,
      InstallRO, Exit, InstallBlocked, Begun
  <1> QED BY <1>1, <1>2, <1>3, <1>4, <1>5, <1>6 DEF IInv

LEMMA InstallDumpStep ==
    ASSUME IInv, InstallDump
    PROVE  IInv'
PROOF
  <1>1. TypeOK'
    BY BeginReadOnlyFacts DEF IInv, TypeOK, PCs, InstallPoints, Statement,
      Statements, FrameInv, AtRest, BarrierReturns, InstallDump, Goto, Exit,
      InstallBlocked, Begun
  <1>2. FrameInv'
    BY BeginReadOnlyFacts DEF IInv, TypeOK, FrameInv, AtRest, BarrierReturns,
      InstallPoints, InstallDump, Goto, Exit, InstallBlocked, Begun
  <1>3. SavedInv'
    BY BeginReadOnlyFacts DEF IInv, SavedInv, SetLocalKeepsOwner, InTxn,
      FrameInv, AtRest, BarrierReturns, InstallPoints, InstallDump, Goto,
      Exit, InstallBlocked, Begun
  <1>4. NoticeInv'
    BY BeginReadOnlyFacts DEF IInv, TypeOK, NoticeInv, FrameInv, AtRest,
      BarrierReturns, InstallPoints, InstallDump, Goto, Exit, InstallBlocked,
      Begun
  <1>5. GoodOwner(owner)'
    BY BeginReadOnlyFacts DEF IInv, GoodOwner, InstallDump, Goto, Exit,
      InstallBlocked, Begun
  <1>6. ScopeInv'
    BY BeginReadOnlyFacts DEF IInv, TypeOK, ScopeInv, FrameInv, AtRest,
      InstallDump, Goto, Exit, InstallBlocked, Begun
  <1> QED BY <1>1, <1>2, <1>3, <1>4, <1>5, <1>6 DEF IInv

LEMMA ShowStatementStep ==
    ASSUME IInv, ShowStatement
    PROVE  IInv'
PROOF
  <1>1. TypeOK'
    BY DEF IInv, TypeOK, PCs, InstallPoints, Statement, Statements, FrameInv,
      AtRest, BarrierReturns, ShowStatement, Exit, Body
  <1>2. FrameInv'
    BY DEF IInv, TypeOK, FrameInv, AtRest, BarrierReturns, InstallPoints,
      ShowStatement, Exit, Body
  <1>3. SavedInv'
    BY DEF IInv, SavedInv, SetLocalKeepsOwner, InTxn, FrameInv, AtRest,
      BarrierReturns, InstallPoints, ShowStatement, Exit, Body
  <1>4. NoticeInv'
    BY DEF IInv, TypeOK, NoticeInv, FrameInv, AtRest, BarrierReturns,
      InstallPoints, ShowStatement, Exit, Body
  <1>5. GoodOwner(owner)'
    BY DEF IInv, GoodOwner, ShowStatement, Exit, Body
  <1>6. ScopeInv'
    BY DEF IInv, TypeOK, ScopeInv, FrameInv, AtRest, ShowStatement, Exit, Body
  <1> QED BY <1>1, <1>2, <1>3, <1>4, <1>5, <1>6 DEF IInv

LEMMA BeginStatementStep ==
    ASSUME IInv, BeginStatement
    PROVE  IInv'
PROOF
  <1>1. TypeOK'
    BY DEF IInv, TypeOK, PCs, InstallPoints, Statement, Statements, FrameInv,
      AtRest, BarrierReturns, BeginStatement, Barrier, Body
  <1>2. FrameInv'
    BY DEF IInv, TypeOK, FrameInv, AtRest, BarrierReturns, InstallPoints,
      BeginStatement, Barrier, Body
  <1>3. SavedInv'
    BY DEF IInv, SavedInv, SetLocalKeepsOwner, InTxn, FrameInv, AtRest,
      BarrierReturns, InstallPoints, BeginStatement, Barrier, Body
  <1>4. NoticeInv'
    BY DEF IInv, TypeOK, NoticeInv, FrameInv, AtRest, BarrierReturns,
      InstallPoints, BeginStatement, Barrier, Body
  <1>5. GoodOwner(owner)'
    BY DEF IInv, GoodOwner, BeginStatement, Barrier, Body
  <1>6. ScopeInv'
    BY DEF IInv, TypeOK, ScopeInv, FrameInv, AtRest, BeginStatement, Barrier,
      Body
  <1> QED BY <1>1, <1>2, <1>3, <1>4, <1>5, <1>6 DEF IInv

LEMMA BeginDispatchStep ==
    ASSUME IInv, BeginDispatch
    PROVE  IInv'
PROOF
  <1>1. TypeOK'
    BY DEF IInv, TypeOK, PCs, InstallPoints, Statement, Statements, FrameInv,
      AtRest, BarrierReturns, BeginDispatch, Barrier, Exit, InTxn
  <1>2. FrameInv'
    BY DEF IInv, TypeOK, FrameInv, AtRest, BarrierReturns, InstallPoints,
      BeginDispatch, Barrier, Exit, InTxn
  <1>3. SavedInv'
    BY DEF IInv, SavedInv, SetLocalKeepsOwner, InTxn, FrameInv, AtRest,
      BarrierReturns, InstallPoints, BeginDispatch, Barrier, Exit
  <1>4. NoticeInv'
    BY DEF IInv, TypeOK, NoticeInv, FrameInv, AtRest, BarrierReturns,
      InstallPoints, BeginDispatch, Barrier, Exit, InTxn
  <1>5. GoodOwner(owner)'
    BY DEF IInv, GoodOwner, BeginDispatch, Barrier, Exit, InTxn
  <1>6. ScopeInv'
    BY DEF IInv, TypeOK, ScopeInv, FrameInv, AtRest, BeginDispatch, Barrier,
      Exit, InTxn
  <1> QED BY <1>1, <1>2, <1>3, <1>4, <1>5, <1>6 DEF IInv

LEMMA BeginRwStatementStep ==
    ASSUME IInv, BeginRwStatement
    PROVE  IInv'
PROOF
  <1>1. TypeOK'
    BY DEF IInv, TypeOK, PCs, InstallPoints, Statement, Statements, FrameInv,
      AtRest, BarrierReturns, BeginRwStatement, Barrier, Exit, Body
  <1>2. FrameInv'
    BY DEF IInv, TypeOK, FrameInv, AtRest, BarrierReturns, InstallPoints,
      BeginRwStatement, Barrier, Exit, Body
  <1>3. SavedInv'
    BY DEF IInv, SavedInv, SetLocalKeepsOwner, InTxn, FrameInv, AtRest,
      BarrierReturns, InstallPoints, BeginRwStatement, Barrier, Exit, Body
  <1>4. NoticeInv'
    BY DEF IInv, TypeOK, NoticeInv, FrameInv, AtRest, BarrierReturns,
      InstallPoints, BeginRwStatement, Barrier, Exit, Body
  <1>5. GoodOwner(owner)'
    BY DEF IInv, GoodOwner, BeginRwStatement, Barrier, Exit, Body
  <1>6. ScopeInv'
    BY DEF IInv, TypeOK, ScopeInv, FrameInv, AtRest, BeginRwStatement,
      Barrier, Exit, Body
  <1> QED BY <1>1, <1>2, <1>3, <1>4, <1>5, <1>6 DEF IInv

LEMMA BeginRoStatementStep ==
    ASSUME IInv, BeginRoStatement
    PROVE  IInv'
PROOF
  <1>1. TypeOK'
    BY RetireFacts, NilAssumption DEF IInv, TypeOK, PCs, InstallPoints,
      Statement, Statements, FrameInv, AtRest, BarrierReturns,
      BeginRoStatement, Barrier, Exit, Body
  <1>2. FrameInv'
    BY RetireFacts, NilAssumption DEF IInv, TypeOK, FrameInv, AtRest,
      BarrierReturns, InstallPoints, BeginRoStatement, Barrier, Exit, Body
  <1>3. SavedInv'
    BY RetireFacts, NilAssumption DEF IInv, SavedInv, SetLocalKeepsOwner,
      InTxn, FrameInv, AtRest, BarrierReturns, InstallPoints,
      BeginRoStatement, Barrier, Exit, Body
  <1>4. NoticeInv'
    BY RetireFacts, NilAssumption DEF IInv, TypeOK, NoticeInv, FrameInv,
      AtRest, BarrierReturns, InstallPoints, BeginRoStatement, Barrier, Exit,
      Body
  <1>5. GoodOwner(owner)'
    BY RetireFacts, NilAssumption DEF IInv, GoodOwner, BeginRoStatement,
      Barrier, Exit, Body
  <1>6. ScopeInv'
    BY RetireFacts, NilAssumption DEF IInv, TypeOK, ScopeInv, FrameInv,
      AtRest, BeginRoStatement, Barrier, Exit, Body
  <1> QED BY <1>1, <1>2, <1>3, <1>4, <1>5, <1>6 DEF IInv

LEMMA SetTransactionStatementStep ==
    ASSUME IInv, SetTransactionStatement
    PROVE  IInv'
PROOF
  <1>1. TypeOK'
    BY DEF IInv, TypeOK, PCs, InstallPoints, Statement, Statements, FrameInv,
      AtRest, BarrierReturns, SetTransactionStatement, Barrier, Exit, Body
  <1>2. FrameInv'
    BY DEF IInv, TypeOK, FrameInv, AtRest, BarrierReturns, InstallPoints,
      SetTransactionStatement, Barrier, Exit, Body
  <1>3. SavedInv'
    BY DEF IInv, SavedInv, SetLocalKeepsOwner, InTxn, FrameInv, AtRest,
      BarrierReturns, InstallPoints, SetTransactionStatement, Barrier, Exit,
      Body
  <1>4. NoticeInv'
    BY DEF IInv, TypeOK, NoticeInv, FrameInv, AtRest, BarrierReturns,
      InstallPoints, SetTransactionStatement, Barrier, Exit, Body
  <1>5. GoodOwner(owner)'
    BY DEF IInv, GoodOwner, SetTransactionStatement, Barrier, Exit, Body
  <1>6. ScopeInv'
    BY DEF IInv, TypeOK, ScopeInv, FrameInv, AtRest, SetTransactionStatement,
      Barrier, Exit, Body
  <1> QED BY <1>1, <1>2, <1>3, <1>4, <1>5, <1>6 DEF IInv

LEMMA EndTransactionStep ==
    ASSUME IInv, EndTransaction
    PROVE  IInv'
PROOF
  <1>1. TypeOK'
    BY RetireFacts, NilAssumption DEF IInv, TypeOK, PCs, InstallPoints,
      Statement, Statements, FrameInv, AtRest, BarrierReturns, EndTransaction,
      Exit, Body, InTxn
  <1>2. FrameInv'
    BY RetireFacts, NilAssumption DEF IInv, TypeOK, FrameInv, AtRest,
      BarrierReturns, InstallPoints, EndTransaction, Exit, Body, InTxn
  <1>3. SavedInv'
    BY RetireFacts, NilAssumption DEF IInv, SavedInv, SetLocalKeepsOwner,
      InTxn, FrameInv, AtRest, BarrierReturns, InstallPoints, EndTransaction,
      Exit, Body
  <1>4. NoticeInv'
    BY RetireFacts, NilAssumption DEF IInv, TypeOK, NoticeInv, FrameInv,
      AtRest, BarrierReturns, InstallPoints, EndTransaction, Exit, Body, InTxn
  <1>5. GoodOwner(owner)'
    BY RetireFacts, NilAssumption DEF IInv, GoodOwner, EndTransaction, Exit,
      Body, InTxn
  <1>6. ScopeInv'
    BY RetireFacts, NilAssumption DEF IInv, TypeOK, ScopeInv, FrameInv,
      AtRest, EndTransaction, Exit, Body, InTxn
  <1> QED BY <1>1, <1>2, <1>3, <1>4, <1>5, <1>6 DEF IInv

LEMMA DmlStatementStep ==
    ASSUME IInv, DmlStatement
    PROVE  IInv'
PROOF
  <1>1. TypeOK'
    BY DEF IInv, TypeOK, PCs, InstallPoints, Statement, Statements, FrameInv,
      AtRest, BarrierReturns, DmlStatement, Barrier, Body
  <1>2. FrameInv'
    BY DEF IInv, TypeOK, FrameInv, AtRest, BarrierReturns, InstallPoints,
      DmlStatement, Barrier, Body
  <1>3. SavedInv'
    BY DEF IInv, SavedInv, SetLocalKeepsOwner, InTxn, FrameInv, AtRest,
      BarrierReturns, InstallPoints, DmlStatement, Barrier, Body
  <1>4. NoticeInv'
    BY DEF IInv, TypeOK, NoticeInv, FrameInv, AtRest, BarrierReturns,
      InstallPoints, DmlStatement, Barrier, Body
  <1>5. GoodOwner(owner)'
    BY DEF IInv, GoodOwner, DmlStatement, Barrier, Body
  <1>6. ScopeInv'
    BY DEF IInv, TypeOK, ScopeInv, FrameInv, AtRest, DmlStatement, Barrier,
      Body
  <1> QED BY <1>1, <1>2, <1>3, <1>4, <1>5, <1>6 DEF IInv

LEMMA RunDmlInTransactionStep ==
    ASSUME IInv, RunDmlInTransaction
    PROVE  IInv'
PROOF
  <1>0. /\ owner' \in OwnerType /\ GoodOwner(owner')
        /\ owner'.expirePending => owner.expirePending
        /\ pend' \in Seq(LocalVar)
    <2>1. CASE owner' = NoteWork(Arm(owner)) /\ UNCHANGED pend
      <3>1. Arm(owner) \in OwnerType /\ GoodOwner(Arm(owner)) /\ Arm(owner).id = owner.id
            /\ Arm(owner).expirePending = owner.expirePending
        BY ArmType, ArmGood, ArmFields DEF IInv, TypeOK, InTxn, RunDmlInTransaction
      <3> QED BY <2>1, <3>1, NoteWorkType, NoteWorkGood, NoteWorkFields
              DEF IInv, TypeOK, InTxn, RunDmlInTransaction
    <2>2. CASE Retire
      BY <2>2, RetireFacts
    <2>3. CASE UNCHANGED <<owner, pend>>
      BY <2>3 DEF IInv, TypeOK
    <2> QED BY <2>1, <2>2, <2>3 DEF RunDmlInTransaction
  <1>1. TypeOK'
    BY <1>0 DEF IInv, TypeOK, PCs, InstallPoints, Statement, Statements,
      FrameInv, AtRest, BarrierReturns, RunDmlInTransaction, Exit,
      InstallBlocked, InTxn
  <1>2. FrameInv'
    BY <1>0 DEF IInv, TypeOK, FrameInv, AtRest, BarrierReturns, InstallPoints,
      RunDmlInTransaction, Exit, InstallBlocked, InTxn
  <1>3. SavedInv'
    BY <1>0 DEF IInv, SavedInv, SetLocalKeepsOwner, InTxn, FrameInv, AtRest,
      BarrierReturns, InstallPoints, RunDmlInTransaction, Exit, InstallBlocked
  <1>4. NoticeInv'
    BY <1>0 DEF IInv, TypeOK, NoticeInv, FrameInv, AtRest, BarrierReturns,
      InstallPoints, RunDmlInTransaction, Exit, InstallBlocked, InTxn
  <1>5. GoodOwner(owner)'
    BY <1>0 DEF IInv, GoodOwner, RunDmlInTransaction, Exit, InstallBlocked,
      InTxn
  <1>6. ScopeInv'
    BY <1>0 DEF IInv, TypeOK, ScopeInv, FrameInv, AtRest, RunDmlInTransaction,
      Exit, InstallBlocked, InTxn
  <1> QED BY <1>1, <1>2, <1>3, <1>4, <1>5, <1>6 DEF IInv

LEMMA RunDmlImplicitStep ==
    ASSUME IInv, RunDmlImplicit
    PROVE  IInv'
PROOF
  <1>0. /\ dlFired' \subseteq Owners
        /\ GoodOwner(owner)'
    <2>1. dlFired' \subseteq Owners
      BY DEF RunDmlImplicit, Fresh, IInv, TypeOK
    <2>2. owner = NoOwner /\ UNCHANGED <<owner, idleFired>>
      BY DEF RunDmlImplicit, InTxn, IInv, GoodOwner
    <2> QED BY <2>1, <2>2, NoOwnerFields, NoOwnerGood, NilAssumption
            DEF GoodOwner, IInv, TypeOK, IdleFiring
  <1>1. TypeOK'
    BY <1>0 DEF IInv, TypeOK, PCs, InstallPoints, Statement, Statements,
      FrameInv, AtRest, BarrierReturns, RunDmlImplicit, Exit, InstallBlocked,
      InTxn
  <1>2. FrameInv'
    BY <1>0 DEF IInv, TypeOK, FrameInv, AtRest, BarrierReturns, InstallPoints,
      RunDmlImplicit, Exit, InstallBlocked, InTxn
  <1>3. SavedInv'
    BY <1>0 DEF IInv, SavedInv, SetLocalKeepsOwner, InTxn, FrameInv, AtRest,
      BarrierReturns, InstallPoints, RunDmlImplicit, Exit, InstallBlocked
  <1>4. NoticeInv'
    BY <1>0 DEF IInv, TypeOK, NoticeInv, FrameInv, AtRest, BarrierReturns,
      InstallPoints, RunDmlImplicit, Exit, InstallBlocked, InTxn
  <1>5. GoodOwner(owner)'
    BY <1>0 DEF IInv, GoodOwner, RunDmlImplicit, Exit, InstallBlocked, InTxn
  <1>6. ScopeInv'
    BY <1>0 DEF IInv, TypeOK, ScopeInv, FrameInv, AtRest, RunDmlImplicit,
      Exit, InstallBlocked, InTxn
  <1> QED BY <1>1, <1>2, <1>3, <1>4, <1>5, <1>6 DEF IInv

LEMMA SelectStatementStep ==
    ASSUME IInv, SelectStatement
    PROVE  IInv'
PROOF
  <1>1. TypeOK'
    BY DetermineFacts DEF IInv, TypeOK, PCs, InstallPoints, Statement,
      Statements, FrameInv, AtRest, BarrierReturns, SelectStatement, Goto,
      Exit, Body, Begun
  <1>2. FrameInv'
    BY DetermineFacts DEF IInv, TypeOK, FrameInv, AtRest, BarrierReturns,
      InstallPoints, SelectStatement, Goto, Exit, Body, Begun
  <1>3. SavedInv'
    BY DetermineFacts DEF IInv, SavedInv, SetLocalKeepsOwner, InTxn, FrameInv,
      AtRest, BarrierReturns, InstallPoints, SelectStatement, Goto, Exit,
      Body, Begun
  <1>4. NoticeInv'
    BY DetermineFacts DEF IInv, TypeOK, NoticeInv, FrameInv, AtRest,
      BarrierReturns, InstallPoints, SelectStatement, Goto, Exit, Body, Begun
  <1>5. GoodOwner(owner)'
    BY DetermineFacts DEF IInv, GoodOwner, SelectStatement, Goto, Exit, Body,
      Begun
  <1>6. ScopeInv'
    BY DetermineFacts DEF IInv, TypeOK, ScopeInv, FrameInv, AtRest,
      SelectStatement, Goto, Exit, Body, Begun
  <1> QED BY <1>1, <1>2, <1>3, <1>4, <1>5, <1>6 DEF IInv

LEMMA TryQueryStep ==
    ASSUME IInv, TryQuery
    PROVE  IInv'
PROOF
  <1>0. /\ owner' \in OwnerType /\ GoodOwner(owner')
        /\ owner'.expirePending = owner.expirePending /\ owner'.rearm = owner.rearm
    <2>1. CASE owner.mode \in {"rw", "ro"}
      BY <2>1, ArmType, ArmGood, ArmFields, NoOwnerFields
         DEF IInv, TypeOK, GoodOwner, TryQuery
    <2>2. CASE owner.mode \notin {"rw", "ro"}
      BY <2>2 DEF IInv, TypeOK, TryQuery
    <2> QED BY <2>1, <2>2
  <1>1. TypeOK'
    BY <1>0 DEF IInv, TypeOK, PCs, InstallPoints, Statement, Statements,
      FrameInv, AtRest, BarrierReturns, TryQuery, Goto, Exit
  <1>2. FrameInv'
    BY <1>0 DEF IInv, TypeOK, FrameInv, AtRest, BarrierReturns, InstallPoints,
      TryQuery, Goto, Exit
  <1>3. SavedInv'
    BY <1>0 DEF IInv, SavedInv, SetLocalKeepsOwner, InTxn, FrameInv, AtRest,
      BarrierReturns, InstallPoints, TryQuery, Goto, Exit
  <1>4. NoticeInv'
    BY <1>0 DEF IInv, TypeOK, NoticeInv, FrameInv, AtRest, BarrierReturns,
      InstallPoints, TryQuery, Goto, Exit
  <1>5. GoodOwner(owner)'
    BY <1>0 DEF IInv, GoodOwner, TryQuery, Goto, Exit
  <1>6. ScopeInv'
    BY <1>0 DEF IInv, TypeOK, ScopeInv, FrameInv, AtRest, TryQuery, Goto, Exit
  <1> QED BY <1>1, <1>2, <1>3, <1>4, <1>5, <1>6 DEF IInv

LEMMA CompleteQueryStep ==
    ASSUME IInv, CompleteQuery
    PROVE  IInv'
PROOF
  <1>0. /\ owner' \in OwnerType /\ GoodOwner(owner')
        /\ owner'.expirePending = owner.expirePending
    <2>1. CASE InTxn
      BY <2>1, NoteWorkType, NoteWorkGood, NoteWorkFields
         DEF IInv, TypeOK, InTxn, CompleteQuery
    <2>2. CASE ~InTxn
      BY <2>2 DEF IInv, TypeOK, CompleteQuery
    <2> QED BY <2>1, <2>2
  <1>1. TypeOK'
    BY <1>0 DEF IInv, TypeOK, PCs, InstallPoints, Statement, Statements,
      FrameInv, AtRest, BarrierReturns, CompleteQuery, Goto, Exit, InTxn
  <1>2. FrameInv'
    BY <1>0 DEF IInv, TypeOK, FrameInv, AtRest, BarrierReturns, InstallPoints,
      CompleteQuery, Goto, Exit, InTxn
  <1>3. SavedInv'
    BY <1>0 DEF IInv, SavedInv, SetLocalKeepsOwner, InTxn, FrameInv, AtRest,
      BarrierReturns, InstallPoints, CompleteQuery, Goto, Exit
  <1>4. NoticeInv'
    BY <1>0 DEF IInv, TypeOK, NoticeInv, FrameInv, AtRest, BarrierReturns,
      InstallPoints, CompleteQuery, Goto, Exit, InTxn
  <1>5. GoodOwner(owner)'
    BY <1>0 DEF IInv, GoodOwner, CompleteQuery, Goto, Exit, InTxn
  <1>6. ScopeInv'
    BY <1>0 DEF IInv, TypeOK, ScopeInv, FrameInv, AtRest, CompleteQuery, Goto,
      Exit, InTxn
  <1> QED BY <1>1, <1>2, <1>3, <1>4, <1>5, <1>6 DEF IInv

LEMMA QueryAbortedStep ==
    ASSUME IInv, QueryAborted
    PROVE  IInv'
PROOF
  <1>1. TypeOK'
    BY RetireFacts, NilAssumption DEF IInv, TypeOK, PCs, InstallPoints,
      Statement, Statements, FrameInv, AtRest, BarrierReturns, QueryAborted,
      Exit
  <1>2. FrameInv'
    BY RetireFacts, NilAssumption DEF IInv, TypeOK, FrameInv, AtRest,
      BarrierReturns, InstallPoints, QueryAborted, Exit
  <1>3. SavedInv'
    BY RetireFacts, NilAssumption DEF IInv, SavedInv, SetLocalKeepsOwner,
      InTxn, FrameInv, AtRest, BarrierReturns, InstallPoints, QueryAborted,
      Exit
  <1>4. NoticeInv'
    BY RetireFacts, NilAssumption DEF IInv, TypeOK, NoticeInv, FrameInv,
      AtRest, BarrierReturns, InstallPoints, QueryAborted, Exit
  <1>5. GoodOwner(owner)'
    BY RetireFacts, NilAssumption DEF IInv, GoodOwner, QueryAborted, Exit
  <1>6. ScopeInv'
    BY RetireFacts, NilAssumption DEF IInv, TypeOK, ScopeInv, FrameInv,
      AtRest, QueryAborted, Exit
  <1> QED BY <1>1, <1>2, <1>3, <1>4, <1>5, <1>6 DEF IInv

LEMMA RunBatchStatementStep ==
    ASSUME IInv, RunBatchStatement
    PROVE  IInv'
PROOF
  <1>0. stmt' \in Statement /\ depth' \in 0..2 /\ (depth = 0 <=> depth' = 0)
        /\ (depth' = 2 => stmt'.kind = "dml")
    <2>1. stmt \in Statement /\ depth \in 0..2 /\ depth # 2 /\ depth # 0
      BY DEF IInv, TypeOK, FrameInv, AtRest, InstallPoints, RunBatchStatement, Body
    <2>2. [stmt EXCEPT !.kind = "dml"] \in Statement
          /\ [stmt EXCEPT !.kind = "dml"].kind = "dml"
      BY <2>1 DEF Statement, Kinds
    <2>3. CASE ReadOnly
      BY <2>1, <2>3 DEF RunBatchStatement, IInv, FrameInv
    <2>4. CASE ~ReadOnly
      <3>1. stmt' = [stmt EXCEPT !.kind = "dml"] /\ depth' = depth + 1
        BY <2>4 DEF RunBatchStatement
      <3> QED BY <2>1, <2>2, <3>1
    <2> QED BY <2>3, <2>4
  <1>a. /\ pc = "body"
        /\ \/ pc' = "restore" /\ ret' = "leave"
           \/ pc' = "entry" /\ UNCHANGED ret
        /\ UNCHANGED <<hold, owner, pend, sysVars, saved, dlFired, idleFired, notice>>
        /\ (depth' # depth => pc' = "entry" /\ depth' = depth + 1)
    BY DEF RunBatchStatement, Body, Exit, Goto
  <1>1. TypeOK'
    BY <1>0, <1>a DEF IInv, TypeOK, PCs, InstallPoints, Statement, Statements,
      FrameInv, AtRest, BarrierReturns, InTxn
  <1>2. FrameInv'
    BY <1>0, <1>a DEF IInv, TypeOK, FrameInv, AtRest, BarrierReturns,
      InstallPoints, InTxn
  <1>3. SavedInv'
    BY <1>0, <1>a DEF IInv, SavedInv, SetLocalKeepsOwner, InTxn, FrameInv,
      AtRest, BarrierReturns, InstallPoints
  <1>4. NoticeInv'
    BY <1>0, <1>a DEF IInv, TypeOK, NoticeInv, FrameInv, AtRest,
      BarrierReturns, InstallPoints, InTxn
  <1>5. GoodOwner(owner)'
    BY <1>0, <1>a DEF IInv, GoodOwner, InTxn
  <1>6. ScopeInv'
    BY <1>0, <1>a DEF IInv, TypeOK, ScopeInv, FrameInv, AtRest, InTxn
  <1> QED BY <1>1, <1>2, <1>3, <1>4, <1>5, <1>6 DEF IInv

LEMMA DumpStatementStep ==
    ASSUME IInv, DumpStatement
    PROVE  IInv'
PROOF
  <1>1. TypeOK'
    BY DEF IInv, TypeOK, PCs, InstallPoints, Statement, Statements, FrameInv,
      AtRest, BarrierReturns, DumpStatement, Barrier, Exit, Body
  <1>2. FrameInv'
    BY DEF IInv, TypeOK, FrameInv, AtRest, BarrierReturns, InstallPoints,
      DumpStatement, Barrier, Exit, Body
  <1>3. SavedInv'
    BY DEF IInv, SavedInv, SetLocalKeepsOwner, InTxn, FrameInv, AtRest,
      BarrierReturns, InstallPoints, DumpStatement, Barrier, Exit, Body
  <1>4. NoticeInv'
    BY DEF IInv, TypeOK, NoticeInv, FrameInv, AtRest, BarrierReturns,
      InstallPoints, DumpStatement, Barrier, Exit, Body
  <1>5. GoodOwner(owner)'
    BY DEF IInv, GoodOwner, DumpStatement, Barrier, Exit, Body
  <1>6. ScopeInv'
    BY DEF IInv, TypeOK, ScopeInv, FrameInv, AtRest, DumpStatement, Barrier,
      Exit, Body
  <1> QED BY <1>1, <1>2, <1>3, <1>4, <1>5, <1>6 DEF IInv

LEMMA DumpCloseStep ==
    ASSUME IInv, DumpClose
    PROVE  IInv'
PROOF
  <1>1. TypeOK'
    BY RetireFacts, NilAssumption DEF IInv, TypeOK, PCs, InstallPoints,
      Statement, Statements, FrameInv, AtRest, BarrierReturns, DumpClose, Exit
  <1>2. FrameInv'
    BY RetireFacts, NilAssumption DEF IInv, TypeOK, FrameInv, AtRest,
      BarrierReturns, InstallPoints, DumpClose, Exit
  <1>3. SavedInv'
    BY RetireFacts, NilAssumption DEF IInv, SavedInv, SetLocalKeepsOwner,
      InTxn, FrameInv, AtRest, BarrierReturns, InstallPoints, DumpClose, Exit
  <1>4. NoticeInv'
    BY RetireFacts, NilAssumption DEF IInv, TypeOK, NoticeInv, FrameInv,
      AtRest, BarrierReturns, InstallPoints, DumpClose, Exit
  <1>5. GoodOwner(owner)'
    BY RetireFacts, NilAssumption DEF IInv, GoodOwner, DumpClose, Exit
  <1>6. ScopeInv'
    BY RetireFacts, NilAssumption DEF IInv, TypeOK, ScopeInv, FrameInv,
      AtRest, DumpClose, Exit
  <1> QED BY <1>1, <1>2, <1>3, <1>4, <1>5, <1>6 DEF IInv

LEMMA SetStatementStep ==
    ASSUME IInv, SetStatement
    PROVE  IInv'
PROOF
  <1>1. TypeOK'
    BY DEF IInv, TypeOK, PCs, InstallPoints, Statement, Statements, FrameInv,
      AtRest, BarrierReturns, SetStatement, Barrier, Body
  <1>2. FrameInv'
    BY DEF IInv, TypeOK, FrameInv, AtRest, BarrierReturns, InstallPoints,
      SetStatement, Barrier, Body
  <1>3. SavedInv'
    BY DEF IInv, SavedInv, SetLocalKeepsOwner, InTxn, FrameInv, AtRest,
      BarrierReturns, InstallPoints, SetStatement, Barrier, Body
  <1>4. NoticeInv'
    BY DEF IInv, TypeOK, NoticeInv, FrameInv, AtRest, BarrierReturns,
      InstallPoints, SetStatement, Barrier, Body
  <1>5. GoodOwner(owner)'
    BY DEF IInv, GoodOwner, SetStatement, Barrier, Body
  <1>6. ScopeInv'
    BY DEF IInv, TypeOK, ScopeInv, FrameInv, AtRest, SetStatement, Barrier,
      Body
  <1> QED BY <1>1, <1>2, <1>3, <1>4, <1>5, <1>6 DEF IInv

LEMMA SetVarStep ==
    ASSUME IInv, SetVar
    PROVE  IInv'
PROOF
  <1>0. /\ owner' \in OwnerType /\ GoodOwner(owner')
        /\ owner'.expirePending = owner.expirePending /\ owner'.rearm = owner.rearm
    <2>1. owner \in OwnerType /\ DropName(owner.undo, stmt.name) \in Seq(LocalVar)
      BY DropNameType DEF IInv, TypeOK, OwnerType
    <2>2. owner.id = Nil => DropName(owner.undo, stmt.name) = owner.undo
      BY NoOwnerFields DEF IInv, GoodOwner, DropName
    <2> QED BY <2>1, <2>2, UndoGood DEF IInv, SetVar
  <1>1. TypeOK'
    BY <1>0 DEF IInv, TypeOK, PCs, InstallPoints, Statement, Statements,
      FrameInv, AtRest, BarrierReturns, SetVar, Exit
  <1>2. FrameInv'
    BY <1>0 DEF IInv, TypeOK, FrameInv, AtRest, BarrierReturns, InstallPoints,
      SetVar, Exit
  <1>3. SavedInv'
    BY <1>0 DEF IInv, SavedInv, SetLocalKeepsOwner, InTxn, FrameInv, AtRest,
      BarrierReturns, InstallPoints, SetVar, Exit
  <1>4. NoticeInv'
    BY <1>0 DEF IInv, TypeOK, NoticeInv, FrameInv, AtRest, BarrierReturns,
      InstallPoints, SetVar, Exit
  <1>5. GoodOwner(owner)'
    BY <1>0 DEF IInv, GoodOwner, SetVar, Exit
  <1>6. ScopeInv'
    BY <1>0 DEF IInv, TypeOK, ScopeInv, FrameInv, AtRest, SetVar, Exit
  <1> QED BY <1>1, <1>2, <1>3, <1>4, <1>5, <1>6 DEF IInv

LEMMA SetLocalStatementStep ==
    ASSUME IInv, SetLocalStatement
    PROVE  IInv'
PROOF
  <1>0. saved' \in Seq(LocalVar) /\ sysVars' \in [VarNames -> Durations]
    <2>1. stmt.name \in VarNames /\ stmt.val \in Durations
          /\ saved \in Seq(LocalVar) /\ sysVars \in [VarNames -> Durations]
      BY DEF IInv, TypeOK, Statement
    <2>2. [name |-> stmt.name, old |-> sysVars[stmt.name]] \in LocalVar
          /\ [sysVars EXCEPT ![stmt.name] = stmt.val] \in [VarNames -> Durations]
      BY <2>1 DEF LocalVar
    <2>3. <<[name |-> stmt.name, old |-> sysVars[stmt.name]]>> \in Seq(LocalVar)
      BY <2>2
    <2> QED BY <2>1, <2>2, <2>3 DEF SetLocalStatement
  <1>a. /\ pc = "body"
        /\ \/ pc' = "restore" /\ ret' = "leave" /\ UNCHANGED saved
           \/ pc' = "setLocalApply" /\ UNCHANGED ret /\ InTxn
        /\ UNCHANGED <<stmt, depth, hold, owner, pend, dlFired, idleFired, notice>>
    BY DEF SetLocalStatement, Body, Exit, Goto
  <1>1. TypeOK'
    BY <1>0, <1>a DEF IInv, TypeOK, PCs, InstallPoints, Statement, Statements,
      FrameInv, AtRest, BarrierReturns, InTxn
  <1>2. FrameInv'
    BY <1>0, <1>a DEF IInv, TypeOK, FrameInv, AtRest, BarrierReturns,
      InstallPoints, InTxn
  <1>3. SavedInv'
    BY <1>0, <1>a DEF IInv, SavedInv, SetLocalKeepsOwner, InTxn, FrameInv,
      AtRest, BarrierReturns, InstallPoints
  <1>4. NoticeInv'
    BY <1>0, <1>a DEF IInv, TypeOK, NoticeInv, FrameInv, AtRest,
      BarrierReturns, InstallPoints, InTxn
  <1>5. GoodOwner(owner)'
    BY <1>0, <1>a DEF IInv, GoodOwner, InTxn
  <1>6. ScopeInv'
    BY <1>0, <1>a DEF IInv, TypeOK, ScopeInv, FrameInv, AtRest, InTxn
  <1> QED BY <1>1, <1>2, <1>3, <1>4, <1>5, <1>6 DEF IInv

LEMMA SetLocalApplyStep ==
    ASSUME IInv, SetLocalApply
    PROVE  IInv'
PROOF
  <1>0. /\ owner' \in OwnerType /\ GoodOwner(owner')
        /\ owner'.expirePending = owner.expirePending /\ owner'.rearm = owner.rearm
        /\ owner'.id = owner.id
        /\ saved' \in Seq(LocalVar) /\ sysVars' \in [VarNames -> Durations]
    <2>1. CASE ~InTxn \/ Frozen
      <3>1. UNCHANGED owner /\ RestoreSaved
        BY <2>1 DEF SetLocalApply
      <3>2. <<>> \in Seq(LocalVar) /\ Replay(sysVars, saved) \in [VarNames -> Durations]
        BY ReplayType DEF IInv, TypeOK
      <3>3. saved' = <<>> /\ sysVars' = Replay(sysVars, saved)
        BY <3>1 DEF RestoreSaved
      <3> QED BY <3>1, <3>2, <3>3 DEF IInv, TypeOK
    <2>2. CASE InTxn /\ ~Frozen
      <3>1. /\ stmt.name \in VarNames /\ stmt.val \in Durations
            /\ saved' \in Seq(LocalVar) /\ sysVars' \in [VarNames -> Durations]
            /\ owner' = [owner EXCEPT ![stmt.name] = stmt.val]
        BY <2>2 DEF IInv, TypeOK, Statement, SetLocalApply
      <3>2. stmt.name = "idle" => ~owner.work \/ owner.idle = stmt.val
        BY <2>2 DEF Frozen
      <3>3. TypeOK /\ owner \in OwnerType /\ GoodOwner(owner) /\ owner.id # Nil
        BY <2>2 DEF IInv, TypeOK, InTxn
      <3> QED BY <3>1, <3>2, <3>3, DurationGood
    <2> QED BY <2>1, <2>2
  <1>a. /\ pc = "setLocalApply"
        /\ \/ pc' = "setLocalPush" /\ InTxn /\ UNCHANGED ret
           \/ pc' = "restore" /\ ret' = "leave" /\ saved' = <<>>
        /\ UNCHANGED <<stmt, depth, hold, pend, dlFired, idleFired, notice>>
    BY DEF SetLocalApply, RestoreSaved, Exit, Goto
  <1>1. TypeOK'
    BY <1>0, <1>a DEF IInv, TypeOK, PCs, InstallPoints, Statement, Statements,
      FrameInv, AtRest, BarrierReturns, InTxn
  <1>2. FrameInv'
    BY <1>0, <1>a DEF IInv, TypeOK, FrameInv, AtRest, BarrierReturns,
      InstallPoints, InTxn
  <1>3. SavedInv'
    BY <1>0, <1>a DEF IInv, SavedInv, SetLocalKeepsOwner, InTxn, FrameInv,
      AtRest, BarrierReturns, InstallPoints
  <1>4. NoticeInv'
    BY <1>0, <1>a DEF IInv, TypeOK, NoticeInv, FrameInv, AtRest,
      BarrierReturns, InstallPoints, InTxn
  <1>5. GoodOwner(owner)'
    BY <1>0, <1>a DEF IInv, GoodOwner, InTxn
  <1>6. ScopeInv'
    BY <1>0, <1>a DEF IInv, TypeOK, ScopeInv, FrameInv, AtRest, InTxn
  <1> QED BY <1>1, <1>2, <1>3, <1>4, <1>5, <1>6 DEF IInv

LEMMA SetLocalPushStep ==
    ASSUME IInv, SetLocalPush
    PROVE  IInv'
PROOF
  <1>0. /\ owner' \in OwnerType /\ GoodOwner(owner')
        /\ owner'.expirePending = owner.expirePending /\ owner'.rearm = owner.rearm
        /\ saved' = <<>> /\ sysVars' \in [VarNames -> Durations]
    <2>1. owner \in OwnerType /\ GoodOwner(owner) /\ owner.undo \o saved \in Seq(LocalVar)
          /\ sysVars \in [VarNames -> Durations] /\ InTxn
      BY DEF IInv, TypeOK, OwnerType, SavedInv, SetLocalKeepsOwner, SetLocalPush
    <2>2. /\ owner' = [owner EXCEPT !.undo = owner.undo \o saved]
          /\ saved' = <<>> /\ UNCHANGED sysVars
      BY <2>1 DEF SetLocalPush
    <2> QED BY <2>1, <2>2, UndoGood DEF InTxn
  <1>1. TypeOK'
    BY <1>0 DEF IInv, TypeOK, PCs, InstallPoints, Statement, Statements,
      FrameInv, AtRest, BarrierReturns, SetLocalPush, Exit, RestoreSaved,
      InTxn
  <1>2. FrameInv'
    BY <1>0 DEF IInv, TypeOK, FrameInv, AtRest, BarrierReturns, InstallPoints,
      SetLocalPush, Exit, RestoreSaved, InTxn
  <1>3. SavedInv'
    BY <1>0 DEF IInv, SavedInv, SetLocalKeepsOwner, InTxn, FrameInv, AtRest,
      BarrierReturns, InstallPoints, SetLocalPush, Exit, RestoreSaved
  <1>4. NoticeInv'
    BY <1>0 DEF IInv, TypeOK, NoticeInv, FrameInv, AtRest, BarrierReturns,
      InstallPoints, SetLocalPush, Exit, RestoreSaved, InTxn
  <1>5. GoodOwner(owner)'
    BY <1>0 DEF IInv, GoodOwner, SetLocalPush, Exit, RestoreSaved, InTxn
  <1>6. ScopeInv'
    BY <1>0 DEF IInv, TypeOK, ScopeInv, FrameInv, AtRest, SetLocalPush, Exit,
      RestoreSaved, InTxn
  <1> QED BY <1>1, <1>2, <1>3, <1>4, <1>5, <1>6 DEF IInv

LEMMA DeadlinePassesStep ==
    ASSUME IInv, DeadlinePasses
    PROVE  IInv'
PROOF
  <1>0. /\ owner' \in OwnerType /\ GoodOwner(owner)' /\ dlFired' \subseteq Owners
        /\ owner'.expirePending = owner.expirePending /\ owner'.rearm = owner.rearm
        /\ owner'.id = owner.id
    <2>1. owner.id \in Owners
      BY DEF DeadlinePasses, IInv, TypeOK, OwnerType, GoodOwner, NoOwner
    <2>2. /\ owner \in OwnerType /\ GoodOwner(owner)
          /\ owner' = [owner EXCEPT !.passed = TRUE]
          /\ dlFired' = dlFired \cup {owner.id} /\ UNCHANGED idleFired
          /\ dlFired \subseteq Owners
      BY DEF DeadlinePasses, IInv, TypeOK
    <2>3. owner' \in OwnerType
      BY <2>2 DEF OwnerType
    <2>4. /\ owner'.passed /\ owner'.id = owner.id /\ owner'.expirePending = owner.expirePending
          /\ owner'.work = owner.work /\ owner'.gen = owner.gen /\ owner'.idle = owner.idle
          /\ owner'.quiet = owner.quiet /\ owner'.rearm = owner.rearm
          /\ owner'.held = owner.held /\ owner'.timer = owner.timer
      BY <2>2 DEF OwnerType
    <2> QED BY <2>1, <2>2, <2>3, <2>4, NilAssumption DEF GoodOwner
  <1>a. UNCHANGED <<pend, idleFired, notice, pc, ret, stmt, depth, hold, sysVars, saved>>
    BY DEF DeadlinePasses, CLIUnchanged
  <1>1. TypeOK'
    BY <1>0, <1>a DEF IInv, TypeOK, PCs, InstallPoints, Statement, Statements,
      FrameInv, AtRest, BarrierReturns, InTxn
  <1>2. FrameInv'
    BY <1>0, <1>a DEF IInv, TypeOK, FrameInv, AtRest, BarrierReturns,
      InstallPoints, InTxn
  <1>3. SavedInv'
    BY <1>0, <1>a DEF IInv, SavedInv, SetLocalKeepsOwner, InTxn, FrameInv,
      AtRest, BarrierReturns, InstallPoints
  <1>4. NoticeInv'
    BY <1>0, <1>a DEF IInv, TypeOK, NoticeInv, FrameInv, AtRest,
      BarrierReturns, InstallPoints, InTxn
  <1>5. GoodOwner(owner)'
    BY <1>0, <1>a DEF IInv, GoodOwner, InTxn
  <1>6. ScopeInv'
    BY <1>0, <1>a DEF IInv, TypeOK, ScopeInv, FrameInv, AtRest, InTxn
  <1> QED BY <1>1, <1>2, <1>3, <1>4, <1>5, <1>6 DEF IInv

LEMMA IdleElapsesStep ==
    ASSUME IInv, IdleElapses
    PROVE  IInv'
PROOF
  <1>0. /\ owner' \in OwnerType /\ GoodOwner(owner)' /\ idleFired' \subseteq IdleFiring
        /\ owner'.expirePending = owner.expirePending /\ owner'.rearm = owner.rearm
        /\ owner'.id = owner.id
    <2>1. owner.id \in Owners
      BY NoOwnerFields DEF IdleElapses, IInv, TypeOK, OwnerType, GoodOwner
    <2>2. /\ owner \in OwnerType /\ GoodOwner(owner) /\ owner.timer = "running"
          /\ owner' = [owner EXCEPT !.timer = "elapsed", !.quiet = TRUE]
          /\ idleFired' = idleFired \cup {[id |-> owner.id, gen |-> owner.gen]}
          /\ UNCHANGED dlFired /\ idleFired \subseteq IdleFiring
      BY DEF IdleElapses, IInv, TypeOK
    <2>3. owner' \in OwnerType /\ owner.gen \in Nat
      BY <2>2 DEF OwnerType, TimerStates
    <2>4. /\ owner'.passed = owner.passed /\ owner'.id = owner.id
          /\ owner'.expirePending = owner.expirePending
          /\ owner'.work = owner.work /\ owner'.gen = owner.gen /\ owner'.idle = owner.idle
          /\ owner'.quiet /\ owner'.rearm = owner.rearm
          /\ owner'.held = owner.held /\ owner'.timer # "running"
      BY <2>2 DEF OwnerType
    <2>5. idleFired' \subseteq IdleFiring
      BY <2>1, <2>2, <2>3 DEF IdleFiring
    <2> QED BY <2>1, <2>2, <2>3, <2>4, <2>5, NilAssumption DEF GoodOwner
  <1>a. UNCHANGED <<pend, dlFired, notice, pc, ret, stmt, depth, hold, sysVars, saved>>
    BY DEF IdleElapses, CLIUnchanged
  <1>1. TypeOK'
    BY <1>0, <1>a DEF IInv, TypeOK, PCs, InstallPoints, Statement, Statements,
      FrameInv, AtRest, BarrierReturns, InTxn
  <1>2. FrameInv'
    BY <1>0, <1>a DEF IInv, TypeOK, FrameInv, AtRest, BarrierReturns,
      InstallPoints, InTxn
  <1>3. SavedInv'
    BY <1>0, <1>a DEF IInv, SavedInv, SetLocalKeepsOwner, InTxn, FrameInv,
      AtRest, BarrierReturns, InstallPoints
  <1>4. NoticeInv'
    BY <1>0, <1>a DEF IInv, TypeOK, NoticeInv, FrameInv, AtRest,
      BarrierReturns, InstallPoints, InTxn
  <1>5. GoodOwner(owner)'
    BY <1>0, <1>a DEF IInv, GoodOwner, InTxn
  <1>6. ScopeInv'
    BY <1>0, <1>a DEF IInv, TypeOK, ScopeInv, FrameInv, AtRest, InTxn
  <1> QED BY <1>1, <1>2, <1>3, <1>4, <1>5, <1>6 DEF IInv

LEMMA WatchDeadlineStep ==
    ASSUME IInv, NEW p \in Owners, WatchDeadline(p)
    PROVE  IInv'
PROOF
  <1>0. /\ owner' \in OwnerType /\ GoodOwner(owner)' /\ dlFired' \subseteq Owners
        /\ (owner'.expirePending => owner.expirePending \/ depth > 0)
        /\ (owner'.rearm => owner.rearm) /\ pend' \in Seq(LocalVar)
        /\ (owner'.id # owner.id => depth = 0)
    <2>0. /\ owner \in OwnerType /\ GoodOwner(owner) /\ pend \in Seq(LocalVar)
          /\ dlFired \subseteq Owners /\ p \in dlFired
          /\ dlFired' \subseteq dlFired /\ UNCHANGED idleFired
      BY DEF WatchDeadline, IInv, TypeOK
    <2>1. CASE owner.id # p /\ UNCHANGED <<owner, pend>>
      BY <2>0, <2>1 DEF GoodOwner, IInv, ScopeInv
    <2>2. CASE /\ owner.id = p /\ depth > 0 /\ UNCHANGED pend
               /\ owner' = [owner EXCEPT !.expirePending = TRUE, !.timer = "off"]
      <3>1. owner' \in OwnerType
        BY <2>0, <2>2 DEF OwnerType, TimerStates
      <3>2. /\ owner'.passed = owner.passed /\ owner'.id = owner.id
            /\ owner'.work = owner.work /\ owner'.gen = owner.gen /\ owner'.idle = owner.idle
            /\ owner'.quiet = owner.quiet /\ owner'.rearm = owner.rearm
            /\ owner'.held = owner.held /\ owner'.timer # "running"
        BY <2>0, <2>2 DEF OwnerType
      <3>3. owner.passed /\ owner.id # Nil
        BY <2>0, <2>2, NilAssumption DEF GoodOwner
      <3> QED BY <2>0, <2>2, <3>1, <3>2, <3>3 DEF GoodOwner
    <2>3. CASE owner.id = p /\ depth = 0 /\ Retire
      BY <2>0, <2>3, RetireFacts DEF GoodOwner
    <2> QED BY <2>0, <2>1, <2>2, <2>3 DEF WatchDeadline
  <1>a. UNCHANGED <<idleFired, notice, pc, ret, stmt, depth, hold, sysVars, saved>>
    BY DEF WatchDeadline, CLIUnchanged
  <1>1. TypeOK'
    BY <1>0, <1>a DEF IInv, TypeOK, PCs, InstallPoints, Statement, Statements,
      FrameInv, AtRest, BarrierReturns, InTxn
  <1>2. FrameInv'
    BY <1>0, <1>a DEF IInv, TypeOK, FrameInv, AtRest, BarrierReturns,
      InstallPoints, InTxn
  <1>3. SavedInv'
    BY <1>0, <1>a DEF IInv, SavedInv, SetLocalKeepsOwner, InTxn, FrameInv,
      AtRest, BarrierReturns, InstallPoints
  <1>4. NoticeInv'
    BY <1>0, <1>a DEF IInv, TypeOK, NoticeInv, FrameInv, AtRest,
      BarrierReturns, InstallPoints, InTxn
  <1>5. GoodOwner(owner)'
    BY <1>0, <1>a DEF IInv, GoodOwner, InTxn
  <1>6. ScopeInv'
    BY <1>0, <1>a DEF IInv, TypeOK, ScopeInv, FrameInv, AtRest, InTxn
  <1> QED BY <1>1, <1>2, <1>3, <1>4, <1>5, <1>6 DEF IInv

LEMMA WatchIdleStep ==
    ASSUME IInv, NEW f \in idleFired, WatchIdle(f)
    PROVE  IInv'
PROOF
  <1>0. /\ owner' \in OwnerType /\ GoodOwner(owner)' /\ idleFired' \subseteq IdleFiring
        /\ (owner'.expirePending => owner.expirePending)
        /\ (owner'.rearm => owner.rearm) /\ pend' \in Seq(LocalVar)
        /\ notice' \in BOOLEAN
        /\ (owner'.id # owner.id => depth = 0)
        /\ (notice' => notice \/ (depth = 0 /\ hold = 0))
    <2>0. /\ owner \in OwnerType /\ GoodOwner(owner) /\ pend \in Seq(LocalVar)
          /\ idleFired \subseteq IdleFiring /\ notice \in BOOLEAN
          /\ idleFired' \subseteq idleFired /\ UNCHANGED dlFired
          /\ depth \in 0..2 /\ hold \in 0..1
      BY DEF WatchIdle, IInv, TypeOK
    <2>1. CASE UNCHANGED <<owner, pend, notice>>
      BY <2>0, <2>1 DEF GoodOwner
    <2>2. CASE /\ Current(f) /\ UNCHANGED <<pend, notice>>
               /\ owner' = [owner EXCEPT !.held = TRUE]
      <3>1. owner' \in OwnerType
        BY <2>0, <2>2 DEF OwnerType
      <3>2. /\ owner'.passed = owner.passed /\ owner'.id = owner.id
            /\ owner'.expirePending = owner.expirePending
            /\ owner'.work = owner.work /\ owner'.gen = owner.gen /\ owner'.idle = owner.idle
            /\ owner'.quiet = owner.quiet /\ owner'.rearm = owner.rearm
            /\ owner'.timer = owner.timer
        BY <2>0, <2>2 DEF OwnerType
      <3>3. /\ owner.work /\ (owner.quiet \/ owner.rearm)
            /\ owner.id # Nil
        BY <2>0, <2>2, NoOwnerFields DEF GoodOwner, Current
      <3> QED BY <2>0, <2>2, <3>1, <3>2, <3>3 DEF GoodOwner
    <2>3. CASE ~Blocked /\ Retire /\ notice' = TRUE
      <3>1. depth = 0 /\ hold = 0
        BY <2>0, <2>3 DEF Blocked
      <3> QED BY <2>0, <2>3, <3>1, RetireFacts DEF GoodOwner
    <2> QED BY <2>0, <2>1, <2>2, <2>3 DEF WatchIdle
  <1>a. UNCHANGED <<dlFired, pc, ret, stmt, depth, hold, sysVars, saved>>
    BY DEF WatchIdle, CLIUnchanged
  <1>1. TypeOK'
    BY <1>0, <1>a DEF IInv, TypeOK, PCs, InstallPoints, Statement, Statements,
      FrameInv, AtRest, BarrierReturns, InTxn
  <1>2. FrameInv'
    BY <1>0, <1>a DEF IInv, TypeOK, FrameInv, AtRest, BarrierReturns,
      InstallPoints, InTxn
  <1>3. SavedInv'
    BY <1>0, <1>a DEF IInv, SavedInv, SetLocalKeepsOwner, InTxn, FrameInv,
      AtRest, BarrierReturns, InstallPoints
  <1>4. NoticeInv'
    BY <1>0, <1>a DEF IInv, TypeOK, NoticeInv, FrameInv, AtRest,
      BarrierReturns, InstallPoints, InTxn
  <1>5. GoodOwner(owner)'
    BY <1>0, <1>a DEF IInv, GoodOwner, InTxn
  <1>6. ScopeInv'
    BY <1>0, <1>a DEF IInv, TypeOK, ScopeInv, FrameInv, AtRest, InTxn
  <1> QED BY <1>1, <1>2, <1>3, <1>4, <1>5, <1>6 DEF IInv

----------------------------------------------------------------------------
(* The invariant holds initially and is kept by every step.                *)

LEMMA InitInv == Init => IInv
PROOF
  <1> SUFFICES ASSUME Init PROVE IInv
    OBVIOUS
  <1>1. TypeOK
    <2>1. NoStatement \in Statement
      BY DEF NoStatement, Statement, Kinds, VarNames, Durations
    <2>2. <<>> \in Seq(LocalVar)
      OBVIOUS
    <2>3. pc \in PCs /\ ret \in PCs /\ depth \in 0..2 /\ hold \in 0..1
      BY DEF Init, PCs
    <2>4. dlFired \subseteq Owners /\ idleFired \subseteq IdleFiring /\ notice \in BOOLEAN
      BY DEF Init
    <2> QED BY <2>1, <2>2, <2>3, <2>4, NoOwnerType DEF Init, TypeOK
  <1>2. FrameInv /\ SavedInv /\ NoticeInv /\ ScopeInv
    BY NoOwnerFields DEF Init, FrameInv, AtRest, BarrierReturns, InstallPoints, SavedInv,
                         SetLocalKeepsOwner, NoticeInv, ScopeInv
  <1>3. GoodOwner(owner)
    BY <1>1, NoOwnerGood DEF Init
  <1> QED BY <1>1, <1>2, <1>3 DEF IInv

LEMMA StutterInv ==
    ASSUME IInv, UNCHANGED vars
    PROVE  IInv'
BY DEF IInv, vars, TypeOK, FrameInv, AtRest, SavedInv, SetLocalKeepsOwner, InTxn,
       NoticeInv, GoodOwner, ScopeInv

LEMMA NextInv == IInv /\ [Next]_vars => IInv'
PROOF
  <1> SUFFICES ASSUME IInv, [Next]_vars PROVE IInv'
    OBVIOUS
  <1>1. CASE \E s \in Statements : Submit(s)
    BY <1>1, SubmitStep
  <1>2. CASE Frame
    BY <1>2, EnterStep, EntryRestoreStep, SyncStep, RestoreStep, ConsumeNoticeStep,
       EnsureLazyOwnerStep, LeaveStep, UnholdStep DEF Frame
  <1>3. CASE Install
    BY <1>3, DetermineStep, InstallRetryStep, InstallPendingStep, InstallRWStep,
       InstallROStep, InstallDumpStep DEF Install
  <1>4. CASE Handler
    BY <1>4, ShowStatementStep, BeginStatementStep, BeginDispatchStep,
       BeginRwStatementStep, BeginRoStatementStep, SetTransactionStatementStep,
       EndTransactionStep, DmlStatementStep, RunDmlInTransactionStep,
       RunDmlImplicitStep, SelectStatementStep, TryQueryStep, CompleteQueryStep,
       QueryAbortedStep, RunBatchStatementStep, DumpStatementStep, DumpCloseStep,
       SetStatementStep, SetVarStep, SetLocalStatementStep, SetLocalApplyStep,
       SetLocalPushStep DEF Handler
  <1>5. CASE DeadlinePasses \/ IdleElapses
    BY <1>5, DeadlinePassesStep, IdleElapsesStep
  <1>6. CASE \E p \in Owners : WatchDeadline(p)
    BY <1>6, WatchDeadlineStep
  <1>7. CASE \E f \in idleFired : WatchIdle(f)
    BY <1>7, WatchIdleStep
  <1>8. CASE UNCHANGED vars
    BY <1>8, StutterInv
  <1> QED BY <1>1, <1>2, <1>3, <1>4, <1>5, <1>6, <1>7, <1>8 DEF Next

----------------------------------------------------------------------------
(* The theorems.                                                           *)

\* The inductive invariant holds in every reachable state.
THEOREM Invariance == Spec => []IInv
BY InitInv, NextInv, PTL DEF Spec

\* Every variable keeps its type: no handler leaves a malformed owner.
THEOREM TypeCorrect == Spec => []TypeOK
PROOF
  <1>1. IInv => TypeOK
    BY DEF IInv
  <1> QED BY <1>1, Invariance, PTL

\* leaveStatement retires a marked owner in the critical section that drops
\* the depth, so the mark never survives the statement.
THEOREM MarkIsScoped == Spec => []ExpirePendingScoped
PROOF
  <1>1. IInv => ExpirePendingScoped
    BY DEF IInv, GoodOwner, ScopeInv, ExpirePendingScoped
  <1> QED BY <1>1, Invariance, PTL

\* Between the setter and pushLocalVarUndo no watcher can take the owner away.
THEOREM SetLocalOwnerStays == Spec => []SetLocalKeepsOwner
PROOF
  <1>1. IInv => SetLocalKeepsOwner
    BY DEF IInv, SavedInv
  <1> QED BY <1>1, Invariance, PTL

\* consumeIdleNotice comes before any work a statement does.
THEOREM NoticeComesFirst == Spec => []NoticeBeforeWork
PROOF
  <1>1. IInv => NoticeBeforeWork
    BY DEF IInv, TypeOK, NoticeInv, NoticeBeforeWork
  <1> QED BY <1>1, Invariance, PTL

\* Every step of the CLI goroutine moves its program counter.
LEMMA CLIMoves ==
    ASSUME IInv, (\E s \in Statements : Submit(s)) \/ Frame \/ Install \/ Handler
    PROVE  pc' # pc
PROOF
  <1>1. CASE \E s \in Statements : Submit(s)
    BY <1>1 DEF Submit, Goto
  <1>2. CASE Frame
    BY <1>2 DEF Frame, Enter, EntryRestore, Sync, Restore, ConsumeNotice, EnsureLazyOwner,
                Leave, Unhold, Goto, Barrier, IInv, FrameInv, BarrierReturns, InstallPoints
  <1>3. CASE Determine
    BY <1>3, DetermineFacts DEF Determine, Goto, Exit
  <1>4. CASE InstallRetry \/ InstallPending
    BY <1>4 DEF InstallRetry, InstallPending, InstallPoints, Barrier, Goto, Exit
  <1>5. CASE InstallRW
    BY <1>5, BeginReadWriteFacts DEF InstallRW, Exit
  <1>6. CASE InstallRO
    BY <1>6, BeginReadOnlyFacts DEF InstallRO, Exit
  <1>7. CASE InstallDump
    BY <1>7, BeginReadOnlyFacts DEF InstallDump, Exit, Goto
  <1>8. CASE SelectStatement
    BY <1>8, DetermineFacts DEF SelectStatement, Body, Goto, Exit
  <1>9. CASE Handler /\ ~SelectStatement
    BY <1>9 DEF Handler, ShowStatement, BeginStatement, BeginDispatch, BeginRwStatement,
                BeginRoStatement, SetTransactionStatement, EndTransaction, DmlStatement,
                RunDmlInTransaction, RunDmlImplicit, TryQuery, CompleteQuery, QueryAborted,
                RunBatchStatement, DumpStatement, DumpClose, SetStatement, SetVar,
                SetLocalStatement, SetLocalApply, SetLocalPush, RestoreSaved,
                Body, Goto, Barrier, Exit
  <1> QED BY <1>1, <1>2, <1>3, <1>4, <1>5, <1>6, <1>7, <1>8, <1>9 DEF Install

\* retireMatchingOwner and tryIdleExpire end only the owner whose budget is
\* spent or whose interval elapsed, never the transaction that replaced it.
THEOREM ReplacementSpared == Spec => WatcherSparesReplacement
PROOF
  <1> DEFINE Spared == pc' = pc /\ owner'.id # owner.id => owner.passed \/ owner.quiet
  <1>1. IInv /\ [Next]_vars => Spared
    <2> SUFFICES ASSUME IInv, [Next]_vars, pc' = pc, owner'.id # owner.id
                 PROVE  owner.passed \/ owner.quiet
      OBVIOUS
    <2>1. CASE (\E s \in Statements : Submit(s)) \/ Frame \/ Install \/ Handler
      BY <2>1, CLIMoves
    <2>2. CASE DeadlinePasses \/ IdleElapses
      BY <2>2 DEF DeadlinePasses, IdleElapses, IInv, TypeOK, OwnerType
    <2>3. ASSUME NEW p \in Owners, WatchDeadline(p)
          PROVE  owner.passed \/ owner.quiet
      BY <2>3 DEF WatchDeadline, IInv, GoodOwner, TypeOK, OwnerType
    <2>4. ASSUME NEW f \in idleFired, WatchIdle(f)
          PROVE  owner.passed \/ owner.quiet
      <3>1. Current(f) /\ ~Blocked
        BY <2>4 DEF WatchIdle, IInv, TypeOK, OwnerType
      <3>2. owner.quiet \/ owner.rearm
        BY <3>1 DEF Current, IInv, GoodOwner
      <3> QED BY <3>1, <3>2 DEF Blocked, IInv, ScopeInv
    <2>5. CASE UNCHANGED vars
      BY <2>5 DEF vars
    <2> QED BY <2>1, <2>2, <2>3, <2>4, <2>5 DEF Next
  <1>2. IInv /\ [Next]_vars => [Spared]_vars
    BY <1>1
  <1> QED BY <1>2, Invariance, PTL DEF Spec, WatcherSparesReplacement

\* An idle transaction ends at rest, and only after a whole quiet interval.
THEOREM IdleExpiryIsQuiet == Spec => IdleExpiryNeedsQuiet
PROOF
  <1> DEFINE Quiet == notice' /\ ~notice => depth = 0 /\ hold' = 0 /\ owner.quiet
  <1>1. IInv /\ [Next]_vars => Quiet
    <2> SUFFICES ASSUME IInv, [Next]_vars, notice', ~notice
                 PROVE  depth = 0 /\ hold' = 0 /\ owner.quiet
      OBVIOUS
    <2>1. CASE Unhold
      <3>1. pc = "unhold" /\ hold' = Decremented(hold) /\ ~owner.rearm /\ owner.held
        BY <2>1 DEF Unhold
      <3> QED BY <3>1 DEF Decremented, IInv, TypeOK, FrameInv, AtRest, GoodOwner
    <2>2. CASE \E f \in idleFired : WatchIdle(f)
      <3>1. PICK f \in idleFired : WatchIdle(f)
        BY <2>2
      <3>2. Current(f) /\ ~Blocked /\ UNCHANGED hold
        BY <3>1 DEF WatchIdle, CLIUnchanged
      <3>3. owner.quiet \/ owner.rearm
        BY <3>2 DEF Current, IInv, GoodOwner
      <3> QED BY <3>2, <3>3 DEF Blocked, IInv, ScopeInv, TypeOK
    <2>3. CASE ~Unhold /\ ~(\E f \in idleFired : WatchIdle(f))
      <3>1. ~notice'
        BY <2>3 DEF Next, Submit, Frame, Enter, EntryRestore, Sync, Restore, ConsumeNotice,
             EnsureLazyOwner, Leave, Install, Determine, InstallRetry, InstallPending,
             InstallRW, InstallRO, InstallDump, Handler, ShowStatement, BeginStatement,
             BeginDispatch, BeginRwStatement, BeginRoStatement, SetTransactionStatement,
             EndTransaction, DmlStatement, RunDmlInTransaction, RunDmlImplicit,
             SelectStatement, TryQuery, CompleteQuery, QueryAborted, RunBatchStatement,
             DumpStatement, DumpClose, SetStatement, SetVar, SetLocalStatement,
             SetLocalApply, SetLocalPush, DeadlinePasses, IdleElapses, WatchDeadline, vars
      <3> QED BY <3>1
    <2> QED BY <2>1, <2>2, <2>3
  <1>2. IInv /\ [Next]_vars => [Quiet]_vars
    BY <1>1
  <1> QED BY <1>2, Invariance, PTL DEF Spec, IdleExpiryNeedsQuiet

\* Nothing is left to undo when an owner is installed, so what it captures
\* is what the session would have without any SET LOCAL.
LEMMA NothingToUndo ==
    ASSUME IInv, ~InTxn, ~InstallBlocked, pc \in InstallPoints
    PROVE  SessionValues = sysVars
PROOF
  <1>1. owner.undo = <<>>
    BY NoOwnerFields DEF InTxn, IInv, GoodOwner
  <1>2. pend = <<>> /\ saved = <<>>
    BY DEF InstallBlocked, IInv, SavedInv, InstallPoints
  <1>3. sysVars \in [VarNames -> Durations]
    BY DEF IInv, TypeOK
  <1>4. <<>> \o <<>> \o <<>> = <<>>
    OBVIOUS
  <1> QED BY <1>1, <1>2, <1>3, <1>4, ReplayEmpty DEF SessionValues

\* Only the install points give the manager an owner it did not have.
LEMMA WhoInstalls ==
    ASSUME IInv, [Next]_vars, owner'.id \notin {Nil, owner.id}
    PROVE  /\ pc \in InstallPoints /\ ~InstallBlocked /\ ~InTxn
           /\ owner'.timeout = sysVars["timeout"] /\ owner'.idle = sysVars["idle"]
PROOF
  <1>1. CASE InstallPending
    <2>1. PICK p \in Fresh : owner' = NewOwner(p, "pending")
      BY <1>1 DEF InstallPending
    <2> QED BY <1>1, <2>1, NewOwnerFields DEF InstallPending, InstallPoints, Fresh, OwnerModes
  <1>2. CASE InstallRW
    BY <1>2, BeginReadWriteFacts DEF InstallRW, InstallPoints, Begun
  <1>3. CASE InstallRO
    BY <1>3, BeginReadOnlyFacts DEF InstallRO, InstallPoints, Begun
  <1>4. CASE InstallDump
    BY <1>4, BeginReadOnlyFacts DEF InstallDump, InstallPoints, Begun
  <1>5. CASE Determine \/ SelectStatement
    <2>1. CASE owner.mode = "pending"
      <3>1. InTxn
        BY <2>1, NoOwnerFields DEF InTxn, IInv, GoodOwner
      <3> QED BY <1>5, <3>1, DetermineFacts DEF Determine, SelectStatement, Begun
    <2>2. CASE owner.mode # "pending"
      BY <1>5, <2>2 DEF Determine, SelectStatement, DetermineTransaction
    <2> QED BY <2>1, <2>2
  <1>6. CASE Unhold
    BY <1>6, RearmGood, RetireFacts, NoOwnerFields DEF Unhold, IInv
  <1>7. CASE Frame /\ ~Unhold
    BY <1>7, RetireFacts, NoOwnerFields
       DEF Frame, Enter, EntryRestore, Sync, Restore, ConsumeNotice, EnsureLazyOwner, Leave
  <1>8. CASE RunDmlInTransaction \/ TryQuery \/ CompleteQuery
    <2>1. owner \in OwnerType /\ Arm(owner) \in OwnerType
      BY ArmType DEF IInv, TypeOK
    <2>2. /\ Arm(owner).id = owner.id
          /\ NoteWork(owner).id = owner.id /\ NoteWork(Arm(owner)).id = owner.id
      BY <2>1, ArmFields, NoteWorkFields
    <2> QED BY <1>8, <2>2, RetireFacts, NoOwnerFields
            DEF RunDmlInTransaction, TryQuery, CompleteQuery
  <1>9. CASE SetVar \/ SetLocalApply \/ SetLocalPush
    <2>1. owner \in OwnerType /\ stmt.name \in VarNames
      BY DEF IInv, TypeOK, Statement
    <2> QED BY <1>9, <2>1 DEF SetVar, SetLocalApply, SetLocalPush, OwnerType, VarNames
  <1>10. CASE BeginRoStatement \/ EndTransaction \/ QueryAborted \/ DumpClose
    BY <1>10, RetireFacts, NoOwnerFields
       DEF BeginRoStatement, EndTransaction, QueryAborted, DumpClose
  <1>11. CASE \/ ShowStatement \/ BeginStatement \/ BeginDispatch \/ BeginRwStatement
              \/ SetTransactionStatement \/ DmlStatement \/ RunDmlImplicit
              \/ RunBatchStatement \/ DumpStatement \/ SetStatement \/ SetLocalStatement
              \/ InstallRetry \/ UNCHANGED vars \/ (\E s \in Statements : Submit(s))
    BY <1>11 DEF ShowStatement, BeginStatement, BeginDispatch, BeginRwStatement,
                 SetTransactionStatement, DmlStatement, RunDmlImplicit, RunBatchStatement,
                 DumpStatement, SetStatement, SetLocalStatement, InstallRetry, vars, Submit
  <1>12. CASE DeadlinePasses \/ IdleElapses
    BY <1>12 DEF DeadlinePasses, IdleElapses, IInv, TypeOK, OwnerType
  <1>13. ASSUME NEW p \in Owners, WatchDeadline(p) PROVE FALSE
    BY <1>13, RetireFacts, NoOwnerFields DEF WatchDeadline, IInv, TypeOK, OwnerType
  <1>14. ASSUME NEW f \in idleFired, WatchIdle(f) PROVE FALSE
    BY <1>14, RetireFacts, NoOwnerFields DEF WatchIdle, IInv, TypeOK, OwnerType
  <1> QED BY <1>1, <1>2, <1>3, <1>4, <1>5, <1>6, <1>7, <1>8, <1>9, <1>10, <1>11, <1>12,
             <1>13, <1>14 DEF Next, Frame, Install, Handler

\* A transaction captures durable values: the barriers before every install
\* see to it that no SET LOCAL of a dead owner is still in the registry.
THEOREM CaptureIsDurable == Spec => CapturesSessionValues
PROOF
  <1> DEFINE Durable == \A v \in VarNames :
                owner'.id \notin {Nil, owner.id} => owner'[v] = SessionValues[v]
  <1>1. IInv /\ [Next]_vars => Durable
    <2> SUFFICES ASSUME IInv, [Next]_vars, owner'.id \notin {Nil, owner.id},
                        NEW v \in VarNames
                 PROVE  owner'[v] = SessionValues[v]
      OBVIOUS
    <2>1. /\ SessionValues = sysVars
          /\ owner'.timeout = sysVars["timeout"] /\ owner'.idle = sysVars["idle"]
      BY WhoInstalls, NothingToUndo
    <2> QED BY <2>1 DEF VarNames
  <1>2. IInv /\ [Next]_vars => [Durable]_vars
    BY <1>1
  <1> QED BY <1>2, Invariance, PTL DEF Spec, CapturesSessionValues

----------------------------------------------------------------------------
(* What replaying an undo log computes.                                    *)

\* Replay gives a variable the value of its first entry.
LEMMA ReplayFirst ==
    ASSUME NEW vals, NEW log \in Seq(LocalVar), NEW v \in VarNames, NEW i \in DOMAIN log,
           log[i].name = v, \A j \in 1..(i - 1) : log[j].name # v
    PROVE  Replay(vals, log)[v] = log[i].old
PROOF
  <1> DEFINE First(k) == log[k].name = v /\ \A j \in 1..(k - 1) : log[j].name # v
  <1>1. \A k \in DOMAIN log : First(k) => k = i
    <2> SUFFICES ASSUME NEW k \in DOMAIN log, First(k)
                 PROVE  ~ (k < i) /\ ~ (i < k)
      OBVIOUS
    <2>1. k \in Nat /\ i \in Nat /\ 1 <= k /\ 1 <= i
      OBVIOUS
    <2>2. ~ (k \in 1..(i - 1)) /\ ~ (i \in 1..(k - 1))
      OBVIOUS
    <2> QED BY <2>1, <2>2
  <1>2. (CHOOSE k \in DOMAIN log : First(k)) = i
    BY <1>1
  <1> QED BY <1>2 DEF Replay

\* ... or leaves it alone.
LEMMA ReplayNone ==
    ASSUME NEW vals, NEW log \in Seq(LocalVar), NEW v \in VarNames,
           \A i \in DOMAIN log : log[i].name # v
    PROVE  Replay(vals, log)[v] = vals[v]
BY DEF Replay

\* Replaying a log and what follows it: the last entries first.
LEMMA ReplayConcat ==
    ASSUME NEW vals, NEW a \in Seq(LocalVar), NEW b \in Seq(LocalVar)
    PROVE  Replay(vals, a \o b) = Replay(Replay(vals, b), a)
PROOF
  <1> DEFINE c == a \o b
             w == Replay(vals, b)
  <1>1. /\ c \in Seq(LocalVar) /\ Len(c) = Len(a) + Len(b) /\ DOMAIN c = 1..(Len(a) + Len(b))
        /\ \A i \in 1..Len(a) : c[i] = a[i]
        /\ \A i \in 1..Len(b) : c[Len(a) + i] = b[i]
        /\ DOMAIN a = 1..Len(a) /\ DOMAIN b = 1..Len(b) /\ Len(a) \in Nat /\ Len(b) \in Nat
    OBVIOUS
  <1> HIDE DEF c, w
  <1>2. c \in Seq(LocalVar)
    BY <1>1
  <1>3. ASSUME NEW v \in VarNames
        PROVE  Replay(vals, c)[v] = Replay(w, a)[v]
    <2>1. CASE \E i \in DOMAIN a : a[i].name = v
      <3>1. PICK i \in DOMAIN a : a[i].name = v /\ \A j \in 1..(i - 1) : a[j].name # v
        BY <2>1, FirstEntryExists
      <3>2. i \in DOMAIN c /\ c[i] = a[i] /\ \A j \in 1..(i - 1) : c[j] = a[j]
        BY <1>1
      <3>3. c[i].name = v /\ \A j \in 1..(i - 1) : c[j].name # v
        BY <3>1, <3>2
      <3>4. Replay(vals, c)[v] = c[i].old
        BY <1>2, <3>2, <3>3, ReplayFirst
      <3>5. Replay(w, a)[v] = a[i].old
        BY <3>1, ReplayFirst
      <3> QED BY <3>2, <3>4, <3>5
    <2>2. CASE /\ \A i \in DOMAIN a : a[i].name # v
               /\ \E i \in DOMAIN b : b[i].name = v
      <3>1. PICK i \in DOMAIN b : b[i].name = v /\ \A j \in 1..(i - 1) : b[j].name # v
        BY <2>2, FirstEntryExists
      <3> DEFINE k == Len(a) + i
      <3>2. k \in DOMAIN c /\ c[k] = b[i]
        BY <1>1
      <3>3. ASSUME NEW j \in 1..(k - 1)
            PROVE  c[j].name # v
        <4>1. CASE j \in 1..Len(a)
          BY <1>1, <2>2, <4>1
        <4>2. CASE j > Len(a)
          <5> DEFINE m == j - Len(a)
          <5>1. m \in 1..(i - 1) /\ m \in 1..Len(b) /\ Len(a) + m = j
            BY <1>1, <4>2
          <5>2. c[j] = b[m]
            BY <1>1, <5>1
          <5> QED BY <3>1, <5>1, <5>2
        <4> QED BY <1>1, <4>1, <4>2
      <3>4. c[k].name = v
        BY <3>1, <3>2
      <3> HIDE DEF k
      <3>5. Replay(vals, c)[v] = c[k].old
        BY <1>2, <3>2, <3>3, <3>4, ReplayFirst
      <3>6. Replay(w, a)[v] = w[v]
        BY <2>2, ReplayNone
      <3>7. w[v] = b[i].old
        BY <3>1, ReplayFirst DEF w
      <3> QED BY <3>2, <3>5, <3>6, <3>7
    <2>3. CASE /\ \A i \in DOMAIN a : a[i].name # v
               /\ \A i \in DOMAIN b : b[i].name # v
      <3>1. ASSUME NEW j \in DOMAIN c
            PROVE  c[j].name # v
        <4>1. CASE j \in 1..Len(a)
          BY <1>1, <2>3, <4>1
        <4>2. CASE j > Len(a)
          <5> DEFINE m == j - Len(a)
          <5>1. m \in 1..Len(b) /\ Len(a) + m = j
            BY <1>1, <4>2
          <5>2. c[j] = b[m]
            BY <1>1, <5>1
          <5> QED BY <1>1, <2>3, <5>1, <5>2
        <4> QED BY <1>1, <4>1, <4>2
      <3>2. Replay(vals, c)[v] = vals[v] /\ w[v] = vals[v] /\ Replay(w, a)[v] = w[v]
        BY <1>1, <2>3, <3>1, ReplayNone DEF w
      <3> QED BY <3>2
    <2> QED BY <2>1, <2>2, <2>3
  <1>4. /\ Replay(vals, c) = [v \in VarNames |-> Replay(vals, c)[v]]
        /\ Replay(w, a) = [v \in VarNames |-> Replay(w, a)[v]]
    BY DEF Replay
  <1>5. Replay(vals, c) = Replay(w, a)
    BY <1>3, <1>4
  <1> QED BY <1>5 DEF c, w

\* A log of one entry.
LEMMA ReplayOne ==
    ASSUME NEW vals \in [VarNames -> Durations], NEW n \in VarNames, NEW x \in Durations
    PROVE  Replay(vals, <<[name |-> n, old |-> x]>>) = [vals EXCEPT ![n] = x]
PROOF
  <1> DEFINE e == [name |-> n, old |-> x]
             log == <<e>>
             r == Replay(vals, log)
  <1>1. e \in LocalVar /\ e.name = n /\ e.old = x
    BY DEF LocalVar
  <1> HIDE DEF e
  <1>2. log \in Seq(LocalVar) /\ DOMAIN log = {1} /\ log[1] = e
    BY <1>1
  <1> HIDE DEF log
  <1>3. r[n] = x
    BY <1>1, <1>2, ReplayFirst
  <1>4. \A v \in VarNames \ {n} : r[v] = vals[v]
    BY <1>1, <1>2, ReplayNone
  <1>5. r = [v \in VarNames |-> r[v]]
    BY DEF Replay
  <1> HIDE DEF r
  <1>6. r = [vals EXCEPT ![n] = x]
    BY <1>3, <1>4, <1>5
  <1> QED BY <1>6 DEF r, log, e

\* The registry with v set to x
Assigned(vals, v, x) == [vals EXCEPT ![v] = x]

\* SET takes the variable out of the log, so its value stands.
LEMMA ReplayDropped ==
    ASSUME NEW vals \in [VarNames -> Durations], NEW n \in VarNames, NEW x \in Durations,
           NEW log \in Seq(LocalVar), NEW w, w = Assigned(vals, n, x)
    PROVE  Replay(w, DropName(log, n)) = Assigned(Replay(vals, log), n, x)
PROOF
  <1> DEFINE d == DropName(log, n)
             r == Replay(w, d)
             q == Replay(vals, log)
  <1>1. /\ d \in Seq(LocalVar) /\ DOMAIN d = DOMAIN log
        /\ \A i \in DOMAIN log : d[i] = IF log[i].name = n THEN Deleted ELSE log[i]
    BY DropNameType DEF DropName
  <1>2. Deleted.name = NoName /\ \A v \in VarNames : v # NoName
    BY DEF Deleted, NoName, VarNames
  <1>3. /\ w[n] = x /\ \A v \in VarNames \ {n} : w[v] = vals[v]
        /\ w \in [VarNames -> Durations]
    BY DEF Assigned
  <1>4. DOMAIN log = 1..Len(log) /\ Len(log) \in Nat
    OBVIOUS
  <1> HIDE DEF d
  <1>5. r[n] = x
    <2>1. \A i \in DOMAIN d : d[i].name # n
      BY <1>1, <1>2
    <2>2. d \in Seq(LocalVar)
      BY <1>1
    <2>3. r[n] = w[n]
      BY <2>1, <2>2, ReplayNone
    <2> QED BY <1>3, <2>3
  <1>6. ASSUME NEW v \in VarNames, v # n
        PROVE  r[v] = q[v]
    <2>1. \A i \in DOMAIN log : (d[i].name = v <=> log[i].name = v)
                                /\ (log[i].name = v => d[i] = log[i])
      BY <1>1, <1>2, <1>6
    <2>2. CASE \E i \in DOMAIN log : log[i].name = v
      <3>1. PICK i \in DOMAIN log : log[i].name = v /\ \A j \in 1..(i - 1) : log[j].name # v
        BY <2>2, FirstEntryExists
      <3>2. \A j \in 1..(i - 1) : j \in DOMAIN log
        BY <1>4
      <3>3. i \in DOMAIN d /\ d[i].name = v /\ \A j \in 1..(i - 1) : d[j].name # v
        BY <1>1, <2>1, <3>1, <3>2
      <3>4. r[v] = d[i].old
        BY <1>1, <3>3, ReplayFirst
      <3>5. q[v] = log[i].old
        BY <3>1, ReplayFirst
      <3> QED BY <2>1, <3>1, <3>4, <3>5
    <2>3. CASE \A i \in DOMAIN log : log[i].name # v
      <3>1. r[v] = w[v] /\ q[v] = vals[v]
        <4>1. \A i \in DOMAIN d : d[i].name # v
          BY <1>1, <2>1, <2>3
        <4>2. d \in Seq(LocalVar)
          BY <1>1
        <4>3. r[v] = w[v]
          BY <4>1, <4>2, ReplayNone
        <4>4. q[v] = vals[v]
          BY <2>3, ReplayNone
        <4> QED BY <4>3, <4>4
      <3> QED BY <1>3, <1>6, <3>1
    <2> QED BY <2>2, <2>3
  <1>7. r = [v \in VarNames |-> r[v]] /\ q = [v \in VarNames |-> q[v]]
    BY DEF Replay
  <1> HIDE DEF r, q
  <1>8. r = Assigned(q, n, x)
    BY <1>5, <1>6, <1>7 DEF Assigned
  <1> QED BY <1>8 DEF r, q, d

----------------------------------------------------------------------------
(* The refinement of LocalScope.                                           *)

\* A log waiting to be replayed has no owner beside it, and none is waiting
\* when SET writes; SET LOCAL's saved value is the one it will put back.
UndoInv ==
    /\ InTxn => pend = <<>>
    /\ pc = "setVar" => pend = <<>>
    /\ pc = "setVar" \/ (pc \in {"sync", "restore"} /\ ret = "setVar") => stmt.kind = "set"
    /\ pc \in {"setLocalApply", "setLocalPush"} =>
         /\ stmt.kind = "setLocal"
         /\ \E x \in Durations : saved = <<[name |-> stmt.name, old |-> x]>>

\* What a step may do to the owner, its log and the registry: nothing;
Retains ==
    /\ InTxn' = InTxn /\ pend' = pend /\ owner'.undo = owner.undo
    /\ sysVars' = sysVars /\ saved' = saved
\* An owner is installed.
Opens ==
    /\ ~InTxn /\ InTxn' /\ owner'.undo = <<>>
    /\ pend = <<>> /\ pend' = <<>>
    /\ sysVars' = sysVars /\ saved' = saved /\ saved = <<>>
\* The owner is retired; its log waits to be replayed.
Retires == InTxn /\ Retire /\ sysVars' = sysVars /\ saved = <<>> /\ saved' = <<>>
\* The restore: replays the waiting log.
Restores == RestoreLocalVars /\ owner' = owner /\ saved = <<>> /\ saved' = <<>>
\* SET.
Sets ==
    /\ stmt.kind = "set" /\ pend = <<>> /\ pend' = <<>> /\ InTxn' = InTxn
    /\ saved = <<>> /\ saved' = <<>>
    /\ sysVars' = [sysVars EXCEPT ![stmt.name] = stmt.val]
    /\ owner'.undo = DropName(owner.undo, stmt.name)
\* SET LOCAL: the setter, with the old value saved.
SetsLocal ==
    /\ stmt.kind = "setLocal" /\ InTxn /\ owner' = owner /\ pend' = pend
    /\ saved = <<>> /\ saved' = <<[name |-> stmt.name, old |-> sysVars[stmt.name]]>>
    /\ sysVars' = [sysVars EXCEPT ![stmt.name] = stmt.val]
\* SET LOCAL: the setter undone.
TakesBack ==
    /\ stmt.kind = "setLocal" /\ InTxn /\ owner' = owner /\ pend' = pend
    /\ saved' = <<>>
    /\ \E x \in Durations :
          /\ saved = <<[name |-> stmt.name, old |-> x]>>
          /\ sysVars' = [sysVars EXCEPT ![stmt.name] = x]
\* SET LOCAL: the saved value enters the log.
Pushes ==
    /\ InTxn' = InTxn /\ pend' = pend /\ sysVars' = sysVars
    /\ saved' = <<>> /\ owner'.undo = owner.undo \o saved

\* A step of LocalScope, or a stutter, under the refinement mapping.
ScopeStep == Scope!Next \/ UNCHANGED <<ScopeOpen, SessionValues, sysVars>>

\* The logs are sequences of entries.
LEMMA LogTypes ==
    ASSUME IInv
    PROVE  /\ pend \in Seq(LocalVar) /\ owner.undo \in Seq(LocalVar) /\ saved \in Seq(LocalVar)
           /\ sysVars \in [VarNames -> Durations] /\ stmt \in Statement
           /\ ~InTxn => owner = NoOwner /\ owner.undo = <<>>
PROOF
  <1>1. ~InTxn => owner = NoOwner /\ owner.undo = <<>>
    BY NoOwnerFields DEF IInv, GoodOwner, InTxn
  <1> QED BY <1>1 DEF IInv, TypeOK, OwnerType

\* The empty log on either side of a log.
LEMMA ConcatEmpty ==
    ASSUME NEW X, NEW s \in Seq(X)
    PROVE  s \o <<>> = s /\ <<>> \o s = s
OBVIOUS

\* A step that leaves owner, log and registry alone is not one of LocalScope's.
LEMMA RetainsStep ==
    ASSUME Retains
    PROVE  ScopeStep
PROOF
  <1>1. ScopeOpen' = ScopeOpen
    BY DEF Retains, ScopeOpen
  <1>2. SessionValues' = SessionValues
    BY DEF Retains, SessionValues
  <1> QED BY <1>1, <1>2 DEF ScopeStep, Retains

\* A new owner opens the scope: with no log, the values in force are the
\* session's.
LEMMA OpensStep ==
    ASSUME IInv, Opens
    PROVE  ScopeStep
PROOF
  <1>1. ~ScopeOpen /\ ScopeOpen'
    BY DEF Opens, ScopeOpen
  <1>2. owner.undo = <<>>
    BY LogTypes DEF Opens
  <1>3. SessionValues' = SessionValues
    BY <1>2 DEF Opens, SessionValues
  <1> QED BY <1>1, <1>3 DEF ScopeStep, Scope!Next, Scope!Begin, Opens

\* What becomes of a scope without a log to replay: the values in force are
\* the session's.
LEMMA NoLog ==
    ASSUME IInv, pend \o owner.undo = <<>>, saved = <<>>
    PROVE  SessionValues = sysVars
PROOF
  <1>1. (pend \o owner.undo) \o saved = <<>>
    BY ConcatEmpty, LogTypes
  <1> QED BY <1>1, LogTypes, ReplayEmpty DEF SessionValues

\* The end of an owner with a log to replay is not yet seen; without one, it
\* is the end of the scope.
LEMMA RetiresStep ==
    ASSUME IInv, Retires
    PROVE  ScopeStep
PROOF
  <1> DEFINE log == pend \o owner.undo
  <1>1. pend' = log /\ owner'.undo = <<>> /\ ~InTxn' /\ log \in Seq(LocalVar)
    BY LogTypes, NoOwnerFields DEF Retires, Retire, InTxn, NoOwner
  <1>2. /\ SessionValues = Replay(sysVars, log \o <<>>)
        /\ SessionValues' = Replay(sysVars, (log \o <<>>) \o <<>>)
    BY <1>1 DEF Retires, SessionValues
  <1>3. log \o <<>> = log
    BY <1>1, ConcatEmpty
  <1>4. SessionValues' = SessionValues
    BY <1>2, <1>3
  <1>5. ScopeOpen
    BY DEF Retires, ScopeOpen
  <1>6. CASE log = <<>>
    <2>1. SessionValues = sysVars
      BY <1>6, NoLog DEF Retires
    <2>2. ScopeOpen' = FALSE
      BY <1>1, <1>6 DEF ScopeOpen
    <2> QED BY <1>4, <1>5, <2>1, <2>2 DEF ScopeStep, Scope!Next, Scope!End, Retires
  <1>7. CASE log # <<>>
    <2>1. ScopeOpen'
      BY <1>1, <1>7 DEF ScopeOpen
    <2> QED BY <1>4, <1>5, <2>1 DEF ScopeStep, Retires
  <1> QED BY <1>6, <1>7

\* Replaying the log brings every value back to the session's at once: the end
\* of the scope.
LEMMA RestoresStep ==
    ASSUME IInv, Restores
    PROVE  ScopeStep
PROOF
  <1>1. CASE InTxn
    <2>1. Retains
      BY <1>1 DEF Restores, RestoreLocalVars, Retains, InTxn
    <2> QED BY <2>1, RetainsStep
  <1>2. CASE ~InTxn
    <2>1. /\ sysVars' = Replay(sysVars, pend) /\ pend' = <<>>
          /\ owner.undo = <<>> /\ owner' = owner /\ saved = <<>> /\ saved' = <<>>
      BY <1>2, LogTypes DEF Restores, RestoreLocalVars
    <2>2. (pend \o <<>>) \o <<>> = pend /\ (<<>> \o <<>>) \o <<>> = <<>>
      BY LogTypes, ConcatEmpty
    <2>3. SessionValues = Replay(sysVars, pend)
      BY <2>1, <2>2 DEF SessionValues
    <2>4. SessionValues' = Replay(sysVars', <<>>)
      BY <2>1, <2>2 DEF SessionValues
    <2>5. sysVars' \in [VarNames -> Durations]
      BY <2>1, LogTypes, ReplayType
    <2>6. SessionValues' = sysVars'
      BY <2>4, <2>5, ReplayEmpty
    <2>7. ScopeOpen' = FALSE
      BY <1>2, <2>1 DEF InTxn, ScopeOpen
    <2>8. CASE pend = <<>>
      <3>1. SessionValues = sysVars /\ ScopeOpen = FALSE
        BY <1>2, <2>3, <2>8, LogTypes, ReplayEmpty DEF ScopeOpen
      <3> QED BY <2>1, <2>3, <2>6, <2>7, <3>1 DEF ScopeStep
    <2>9. CASE pend # <<>>
      <3>1. ScopeOpen
        BY <2>9 DEF ScopeOpen
      <3> QED BY <2>1, <2>3, <2>6, <2>7, <3>1 DEF ScopeStep, Scope!Next, Scope!End
    <2> QED BY <2>8, <2>9
  <1> QED BY <1>1, <1>2

\* SET assigns the variable in force and the session's at once.
LEMMA SetsStep ==
    ASSUME IInv, Sets
    PROVE  ScopeStep
PROOF
  <1> DEFINE n == stmt.name
             x == stmt.val
             u == owner.undo
             d == DropName(u, n)
  <1>1. n \in VarNames /\ x \in Durations /\ u \in Seq(LocalVar) /\ d \in Seq(LocalVar)
    BY LogTypes, DropNameType DEF Statement
  <1>2. (<<>> \o u) \o <<>> = u /\ (<<>> \o d) \o <<>> = d
    BY <1>1, ConcatEmpty
  <1> HIDE DEF d
  <1>3. SessionValues = Replay(sysVars, u) /\ SessionValues' = Replay(sysVars', d)
    BY <1>2 DEF Sets, SessionValues, d
  <1>4. sysVars' = [sysVars EXCEPT ![n] = x]
    BY DEF Sets
  <1> HIDE DEF n, x, u
  <1>5. Replay(sysVars', d) = Assigned(Replay(sysVars, u), n, x)
    <2>1. sysVars \in [VarNames -> Durations]
      BY LogTypes
    <2>2. sysVars' = Assigned(sysVars, n, x)
      BY <1>4 DEF Assigned
    <2> QED BY <1>1, <2>1, <2>2, ReplayDropped DEF d
  <1>6. SessionValues' = [SessionValues EXCEPT ![n] = x]
    BY <1>3, <1>5 DEF Assigned
  <1>7. ScopeOpen' = ScopeOpen
    BY DEF Sets, ScopeOpen
  <1>8. stmt.kind = "set"
    BY DEF Sets
  <1> QED BY <1>1, <1>4, <1>7, <1>8, <1>6 DEF ScopeStep, Scope!Next, Scope!Set

\* SET LOCAL assigns the variable in force; what it saved keeps the session's.
LEMMA SetsLocalStep ==
    ASSUME IInv, SetsLocal
    PROVE  ScopeStep
PROOF
  <1> DEFINE n == stmt.name
             x == stmt.val
             log == pend \o owner.undo
             e == <<[name |-> n, old |-> sysVars[n]]>>
  <1>1. n \in VarNames /\ x \in Durations /\ log \in Seq(LocalVar) /\ sysVars[n] \in Durations
    BY LogTypes DEF Statement
  <1>2. e \in Seq(LocalVar)
    BY <1>1 DEF LocalVar
  <1>3. sysVars' = [sysVars EXCEPT ![n] = x]
    BY DEF SetsLocal
  <1>4. SessionValues = Replay(sysVars, log) /\ SessionValues' = Replay(sysVars', log \o e)
    BY <1>1, ConcatEmpty DEF SetsLocal, SessionValues
  <1>5. sysVars' \in [VarNames -> Durations] /\ [sysVars' EXCEPT ![n] = sysVars[n]] = sysVars
    BY <1>1, <1>3, LogTypes
  <1>6. Replay(sysVars', e) = sysVars
    BY <1>1, <1>5, ReplayOne
  <1> HIDE DEF log, e
  <1>7. SessionValues' = SessionValues
    BY <1>1, <1>2, <1>4, <1>6, ReplayConcat
  <1>8. ScopeOpen /\ ScopeOpen'
    BY DEF SetsLocal, ScopeOpen, InTxn
  <1>9. stmt.kind = "setLocal"
    BY DEF SetsLocal
  <1> HIDE DEF n, x
  <1> QED BY <1>1, <1>3, <1>7, <1>8, <1>9 DEF ScopeStep, Scope!Next, Scope!SetLocal

\* SET LOCAL on a frozen duration assigns the value it saved.
LEMMA TakesBackStep ==
    ASSUME IInv, TakesBack
    PROVE  ScopeStep
PROOF
  <1>1. PICK x \in Durations : /\ saved = <<[name |-> stmt.name, old |-> x]>>
                               /\ sysVars' = [sysVars EXCEPT ![stmt.name] = x]
    BY DEF TakesBack
  <1> DEFINE n == stmt.name
             log == pend \o owner.undo
  <1>2. n \in VarNames /\ log \in Seq(LocalVar)
    BY LogTypes DEF Statement
  <1>3. SessionValues = Replay(sysVars, log \o saved) /\ SessionValues' = Replay(sysVars', log)
    BY <1>2, ConcatEmpty DEF TakesBack, SessionValues
  <1>4. Replay(sysVars, saved) = sysVars'
    BY <1>1, <1>2, LogTypes, ReplayOne
  <1> HIDE DEF log
  <1>5. SessionValues' = SessionValues
    BY <1>2, <1>3, <1>4, LogTypes, ReplayConcat
  <1>6. ScopeOpen /\ ScopeOpen' /\ stmt.kind = "setLocal"
    BY DEF TakesBack, ScopeOpen, InTxn
  <1>7. sysVars' = [sysVars EXCEPT ![n] = x]
    BY <1>1
  <1> HIDE DEF n
  <1> QED BY <1>2, <1>5, <1>6, <1>7 DEF ScopeStep, Scope!Next, Scope!SetLocal

\* What SET LOCAL saved moves to the end of the owner's log: nothing is seen.
LEMMA PushesStep ==
    ASSUME IInv, Pushes
    PROVE  ScopeStep
PROOF
  <1>1. (pend \o (owner.undo \o saved)) \o <<>> = (pend \o owner.undo) \o saved
    <2> DEFINE u == owner.undo
    <2>1. pend \in Seq(LocalVar) /\ u \in Seq(LocalVar) /\ saved \in Seq(LocalVar)
      BY LogTypes
    <2> HIDE DEF u
    <2>2. (pend \o (u \o saved)) \o <<>> = (pend \o u) \o saved
      BY <2>1
    <2> QED BY <2>2 DEF u
  <1>2. SessionValues' = SessionValues
    BY <1>1 DEF Pushes, SessionValues
  <1>3. ScopeOpen' = ScopeOpen
    BY DEF Pushes, ScopeOpen
  <1> QED BY <1>2, <1>3 DEF ScopeStep, Pushes

\* Beginning a transaction on an owner keeps the owner's log; a new owner has
\* none.
BegunLog == owner'.undo = owner.undo /\ (InTxn => InTxn')

\* Arming, timing and a mode leave the log and the identity alone.
LEMMA OwnerLog ==
    ASSUME NEW o \in OwnerType
    PROVE  /\ Arm(o).undo = o.undo /\ Arm(o).id = o.id /\ Arm(o) \in OwnerType
           /\ NoteWork(o).undo = o.undo /\ NoteWork(o).id = o.id
           /\ Rearm(o).undo = o.undo /\ Rearm(o).id = o.id
           /\ \A m : /\ NoteWork([o EXCEPT !.mode = m]).undo = o.undo
                     /\ NoteWork([o EXCEPT !.mode = m]).id = o.id
PROOF
  <1>1. Arm(o) \in OwnerType
    BY ArmType
  <1> QED BY <1>1 DEF Arm, NoteWork, Rearm, OwnerType

\* A new owner has no log.
LEMMA NewOwnerLog ==
    ASSUME NEW p \in Owners, NEW m
    PROVE  NewOwner(p, m).undo = <<>> /\ NewOwner(p, m).id = p /\ NoOwner.undo = <<>>
BY DEF NewOwner, NoOwner

\* The owner a begin works on has the log of the current one.
LEMMA ActivatedLog ==
    ASSUME IInv, NEW o \in {owner} \cup {NewOwner(p, "none") : p \in Fresh}, Activated(o)
    PROVE  o.undo = owner.undo /\ o \in OwnerType /\ o.id # Nil
PROOF
  <1>1. o \in OwnerType /\ o.id # Nil /\ (InTxn => o = owner)
    BY ActivatedFacts
  <1>2. ASSUME ~InTxn PROVE o.undo = owner.undo
    <2>1. PICK p \in Fresh : o = NewOwner(p, "none")
      BY <1>2 DEF Activated
    <2> QED BY <1>2, <2>1, NewOwnerLog, LogTypes DEF Fresh
  <1> QED BY <1>1, <1>2

\* ... whether the read-write begin succeeds or fails ...
LEMMA BeginReadWriteLog ==
    ASSUME IInv, NEW ACTION A, NEW ACTION B, BeginReadWrite(A, B)
    PROVE  BegunLog
PROOF
  <1>1. PICK o \in {owner} \cup {NewOwner(p, "none") : p \in Fresh} :
           /\ Activated(o)
           /\ \/ owner' = NoteWork([Arm(o) EXCEPT !.mode = "rw"])
              \/ owner' = IF InTxn THEN Arm(o) ELSE NoOwner
    BY DEF BeginReadWrite
  <1>2. o.undo = owner.undo /\ o \in OwnerType /\ o.id # Nil
    BY <1>1, ActivatedLog
  <1>3. CASE owner' = NoteWork([Arm(o) EXCEPT !.mode = "rw"])
    <2>1. Arm(o) \in OwnerType /\ Arm(o).undo = o.undo /\ Arm(o).id = o.id
      BY <1>2, OwnerLog
    <2>2. owner'.undo = o.undo /\ owner'.id = o.id
      BY <1>3, <2>1, OwnerLog
    <2> QED BY <1>2, <2>2 DEF BegunLog, InTxn
  <1>4. CASE owner' = IF InTxn THEN Arm(o) ELSE NoOwner
    <2>1. Arm(o).undo = o.undo /\ Arm(o).id = o.id
      BY <1>2, OwnerLog
    <2> QED BY <1>2, <1>4, <2>1, LogTypes DEF BegunLog, InTxn
  <1> QED BY <1>1, <1>3, <1>4

\* ... and so does a read-only begin ...
LEMMA BeginReadOnlyLog ==
    ASSUME IInv, NEW ACTION A, NEW ACTION B, BeginReadOnly(A, B)
    PROVE  BegunLog
PROOF
  <1>1. CASE owner' = owner
    BY <1>1 DEF BegunLog, InTxn
  <1>2. CASE \E o \in {owner} \cup {NewOwner(p, "none") : p \in Fresh} :
                Activated(o) /\ owner' = NoteWork([o EXCEPT !.mode = "ro"])
    <2>1. PICK o \in {owner} \cup {NewOwner(p, "none") : p \in Fresh} :
             Activated(o) /\ owner' = NoteWork([o EXCEPT !.mode = "ro"])
      BY <1>2
    <2>2. o.undo = owner.undo /\ o \in OwnerType /\ o.id # Nil
      BY <2>1, ActivatedLog
    <2> QED BY <2>1, <2>2, OwnerLog DEF BegunLog, InTxn
  <1> QED BY <1>1, <1>2 DEF BeginReadOnly

\* ... and settling a pending owner, which installs none.
LEMMA DetermineLog ==
    ASSUME IInv, NEW ACTION A, NEW ACTION B, DetermineTransaction(A, B)
    PROVE  BegunLog /\ (InTxn' = InTxn)
PROOF
  <1>1. CASE owner.mode # "pending"
    BY <1>1 DEF DetermineTransaction, BegunLog, InTxn
  <1>2. CASE owner.mode = "pending"
    <2>1. InTxn
      BY <1>2, LogTypes DEF NoOwner
    <2>2. BegunLog
      BY <1>2, BeginReadOnlyLog, BeginReadWriteLog DEF DetermineTransaction
    <2> QED BY <2>1, <2>2 DEF BegunLog, InTxn
  <1> QED BY <1>1, <1>2

\* The eight kinds of step.
Kinded == Retains \/ Opens \/ Retires \/ Restores \/ Sets \/ SetsLocal \/ TakesBack \/ Pushes

\* Installing an owner, or failing to.
LEMMA BegunKinded ==
    ASSUME IInv, UndoInv, BegunLog, pend' = pend, sysVars' = sysVars, saved' = saved,
           ~InTxn => pend = <<>> /\ saved = <<>>
    PROVE  Kinded
PROOF
  <1>1. CASE InTxn' = InTxn
    BY <1>1 DEF BegunLog, Retains, Kinded
  <1>2. CASE InTxn' # InTxn
    <2>1. ~InTxn /\ InTxn'
      BY <1>2 DEF BegunLog, InTxn
    <2> QED BY <2>1, LogTypes DEF BegunLog, Opens, Kinded
  <1> QED BY <1>1, <1>2

\* The log ends with its owner.
LEMMA RetireKinded ==
    ASSUME IInv, UndoInv, Retire, sysVars' = sysVars, saved' = saved, saved = <<>>
    PROVE  Kinded
PROOF
  <1>1. CASE InTxn
    BY <1>1 DEF Retires, Kinded
  <1>2. CASE ~InTxn
    <2>1. owner = NoOwner /\ owner.undo = <<>> /\ pend \o <<>> = pend
      BY <1>2, LogTypes, ConcatEmpty
    <2>2. owner' = owner /\ pend' = pend
      BY <2>1 DEF Retire
    <2>3. Retains
      BY <2>2 DEF Retains, InTxn
    <2> QED BY <2>3 DEF Kinded
  <1> QED BY <1>1, <1>2

\* A step that leaves the identity, the logs and the registry alone.
LEMMA SameKinded ==
    ASSUME owner' = owner \/ (owner'.undo = owner.undo /\ owner'.id = owner.id),
           pend' = pend, sysVars' = sysVars, saved' = saved
    PROVE  Kinded
BY DEF Kinded, Retains, InTxn

\* What the frame around a statement does to the owner, its log and the registry.
LEMMA FrameKinded ==
    ASSUME IInv, UndoInv, Frame
    PROVE  Kinded
PROOF
  <1>1. pc \notin {"setLocalApply", "setLocalPush"} => saved = <<>>
    BY DEF IInv, SavedInv
  <1>2. CASE Enter \/ ConsumeNotice \/ EnsureLazyOwner
    BY <1>2, SameKinded DEF Enter, ConsumeNotice, EnsureLazyOwner
  <1>3. CASE EntryRestore \/ Restore
    BY <1>1, <1>3 DEF EntryRestore, Restore, Restores, Kinded
  <1>4. CASE Sync \/ Leave
    BY <1>1, <1>4, SameKinded, RetireKinded DEF Sync, Leave
  <1>5. CASE Unhold
    <2>1. Rearm(owner).undo = owner.undo /\ Rearm(owner).id = owner.id
      BY OwnerLog DEF IInv, TypeOK
    <2> QED BY <1>1, <1>5, <2>1, SameKinded, RetireKinded DEF Unhold
  <1> QED BY <1>2, <1>3, <1>4, <1>5 DEF Frame

\* What installing an owner does to them ...
LEMMA InstallKinded ==
    ASSUME IInv, UndoInv, Install
    PROVE  Kinded
PROOF
  <1>1. pc \in InstallPoints => saved = <<>>
    BY DEF IInv, SavedInv, InstallPoints
  <1>2. ~InTxn /\ ~InstallBlocked => pend = <<>>
    BY DEF InstallBlocked
  <1>3. CASE Determine
    <2>1. pend' = pend /\ sysVars' = sysVars /\ saved' = saved
      BY <1>3 DEF Determine
    <2>2. CASE owner' = owner
      BY <2>1, <2>2, SameKinded
    <2>3. CASE DetermineTransaction(Goto("body"), Exit)
      BY <2>1, <2>3, DetermineLog, SameKinded DEF BegunLog, Retains, Kinded
    <2> QED BY <1>3, <2>2, <2>3 DEF Determine
  <1>4. CASE InstallRetry
    BY <1>4, SameKinded DEF InstallRetry
  <1>5. CASE InstallPending
    <2>1. PICK p \in Fresh : owner' = NewOwner(p, "pending")
      BY <1>5 DEF InstallPending
    <2>2. owner'.undo = <<>> /\ ~InTxn /\ owner.undo = <<>>
      BY <1>5, <2>1, NewOwnerLog, LogTypes DEF Fresh, InstallPending
    <2>3. BegunLog
      BY <2>2 DEF BegunLog
    <2> QED BY <1>1, <1>2, <1>5, <2>3, BegunKinded DEF InstallPending, InstallPoints
  <1>6. CASE InstallRW
    BY <1>1, <1>2, <1>6, BeginReadWriteLog, BegunKinded DEF InstallRW, InstallPoints
  <1>7. CASE InstallRO
    BY <1>1, <1>2, <1>7, BeginReadOnlyLog, BegunKinded DEF InstallRO, InstallPoints
  <1>8. CASE InstallDump
    <2>1. CASE owner.mode = "rw"
      BY <1>8, <2>1, SameKinded DEF InstallDump
    <2>2. CASE owner.mode # "rw"
      BY <1>1, <1>2, <1>8, <2>2, BeginReadOnlyLog, BegunKinded DEF InstallDump, InstallPoints
    <2> QED BY <2>1, <2>2
  <1> QED BY <1>3, <1>4, <1>5, <1>6, <1>7, <1>8 DEF Install

\* ... and the statement handlers.
LEMMA HandlerKinded ==
    ASSUME IInv, UndoInv, Handler
    PROVE  Kinded
PROOF
  <1>1. pc \notin {"setLocalApply", "setLocalPush"} => saved = <<>>
    BY DEF IInv, SavedInv
  <1>2. owner \in OwnerType /\ Arm(owner) \in OwnerType
    BY ArmType DEF IInv, TypeOK
  <1>3. CASE \/ ShowStatement \/ BeginStatement \/ BeginDispatch \/ BeginRwStatement
             \/ SetTransactionStatement \/ DmlStatement \/ RunDmlImplicit
             \/ RunBatchStatement \/ DumpStatement \/ SetStatement
    BY <1>3, SameKinded
       DEF ShowStatement, BeginStatement, BeginDispatch, BeginRwStatement,
           SetTransactionStatement, DmlStatement, RunDmlImplicit, RunBatchStatement,
           DumpStatement, SetStatement
  <1>4. CASE BeginRoStatement \/ EndTransaction \/ QueryAborted \/ DumpClose
    BY <1>1, <1>4, SameKinded, RetireKinded
       DEF BeginRoStatement, EndTransaction, QueryAborted, DumpClose, Body
  <1>5. CASE RunDmlInTransaction
    <2>1. NoteWork(Arm(owner)).undo = owner.undo /\ NoteWork(Arm(owner)).id = owner.id
      BY <1>2, OwnerLog
    <2> QED BY <1>1, <1>5, <2>1, SameKinded, RetireKinded DEF RunDmlInTransaction
  <1>6. CASE TryQuery \/ CompleteQuery
    BY <1>2, <1>6, OwnerLog, SameKinded DEF TryQuery, CompleteQuery
  <1>7. CASE SelectStatement
    <2>1. pend' = pend /\ sysVars' = sysVars /\ saved' = saved
      BY <1>7 DEF SelectStatement
    <2>2. BegunLog /\ InTxn' = InTxn
      BY <1>7, DetermineLog DEF SelectStatement
    <2> QED BY <2>1, <2>2 DEF BegunLog, Retains, Kinded
  <1>8. CASE SetVar
    <2>1. /\ pc = "setVar" /\ sysVars' = [sysVars EXCEPT ![stmt.name] = stmt.val]
          /\ owner' = [owner EXCEPT !.undo = DropName(owner.undo, stmt.name)]
          /\ pend' = pend /\ saved' = saved
      BY <1>8 DEF SetVar
    <2>2. owner'.undo = DropName(owner.undo, stmt.name) /\ owner'.id = owner.id
      BY <1>2, <2>1 DEF OwnerType
    <2>3. stmt.kind = "set" /\ pend = <<>> /\ saved = <<>>
      BY <1>1, <2>1 DEF UndoInv
    <2>4. Sets
      BY <2>1, <2>2, <2>3 DEF Sets, InTxn
    <2> QED BY <2>4 DEF Kinded
  <1>9. CASE SetLocalStatement
    <2>1. CASE InTxn
      <3>1. SetsLocal
        BY <1>1, <1>9, <2>1 DEF SetLocalStatement, SetsLocal, Body
      <3> QED BY <3>1 DEF Kinded
    <2>2. CASE ~InTxn
      BY <1>9, <2>2, SameKinded DEF SetLocalStatement
    <2> QED BY <2>1, <2>2
  <1>10. CASE SetLocalApply
    <2>1. pc = "setLocalApply" /\ pend' = pend /\ InTxn
      BY <1>10 DEF SetLocalApply, IInv, SavedInv, SetLocalKeepsOwner
    <2>2. CASE Frozen
      <3>1. PICK x \in Durations : saved = <<[name |-> stmt.name, old |-> x]>>
        BY <2>1 DEF UndoInv
      <3>2. stmt.kind = "setLocal"
        BY <2>1 DEF UndoInv
      <3>3. sysVars' = Replay(sysVars, saved) /\ saved' = <<>> /\ owner' = owner
        BY <1>10, <2>2 DEF SetLocalApply, RestoreSaved
      <3>4. sysVars' = [sysVars EXCEPT ![stmt.name] = x]
        BY <3>1, <3>3, LogTypes, ReplayOne DEF Statement
      <3>5. TakesBack
        BY <2>1, <3>1, <3>2, <3>3, <3>4 DEF TakesBack
      <3> QED BY <3>5 DEF Kinded
    <2>3. CASE ~Frozen
      <3>1. owner' = [owner EXCEPT ![stmt.name] = stmt.val] /\ sysVars' = sysVars /\ saved' = saved
        BY <1>10, <2>1, <2>3 DEF SetLocalApply
      <3>2. stmt.name \in {"timeout", "idle"}
        BY LogTypes DEF Statement, VarNames
      <3>3. owner'.undo = owner.undo /\ owner'.id = owner.id
        BY <1>2, <3>1, <3>2 DEF OwnerType
      <3> QED BY <2>1, <3>1, <3>3, SameKinded
    <2> QED BY <2>2, <2>3
  <1>11. CASE SetLocalPush
    <2>1. pc = "setLocalPush" /\ pend' = pend /\ InTxn
      BY <1>11 DEF SetLocalPush, IInv, SavedInv, SetLocalKeepsOwner
    <2>2. /\ owner' = [owner EXCEPT !.undo = owner.undo \o saved]
          /\ saved' = <<>> /\ sysVars' = sysVars
      BY <1>11, <2>1 DEF SetLocalPush
    <2>3. owner'.undo = owner.undo \o saved /\ owner'.id = owner.id
      BY <1>2, <2>2 DEF OwnerType
    <2>4. Pushes
      BY <2>1, <2>2, <2>3 DEF Pushes, InTxn
    <2> QED BY <2>4 DEF Kinded
  <1> QED BY <1>3, <1>4, <1>5, <1>6, <1>7, <1>8, <1>9, <1>10, <1>11 DEF Handler

\* A watcher ends an owner only between statements.
LEMMA WatcherKinded ==
    ASSUME IInv, UndoInv,
           DeadlinePasses \/ IdleElapses \/ (\E p \in Owners : WatchDeadline(p))
             \/ (\E f \in idleFired : WatchIdle(f))
    PROVE  Kinded /\ (depth > 0 => pend' = pend)
PROOF
  <1>1. sysVars' = sysVars /\ saved' = saved
    BY DEF DeadlinePasses, IdleElapses, WatchDeadline, WatchIdle, CLIUnchanged
  <1>2. depth = 0 => saved = <<>>
    BY DEF IInv, FrameInv, AtRest, SavedInv
  <1>3. owner \in OwnerType /\ depth \in Nat
    BY DEF IInv, TypeOK
  <1>4. CASE DeadlinePasses \/ IdleElapses
    BY <1>1, <1>3, <1>4, SameKinded DEF DeadlinePasses, IdleElapses, OwnerType
  <1>5. ASSUME NEW p \in Owners, WatchDeadline(p)
        PROVE  Kinded /\ (depth > 0 => pend' = pend)
    <2>1. CASE depth = 0 /\ Retire
      BY <1>1, <1>2, <2>1, RetireKinded
    <2>2. CASE owner' = [owner EXCEPT !.expirePending = TRUE, !.timer = "off"] /\ pend' = pend
      BY <1>1, <1>3, <2>2, SameKinded DEF OwnerType
    <2>3. CASE owner' = owner /\ pend' = pend
      BY <1>1, <2>3, SameKinded
    <2> QED BY <1>5, <2>1, <2>2, <2>3 DEF WatchDeadline
  <1>6. ASSUME NEW f \in idleFired, WatchIdle(f)
        PROVE  Kinded /\ (depth > 0 => pend' = pend)
    <2>1. CASE ~Blocked /\ Retire
      <3>1. depth = 0
        BY <1>3, <2>1 DEF Blocked
      <3> QED BY <1>1, <1>2, <2>1, <3>1, RetireKinded
    <2>2. CASE owner' = [owner EXCEPT !.held = TRUE] /\ pend' = pend
      BY <1>1, <1>3, <2>2, SameKinded DEF OwnerType
    <2>3. CASE owner' = owner /\ pend' = pend
      BY <1>1, <2>3, SameKinded
    <2> QED BY <1>6, <2>1, <2>2, <2>3 DEF WatchIdle
  <1> QED BY <1>4, <1>5, <1>6

\* Every step is of one of the eight kinds.
LEMMA StepKinded ==
    ASSUME IInv, UndoInv, [Next]_vars
    PROVE  Kinded
PROOF
  <1>1. CASE (\E s \in Statements : Submit(s)) \/ UNCHANGED vars
    BY <1>1, SameKinded DEF Submit, vars
  <1> QED BY <1>1, FrameKinded, InstallKinded, HandlerKinded, WatcherKinded DEF Next

----------------------------------------------------------------------------
(* UndoInv is preserved, and the refinement follows.                       *)

\* A step of the CLI that goes nowhere near SET's or SET LOCAL's own points.
Elsewhere ==
    /\ pc' \notin {"setVar", "setLocalApply", "setLocalPush"}
    /\ pc' \in {"sync", "restore"} => ret' # "setVar"

\* A step that leaves the CLI where it is.
Stays == pc' = pc /\ ret' = ret /\ stmt' = stmt /\ saved' = saved

\* Where the frame goes: the barrier alone leads to SET's own point ...
LEMMA FrameMoves ==
    ASSUME IInv, Frame
    PROVE  Elsewhere \/ Sync \/ Restore
PROOF
  <1>1. CASE Enter \/ EntryRestore \/ ConsumeNotice \/ EnsureLazyOwner \/ Leave \/ Unhold
    BY <1>1 DEF Enter, EntryRestore, ConsumeNotice, EnsureLazyOwner, Leave, Unhold,
                Goto, Barrier, Elsewhere
  <1> QED BY <1>1 DEF Frame

\* ... no installation does ...
LEMMA InstallMoves ==
    ASSUME IInv, Install
    PROVE  Elsewhere
PROOF
  <1>1. CASE Determine
    <2>1. Goto("body") \/ Exit
      BY <1>1, DetermineFacts DEF Determine
    <2> QED BY <2>1 DEF Goto, Exit, Elsewhere
  <1>2. CASE InstallRetry \/ InstallPending
    BY <1>2 DEF InstallRetry, InstallPending, InstallPoints, Goto, Exit, Barrier, Elsewhere
  <1>3. CASE InstallRW
    <2>1. Exit
      BY <1>3, BeginReadWriteFacts DEF InstallRW
    <2> QED BY <2>1 DEF Exit, Elsewhere
  <1>4. CASE InstallRO
    <2>1. Exit
      BY <1>4, BeginReadOnlyFacts DEF InstallRO
    <2> QED BY <2>1 DEF Exit, Elsewhere
  <1>5. CASE InstallDump
    <2>1. Goto("dumpClose") \/ Exit
      BY <1>5, BeginReadOnlyFacts DEF InstallDump
    <2> QED BY <2>1 DEF Goto, Exit, Elsewhere
  <1> QED BY <1>1, <1>2, <1>3, <1>4, <1>5 DEF Install

\* ... and of the handlers SET and SET LOCAL.
LEMMA HandlerMoves ==
    ASSUME IInv, Handler
    PROVE  Elsewhere \/ SetStatement \/ SetLocalStatement \/ SetLocalApply
PROOF
  <1>1. CASE \/ ShowStatement \/ BeginStatement \/ BeginDispatch \/ BeginRwStatement
             \/ BeginRoStatement \/ SetTransactionStatement \/ EndTransaction
    BY <1>1 DEF ShowStatement, BeginStatement, BeginDispatch, BeginRwStatement,
                BeginRoStatement, SetTransactionStatement, EndTransaction,
                Exit, Barrier, Elsewhere
  <1>2. CASE \/ DmlStatement \/ RunDmlInTransaction \/ RunDmlImplicit \/ TryQuery
             \/ CompleteQuery \/ QueryAborted \/ RunBatchStatement \/ DumpStatement
    BY <1>2 DEF DmlStatement, RunDmlInTransaction, RunDmlImplicit, TryQuery,
                CompleteQuery, QueryAborted, RunBatchStatement, DumpStatement,
                Goto, Exit, Barrier, Elsewhere
  <1>3. CASE SelectStatement
    <2>1. Goto("query") \/ Exit
      BY <1>3, DetermineFacts DEF SelectStatement
    <2> QED BY <2>1 DEF Goto, Exit, Elsewhere
  <1>4. CASE DumpClose \/ SetVar
    BY <1>4 DEF DumpClose, SetVar, Exit, Elsewhere
  <1>5. CASE SetLocalPush
    BY <1>5 DEF SetLocalPush, RestoreSaved, Exit, Elsewhere
  <1> QED BY <1>1, <1>2, <1>3, <1>4, <1>5 DEF Handler

\* The log of a dead owner is replayed before another owner is there.
LEMMA NoLogBesideOwner ==
    ASSUME UndoInv, Kinded
    PROVE  InTxn' => pend' = <<>>
PROOF
  <1>1. InTxn => pend = <<>>
    BY DEF UndoInv
  <1>2. CASE Retires
    BY <1>2 DEF Retires, Retire, InTxn, NoOwner
  <1>3. CASE Restores
    BY <1>1, <1>3 DEF Restores, RestoreLocalVars, InTxn
  <1>4. CASE SetsLocal \/ TakesBack
    BY <1>1, <1>4 DEF SetsLocal, TakesBack, InTxn
  <1>5. CASE Retains \/ Opens \/ Sets \/ Pushes
    BY <1>1, <1>5 DEF Retains, Opens, Sets, Pushes
  <1> QED BY <1>2, <1>3, <1>4, <1>5 DEF Kinded

\* Every step preserves UndoInv.
LEMMA UndoStep ==
    ASSUME IInv, UndoInv, [Next]_vars
    PROVE  UndoInv'
PROOF
  <1>1. InTxn' => pend' = <<>>
    BY StepKinded, NoLogBesideOwner
  <1>2. CASE Elsewhere
    BY <1>1, <1>2 DEF UndoInv, Elsewhere
  <1>3. CASE Stays /\ (pc = "setVar" => pend' = pend)
    BY <1>1, <1>3 DEF UndoInv, Stays
  <1>4. CASE Sync
    <2>1. pc' = "restore" /\ ret' = ret /\ stmt' = stmt /\ pc = "sync"
      BY <1>4 DEF Sync, Goto
    <2> QED BY <1>1, <2>1 DEF UndoInv
  <1>5. CASE Restore
    <2>1. pc' = ret /\ ret' = ret /\ stmt' = stmt /\ pc = "restore" /\ owner' = owner
      BY <1>5 DEF Restore, Goto
    <2>2. pend' = <<>>
      BY <1>5 DEF Restore, RestoreLocalVars, UndoInv
    <2>3. ret \notin {"sync", "restore", "setLocalApply", "setLocalPush"}
      BY <2>1 DEF IInv, FrameInv, BarrierReturns, InstallPoints
    <2> QED BY <1>1, <2>1, <2>2, <2>3 DEF UndoInv
  <1>6. CASE SetStatement
    <2>1. pc' = "sync" /\ stmt' = stmt /\ stmt.kind = "set"
      BY <1>6 DEF SetStatement, Barrier, Body
    <2> QED BY <1>1, <2>1 DEF UndoInv
  <1>7. CASE SetLocalStatement
    <2>1. stmt.kind = "setLocal" /\ stmt' = stmt
      BY <1>7 DEF SetLocalStatement, Body
    <2>2. CASE ~InTxn
      <3>1. Elsewhere
        BY <1>7, <2>2 DEF SetLocalStatement, Exit, Elsewhere
      <3> QED BY <1>2, <3>1
    <2>3. CASE InTxn
      <3>1. /\ pc' = "setLocalApply"
            /\ saved' = <<[name |-> stmt.name, old |-> sysVars[stmt.name]]>>
        BY <1>7, <2>3 DEF SetLocalStatement, Goto
      <3>2. sysVars[stmt.name] \in Durations
        BY LogTypes DEF Statement
      <3> QED BY <1>1, <2>1, <3>1, <3>2 DEF UndoInv
    <2> QED BY <2>2, <2>3
  <1>8. CASE SetLocalApply
    <2>1. pc = "setLocalApply" /\ stmt' = stmt
      BY <1>8 DEF SetLocalApply
    <2>2. CASE ~InTxn \/ Frozen
      <3>1. Elsewhere
        BY <1>8, <2>2 DEF SetLocalApply, RestoreSaved, Exit, Elsewhere
      <3> QED BY <1>2, <3>1
    <2>3. CASE ~(~InTxn \/ Frozen)
      <3>1. pc' = "setLocalPush" /\ saved' = saved
        BY <1>8, <2>3 DEF SetLocalApply, Goto
      <3> QED BY <1>1, <2>1, <3>1 DEF UndoInv
    <2> QED BY <2>2, <2>3
  <1>9. CASE \E s \in Statements : Submit(s)
    <2>1. Elsewhere
      BY <1>9 DEF Submit, Goto, Elsewhere
    <2> QED BY <1>2, <2>1
  <1>10. CASE \/ DeadlinePasses \/ IdleElapses
              \/ \E p \in Owners : WatchDeadline(p)
              \/ \E f \in idleFired : WatchIdle(f)
    <2>1. Stays
      BY <1>10 DEF DeadlinePasses, IdleElapses, WatchDeadline, WatchIdle, CLIUnchanged, Stays
    <2>2. depth > 0 => pend' = pend
      BY <1>10, WatcherKinded
    <2>3. pc = "setVar" => depth > 0
      BY DEF IInv, TypeOK, FrameInv, AtRest
    <2> QED BY <1>3, <2>1, <2>2, <2>3
  <1>11. CASE UNCHANGED vars
    BY <1>3, <1>11 DEF vars, Stays
  <1> QED BY <1>2, <1>4, <1>5, <1>6, <1>7, <1>8, <1>9, <1>10, <1>11,
             FrameMoves, InstallMoves, HandlerMoves DEF Next

\* Every step is one of LocalScope's, or changes nothing it can see.
LEMMA KindedStep ==
    ASSUME IInv, Kinded
    PROVE  ScopeStep
BY RetainsStep, OpensStep, RetiresStep, RestoresStep, SetsStep, SetsLocalStep,
   TakesBackStep, PushesStep DEF Kinded

\* The initial states are LocalScope's.
LEMMA InitScope == Init => UndoInv /\ Scope!Init
PROOF
  <1> SUFFICES ASSUME Init PROVE UndoInv /\ Scope!Init
    OBVIOUS
  <1>1. /\ pc = "prompt" /\ pend = <<>> /\ saved = <<>> /\ owner = NoOwner
        /\ sysVars \in [VarNames -> Durations]
    BY DEF Init
  <1>2. IInv
    BY InitInv
  <1>3. pend \o owner.undo = <<>>
    BY <1>1, <1>2, ConcatEmpty, LogTypes, NoOwnerFields
  <1>4. SessionValues = sysVars
    BY <1>1, <1>2, <1>3, NoLog
  <1>5. ScopeOpen = FALSE
    BY <1>1, NoOwnerFields DEF ScopeOpen, InTxn
  <1>6. Scope!Init
    BY <1>1, <1>4, <1>5 DEF Scope!Init
  <1> QED BY <1>1, <1>6 DEF UndoInv

\* SET waits until a dead owner's log is replayed, and SET LOCAL's saved
\* value is the one it would put back.
THEOREM UndoInvariance == Spec => []UndoInv
PROOF
  <1>1. UndoInv /\ IInv /\ [Next]_vars => UndoInv'
    BY UndoStep
  <1> QED BY <1>1, InitScope, Invariance, PTL DEF Spec

\* OwnerLifetime implements LocalScope: with the undo logs, the barrier and the
\* watchers in between, SET is durable, SET LOCAL lasts until the transaction
\* ends, and its end brings every value back to the session's at once.
THEOREM ImplementsScope == Spec => LocalScopeSpec
PROOF
  <1>1. IInv /\ UndoInv /\ [Next]_vars
          => [Scope!Next]_<<ScopeOpen, SessionValues, sysVars>>
    BY StepKinded, KindedStep DEF ScopeStep
  <1>2. Spec => []IInv
    BY Invariance
  <1>3. Spec => []UndoInv
    BY UndoInvariance
  <1>4. Init => Scope!Init
    BY InitScope
  <1> QED BY <1>1, <1>2, <1>3, <1>4, PTL DEF Spec, LocalScopeSpec, Scope!Spec

=============================================================================
