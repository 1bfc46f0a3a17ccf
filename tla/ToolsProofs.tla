---------------------------- MODULE ToolsProofs ----------------------------
(***************************************************************************)
(* Theorems about three of the client's tools.                             *)
(*                                                                         *)
(* SystemVariables, for every set of variables and any number of SET LOCAL *)
(* statements: what SET LOCAL did is undone when its owner ends and        *)
(* nothing else is, owner and registry agree, and no statement that fails, *)
(* and none inside a transaction or a batch that guards a variable,        *)
(* changes a setting.                                                      *)
(*                                                                         *)
(* ColumnWidths, for all columns, any number of them in a table, and every *)
(* screen: tables fill the screen and do not run over it.                  *)
(*                                                                         *)
(* ProtoBundle, for any number of descriptor files, queued statements and  *)
(* changes by others: the descriptor graph, the proto bundle and what is   *)
(* cached of it are what the statements made them.                         *)
(***************************************************************************)
EXTENDS SystemVariables, ColumnWidths, ProtoBundle, TLAPS, SequenceTheorems,
        FiniteSetTheorems, WellFoundedInduction

-----------------------------------------------------------------------------
(***************************************************************************)
(*                            SystemVariables                              *)
(***************************************************************************)

(***************************************************************************)
(* The inductive invariant.  Between transactions the settings are what    *)
(* they are without SET LOCAL; inside one, the log says how to get there:  *)
(* the first entry of a name holds the value without SET LOCAL, and a name *)
(* without an entry has it.  Later entries of a name may say anything.     *)
(***************************************************************************)
Owner == [mode: {"none", "pending", "rw", "ro"}, used: BOOLEAN, work: BOOLEAN,
          caught: {<<>>} \cup [Vars \cap Hooked -> Values]]

\* The first entry of its name
Leads(log, i) == \A j \in 1..(i - 1) : log[j].name # log[i].name

\* What a log makes of the settings s is b.
LeadsBack(log, s, b) ==
    /\ \A v \in Vars : (\A i \in DOMAIN log : log[i].name # v) => s[v] = b[v]
    /\ \A i \in DOMAIN log :
          log[i].name \in Vars /\ Leads(log, i) => b[log[i].name] = log[i].old

IInv ==
    /\ TypeOK /\ owner \in Owner
    /\ LeadsBack(undo, val, base)
    /\ LocalInForce

-----------------------------------------------------------------------------
(* The table of variables.                                                 *)

\* A guarded variable does not take SET LOCAL, and the tag is not guarded.
LEMMA Table ==
    /\ LocalAllowed \subseteq Settable \ InitOnly
    /\ LocalAllowed \cap (TxnGuarded \cup {"AUTOCOMMIT", "CLI_SAVEPOINT_SUPPORT"}) = {}
    /\ Tag \notin TxnGuarded \cup {"AUTOCOMMIT", "CLI_SAVEPOINT_SUPPORT"}
    /\ Tag \in Settable \ InitOnly /\ Tag \notin Hooked
    /\ "CLI_SAVEPOINT_SUPPORT" \in TxnGuarded \cap BatchGuarded
PROOF
  <1>1. /\ LocalAllowed \subseteq Settable \ InitOnly
        /\ LocalAllowed \cap TxnGuarded = {} /\ LocalAllowed \cap NoLocal = {}
    BY DEF LocalAllowed
  <1>2. "AUTOCOMMIT" \in NoLocal /\ "CLI_SAVEPOINT_SUPPORT" \in NoLocal
    BY DEF NoLocal
  <1>3. Tag \notin TxnGuarded \cup {"AUTOCOMMIT", "CLI_SAVEPOINT_SUPPORT"}
    BY DEF Tag, TxnGuarded
  <1>4. Tag \in DisplayVars /\ Tag \notin InitOnly /\ Tag \notin Hooked
    BY DEF Tag, DisplayVars, InitOnly, Hooked
  <1>5. Tag \in Settable
    BY <1>4 DEF Settable
  <1>6. "CLI_SAVEPOINT_SUPPORT" \in TxnGuarded \cap BatchGuarded
    BY DEF TxnGuarded, BatchGuarded
  <1> QED BY <1>1, <1>2, <1>3, <1>4, <1>5, <1>6

-----------------------------------------------------------------------------
(* The undo log.                                                           *)

\* A name of the log has a first entry.
LEMMA FirstEntry ==
    ASSUME NEW log \in Seq(LocalVar), NEW v, \E i \in DOMAIN log : log[i].name = v
    PROVE  \E i \in DOMAIN log : log[i].name = v /\ \A j \in 1..(i - 1) : log[j].name # v
PROOF
  <1> DEFINE T == {i \in DOMAIN log : log[i].name = v}
             R == OpToRel(<, Nat)
  <1>1. T \subseteq Nat /\ T # {}
    OBVIOUS
  <1>2. PICK i \in T : \A j \in T : ~ (<<j, i>> \in R)
    BY <1>1, NatLessThanWellFounded, WFMin
  <1>3. \A j \in T : ~ (j < i)
    BY <1>1, <1>2 DEF OpToRel
  <1>4. \A j \in 1..(i - 1) : log[j].name # v
    BY <1>1, <1>3
  <1> QED BY <1>2, <1>4

\* Replaying a log that leads back arrives there.
LEMMA ReplayArrives ==
    ASSUME undo \in Seq(LocalVar), val \in [Vars -> Values], base \in [Vars -> Values],
           LeadsBack(undo, val, base)
    PROVE  Replayed(undo) = base
PROOF
  <1>1. ASSUME NEW v \in Vars
        PROVE  Replayed(undo)[v] = base[v]
    <2>1. CASE \A i \in DOMAIN undo : undo[i].name # v
      BY <2>1 DEF Replayed, LeadsBack
    <2>2. CASE \E i \in DOMAIN undo : undo[i].name = v
      <3> DEFINE First(i) == undo[i].name = v /\ \A j \in 1..(i - 1) : undo[j].name # v
                 f == CHOOSE i \in DOMAIN undo : First(i)
      <3>1. \E i \in DOMAIN undo : First(i)
        BY <2>2, FirstEntry
      <3>2. f \in DOMAIN undo /\ First(f)
        BY <3>1
      <3>3. Replayed(undo)[v] = undo[f].old
        BY <2>2 DEF Replayed
      <3> HIDE DEF f
      <3>4. base[v] = undo[f].old
        BY <3>2 DEF LeadsBack, Leads
      <3> QED BY <3>3, <3>4
    <2> QED BY <2>1, <2>2
  <1>2. Replayed(undo) = [v \in Vars |-> Replayed(undo)[v]]
    BY DEF Replayed
  <1> QED BY <1>1, <1>2

\* Retiring entries keeps a log a log and the other entries where they are.
LEMMA SupersedeFacts ==
    ASSUME undo \in Seq(LocalVar), NEW names
    PROVE  LET log == Supersede(names)
           IN /\ log \in Seq(LocalVar) /\ DOMAIN log = DOMAIN undo
              /\ \A i \in DOMAIN undo :
                    log[i] = IF undo[i].name \in names THEN Deleted ELSE undo[i]
PROOF
  <1>1. Deleted \in LocalVar
    BY DEF Deleted, LocalVar, Values
  <1>2. DOMAIN undo = 1..Len(undo) /\ Len(undo) \in Nat
    OBVIOUS
  <1>3. \A i \in 1..Len(undo) :
           (IF undo[i].name \in names THEN Deleted ELSE undo[i]) \in LocalVar
    BY <1>1
  <1>4. Supersede(names)
          = [i \in 1..Len(undo) |-> IF undo[i].name \in names THEN Deleted ELSE undo[i]]
    BY <1>2 DEF Supersede
  <1>5. Supersede(names) \in [1..Len(undo) -> LocalVar]
    BY <1>3, <1>4
  <1>6. Supersede(names) \in Seq(LocalVar)
    BY <1>2, <1>5, SeqDef
  <1> QED BY <1>2, <1>4, <1>6

\* Values set for good, with their entries retired, leave a log that leads back.
LEMMA SupersedeLeadsBack ==
    ASSUME undo \in Seq(LocalVar), NEW names, NEW s, NEW b,
           LeadsBack(undo, val, base),
           \A v \in Vars \ names : s[v] = val[v] /\ b[v] = base[v],
           \A v \in Vars \cap names : s[v] = b[v]
    PROVE  LeadsBack(Supersede(names), s, b)
PROOF
  <1> DEFINE log == Supersede(names)
  <1>1. /\ DOMAIN log = DOMAIN undo /\ Len(undo) \in Nat /\ DOMAIN undo = 1..Len(undo)
        /\ \A i \in DOMAIN undo :
              log[i] = IF undo[i].name \in names THEN Deleted ELSE undo[i]
    BY SupersedeFacts
  <1> HIDE DEF log
  <1>2. Deleted.name \notin Vars
    BY VarsAssumption DEF Deleted
  <1>3. ASSUME NEW v \in Vars, \A i \in DOMAIN log : log[i].name # v
        PROVE  s[v] = b[v]
    <2>1. CASE v \in names
      BY <2>1
    <2>2. CASE v \notin names
      <3>1. \A i \in DOMAIN undo : undo[i].name # v
        BY <1>1, <1>3, <2>2
      <3> QED BY <2>2, <3>1 DEF LeadsBack
    <2> QED BY <2>1, <2>2
  <1>4. ASSUME NEW i \in DOMAIN log, log[i].name \in Vars, Leads(log, i)
        PROVE  b[log[i].name] = log[i].old
    <2>1. undo[i].name \notin names /\ log[i] = undo[i]
      BY <1>1, <1>2, <1>4
    <2>2. ASSUME NEW j \in 1..(i - 1)
          PROVE  undo[j].name # undo[i].name
      <3>1. j \in DOMAIN undo /\ log[j].name # undo[i].name
        BY <1>1, <1>4, <2>1 DEF Leads
      <3> QED BY <1>1, <2>1, <3>1
    <2>3. base[undo[i].name] = undo[i].old
      BY <1>1, <1>4, <2>1, <2>2 DEF LeadsBack, Leads
    <2> QED BY <1>4, <2>1, <2>3
  <1> QED BY <1>3, <1>4 DEF LeadsBack, log

\* A value that SET LOCAL sets, with the one it replaces logged, leaves a log
\* that leads back.
LEMMA AppendLeadsBack ==
    ASSUME undo \in Seq(LocalVar), val \in [Vars -> Values],
           LeadsBack(undo, val, base), NEW v \in Vars, NEW s,
           \A w \in Vars \ {v} : s[w] = val[w]
    PROVE  LeadsBack(Append(undo, [name |-> v, old |-> val[v]]), s, base)
PROOF
  <1> DEFINE e == [name |-> v, old |-> val[v]]
             log == Append(undo, e)
             n == Len(undo)
  <1>1. /\ n \in Nat /\ DOMAIN undo = 1..n /\ DOMAIN log = 1..(n + 1)
        /\ \A i \in 1..n : log[i] = undo[i]
        /\ log[n + 1] = e /\ e.name = v /\ e.old = val[v]
    OBVIOUS
  <1> HIDE DEF e, log, n
  <1>2. ASSUME NEW w \in Vars, \A i \in DOMAIN log : log[i].name # w
        PROVE  s[w] = base[w]
    <2>1. w # v
      BY <1>1, <1>2
    <2>2. \A i \in DOMAIN undo : undo[i].name # w
      BY <1>1, <1>2
    <2> QED BY <2>1, <2>2 DEF LeadsBack
  <1>3. ASSUME NEW i \in DOMAIN log, log[i].name \in Vars, Leads(log, i)
        PROVE  base[log[i].name] = log[i].old
    <2>1. CASE i \in 1..n
      <3>1. Leads(undo, i)
        BY <1>1, <1>3, <2>1 DEF Leads
      <3> QED BY <1>1, <1>3, <2>1, <3>1 DEF LeadsBack
    <2>2. CASE i = n + 1
      <3>1. \A j \in DOMAIN undo : undo[j].name # v
        BY <1>1, <1>3, <2>2 DEF Leads
      <3>2. base[v] = val[v]
        BY <3>1 DEF LeadsBack
      <3> QED BY <1>1, <2>2, <3>2
    <2> QED BY <1>1, <2>1, <2>2
  <1> QED BY <1>2, <1>3 DEF LeadsBack, log, e

-----------------------------------------------------------------------------
(* The invariant.                                                          *)

LEMMA InitEstablishes == Init => IInv
PROOF
  <1> SUFFICES ASSUME Init
               PROVE  IInv
    OBVIOUS
  <1>1. val \in [Vars -> Values] /\ base = val
    BY DEF Init
  <1>2. snap \in [Vars \cap Resettable -> Values]
    BY <1>1 DEF Init, Capture
  <1>3. owner = NoOwner /\ undo = <<>> /\ batch = FALSE
    BY DEF Init
  <1>4. undo \in Seq(LocalVar)
    BY <1>3, EmptySeq
  <1>5. owner.mode = "none"
    BY <1>3 DEF NoOwner
  <1>6. TypeOK
    BY <1>1, <1>2, <1>3, <1>4, <1>5 DEF TypeOK
  <1>7. owner \in Owner
    BY <1>3 DEF Owner, NoOwner
  <1>8. LeadsBack(undo, val, base) /\ LocalInForce
    BY <1>1, <1>3 DEF LeadsBack, LocalInForce
  <1> QED BY <1>6, <1>7, <1>8 DEF IInv

\* An entry for a variable with a hook is one of a live variable.
LEMMA HookedNames ==
    ASSUME undo \in Seq(LocalVar), NEW i \in 1..Len(undo), undo[i].name \in Hooked
    PROVE  undo[i].name \in Vars \cap Hooked
PROOF
  <1>1. undo[i] \in LocalVar
    BY ElementOfSeq
  <1>2. NoName \notin Hooked
    BY DEF NoName, Hooked
  <1> QED BY <1>1, <1>2 DEF LocalVar

\* Retired entries of variables that change for good leave the others in force.
LEMMA SupersedeInForce ==
    ASSUME undo \in Seq(LocalVar), LocalInForce, NEW names,
           undo' = Supersede(names), owner' = owner,
           \A v \in Vars \ names : val'[v] = val[v]
    PROVE  LocalInForce'
PROOF
  <1>1. /\ DOMAIN undo' = DOMAIN undo /\ undo' \in Seq(LocalVar)
        /\ \A i \in DOMAIN undo :
              undo'[i] = IF undo[i].name \in names THEN Deleted ELSE undo[i]
    BY SupersedeFacts
  <1>2. Deleted.name \notin Hooked
    BY DEF Deleted, NoName, Hooked
  <1>3. ASSUME NEW i \in 1..Len(undo'), undo'[i].name \in Hooked
        PROVE  owner'.caught[undo'[i].name] = val'[undo'[i].name]
    <2>1. i \in DOMAIN undo /\ i \in 1..Len(undo)
      BY <1>1
    <2>2. undo[i].name \notin names /\ undo'[i] = undo[i]
      BY <1>1, <1>2, <1>3, <2>1
    <2>3. undo[i].name \in Vars
      BY <1>3, <2>1, <2>2, HookedNames
    <2>4. owner.caught[undo[i].name] = val[undo[i].name]
      BY <1>3, <2>1, <2>2 DEF LocalInForce
    <2> QED BY <2>2, <2>3, <2>4
  <1> QED BY <1>3 DEF LocalInForce

\* SET and RESET of variables, in or out of a transaction: the invariant needs
\* to know only which variables change, and that their entries are retired.
LEMMA PersistentPreserves ==
    ASSUME IInv, NEW names, undo' = Supersede(names),
           val' \in [Vars -> Values], base' \in [Vars -> Values],
           \A v \in Vars \ names : val'[v] = val[v] /\ base'[v] = base[v],
           \A v \in Vars \cap names : val'[v] = base'[v],
           UNCHANGED <<snap, owner, batch>>
    PROVE  IInv'
PROOF
  <1> USE DEF IInv
  <1>1. undo' \in Seq(LocalVar)
    BY SupersedeFacts DEF TypeOK
  <1>2. owner.mode = "none" => undo' = <<>>
    BY SupersedeFacts DEF TypeOK
  <1>3. TypeOK'
    BY <1>1, <1>2 DEF TypeOK
  <1>4. LeadsBack(undo', val', base')
    BY SupersedeLeadsBack DEF TypeOK
  <1>5. LocalInForce'
    BY SupersedeInForce DEF TypeOK
  <1> QED BY <1>3, <1>4, <1>5

LEMMA SetPreserves ==
    ASSUME IInv, NEW v \in Vars, NEW x \in Values, Set(v, x)
    PROVE  IInv'
PROOF
  <1>1. CASE ok' = FALSE /\ UNCHANGED <<val, base, undo>>
    BY <1>1 DEF Set, IInv, TypeOK, Owner, LeadsBack, Leads, LocalInForce
  <1>2. CASE /\ val' = [val EXCEPT ![v] = x] /\ base' = [base EXCEPT ![v] = x]
             /\ undo' = Supersede({v})
    <2>1. val \in [Vars -> Values] /\ base \in [Vars -> Values]
      BY DEF IInv, TypeOK
    <2>2. /\ val' \in [Vars -> Values] /\ base' \in [Vars -> Values]
          /\ \A w \in Vars \ {v} : val'[w] = val[w] /\ base'[w] = base[w]
          /\ \A w \in Vars \cap {v} : val'[w] = base'[w]
      BY <1>2, <2>1
    <2>3. UNCHANGED <<snap, owner, batch>>
      BY DEF Set
    <2> QED BY <1>2, <2>2, <2>3, PersistentPreserves
  <1> QED BY <1>1, <1>2 DEF Set

\* What was prepared is committed.
LEMMA PreparedCommits ==
    ASSUME NEW names, Prepared(names)
    PROVE  Committed(names) = names
BY DEF Prepared, Committed

LEMMA ResetPreserves ==
    ASSUME IInv, NEW names \in SUBSET Vars, ResetNames(names)
    PROVE  IInv'
PROOF
  <1>1. CASE ~Prepared(names)
    BY <1>1 DEF ResetNames, IInv, TypeOK, Owner, LeadsBack, Leads, LocalInForce
  <1>2. CASE Prepared(names)
    <2>1. names \subseteq Vars \cap Resettable
      BY <1>2 DEF Prepared
    <2>2. /\ val' = [v \in Vars |-> IF v \in names THEN snap[v] ELSE val[v]]
          /\ base' = [v \in Vars |-> IF v \in names THEN snap[v] ELSE base[v]]
          /\ undo' = Supersede(names)
      BY <1>2, PreparedCommits DEF ResetNames, CommitReset
    <2>3. /\ val \in [Vars -> Values] /\ base \in [Vars -> Values]
          /\ snap \in [Vars \cap Resettable -> Values]
      BY DEF IInv, TypeOK
    <2>4. /\ val' \in [Vars -> Values] /\ base' \in [Vars -> Values]
          /\ \A w \in Vars \ names : val'[w] = val[w] /\ base'[w] = base[w]
          /\ \A w \in Vars \cap names : val'[w] = base'[w]
      BY <2>1, <2>2, <2>3
    <2>5. UNCHANGED <<snap, owner, batch>>
      BY DEF ResetNames
    <2> QED BY <2>2, <2>4, <2>5, PersistentPreserves
  <1> QED BY <1>1, <1>2

LEMMA SetLocalPreserves ==
    ASSUME IInv, NEW v \in Vars, NEW x \in Values, SetLocal(v, x)
    PROVE  IInv'
PROOF
  <1> USE DEF IInv
  <1>1. CASE UNCHANGED <<val, undo, owner>>
    BY <1>1 DEF SetLocal, TypeOK, Owner, LeadsBack, Leads, LocalInForce
  <1>2. CASE /\ v \in LocalAllowed
             /\ val' = [val EXCEPT ![v] = x]
             /\ undo' = Append(undo, [name |-> v, old |-> val[v]])
             /\ owner' = IF v \in Hooked THEN [owner EXCEPT !.caught[v] = x] ELSE owner
    <2>1. /\ val \in [Vars -> Values] /\ base \in [Vars -> Values] /\ undo \in Seq(LocalVar)
          /\ owner.mode # "none" /\ owner.caught \in [Vars \cap Hooked -> Values]
          /\ UNCHANGED <<snap, batch, base>>
      BY DEF TypeOK, SetLocal, InTransaction
    <2>2. val' \in [Vars -> Values] /\ val'[v] = x /\ \A w \in Vars \ {v} : val'[w] = val[w]
      BY <1>2, <2>1
    <2>3. undo' \in Seq(LocalVar)
      BY <1>2, <2>1 DEF LocalVar
    <2>4. /\ owner' \in Owner /\ owner'.mode = owner.mode
          /\ owner'.caught \in [Vars \cap Hooked -> Values]
          /\ v \in Hooked => owner'.caught[v] = x
          /\ \A w \in (Vars \cap Hooked) \ {v} : owner'.caught[w] = owner.caught[w]
      BY <1>2, <2>1 DEF Owner
    <2>5. TypeOK'
      BY <2>1, <2>2, <2>3, <2>4 DEF TypeOK
    <2>6. LeadsBack(undo', val', base')
      BY <1>2, <2>1, <2>2, AppendLeadsBack
    <2>7. ASSUME NEW i \in 1..Len(undo'), undo'[i].name \in Hooked
          PROVE  owner'.caught[undo'[i].name] = val'[undo'[i].name]
      <3>1. CASE undo'[i].name = v
        BY <2>2, <2>4, <2>7, <3>1
      <3>2. CASE undo'[i].name # v
        <4>1. i \in 1..Len(undo) /\ undo'[i] = undo[i]
          BY <1>2, <2>1, <2>7, <3>2
        <4>2. undo[i].name \in Vars \cap Hooked
          BY <2>1, <2>7, <4>1, HookedNames
        <4>3. owner.caught[undo[i].name] = val[undo[i].name]
          BY <2>7, <4>1 DEF LocalInForce
        <4> QED BY <2>2, <2>4, <3>2, <4>1, <4>2, <4>3
      <3> QED BY <3>1, <3>2
    <2>8. LocalInForce'
      BY <2>7 DEF LocalInForce
    <2> QED BY <2>4, <2>5, <2>6, <2>8
  <1> QED BY <1>1, <1>2 DEF SetLocal, Refused

LEMMA BeginPreserves ==
    ASSUME IInv, NEW m \in {"pending", "rw", "ro"}, Begin(m)
    PROVE  IInv'
PROOF
  <1> USE DEF IInv
  <1>1. /\ val \in [Vars -> Values] /\ base \in [Vars -> Values]
        /\ owner.mode = "none" /\ undo = <<>> /\ undo' = undo
        /\ UNCHANGED <<snap, batch>>
    BY DEF TypeOK, Begin, InTransaction
  <1>2. \A v \in Vars : val[v] = base[v]
    BY <1>1 DEF LeadsBack
  <1>3. /\ val' \in [Vars -> Values] /\ base' \in [Vars -> Values]
        /\ \A v \in Vars : val'[v] = base'[v]
    BY <1>1, <1>2 DEF Begin, Values
  <1>4. [v \in Vars \cap Hooked |-> val[v]] \in [Vars \cap Hooked -> Values]
    BY <1>1
  <1>5. /\ owner' \in Owner /\ owner'.mode = m
        /\ owner'.caught \in [Vars \cap Hooked -> Values]
    BY <1>4 DEF Begin, Fresh, NoOwner, Owner
  <1>6. undo' \in Seq(LocalVar) /\ DOMAIN undo' = {} /\ Len(undo') = 0
    BY <1>1, EmptySeq
  <1>7. TypeOK'
    BY <1>1, <1>3, <1>5, <1>6 DEF TypeOK
  <1>8. LeadsBack(undo', val', base')
    BY <1>3, <1>6 DEF LeadsBack
  <1>9. LocalInForce'
    BY <1>6 DEF LocalInForce
  <1> QED BY <1>5, <1>7, <1>8, <1>9

LEMMA PromotePreserves ==
    ASSUME IInv, NEW done \in BOOLEAN, Promote(done)
    PROVE  IInv'
PROOF
  <1> USE DEF IInv
  <1>1. /\ val \in [Vars -> Values] /\ base \in [Vars -> Values] /\ undo \in Seq(LocalVar)
        /\ owner.mode = "pending" /\ owner.caught \in [Vars \cap Hooked -> Values]
        /\ UNCHANGED <<snap, undo, batch>>
    BY DEF TypeOK, Promote
  <1>2. /\ owner' \in Owner /\ owner'.mode # "none" /\ owner'.caught = owner.caught
        /\ owner'.mode \in {"none", "pending", "rw", "ro"}
    BY <1>1 DEF Promote, Owner
  <1>3. /\ val' \in [Vars -> Values] /\ base' \in [Vars -> Values]
        /\ \A v \in Vars \ {Tag} : val'[v] = val[v] /\ base'[v] = base[v]
    BY <1>1 DEF Promote, Consume, Values
  <1>4. TypeOK'
    BY <1>1, <1>2, <1>3 DEF TypeOK
  <1>5. LeadsBack(undo', val', base')
    <2>1. CASE ~done
      BY <1>1, <2>1 DEF Promote, Consume
    <2>2. CASE done /\ \A i \in 1..Len(undo) : undo[i].name # Tag
      <3>1. Tag \in Vars => val'[Tag] = base'[Tag]
        BY <1>1, <2>2 DEF Promote, Consume
      <3>2. \A i \in DOMAIN undo : undo[i].name # Tag
        BY <1>1, <2>2
      <3> QED BY <1>1, <1>3, <3>1, <3>2 DEF LeadsBack
    <2>3. CASE done /\ \E i \in 1..Len(undo) : undo[i].name = Tag
      <3>1. base' = base
        BY <2>3 DEF Promote, Consume
      <3>2. \E i \in DOMAIN undo : undo[i].name = Tag
        BY <1>1, <2>3
      <3> QED BY <1>1, <1>3, <3>1, <3>2 DEF LeadsBack, Leads
    <2> QED BY <2>1, <2>2, <2>3
  <1>6. LocalInForce'
    <2>1. Tag \notin Hooked
      BY Table
    <2>2. ASSUME NEW i \in 1..Len(undo), undo[i].name \in Hooked
          PROVE  owner'.caught[undo[i].name] = val'[undo[i].name]
      <3>1. undo[i].name \in Vars \cap Hooked
        BY <1>1, <2>2, HookedNames
      <3>2. owner.caught[undo[i].name] = val[undo[i].name]
        BY <2>2 DEF LocalInForce
      <3> QED BY <1>2, <1>3, <2>1, <3>1, <3>2
    <2> QED BY <1>1, <2>2 DEF LocalInForce
  <1> QED BY <1>2, <1>4, <1>5, <1>6

LEMMA EndPreserves ==
    ASSUME IInv, End
    PROVE  IInv'
PROOF
  <1> USE DEF IInv
  <1>1. val' = base /\ base' = base /\ base \in [Vars -> Values]
    BY ReplayArrives DEF End, TypeOK
  <1>2. owner' = NoOwner /\ undo' = <<>> /\ UNCHANGED <<snap, batch>>
    BY DEF End
  <1>3. owner' \in Owner /\ owner'.mode = "none"
    BY <1>2 DEF Owner, NoOwner
  <1>4. undo' \in Seq(LocalVar) /\ DOMAIN undo' = {} /\ Len(undo') = 0
    BY <1>2, EmptySeq
  <1>5. TypeOK'
    BY <1>1, <1>2, <1>3, <1>4 DEF TypeOK
  <1>6. LeadsBack(undo', val', base')
    BY <1>1, <1>4 DEF LeadsBack
  <1>7. LocalInForce'
    BY <1>4 DEF LocalInForce
  <1> QED BY <1>3, <1>5, <1>6, <1>7

LEMMA OthersPreserve ==
    ASSUME IInv, Work \/ ToggleBatch \/ UNCHANGED vars
    PROVE  IInv'
PROOF
  <1> USE DEF IInv
  <1>1. UNCHANGED <<val, snap, undo, base>>
    BY DEF Work, ToggleBatch, vars
  <1>2. /\ owner' \in Owner /\ owner'.mode = owner.mode /\ owner'.caught = owner.caught
        /\ owner.mode = "none" => owner' = owner
        /\ batch' \in BOOLEAN
    BY DEF Work, ToggleBatch, vars, Owner, TypeOK
  <1>3. TypeOK'
    BY <1>1, <1>2 DEF TypeOK
  <1>4. LocalInForce' /\ LeadsBack(undo', val', base')
    BY <1>1, <1>2 DEF LocalInForce
  <1> QED BY <1>2, <1>3, <1>4

LEMMA StepPreserves == IInv /\ [Next]_vars => IInv'
PROOF
  <1> SUFFICES ASSUME IInv, [Next]_vars
               PROVE  IInv'
    OBVIOUS
  <1>1. ASSUME NEW v \in Vars, NEW x \in Values, Set(v, x) \/ SetLocal(v, x)
        PROVE  IInv'
    BY <1>1, SetPreserves, SetLocalPreserves
  <1>2. ASSUME NEW v \in Vars, Reset(v)
        PROVE  IInv'
    <2>1. {v} \in SUBSET Vars /\ ResetNames({v})
      BY <1>2 DEF Reset
    <2> QED BY <2>1, ResetPreserves
  <1>3. CASE ResetAll
    <2>1. Vars \cap Resettable \in SUBSET Vars /\ ResetNames(Vars \cap Resettable)
      BY <1>3 DEF ResetAll
    <2> QED BY <2>1, ResetPreserves
  <1> QED BY <1>1, <1>2, <1>3, BeginPreserves, PromotePreserves, EndPreserves, OthersPreserve
          DEF Next

\* The inductive invariant holds of every reachable state.
THEOREM VariablesInvariance == Spec => []IInv
PROOF
  <1> QED BY InitEstablishes, StepPreserves, PTL DEF Spec

\* What SET LOCAL did is undone when its transaction ends, and nothing else:
\* between transactions the settings are those that SET, RESET and the
\* consumption of the tag made; and inside one the owner uses what SET LOCAL
\* says (pushLocalVarUndo, retireLocalVarUndo, restoreLocalVarsIfIdle).
THEOREM SettingsAreSound == Spec => []VariablesSound
PROOF
  <1>1. ASSUME IInv
        PROVE  VariablesSound
    <2>1. SettingsReturn
      <3> SUFFICES ASSUME owner.mode = "none"
                   PROVE  val = base
        BY DEF SettingsReturn, InTransaction
      <3>1. undo = <<>> /\ val \in [Vars -> Values] /\ base \in [Vars -> Values]
        BY <1>1 DEF IInv, TypeOK
      <3>2. DOMAIN undo = {}
        BY <3>1
      <3>3. \A v \in Vars : val[v] = base[v]
        BY <1>1, <3>2 DEF IInv, LeadsBack
      <3> QED BY <3>1, <3>3
    <2> QED BY <1>1, <2>1 DEF IInv, VariablesSound
  <1> QED BY <1>1, VariablesInvariance, PTL

-----------------------------------------------------------------------------
(* What no step may do.                                                    *)

LEMMA FailureIsClean ==
    ASSUME IInv, [Next]_vars
    PROVE  FailedChangesNothing
PROOF
  <1> SUFFICES ASSUME ~ok'
               PROVE  val' = val /\ undo' = undo
    BY DEF FailedChangesNothing
  <1>1. ASSUME NEW v \in Vars, NEW x \in Values, Set(v, x) \/ SetLocal(v, x)
        PROVE  val' = val /\ undo' = undo
    BY <1>1 DEF Set, SetLocal, Refused
  <1>2. ASSUME NEW names, ResetNames(names)
        PROVE  val' = val /\ undo' = undo
    BY <1>2, PreparedCommits DEF ResetNames, CommitReset
  <1>3. ASSUME NEW done \in BOOLEAN, Promote(done)
        PROVE  val' = val /\ undo' = undo
    BY <1>3 DEF Promote, Consume
  <1>4. CASE \/ \E m \in {"pending", "rw", "ro"} : Begin(m)
             \/ Work \/ End \/ ToggleBatch
    BY <1>4 DEF Begin, Work, End, ToggleBatch
  <1>5. CASE UNCHANGED vars
    BY <1>5 DEF vars
  <1> QED BY <1>1, <1>2, <1>3, <1>4, <1>5 DEF Next, Reset, ResetAll

\* A transaction guards the variable, or an open batch does, or no statement
\* changes it.
Guarded(v) ==
    \/ v \in TxnGuarded \cup {"AUTOCOMMIT"} /\ InTransaction
    \/ v \in {"AUTOCOMMIT", "CLI_SAVEPOINT_SUPPORT"} /\ batch
    \/ v \notin Settable \ InitOnly

\* A guarded variable takes no value that is new to it.
LEMMA GuardedRefuses ==
    ASSUME NEW v \in Vars, Guarded(v), NEW x, CanSet(v, x)
    PROVE  x = val[v]
BY Table DEF Guarded, CanSet, Admitted, HandlerAdmits

\* Nor does it take a SET LOCAL, so the log does not name it; and it is not the tag.
LEMMA GuardedNotLocal ==
    ASSUME NEW v \in Vars, Guarded(v)
    PROVE  v \notin LocalAllowed /\ v # Tag
BY Table DEF Guarded

LEMMA GuardedStays ==
    ASSUME IInv, [Next]_vars, NEW v \in Vars, Guarded(v)
    PROVE  val'[v] = val[v]
PROOF
  <1>1. val \in [Vars -> Values] /\ undo \in Seq(LocalVar)
    BY DEF IInv, TypeOK
  <1>2. v \notin LocalAllowed /\ v # Tag
    BY GuardedNotLocal
  <1>3. ASSUME NEW w \in Vars, NEW x \in Values, Set(w, x)
        PROVE  val'[v] = val[v]
    BY <1>1, <1>3, GuardedRefuses DEF Set
  <1>4. ASSUME NEW w \in Vars, NEW x \in Values, SetLocal(w, x)
        PROVE  val'[v] = val[v]
    BY <1>1, <1>2, <1>4 DEF SetLocal, Refused
  <1>5. ASSUME NEW names, ResetNames(names)
        PROVE  val'[v] = val[v]
    <2>1. CASE ~Prepared(names)
      BY <1>5, <2>1 DEF ResetNames
    <2>2. CASE Prepared(names)
      <3>1. val'[v] = IF v \in names THEN snap[v] ELSE val[v]
        BY <1>5, <2>2, PreparedCommits DEF ResetNames, CommitReset
      <3>2. v \in names => val[v] = snap[v] \/ CanSet(v, snap[v])
        BY <2>2 DEF Prepared
      <3> QED BY <3>1, <3>2, GuardedRefuses
    <2> QED BY <2>1, <2>2
  <1>6. CASE \/ \E m \in {"pending", "rw", "ro"} : Begin(m)
             \/ \E done \in BOOLEAN : Promote(done)
    BY <1>1, <1>2, <1>6 DEF Begin, Promote, Consume
  <1>7. CASE End
    <2>1. \A i \in DOMAIN undo : undo[i].name # v
      <3>1. \A i \in DOMAIN undo : undo[i] \in LocalVar
        BY <1>1
      <3> QED BY <1>2, <3>1, VarsAssumption DEF LocalVar
    <2>2. Replayed(undo)[v] = val[v]
      BY <2>1 DEF Replayed
    <2> QED BY <1>7, <2>2 DEF End
  <1>8. CASE Work \/ ToggleBatch \/ UNCHANGED vars
    BY <1>8 DEF Work, ToggleBatch, vars
  <1> QED BY <1>3, <1>4, <1>5, <1>6, <1>7, <1>8 DEF Next, Reset, ResetAll

LEMMA PolicyStays ==
    ASSUME IInv, [Next]_vars, owner'.mode # "none",
           NEW v \in Vars \cap (Hooked \ {"CLI_DDL_IN_TRANSACTION_MODE"}), InUse(v)
    PROVE  owner'.caught[v] = owner.caught[v]
PROOF
  <1>1. /\ owner \in Owner
        /\ owner.mode # "none" => owner.caught \in [Vars \cap Hooked -> Values]
    BY DEF IInv, TypeOK
  <1>2. owner.mode # "none"
    BY DEF IInv, TypeOK, NoOwner, InUse
  <1>3. ASSUME NEW w \in Vars, NEW x \in Values, SetLocal(w, x)
        PROVE  owner'.caught[v] = owner.caught[v]
    <2>1. CASE owner' = owner
      BY <2>1
    <2>2. CASE owner' = [owner EXCEPT !.caught[w] = x] /\ HookAdmits(w, x)
      <3>1. CASE w = v
        <4>1. owner.caught[w] = x
          BY <2>2, <3>1 DEF HookAdmits, Hooked, InUse
        <4>2. v \in Vars \cap Hooked
          BY DEF Hooked
        <4> QED BY <1>1, <1>2, <2>2, <3>1, <4>1, <4>2 DEF Owner
      <3>2. CASE w # v
        BY <1>1, <1>2, <2>2, <3>2 DEF Owner
      <3> QED BY <3>1, <3>2
    <2> QED BY <1>3, <2>1, <2>2 DEF SetLocal
  <1>4. CASE \E done \in BOOLEAN : Promote(done)
    BY <1>1, <1>4 DEF Promote, Owner
  <1>5. CASE Work
    BY <1>1, <1>5 DEF Work, Owner
  <1>6. ~(\E m \in {"pending", "rw", "ro"} : Begin(m)) /\ ~End
    BY <1>2 DEF Begin, End, InTransaction, NoOwner
  <1>7. CASE ToggleBatch \/ UNCHANGED vars
    BY <1>7 DEF ToggleBatch, vars
  <1>8. ASSUME \/ \E w \in Vars, x \in Values : Set(w, x)
               \/ \E names \in SUBSET Vars : ResetNames(names)
        PROVE  owner'.caught[v] = owner.caught[v]
    BY <1>8 DEF Set, ResetNames
  <1>9. ASSUME NEW w \in Vars, Reset(w)
        PROVE  ResetNames({w}) /\ {w} \in SUBSET Vars
    BY <1>9 DEF Reset
  <1>10. ASSUME ResetAll
         PROVE  \E names \in SUBSET Vars : ResetNames(names)
    BY <1>10 DEF ResetAll
  <1> QED BY <1>3, <1>4, <1>5, <1>6, <1>7, <1>8, <1>9, <1>10 DEF Next

\* A statement that fails changes no setting, RESET ALL not even some of them;
\* what a transaction or an open batch guards stays while it lasts, and what an
\* owner has started to use does not change under it (checkSetPolicy,
\* prepareReset, commitReset, applyLocalTransactionTimeout).
THEOREM SettingsStepsHold == Spec => SettingsSteps
PROOF
  <1>1. ASSUME IInv, [Next]_vars
        PROVE  VariablesStep
    <2>1. FailedChangesNothing
      BY <1>1, FailureIsClean
    <2>2. GuardsHold
      BY <1>1, GuardedStays DEF GuardsHold, Guarded, InTransaction
    <2>3. FrozenStays
      BY <1>1, PolicyStays DEF FrozenStays
    <2> QED BY <2>1, <2>2, <2>3 DEF VariablesStep
  <1> QED BY <1>1, VariablesInvariance, PTL DEF Spec, SettingsSteps

-----------------------------------------------------------------------------
(***************************************************************************)
(*                              ColumnWidths                               *)
(*                                                                         *)
(* The argument is about sums.  Total is a recursive function; a lemma     *)
(* about it is a set of indices that holds 0 and is closed under the next  *)
(* one.  With the sums at hand the invariant of the two loops says that    *)
(* widths are at least one, that they take no more than the line (plus one *)
(* for every header of no width), and that nothing that fits has become    *)
(* too narrow or, before the last step, too wide.                          *)
(***************************************************************************)

-----------------------------------------------------------------------------
(* Counting up, with a set in the place of a predicate.                    *)

\* A set of naturals that is not empty has a least element.
LEMMA Least ==
    ASSUME NEW S \in SUBSET Nat, S # {}
    PROVE  \E m \in S : \A k \in S : m <= k
PROOF
  <1> DEFINE R == OpToRel(<, Nat)
  <1>1. PICK m \in S : \A k \in S : ~ (<<k, m>> \in R)
    BY NatLessThanWellFounded, WFMin
  <1>2. \A k \in S : ~ (k < m)
    BY <1>1 DEF OpToRel
  <1>3. m \in Nat /\ \A k \in S : k \in Nat
    OBVIOUS
  <1>4. \A k \in S : m <= k
    BY <1>2, <1>3
  <1> QED BY <1>4

\* A set that holds 0 and with every number the next one holds all of 0..n.
LEMMA CountUp ==
    ASSUME NEW n \in Nat, NEW T, 0 \in T, \A m \in 1..n : m - 1 \in T => m \in T
    PROVE  \A m \in 0..n : m \in T
PROOF
  <1> DEFINE S == {m \in 0..n : m \notin T}
  <1>1. SUFFICES ASSUME S # {}
                 PROVE  FALSE
    OBVIOUS
  <1>2. S \in SUBSET Nat
    OBVIOUS
  <1>3. PICK m \in S : \A k \in S : m <= k
    BY <1>1, <1>2, Least
  <1>4. m \in 1..n
    BY <1>3
  <1>5. m - 1 \in 0..n /\ m - 1 \notin S
    BY <1>3, <1>4
  <1> QED BY <1>3, <1>4, <1>5

-----------------------------------------------------------------------------
(* Sums.                                                                   *)

\* The sums of the first values of ws, whose last one is the total.
IsSum(f, ws, n) ==
    f[0] = 0 /\ \A m \in 1..n : f[m] = f[m - 1] + ws[m]

LEMMA TotalSums ==
    ASSUME NEW n \in Nat, NEW ws \in [1..n -> Int]
    PROVE  \E f \in [0..n -> Int] : IsSum(f, ws, n) /\ Total(ws) = f[n]
PROOF
  <1> DEFINE Up(f) == [m \in 0..n |-> IF m = 0 THEN 0 ELSE f[m - 1] + ws[m]]
             T == {m \in 0..n : \E f \in [0..m -> Int] : IsSum(f, ws, m)}
  <1>1. Len(ws) = n
    OBVIOUS
  <1>2. \A m \in 0..n : m \in T
    <2>1. 0 \in T
      <3> DEFINE z == [m \in 0..0 |-> 0]
      <3>1. z \in [0..0 -> Int] /\ IsSum(z, ws, 0)
        BY DEF IsSum
      <3> QED BY <3>1
    <2>2. ASSUME NEW m \in 1..n, m - 1 \in T
          PROVE  m \in T
      <3>1. PICK f \in [0..(m - 1) -> Int] : IsSum(f, ws, m - 1)
        BY <2>2
      <3> DEFINE g == [k \in 0..m |-> IF k = m THEN f[m - 1] + ws[m] ELSE f[k]]
      <3>2. g \in [0..m -> Int]
        BY <3>1
      <3>3. /\ g[0] = 0 /\ g[m] = g[m - 1] + ws[m]
            /\ \A k \in 1..(m - 1) : g[k] = f[k] /\ g[k - 1] = f[k - 1]
        BY <3>1 DEF IsSum
      <3>4. \A k \in 1..m : g[k] = g[k - 1] + ws[k]
        BY <3>1, <3>3 DEF IsSum
      <3> HIDE DEF g
      <3>5. IsSum(g, ws, m)
        BY <3>3, <3>4 DEF IsSum
      <3> QED BY <3>2, <3>5
    <2> HIDE DEF T
    <2> QED BY <2>1, <2>2, CountUp
  <1>3. PICK f \in [0..n -> Int] : IsSum(f, ws, n)
    BY <1>2
  <1>4. f = Up(f)
    BY <1>3 DEF IsSum
  <1> DEFINE g == CHOOSE h : h = Up(h)
  <1>5. g = Up(g)
    BY <1>4
  <1>6. Total(ws) = g[n]
    BY <1>1 DEF Total
  <1> HIDE DEF g
  <1>7. IsSum(g, ws, n)
    BY <1>5 DEF IsSum
  <1>8. \A m \in 0..n : m \in {k \in 0..n : g[k] \in Int}
    <2> DEFINE G == {k \in 0..n : g[k] \in Int}
    <2>1. 0 \in G /\ \A m \in 1..n : m - 1 \in G => m \in G
      BY <1>7 DEF IsSum
    <2> HIDE DEF G
    <2>2. \A m \in 0..n : m \in G
      BY <2>1, CountUp
    <2> QED BY <2>2 DEF G
  <1>9. g \in [0..n -> Int]
    BY <1>5, <1>8
  <1> QED BY <1>6, <1>7, <1>9

\* Of two sequences, the one that is nowhere larger has no larger sum.
LEMMA SumMono ==
    ASSUME NEW n \in Nat, NEW ws \in [1..n -> Int], NEW vs \in [1..n -> Int],
           \A i \in 1..n : ws[i] <= vs[i]
    PROVE  Total(ws) <= Total(vs)
PROOF
  <1>1. PICK f \in [0..n -> Int] : IsSum(f, ws, n) /\ Total(ws) = f[n]
    BY TotalSums
  <1>2. PICK g \in [0..n -> Int] : IsSum(g, vs, n) /\ Total(vs) = g[n]
    BY TotalSums
  <1> DEFINE T == {m \in 0..n : f[m] <= g[m]}
  <1>3. 0 \in T
    BY <1>1, <1>2 DEF IsSum
  <1>4. ASSUME NEW m \in 1..n, m - 1 \in T
        PROVE  m \in T
    BY <1>1, <1>2, <1>4 DEF IsSum
  <1> HIDE DEF T
  <1>5. \A m \in 0..n : m \in T
    BY <1>3, <1>4, CountUp
  <1> QED BY <1>1, <1>2, <1>5 DEF T

\* A sum of sums.
LEMMA SumPlus ==
    ASSUME NEW n \in Nat, NEW ws \in [1..n -> Int], NEW vs \in [1..n -> Int],
           NEW us \in [1..n -> Int], \A i \in 1..n : us[i] = ws[i] + vs[i]
    PROVE  Total(us) = Total(ws) + Total(vs)
PROOF
  <1>1. PICK f \in [0..n -> Int] : IsSum(f, ws, n) /\ Total(ws) = f[n]
    BY TotalSums
  <1>2. PICK g \in [0..n -> Int] : IsSum(g, vs, n) /\ Total(vs) = g[n]
    BY TotalSums
  <1>3. PICK h \in [0..n -> Int] : IsSum(h, us, n) /\ Total(us) = h[n]
    BY TotalSums
  <1> DEFINE T == {m \in 0..n : h[m] = f[m] + g[m]}
  <1>4. 0 \in T
    BY <1>1, <1>2, <1>3 DEF IsSum
  <1>5. ASSUME NEW m \in 1..n, m - 1 \in T
        PROVE  m \in T
    BY <1>1, <1>2, <1>3, <1>5 DEF IsSum
  <1> HIDE DEF T
  <1>6. \A m \in 0..n : m \in T
    BY <1>4, <1>5, CountUp
  <1> QED BY <1>1, <1>2, <1>3, <1>6 DEF T

\* One value changes.
LEMMA SumUpdate ==
    ASSUME NEW n \in Nat, NEW ws \in [1..n -> Int], NEW k \in 1..n,
           NEW us \in [1..n -> Int], \A i \in 1..n : i # k => us[i] = ws[i]
    PROVE  Total(us) = Total(ws) + us[k] - ws[k]
PROOF
  <1> DEFINE x == us[k]
  <1>0. x \in Int /\ us[k] = x
    OBVIOUS
  <1> HIDE DEF x
  <1>1. PICK f \in [0..n -> Int] : IsSum(f, ws, n) /\ Total(ws) = f[n]
    BY TotalSums
  <1>2. PICK g \in [0..n -> Int] : IsSum(g, us, n) /\ Total(us) = g[n]
    BY TotalSums
  <1> DEFINE T == {m \in 0..n : g[m] = IF k <= m THEN f[m] + x - ws[k] ELSE f[m]}
  <1>3. 0 \in T
    BY <1>1, <1>2 DEF IsSum
  <1>4. ASSUME NEW m \in 1..n, m - 1 \in T
        PROVE  m \in T
    <2>1. CASE m = k
      BY <1>0, <1>1, <1>2, <1>4, <2>1 DEF IsSum
    <2>2. CASE m # k
      <3>1. /\ f[m] = f[m - 1] + ws[m] /\ g[m] = g[m - 1] + ws[m] /\ m - 1 \in 0..n
            /\ f[m - 1] \in Int /\ ws[m] \in Int /\ ws[k] \in Int
        <4>1. m \in 1..n /\ us[m] = ws[m] /\ ws[m] \in Int /\ ws[k] \in Int /\ m - 1 \in 0..n
          BY <1>0, <2>2
        <4>2. f[m] = f[m - 1] + ws[m] /\ f[m - 1] \in Int
          BY <1>1, <4>1 DEF IsSum
        <4>3. g[m] = g[m - 1] + us[m]
          BY <1>2, <4>1 DEF IsSum
        <4> QED BY <4>1, <4>2, <4>3
      <3>2. g[m - 1] = IF k <= m - 1 THEN f[m - 1] + x - ws[k] ELSE f[m - 1]
        BY <1>4
      <3>3. g[m] = IF k <= m THEN f[m] + x - ws[k] ELSE f[m]
        <4>1. CASE k <= m - 1
          <5>1. k <= m /\ f[m] \in Int /\ g[m - 1] = f[m - 1] + x - ws[k]
            BY <3>1, <3>2, <4>1
          <5> DEFINE a == f[m - 1]
                     b == ws[m]
                     c == ws[k]
          <5>2. a \in Int /\ b \in Int /\ c \in Int /\ f[m] = a + b /\ g[m] = (a + x - c) + b
            BY <3>1, <5>1
          <5> HIDE DEF a, b, c
          <5>3. (a + x - c) + b = (a + b) + x - c
            BY <5>2, <1>0
          <5>4. g[m] = f[m] + x - c
            BY <5>2, <5>3
          <5> QED BY <5>1, <5>4 DEF c
        <4>2. CASE ~ (k <= m - 1)
          BY <3>1, <3>2, <4>2, <2>2
        <4> QED BY <4>1, <4>2
      <3> QED BY <3>3
    <2> QED BY <2>1, <2>2
  <1> HIDE DEF T
  <1>5. \A m \in 0..n : m \in T
    BY <1>3, <1>4, CountUp
  <1>6. Total(us) = Total(ws) + x - ws[k]
    BY <1>1, <1>2, <1>5 DEF T
  <1> QED BY <1>6 DEF x

\* Every value c times as large.
LEMMA SumScale ==
    ASSUME NEW n \in Nat, NEW ws \in [1..n -> Int], NEW c \in Int,
           NEW us \in [1..n -> Int], \A i \in 1..n : us[i] = c * ws[i]
    PROVE  Total(us) = c * Total(ws)
PROOF
  <1>1. PICK f \in [0..n -> Int] : IsSum(f, ws, n) /\ Total(ws) = f[n]
    BY TotalSums
  <1>2. PICK g \in [0..n -> Int] : IsSum(g, us, n) /\ Total(us) = g[n]
    BY TotalSums
  <1> DEFINE T == {m \in 0..n : g[m] = c * f[m]}
  <1>3. 0 \in T
    BY <1>1, <1>2 DEF IsSum
  <1>4. ASSUME NEW m \in 1..n, m - 1 \in T
        PROVE  m \in T
    <2>1. /\ f[m] = f[m - 1] + ws[m] /\ g[m] = g[m - 1] + c * ws[m]
          /\ g[m - 1] = c * f[m - 1]
      BY <1>1, <1>2, <1>4 DEF IsSum
    <2>2. \A a, b \in Int : c * (a + b) = c * a + c * b
      OBVIOUS
    <2>3. f[m - 1] \in Int /\ ws[m] \in Int
      BY <1>4
    <2> QED BY <2>1, <2>2, <2>3
  <1> HIDE DEF T
  <1>5. \A m \in 0..n : m \in T
    BY <1>3, <1>4, CountUp
  <1> QED BY <1>1, <1>2, <1>5 DEF T

\* c everywhere, and one more for the first r.
LEMMA SumUpTo ==
    ASSUME NEW n \in Nat, NEW ws \in [1..n -> Int], NEW c \in Int, NEW r \in Int, r <= n,
           \A i \in 1..n : ws[i] = IF i <= r THEN c + 1 ELSE c
    PROVE  Total(ws) = c * n + Larger(r, 0)
PROOF
  <1>1. PICK f \in [0..n -> Int] : IsSum(f, ws, n) /\ Total(ws) = f[n]
    BY TotalSums
  <1> DEFINE T == {m \in 0..n : f[m] = c * m + (IF m <= r THEN m ELSE Larger(r, 0))}
  <1>3. 0 \in T
    BY <1>1 DEF IsSum, Larger
  <1>4. ASSUME NEW m \in 1..n, m - 1 \in T
        PROVE  m \in T
    <2>1. f[m] = f[m - 1] + ws[m] /\ m \in Int
      BY <1>1 DEF IsSum
    <2>2. f[m - 1] = c * (m - 1) + (IF m - 1 <= r THEN m - 1 ELSE Larger(r, 0))
      BY <1>4
    <2>3. c * (m - 1) = c * m - c
      BY <2>1
    <2>4. c * m \in Int
      BY <2>1
    <2> DEFINE cm == c * m
    <2> HIDE DEF cm
    <2>5. f[m - 1] = cm - c + (IF m - 1 <= r THEN m - 1 ELSE Larger(r, 0))
      BY <2>2, <2>3 DEF cm
    <2>6. cm \in Int
      BY <2>4 DEF cm
    <2>7. f[m] = cm + (IF m <= r THEN m ELSE Larger(r, 0))
      <3>1. CASE m <= r
        BY <2>1, <2>5, <2>6, <3>1
      <3>2. CASE m - 1 = r
        <4>1. f[m - 1] = cm - c + (m - 1) /\ ws[m] = c /\ Larger(r, 0) = m - 1
          BY <2>5, <3>2 DEF Larger
        <4> QED BY <2>1, <2>6, <3>2, <4>1
      <3>3. CASE m - 1 > r
        <4>1. f[m - 1] = cm - c + Larger(r, 0) /\ ws[m] = c /\ Larger(r, 0) \in Int
          BY <2>5, <3>3 DEF Larger
        <4> QED BY <2>1, <2>6, <3>3, <4>1
      <3> QED BY <3>1, <3>2, <3>3
    <2> QED BY <2>7 DEF cm
  <1> HIDE DEF T
  <1>5. \A m \in 0..n : m \in T
    BY <1>3, <1>4, CountUp
  <1>6. f[n] = c * n + (IF n <= r THEN n ELSE Larger(r, 0))
    BY <1>5 DEF T
  <1>7. n <= r => n = Larger(r, 0)
    BY DEF Larger
  <1> QED BY <1>1, <1>6, <1>7

\* One for every member of a set.
LEMMA SumCount ==
    ASSUME NEW n \in Nat, NEW ws \in [1..n -> Int], NEW S \in SUBSET (1..n),
           \A i \in 1..n : ws[i] = IF i \in S THEN 1 ELSE 0
    PROVE  Total(ws) = Cardinality(S)
PROOF
  <1>1. PICK f \in [0..n -> Int] : IsSum(f, ws, n) /\ Total(ws) = f[n]
    BY TotalSums
  <1> DEFINE Upto(m) == S \cap (1..m)
             T == {m \in 0..n : f[m] = Cardinality(Upto(m))}
  <1>2. \A m \in 0..n : IsFiniteSet(Upto(m))
    <2>1. \A m \in 0..n : IsFiniteSet(1..m)
      BY FS_Interval
    <2> QED BY <2>1, FS_Intersection
  <1>3. 0 \in T
    <2>1. Upto(0) = {}
      OBVIOUS
    <2> HIDE DEF Upto
    <2>2. Cardinality(Upto(0)) = 0
      BY <2>1, FS_EmptySet
    <2>3. f[0] = 0
      BY <1>1 DEF IsSum
    <2> QED BY <2>2, <2>3
  <1>4. ASSUME NEW m \in 1..n, m - 1 \in T
        PROVE  m \in T
    <2>1. f[m] = f[m - 1] + ws[m]
      BY <1>1 DEF IsSum
    <2>2. f[m - 1] = Cardinality(Upto(m - 1)) /\ m - 1 \in 0..n
      BY <1>4
    <2>3. m \notin Upto(m - 1)
      OBVIOUS
    <2>4. CASE m \in S
      <3>1. Upto(m) = Upto(m - 1) \cup {m}
        BY <2>4
      <3>2. Cardinality(Upto(m)) = Cardinality(Upto(m - 1)) + 1
        <4> HIDE DEF Upto
        <4> QED BY <3>1, <2>2, <2>3, <1>2, FS_AddElement
      <3> QED BY <2>1, <2>2, <2>4, <3>2
    <2>5. CASE m \notin S
      <3>1. Upto(m) = Upto(m - 1)
        BY <2>5
      <3> HIDE DEF Upto
      <3>2. f[m - 1] \in Int /\ ws[m] = 0
        BY <2>2, <2>5
      <3> QED BY <2>1, <2>2, <3>1, <3>2
    <2> QED BY <2>4, <2>5
  <1> HIDE DEF T
  <1>5. \A m \in 0..n : m \in T
    BY <1>3, <1>4, CountUp
  <1>6. Upto(n) = S
    OBVIOUS
  <1> HIDE DEF Upto
  <1> QED BY <1>1, <1>5, <1>6 DEF T

\* A sum of what is not negative is not either, and no value is larger than it.
LEMMA SumNat ==
    ASSUME NEW n \in Nat, NEW ws \in [1..n -> Int], \A i \in 1..n : 0 <= ws[i]
    PROVE  Total(ws) \in Nat /\ \A i \in 1..n : ws[i] <= Total(ws)
PROOF
  <1>1. ASSUME NEW us \in [1..n -> Int], \A i \in 1..n : 0 <= us[i]
        PROVE  Total(us) \in Nat
    <2>1. PICK f \in [0..n -> Int] : IsSum(f, us, n) /\ Total(us) = f[n]
      BY TotalSums
    <2> DEFINE T == {m \in 0..n : 0 <= f[m]}
    <2>2. 0 \in T
      BY <2>1 DEF IsSum
    <2>3. ASSUME NEW m \in 1..n, m - 1 \in T
          PROVE  m \in T
      BY <1>1, <2>1, <2>3 DEF IsSum
    <2> HIDE DEF T
    <2>4. \A m \in 0..n : m \in T
      BY <2>2, <2>3, CountUp
    <2> QED BY <2>1, <2>4 DEF T
  <1>2. ASSUME NEW i \in 1..n
        PROVE  ws[i] <= Total(ws)
    <2> DEFINE us == [ws EXCEPT ![i] = 0]
    <2>1. us \in [1..n -> Int] /\ \A j \in 1..n : 0 <= us[j]
      OBVIOUS
    <2>2. us[i] = 0 /\ \A j \in 1..n : j # i => us[j] = ws[j]
      OBVIOUS
    <2> HIDE DEF us
    <2>3. Total(us) = Total(ws) + us[i] - ws[i] /\ ws[i] \in Int
      BY <2>1, <2>2, SumUpdate
    <2>4. Total(us) \in Nat /\ Total(ws) \in Nat
      BY <1>1, <2>1
    <2> QED BY <2>2, <2>3, <2>4
  <1> QED BY <1>1, <1>2

\* A sum of integers is one.
LEMMA SumInt ==
    ASSUME NEW n \in Nat, NEW ws \in [1..n -> Int]
    PROVE  Total(ws) \in Int
PROOF
  <1>1. PICK f \in [0..n -> Int] : IsSum(f, ws, n) /\ Total(ws) = f[n]
    BY TotalSums
  <1> QED BY <1>1

-----------------------------------------------------------------------------
(* The first of the best.                                                  *)

\* Every non-empty set of indices has a first one with the largest value.
LEMMA FirstBest ==
    ASSUME NEW n \in Nat, NEW S \in SUBSET (1..n), S # {}, NEW f, \A i \in S : f[i] \in Int
    PROVE  \E i \in S : \A j \in S : f[j] < f[i] \/ (f[j] = f[i] /\ i <= j)
PROOF
  <1> DEFINE Best(i, m) == \A j \in S \cap (1..m) : f[j] < f[i] \/ (f[j] = f[i] /\ i <= j)
             T == {m \in 0..n : S \cap (1..m) = {} \/ \E i \in S \cap (1..m) : Best(i, m)}
  <1>1. 0 \in T
    OBVIOUS
  <1>2. ASSUME NEW m \in 1..n, m - 1 \in T
        PROVE  m \in T
    <2>1. CASE m \notin S
      <3>1. S \cap (1..m) = S \cap (1..(m - 1))
        BY <2>1
      <3> QED BY <1>2, <3>1
    <2>2. CASE m \in S /\ S \cap (1..(m - 1)) = {}
      <3>1. S \cap (1..m) = {m}
        BY <2>2
      <3>2. f[m] \in Int
        BY <2>2
      <3>3. Best(m, m)
        BY <3>1, <3>2
      <3> HIDE DEF Best
      <3> QED BY <3>1, <3>3
    <2>3. CASE m \in S /\ S \cap (1..(m - 1)) # {}
      <3>1. PICK i \in S \cap (1..(m - 1)) : Best(i, m - 1)
        BY <1>2, <2>3
      <3>2. f[i] \in Int /\ f[m] \in Int /\ i < m /\ i \in S \cap (1..m) /\ m \in S \cap (1..m)
        BY <2>3
      <3>3. \A j \in S \cap (1..m) : j = m \/ j \in S \cap (1..(m - 1))
        OBVIOUS
      <3>4. CASE f[m] <= f[i]
        <4>1. Best(i, m)
          BY <3>1, <3>2, <3>3, <3>4
        <4> HIDE DEF Best
        <4> QED BY <3>2, <4>1
      <3>5. CASE f[m] > f[i]
        <4>1. Best(m, m)
          <5> SUFFICES ASSUME NEW j \in S \cap (1..m)
                       PROVE  f[j] < f[m] \/ (f[j] = f[m] /\ m <= j)
            OBVIOUS
          <5>1. CASE j = m
            BY <5>1, <3>2
          <5>2. CASE j # m
            <6>1. j \in S \cap (1..(m - 1)) /\ f[j] \in Int
              BY <3>3, <5>2
            <6>2. f[j] <= f[i]
              BY <6>1, <3>1, <3>2
            <6> QED BY <6>1, <6>2, <3>2, <3>5
          <5> QED BY <5>1, <5>2
        <4> HIDE DEF Best
        <4> QED BY <3>2, <4>1
      <3> QED BY <3>2, <3>4, <3>5
    <2> QED BY <2>1, <2>2, <2>3
  <1> HIDE DEF T
  <1>3. \A m \in 0..n : m \in T
    BY <1>1, <1>2, CountUp
  <1>4. S \cap (1..n) = S
    OBVIOUS
  <1>5. n \in T
    BY <1>3
  <1>6. \E i \in S \cap (1..n) : Best(i, n)
    BY <1>4, <1>5 DEF T
  <1> QED BY <1>4, <1>6

\* FirstLargest is one of the indices.
LEMMA FirstLargestIn ==
    ASSUME NEW n \in Nat \ {0}, NEW f \in [1..n -> Int]
    PROVE  FirstLargest(f) \in 1..n
PROOF
  <1>1. 1..n # {} /\ 1..n \in SUBSET (1..n) /\ \A i \in 1..n : f[i] \in Int
    OBVIOUS
  <1>2. \E i \in 1..n : \A j \in 1..n : f[j] < f[i] \/ (f[j] = f[i] /\ i <= j)
    BY <1>1, FirstBest
  <1>3. DOMAIN f = 1..n
    OBVIOUS
  <1> QED BY <1>2, <1>3 DEF FirstLargest

\* The largest of some of the values of a sequence.
LEMMA MaxOfSome ==
    ASSUME NEW n \in Nat, NEW f \in [1..n -> Int],
           NEW S \in SUBSET {f[i] : i \in 1..n}, S # {}
    PROVE  Max(S) \in S /\ Max(S) \in Int /\ \A x \in S : x <= Max(S)
PROOF
  <1> DEFINE I == {i \in 1..n : f[i] \in S}
  <1>1. I \in SUBSET (1..n) /\ I # {} /\ \A i \in I : f[i] \in Int
    OBVIOUS
  <1>2. PICK i \in I : \A j \in I : f[j] < f[i] \/ (f[j] = f[i] /\ i <= j)
    <2> HIDE DEF I
    <2> QED BY <1>1, FirstBest
  <1>3. f[i] \in S /\ \A x \in S : x \in Int /\ f[i] >= x
    BY <1>2
  <1>4. Max(S) \in S /\ \A x \in S : Max(S) >= x
    BY <1>3 DEF Max
  <1> QED BY <1>3, <1>4

\* The smallest of some naturals.
LEMMA MinOfSome ==
    ASSUME NEW S \in SUBSET Nat, S # {}
    PROVE  Min(S) \in S /\ \A x \in S : Min(S) <= x
PROOF
  <1>1. PICK m \in S : \A k \in S : m <= k
    BY Least
  <1> QED BY <1>1 DEF Min

-----------------------------------------------------------------------------
(* Columns and what they measure.                                          *)

\* The widths of the texts of a column are natural, and its header and what
\* should not be wrapped are no wider than the widest text.
LEMMA ColumnFacts ==
    ASSUME NEW c \in Kinds
    PROVE  /\ \E k \in Nat : DOMAIN Texts(c) = 1..k
           /\ \A r \in DOMAIN Texts(c) : Texts(c)[r] \in Nat /\ Texts(c)[r] <= Natural(c)
           /\ c.head \in Nat /\ c.head <= Natural(c)
           /\ Natural(c) \in Nat /\ Natural(c) \in {Texts(c)[r] : r \in DOMAIN Texts(c)}
           /\ Preferred(c) \in Nat /\ Preferred(c) <= Natural(c)
PROOF
  <1> DEFINE x == Texts(c)
             k == Len(x)
             S == {x[r] : r \in DOMAIN x}
             z == <<0>> \o c.cells
             P == c.hard \cup {0}
  <1>1. /\ c.head \in Nat /\ c.cells \in Seq(Nat)
        /\ c.hard \subseteq {c.cells[r] : r \in DOMAIN c.cells}
    BY KindsAssumption
  <1>2. c.cells \in Seq(Nat)
    BY <1>1
  <1>3. x \in Seq(Nat)
    <2>1. <<c.head>> \in Seq(Nat)
      BY <1>1
    <2> QED BY <1>2, <2>1, ConcatProperties DEF Texts
  <1>4. k \in Nat /\ DOMAIN x = 1..k /\ x \in [1..k -> Nat] /\ x \in [1..k -> Int]
    BY <1>3
  <1>5. k = 1 + Len(c.cells) /\ x[1] = c.head /\ \A r \in 1..Len(c.cells) : x[r + 1] = c.cells[r]
    BY <1>1, <1>2 DEF Texts
  <1>6. S \in SUBSET {x[r] : r \in 1..k} /\ c.head \in S
    BY <1>2, <1>4, <1>5
  <1>7. Max(S) \in S /\ Max(S) \in Int /\ \A y \in S : y <= Max(S)
    <2> HIDE DEF S, x, k
    <2> QED BY <1>4, <1>6, MaxOfSome
  <1>8. Natural(c) = Max(S)
    BY DEF Natural
  <1>9. Max(S) \in Nat
    BY <1>4, <1>7
  <1>10. z \in Seq(Nat) /\ Len(z) = 1 + Len(c.cells)
        /\ z[1] = 0 /\ \A r \in 1..Len(c.cells) : z[r + 1] = c.cells[r]
    BY <1>2
  <1>11. Len(z) \in Nat /\ z \in [1..Len(z) -> Int] /\ DOMAIN c.cells = 1..Len(c.cells)
         /\ Len(c.cells) \in Nat
    <2>1. DOMAIN c.cells = 1..Len(c.cells) /\ Len(c.cells) \in Nat
      BY <1>2
    <2> HIDE DEF z
    <2>2. Len(z) \in Nat /\ z \in [1..Len(z) -> Nat]
      BY <1>10
    <2>3. z \in [1..Len(z) -> Int]
      BY <2>2
    <2> QED BY <2>1, <2>2, <2>3
  <1>12. P \in SUBSET {z[r] : r \in 1..Len(z)} /\ P # {}
    <2>1. ASSUME NEW y \in c.hard
          PROVE  y \in {z[r] : r \in 1..Len(z)}
      <3>1. PICK r \in 1..Len(c.cells) : y = c.cells[r]
        BY <1>1, <1>11
      <3>2. r + 1 \in 1..Len(z) /\ z[r + 1] = y
        BY <3>1, <1>10, <1>11
      <3> HIDE DEF z
      <3> QED BY <3>2
    <2>2. 0 \in {z[r] : r \in 1..Len(z)}
      <3>1. 1 \in 1..Len(z) /\ z[1] = 0
        BY <1>10, <1>11
      <3> HIDE DEF z
      <3> QED BY <3>1
    <2> HIDE DEF z
    <2> QED BY <2>1, <2>2
  <1>13. Max(P) \in P /\ Max(P) \in Int /\ \A y \in P : y <= Max(P)
    <2> HIDE DEF P, z
    <2> QED BY <1>11, <1>12, MaxOfSome
  <1>14. Preferred(c) = Max(P)
    BY DEF Preferred
  <1>15. Max(P) \in Nat /\ Max(P) <= Max(S)
    <2>1. \A y \in c.hard : y \in S
      <3> SUFFICES ASSUME NEW y \in c.hard
                   PROVE  y \in S
        OBVIOUS
      <3>1. PICK r \in 1..Len(c.cells) : y = c.cells[r]
        BY <1>1, <1>11
      <3>2. r + 1 \in 1..k /\ x[r + 1] = y
        BY <3>1, <1>5, <1>11
      <3> HIDE DEF x, k
      <3> QED BY <3>2, <1>4
    <2>2. Max(P) \in c.hard \/ Max(P) = 0
      BY <1>13
    <2> HIDE DEF P, S
    <2>3. CASE Max(P) \in c.hard
      <3>1. Max(P) \in S
        BY <2>1, <2>3
      <3>2. Max(P) \in Nat
        BY <3>1, <1>4 DEF S
      <3> QED BY <3>1, <3>2, <1>7
    <2>4. CASE Max(P) = 0
      BY <2>4, <1>9
    <2> QED BY <2>2, <2>3, <2>4
  <1> HIDE DEF S, P, z, k
  <1>16. \A r \in DOMAIN x : x[r] \in S
    BY DEF S
  <1>17. Natural(c) \in {Texts(c)[r] : r \in DOMAIN Texts(c)}
    BY <1>7, <1>8 DEF S
  <1>18. Texts(c) = x
    OBVIOUS
  <1> HIDE DEF x
  <1> QED BY <1>1, <1>4, <1>6, <1>7, <1>8, <1>9, <1>14, <1>15, <1>16, <1>17, <1>18

-----------------------------------------------------------------------------
(* Cutting to a sum.                                                       *)

\* The same width for all fills the line, or is one each.
LEMMA EvenSum ==
    ASSUME NEW n \in Nat \ {0}, NEW limit \in Int
    PROVE  /\ Even(limit, n) \in [1..n -> Int] /\ \A i \in 1..n : Even(limit, n)[i] >= 1
           /\ Total(Even(limit, n)) = Larger(limit, n)
PROOF
  <1> DEFINE q == limit \div n
             each == Larger(q, 1)
             r == limit - each * n
             e == Even(limit, n)
  <1>1. q \in Int /\ n * q <= limit /\ limit < n * q + n
    OBVIOUS
  <1>2. each \in Int /\ each >= 1
    BY <1>1 DEF Larger
  <1>3. each * n \in Int /\ r \in Int
    BY <1>2
  <1>4. r <= n /\ each * n + Larger(r, 0) = Larger(limit, n)
    <2>1. CASE q >= 1
      <3>1. each = q
        BY <2>1, <1>1 DEF Larger
      <3>2. each * n = n * q /\ n * q >= n
        BY <3>1, <2>1, <1>1
      <3> DEFINE m == n * q
      <3> HIDE DEF m, q, each
      <3>3. each * n = m /\ m >= n /\ m <= limit /\ limit < m + n /\ m \in Int
        BY <1>1, <3>2 DEF m
      <3> QED BY <3>3 DEF Larger
    <2>2. CASE q < 1
      <3>1. each = 1 /\ each * n = n
        BY <2>2, <1>1 DEF Larger
      <3>2. limit < n
        <4>1. n * q <= 0
          BY <2>2, <1>1
        <4> QED BY <4>1, <1>1
      <3> HIDE DEF q, each
      <3> QED BY <3>1, <3>2 DEF Larger
    <2> QED BY <2>1, <2>2, <1>1
  <1>5. e = [i \in 1..n |-> IF i <= r THEN each + 1 ELSE each]
    BY DEF Even
  <1> HIDE DEF e, r, each, q
  <1>6. e \in [1..n -> Int] /\ \A i \in 1..n : e[i] = IF i <= r THEN each + 1 ELSE each
    BY <1>2, <1>5
  <1>7. Total(e) = each * n + Larger(r, 0)
    BY <1>2, <1>3, <1>4, <1>6, SumUpTo
  <1>8. \A i \in 1..n : e[i] >= 1
    BY <1>2, <1>6
  <1> QED BY <1>4, <1>6, <1>7, <1>8 DEF e

\* Widths that fit stay as they are; others are cut to fit, none to nothing
\* unless all are; or all are the same.
LEMMA CutSum ==
    ASSUME NEW n \in Nat \ {0}, NEW limit \in Int, NEW vs \in [1..n -> Int],
           \A i \in 1..n : vs[i] >= 0
    PROVE  LET a == AdjustToSum(limit, vs)
           IN /\ a \in [1..n -> Int] /\ \A i \in 1..n : a[i] >= 0
              /\ Total(vs) <= limit => a = vs
              /\ \/ \A i \in 1..n : a[i] = 0
                 \/ Total(a) <= limit /\ \A i \in 1..n : vs[i] >= 1 => a[i] >= 1
                 \/ Total(a) <= Larger(limit, n) /\ \A i \in 1..n : a[i] >= 1
PROOF
  <1> DEFINE cut(t) == [i \in 1..n |-> Smaller(vs[i], t)]
             R == {vs[i] : i \in 1..n}
             fitting == {t \in R : Total(cut(t)) <= limit}
             a == AdjustToSum(limit, vs)
  <1>1. DOMAIN vs = 1..n /\ Len(vs) = n
    OBVIOUS
  <1>2. a = IF fitting # {} THEN cut(Max(fitting)) ELSE Even(limit, n)
    BY <1>1 DEF AdjustToSum
  <1>3. \A t \in Int : /\ cut(t) \in [1..n -> Int]
                       /\ \A i \in 1..n : cut(t)[i] = IF vs[i] < t THEN vs[i] ELSE t
    BY DEF Smaller
  <1>4. R # {} /\ R \in SUBSET {vs[i] : i \in 1..n} /\ R \in SUBSET Int
        /\ \A t \in R : t >= 0
    OBVIOUS
  <1>5. Max(R) \in R /\ Max(R) \in Int /\ \A t \in R : t <= Max(R)
    <2> HIDE DEF R
    <2> QED BY <1>4, MaxOfSome
  <1>6. \A i \in 1..n : vs[i] \in R
    OBVIOUS
  <1>7. cut(Max(R)) = vs
    <2> HIDE DEF R
    <2>1. \A i \in 1..n : cut(Max(R))[i] = vs[i]
      BY <1>3, <1>5, <1>6
    <2> DEFINE u == cut(Max(R))
    <2>2. u \in [1..n -> Int] /\ \A i \in 1..n : u[i] = vs[i]
      BY <2>1, <1>3, <1>5
    <2> HIDE DEF u
    <2>3. u = vs
      BY <2>2
    <2> QED BY <2>3 DEF u
  <1> HIDE DEF R, a, cut
  <1>8. CASE fitting # {}
    <2> DEFINE t == Max(fitting)
    <2>1. fitting \in SUBSET {vs[i] : i \in 1..n}
      BY DEF R
    <2>2. t \in fitting /\ t \in Int /\ \A y \in fitting : y <= t
      <3> HIDE DEF fitting
      <3> QED BY <1>8, <2>1, MaxOfSome
    <2>3. t \in R /\ t >= 0 /\ Total(cut(t)) <= limit
      BY <2>2, <1>4
    <2>4. a = cut(t)
      BY <1>2, <1>8
    <2> HIDE DEF t
    <2>5. /\ a \in [1..n -> Int]
          /\ \A i \in 1..n : a[i] = IF vs[i] < t THEN vs[i] ELSE t
      BY <2>2, <2>4, <1>3
    <2>6. \A i \in 1..n : a[i] >= 0
      BY <2>2, <2>3, <2>5
    <2>7. Total(vs) <= limit => a = vs
      <3> SUFFICES ASSUME Total(vs) <= limit
                   PROVE  a = vs
        OBVIOUS
      <3>1. Max(R) \in fitting
        BY <1>5, <1>7
      <3>2. t = Max(R)
        BY <3>1, <2>2, <2>3, <1>5
      <3> QED BY <3>2, <2>4, <1>7
    <2>8. CASE t = 0
      <3>1. \A i \in 1..n : a[i] = 0
        BY <2>5, <2>8
      <3> QED BY <3>1, <2>5, <2>6, <2>7 DEF a
    <2>9. CASE t # 0
      <3>1. \A i \in 1..n : vs[i] >= 1 => a[i] >= 1
        BY <2>2, <2>3, <2>5, <2>9
      <3> QED BY <3>1, <2>3, <2>4, <2>5, <2>6, <2>7 DEF a
    <2> QED BY <2>8, <2>9
  <1>9. CASE fitting = {}
    <2>1. a = Even(limit, n)
      BY <1>2, <1>9
    <2>2. /\ a \in [1..n -> Int] /\ \A i \in 1..n : a[i] >= 1
          /\ Total(a) = Larger(limit, n)
      BY <2>1, EvenSum
    <2>3. ~ (Total(vs) <= limit)
      BY <1>5, <1>7, <1>9
    <2>4. \A i \in 1..n : a[i] >= 0
      BY <2>2
    <2>5. Total(a) <= Larger(limit, n)
      <3>1. Larger(limit, n) \in Int
        BY DEF Larger
      <3> QED BY <3>1, <2>2
    <2> QED BY <2>2, <2>3, <2>4, <2>5 DEF a
  <1> QED BY <1>8, <1>9

\* What measuring makes of the headers vs and the hints: one character at least,
\* in sum what fits and one more for every header of no width, and all that is
\* wanted where that fits.
LEMMA FlooredSum ==
    ASSUME NEW n \in Nat \ {0}, NEW limit \in Int,
           NEW vs \in [1..n -> Int], \A i \in 1..n : vs[i] >= 0,
           NEW hints \in [1..n -> Int], \A i \in 1..n : hints[i] >= 0
    PROVE  LET w == Floored(AdjustToSum(limit, vs), hints, limit)
               wanted == [i \in 1..n |-> Larger(1, Larger(vs[i], hints[i]))]
           IN /\ w \in [1..n -> Int] /\ \A i \in 1..n : w[i] >= 1
              /\ Total(w) <= Larger(limit, n) + Cardinality({i \in 1..n : vs[i] = 0})
              /\ Total(wanted) <= limit => w = wanted
PROOF
  <1> DEFINE a == AdjustToSum(limit, vs)
             w == Floored(a, hints, limit)
             wanted == [i \in 1..n |-> Larger(1, Larger(vs[i], hints[i]))]
             U == {i \in 1..n : vs[i] = 0}
             soft == [i \in 1..n |-> Larger(a[i], Larger(1, hints[i]))]
             one == [i \in 1..n |-> Larger(a[i], 1)]
             big == Larger(limit, n)
  <1>1. /\ a \in [1..n -> Int] /\ \A i \in 1..n : a[i] >= 0
        /\ Total(vs) <= limit => a = vs
        /\ \/ \A i \in 1..n : a[i] = 0
           \/ Total(a) <= limit /\ \A i \in 1..n : vs[i] >= 1 => a[i] >= 1
           \/ Total(a) <= big /\ \A i \in 1..n : a[i] >= 1
    BY CutSum
  <1> HIDE DEF a
  <1>2. DOMAIN a = 1..n
    BY <1>1
  <1>3. w = IF Total(soft) <= limit THEN soft ELSE one
    BY <1>2 DEF Floored
  <1>4. U \in SUBSET (1..n) /\ IsFiniteSet(U) /\ Cardinality(U) \in Nat
    <2>1. U \in SUBSET (1..n) /\ IsFiniteSet(1..n)
      BY FS_Interval
    <2> HIDE DEF U
    <2> QED BY <2>1, FS_Subset, FS_CardinalityType
  <1>5. big \in Int /\ big >= limit /\ big >= n
    BY DEF Larger
  <1>6. /\ soft \in [1..n -> Int] /\ one \in [1..n -> Int] /\ wanted \in [1..n -> Int]
        /\ \A i \in 1..n : soft[i] >= 1 /\ one[i] >= 1
    BY <1>1 DEF Larger
  <1>7. \A i \in 1..n : one[i] = IF a[i] < 1 THEN 1 ELSE a[i]
    BY DEF Larger
  <1>8. \A i \in 1..n : vs[i] <= wanted[i]
    BY DEF Larger
  <1>9. a = vs => soft = wanted
    <2> SUFFICES ASSUME a = vs
                 PROVE  soft = wanted
      OBVIOUS
    <2>1. \A i \in 1..n : Larger(vs[i], Larger(1, hints[i])) = Larger(1, Larger(vs[i], hints[i]))
      BY DEF Larger
    <2> QED BY <2>1
  <1> HIDE DEF w, soft, one, wanted, U, big
  <1>10. Total(one) <= big + Cardinality(U)
    <2>1. Total(one) \in Int /\ Total(a) \in Int
      BY <1>1, <1>6, SumInt
    <2>2. CASE \A i \in 1..n : a[i] = 0
      <3>1. \A i \in 1..n : one[i] = IF i <= 0 THEN 1 + 1 ELSE 1
        BY <1>7, <2>2
      <3>2. Total(one) = 1 * n + Larger(0, 0)
        <4>1. 0 <= n /\ 0 \in Int /\ 1 \in Int
          OBVIOUS
        <4> QED BY <1>6, <3>1, <4>1, SumUpTo
      <3>3. Total(one) = n
        BY <3>2 DEF Larger
      <3> QED BY <3>3, <1>4, <1>5
    <2>3. CASE Total(a) <= limit /\ \A i \in 1..n : vs[i] >= 1 => a[i] >= 1
      <3> DEFINE u == [i \in 1..n |-> IF i \in U THEN 1 ELSE 0]
                 b == [i \in 1..n |-> a[i] + u[i]]
      <3>1. u \in [1..n -> Int] /\ \A i \in 1..n : u[i] = IF i \in U THEN 1 ELSE 0
        OBVIOUS
      <3>2. b \in [1..n -> Int] /\ \A i \in 1..n : b[i] = a[i] + u[i]
        BY <1>1, <3>1
      <3> HIDE DEF u, b
      <3>3. Total(u) = Cardinality(U)
        BY <1>4, <3>1, SumCount
      <3>4. Total(b) = Total(a) + Total(u)
        <4>1. a \in [1..n -> Int] /\ u \in [1..n -> Int] /\ b \in [1..n -> Int]
          BY <1>1, <3>1, <3>2
        <4>2. \A i \in 1..n : b[i] = a[i] + u[i]
          BY <3>2
        <4>3. n \in Nat
          OBVIOUS
        <4>4. \A z \in [1..n -> Int] : (\A i \in 1..n : z[i] = a[i] + u[i]) =>
                 Total(z) = Total(a) + Total(u)
          BY <4>1, <4>3, SumPlus
        <4> QED BY <4>1, <4>2, <4>4
      <3>5. \A i \in 1..n : one[i] <= b[i]
        <4> SUFFICES ASSUME NEW i \in 1..n
                     PROVE  one[i] <= b[i]
          OBVIOUS
        <4>1. a[i] \in Int /\ a[i] >= 0 /\ vs[i] \in Int /\ vs[i] >= 0
          BY <1>1
        <4>2. CASE i \in U
          BY <4>1, <4>2, <1>7, <3>1, <3>2
        <4>3. CASE i \notin U
          <5>1. vs[i] >= 1
            BY <4>1, <4>3 DEF U
          <5>2. a[i] >= 1
            BY <5>1, <2>3
          <5> QED BY <4>1, <5>2, <4>3, <1>7, <3>1, <3>2
        <4> QED BY <4>2, <4>3
      <3>6. Total(one) <= Total(b)
        BY <1>6, <3>2, <3>5, SumMono
      <3> QED BY <2>1, <2>3, <3>3, <3>4, <3>6, <1>4, <1>5
    <2>4. CASE Total(a) <= big /\ \A i \in 1..n : a[i] >= 1
      <3>1. \A i \in 1..n : one[i] <= a[i]
        BY <1>1, <1>7, <2>4
      <3>2. Total(one) <= Total(a)
        BY <1>1, <1>6, <3>1, SumMono
      <3> QED BY <2>1, <2>4, <3>2, <1>4, <1>5
    <2> QED BY <1>1, <2>2, <2>3, <2>4
  <1>11. Total(w) <= big + Cardinality(U) /\ w \in [1..n -> Int] /\ \A i \in 1..n : w[i] >= 1
    <2>1. CASE Total(soft) <= limit
      <3>1. Total(soft) \in Int
        BY <1>6, SumInt
      <3> QED BY <1>3, <1>4, <1>5, <1>6, <2>1, <3>1
    <2>2. CASE ~ (Total(soft) <= limit)
      BY <1>3, <1>6, <1>10, <2>2
    <2> QED BY <2>1, <2>2
  <1>12. Total(wanted) <= limit => w = wanted
    <2> SUFFICES ASSUME Total(wanted) <= limit
                 PROVE  w = wanted
      OBVIOUS
    <2>1. Total(vs) <= Total(wanted)
      BY <1>6, <1>8, SumMono
    <2>2. Total(vs) \in Int /\ Total(wanted) \in Int
      BY <1>6, SumInt
    <2>3. a = vs
      BY <2>1, <2>2, <1>1
    <2> QED BY <2>3, <1>3, <1>9
  <1> QED BY <1>11, <1>12 DEF w, a, wanted, U, big

-----------------------------------------------------------------------------
(* The inductive invariant of the strategies.                              *)

Unnamed == {i \in Cols : table[i].head = 0}
Wanted == [i \in Cols |-> Larger(1, Larger(table[i].head, Preferred(table[i])))]
Whole == [i \in Cols |-> Larger(1, Natural(table[i]))]

\* Whole texts are looked at, and they fit the screen.
FitsWhole == strategy # "MARGINAL_COST" /\ Total(Whole) <= room

\* Widths that may be drawn but for what is left of the line.
Bounded(ws) ==
    /\ ws \in [Cols -> Int] /\ \A i \in Cols : ws[i] >= 1
    /\ Total(ws) <= Larger(room, Len(table)) + Cardinality(Unnamed)
    /\ Total(Wanted) <= room => \A i \in Cols : ws[i] >= Preferred(table[i])

TableType ==
    /\ \E n \in Nat \ {0} : table \in [1..n -> Kinds]
    /\ room \in Int
    /\ strategy \in {"GREEDY_FREQUENCY", "PROPORTIONAL", "MARGINAL_COST"}
    /\ stage \in {"measure", "grow", "done"}

WidthsInv ==
    /\ TableType
    /\ stage # "measure" => Bounded(widths)
    /\ stage = "grow" /\ FitsWhole => \A i \in Cols : widths[i] <= Whole[i]
    /\ stage = "done" =>
          /\ Total(widths) >= room
          /\ FitsWhole => \A i \in Cols : widths[i] >= Natural(table[i])

\* What is the same for all widths of a table.
LEMMA TableFacts ==
    ASSUME NEW n \in Nat \ {0}, table \in [1..n -> Kinds]
    PROVE  /\ Cols = 1..n /\ Len(table) = n
           /\ \A i \in 1..n :
                 /\ table[i] \in Kinds
                 /\ table[i].head \in Nat /\ table[i].head <= Natural(table[i])
                 /\ Natural(table[i]) \in Nat
                 /\ Preferred(table[i]) \in Nat /\ Preferred(table[i]) <= Natural(table[i])
           /\ Wanted \in [1..n -> Int] /\ Whole \in [1..n -> Int]
           /\ \A i \in 1..n : Wanted[i] = Larger(1, Larger(table[i].head, Preferred(table[i])))
           /\ \A i \in 1..n : Whole[i] = Larger(1, Natural(table[i])) /\ Wanted[i] <= Whole[i]
           /\ Cardinality(Unnamed) \in Nat
           /\ Total(Wanted) \in Int /\ Total(Whole) \in Int /\ Total(Wanted) <= Total(Whole)
PROOF
  <1>1. Cols = 1..n /\ Len(table) = n
    BY DEF Cols
  <1>2. \A i \in 1..n : table[i] \in Kinds
    OBVIOUS
  <1>3. \A i \in 1..n :
           /\ table[i].head \in Nat /\ table[i].head <= Natural(table[i])
           /\ Natural(table[i]) \in Nat
           /\ Preferred(table[i]) \in Nat /\ Preferred(table[i]) <= Natural(table[i])
    BY <1>2, ColumnFacts
  <1>4. /\ \A i \in 1..n : Wanted[i] = Larger(1, Larger(table[i].head, Preferred(table[i])))
        /\ \A i \in 1..n : Whole[i] = Larger(1, Natural(table[i]))
        /\ DOMAIN Wanted = 1..n /\ DOMAIN Whole = 1..n
    BY <1>1 DEF Wanted, Whole
  <1>5. \A i \in 1..n : Wanted[i] \in Int /\ Whole[i] \in Int /\ Wanted[i] <= Whole[i]
    <2> SUFFICES ASSUME NEW i \in 1..n
                 PROVE  Wanted[i] \in Int /\ Whole[i] \in Int /\ Wanted[i] <= Whole[i]
      OBVIOUS
    <2>1. \A h, p, t \in Nat : h <= t /\ p <= t =>
             /\ Larger(1, Larger(h, p)) \in Int /\ Larger(1, t) \in Int
             /\ Larger(1, Larger(h, p)) <= Larger(1, t)
      BY DEF Larger
    <2>2. /\ Wanted[i] = Larger(1, Larger(table[i].head, Preferred(table[i])))
          /\ Whole[i] = Larger(1, Natural(table[i]))
      BY <1>4
    <2>3. /\ table[i].head \in Nat /\ Preferred(table[i]) \in Nat /\ Natural(table[i]) \in Nat
          /\ table[i].head <= Natural(table[i]) /\ Preferred(table[i]) <= Natural(table[i])
      BY <1>3
    <2> QED BY <2>1, <2>2, <2>3
  <1>6. Wanted \in [1..n -> Int] /\ Whole \in [1..n -> Int]
    BY <1>1, <1>4, <1>5 DEF Wanted, Whole
  <1>7. Cardinality(Unnamed) \in Nat
    <2>1. Unnamed \in SUBSET (1..n) /\ IsFiniteSet(1..n)
      BY <1>1, FS_Interval DEF Unnamed
    <2> QED BY <2>1, FS_Subset, FS_CardinalityType
  <1>8. Total(Wanted) \in Int /\ Total(Whole) \in Int /\ Total(Wanted) <= Total(Whole)
    BY <1>5, <1>6, SumInt, SumMono
  <1> QED BY <1>1, <1>2, <1>3, <1>4, <1>5, <1>6, <1>7, <1>8

\* What a step of a strategy leaves alone.
LEMMA SameTable ==
    ASSUME UNCHANGED <<table, room, strategy>>
    PROVE  /\ Cols' = Cols /\ Unnamed' = Unnamed /\ Wanted' = Wanted /\ Whole' = Whole
           /\ FitsWhole' <=> FitsWhole
           /\ Bounded(widths)' <=> Bounded(widths')
PROOF
  <1>1. Cols' = Cols
    BY DEF Cols
  <1>2. Unnamed' = Unnamed /\ Wanted' = Wanted /\ Whole' = Whole
    BY <1>1 DEF Unnamed, Wanted, Whole
  <1> QED BY <1>1, <1>2 DEF FitsWhole, Bounded

LEMMA WidthInitInv ==
    ASSUME WidthInit
    PROVE  WidthsInv
PROOF
  <1>1. PICK n \in 1..MaxCols : table \in [1..n -> Kinds]
    BY DEF WidthInit
  <1>2. n \in Nat \ {0} /\ Len(table) = n
    BY <1>1, MaxColsAssumption
  <1>3. PICK screen \in Screens : room = screen - (4 + 3 * (Len(table) - 1))
    BY DEF WidthInit
  <1>4. room \in Int
    BY <1>2, <1>3, ScreensAssumption
  <1> QED BY <1>1, <1>2, <1>4 DEF WidthInit, WidthsInv, TableType

LEMMA MeasureInv ==
    ASSUME WidthsInv, Measure
    PROVE  WidthsInv'
PROOF
  <1>1. PICK n \in Nat \ {0} : table \in [1..n -> Kinds]
    BY DEF WidthsInv, TableType
  <1> DEFINE heads == [i \in Cols |-> table[i].head]
             hints == [i \in Cols |-> Preferred(table[i])]
  <1>2. /\ Cols = 1..n /\ Len(table) = n
        /\ \A i \in 1..n :
              /\ table[i] \in Kinds
              /\ table[i].head \in Nat /\ table[i].head <= Natural(table[i])
              /\ Natural(table[i]) \in Nat
              /\ Preferred(table[i]) \in Nat /\ Preferred(table[i]) <= Natural(table[i])
        /\ Wanted \in [1..n -> Int] /\ Whole \in [1..n -> Int]
        /\ \A i \in 1..n : Wanted[i] = Larger(1, Larger(table[i].head, Preferred(table[i])))
        /\ \A i \in 1..n : Whole[i] = Larger(1, Natural(table[i])) /\ Wanted[i] <= Whole[i]
        /\ Total(Wanted) \in Int /\ Total(Whole) \in Int /\ Total(Wanted) <= Total(Whole)
    BY <1>1, TableFacts
  <1>3. /\ room \in Int /\ stage' = "grow" /\ widths' = Floored(AdjustToSum(room, heads), hints, room)
        /\ UNCHANGED <<table, room, strategy>>
    BY DEF Measure, WidthsInv, TableType
  <1>4. /\ heads \in [1..n -> Int] /\ hints \in [1..n -> Int]
        /\ \A i \in 1..n : /\ heads[i] = table[i].head /\ hints[i] = Preferred(table[i])
                           /\ heads[i] >= 0 /\ hints[i] >= 0
    BY <1>2
  <1> HIDE DEF heads, hints
  <1> DEFINE wanted == [i \in 1..n |-> Larger(1, Larger(heads[i], hints[i]))]
             none == {i \in 1..n : heads[i] = 0}
  <1>5. /\ widths' \in [1..n -> Int] /\ \A i \in 1..n : widths'[i] >= 1
        /\ Total(widths') <= Larger(room, n) + Cardinality(none)
        /\ Total(wanted) <= room => widths' = wanted
    BY <1>3, <1>4, FlooredSum
  <1>6. none = Unnamed
    BY <1>2, <1>4 DEF Unnamed
  <1>7. wanted = Wanted
    <2>1. \A i \in 1..n : wanted[i] = Wanted[i]
      BY <1>2, <1>4
    <2>2. wanted = [i \in 1..n |-> wanted[i]] /\ Wanted = [i \in 1..n |-> Wanted[i]]
      BY <1>2
    <2> HIDE DEF wanted
    <2> QED BY <2>1, <2>2
  <1> HIDE DEF wanted, none
  <1>8. Total(Wanted) <= room => \A i \in 1..n : widths'[i] >= Preferred(table[i])
    <2> SUFFICES ASSUME Total(Wanted) <= room, NEW i \in 1..n
                 PROVE  widths'[i] >= Preferred(table[i])
      OBVIOUS
    <2>1. widths'[i] = Larger(1, Larger(table[i].head, Preferred(table[i])))
      BY <1>2, <1>5, <1>7
    <2>2. table[i].head \in Nat /\ Preferred(table[i]) \in Nat
      BY <1>2
    <2> QED BY <2>1, <2>2 DEF Larger
  <1>9. Bounded(widths')
    BY <1>2, <1>5, <1>6, <1>8 DEF Bounded
  <1>10. FitsWhole => \A i \in 1..n : widths'[i] <= Whole[i]
    <2> SUFFICES ASSUME FitsWhole, NEW i \in 1..n
                 PROVE  widths'[i] <= Whole[i]
      OBVIOUS
    <2>1. Total(Wanted) <= room
      BY <1>2, <1>3 DEF FitsWhole
    <2>2. widths' = Wanted
      BY <2>1, <1>5, <1>7
    <2> QED BY <2>2, <1>2
  <1>11. /\ Cols' = Cols /\ Whole' = Whole /\ (FitsWhole' <=> FitsWhole)
         /\ (Bounded(widths)' <=> Bounded(widths'))
    BY <1>3, SameTable
  <1>12. TableType'
    BY <1>3 DEF WidthsInv, TableType
  <1> QED BY <1>2, <1>3, <1>9, <1>10, <1>11, <1>12 DEF WidthsInv

\* A column that grows by what is left and by no more than its texts.
LEMMA GrowInv ==
    ASSUME WidthsInv, stage = "grow", NEW i \in Cols, NEW x \in Int,
           x > widths[i], x - widths[i] <= Left,
           strategy # "MARGINAL_COST" => x <= Natural(table[i]),
           widths' = [widths EXCEPT ![i] = x],
           UNCHANGED <<table, room, strategy, stage>>
    PROVE  WidthsInv'
PROOF
  <1>1. PICK n \in Nat \ {0} : table \in [1..n -> Kinds]
    BY DEF WidthsInv, TableType
  <1>2. /\ Cols = 1..n /\ Len(table) = n
        /\ \A j \in 1..n : Natural(table[j]) \in Nat /\ Preferred(table[j]) \in Nat
        /\ Whole \in [1..n -> Int] /\ \A j \in 1..n : Whole[j] = Larger(1, Natural(table[j]))
        /\ Cardinality(Unnamed) \in Nat
    BY <1>1, TableFacts
  <1>3. Bounded(widths) /\ room \in Int
    BY DEF WidthsInv, TableType
  <1>4. /\ widths \in [1..n -> Int] /\ i \in 1..n /\ \A j \in 1..n : widths[j] >= 1
        /\ Total(widths) \in Int
    BY <1>2, <1>3, SumInt DEF Bounded
  <1>5. /\ widths' \in [1..n -> Int] /\ widths'[i] = x
        /\ \A j \in 1..n : j # i => widths'[j] = widths[j]
    BY <1>4
  <1>6. Total(widths') = Total(widths) + x - widths[i]
    <2>1. \A us \in [1..n -> Int] : (\A j \in 1..n : j # i => us[j] = widths[j]) =>
             Total(us) = Total(widths) + us[i] - widths[i]
      BY <1>4, SumUpdate
    <2> QED BY <2>1, <1>5
  <1>7. Total(widths') <= room
    BY <1>3, <1>4, <1>6 DEF Left
  <1>8. \A j \in 1..n : widths'[j] >= widths[j]
    BY <1>4, <1>5
  <1>9. Total(widths') <= Larger(room, Len(table)) + Cardinality(Unnamed)
    <2>1. Larger(room, n) >= room /\ Larger(room, n) \in Int
      BY <1>3 DEF Larger
    <2>2. Total(widths') \in Int
      BY <1>5, SumInt
    <2> QED BY <2>1, <2>2, <1>2, <1>3, <1>7
  <1>10. Bounded(widths')
    <2>1. \A j \in 1..n : widths'[j] >= 1
      BY <1>4, <1>5, <1>8
    <2>2. Total(Wanted) <= room => \A j \in 1..n : widths'[j] >= Preferred(table[j])
      <3> SUFFICES ASSUME Total(Wanted) <= room, NEW j \in 1..n
                   PROVE  widths'[j] >= Preferred(table[j])
        OBVIOUS
      <3>1. widths[j] >= Preferred(table[j])
        BY <1>2, <1>3 DEF Bounded
      <3> QED BY <3>1, <1>2, <1>4, <1>5, <1>8
    <2> QED BY <2>1, <2>2, <1>2, <1>5, <1>9 DEF Bounded
  <1>11. FitsWhole => \A j \in 1..n : widths'[j] <= Whole[j]
    <2> SUFFICES ASSUME FitsWhole, NEW j \in 1..n
                 PROVE  widths'[j] <= Whole[j]
      OBVIOUS
    <2>1. widths[j] <= Whole[j]
      BY <1>2 DEF WidthsInv
    <2>2. CASE j = i
      <3>1. x <= Natural(table[i]) /\ Natural(table[i]) \in Nat
            /\ Whole[i] = Larger(1, Natural(table[i]))
        BY <1>2, <1>4 DEF FitsWhole
      <3> QED BY <3>1, <2>2, <1>5 DEF Larger
    <2> QED BY <2>1, <2>2, <1>5
  <1>12. /\ Cols' = Cols /\ Whole' = Whole /\ (FitsWhole' <=> FitsWhole)
         /\ (Bounded(widths)' <=> Bounded(widths'))
    BY SameTable
  <1>13. TableType' /\ stage' = "grow"
    BY DEF WidthsInv, TableType
  <1> QED BY <1>2, <1>10, <1>11, <1>12, <1>13 DEF WidthsInv

\* The next width of a column that has one is a text of it.
LEMMA NextWidthFacts ==
    ASSUME NEW n \in Nat \ {0}, table \in [1..n -> Kinds], widths \in [1..n -> Int],
           NEW i \in 1..n, widths[i] >= 1
    PROVE  /\ Wider(i) # {} =>
                 /\ NextWidth(i) \in Int /\ NextWidth(i) > widths[i]
                 /\ NextWidth(i) <= Natural(table[i])
           /\ Wider(i) = {} => Natural(table[i]) <= widths[i]
           /\ Count(i) \in Int
PROOF
  <1>0. table[i] \in Kinds
    OBVIOUS
  <1>1. PICK k \in Nat : DOMAIN Texts(table[i]) = 1..k
    BY <1>0, ColumnFacts
  <1>2. /\ \A r \in 1..k : Texts(table[i])[r] \in Nat /\ Texts(table[i])[r] <= Natural(table[i])
        /\ Natural(table[i]) \in Nat
        /\ Natural(table[i]) \in {Texts(table[i])[r] : r \in 1..k}
    BY <1>0, <1>1, ColumnFacts
  <1> DEFINE R == {Texts(table[i])[r] : r \in 1..k}
  <1>3. R \in SUBSET Nat /\ (\A y \in R : y <= Natural(table[i])) /\ Natural(table[i]) \in R
    BY <1>2
  <1>4. Wider(i) = {w \in R : w > widths[i]}
    BY <1>1 DEF Wider
  <1> HIDE DEF R
  <1>5. Wider(i) # {} =>
           NextWidth(i) \in Int /\ NextWidth(i) > widths[i] /\ NextWidth(i) <= Natural(table[i])
    <2> SUFFICES ASSUME Wider(i) # {}
                 PROVE  NextWidth(i) \in Int /\ NextWidth(i) > widths[i]
                        /\ NextWidth(i) <= Natural(table[i])
      OBVIOUS
    <2>1. Wider(i) \in SUBSET Nat
      BY <1>3, <1>4
    <2>2. NextWidth(i) \in Wider(i)
      BY <2>1, MinOfSome DEF NextWidth
    <2> QED BY <2>1, <2>2, <1>3, <1>4
  <1>6. Wider(i) = {} => Natural(table[i]) <= widths[i]
    <2>1. Natural(table[i]) \in Int /\ widths[i] \in Int
      BY <1>2
    <2> QED BY <2>1, <1>3, <1>4
  <1>7. Count(i) \in Int
    <2> DEFINE C == {r \in DOMAIN Texts(table[i]) : Texts(table[i])[r] = NextWidth(i)}
    <2>1. C \in SUBSET (1..k) /\ IsFiniteSet(1..k)
      BY <1>1, FS_Interval
    <2>2. Count(i) = Cardinality(C)
      BY DEF Count
    <2> HIDE DEF C
    <2>3. Cardinality(C) \in Nat
      BY <2>1, FS_Subset, FS_CardinalityType
    <2> QED BY <2>2, <2>3
  <1> QED BY <1>5, <1>6, <1>7

LEMMA GrowFrequentInv ==
    ASSUME WidthsInv, GrowFrequent
    PROVE  WidthsInv'
PROOF
  <1>1. PICK n \in Nat \ {0} : table \in [1..n -> Kinds]
    BY DEF WidthsInv, TableType
  <1>2. Cols = 1..n
    BY <1>1, TableFacts
  <1>3. widths \in [1..n -> Int] /\ \A i \in 1..n : widths[i] >= 1
    BY <1>2 DEF GrowFrequent, WidthsInv, Bounded
  <1>4. Affordable \in SUBSET (1..n) /\ Affordable # {}
    BY <1>2 DEF Affordable, GrowFrequent
  <1> DEFINE f == [i \in 1..n |-> Count(i)]
  <1>5. \A i \in 1..n : Count(i) \in Int
    BY <1>1, <1>3, NextWidthFacts
  <1>6. \E i \in Affordable : \A j \in Affordable : f[j] < f[i] \/ (f[j] = f[i] /\ i <= j)
    <2>1. \A i \in Affordable : f[i] \in Int
      BY <1>4, <1>5
    <2> HIDE DEF f
    <2> QED BY <2>1, <1>4, FirstBest
  <1>7. \E i \in Affordable :
           \A j \in Affordable : Count(j) < Count(i) \/ (Count(j) = Count(i) /\ i <= j)
    BY <1>4, <1>6
  <1>8. MostFrequent \in Affordable
    BY <1>7 DEF MostFrequent
  <1> DEFINE m == MostFrequent
  <1>9. m \in 1..n /\ Wider(m) # {} /\ NextWidth(m) - widths[m] <= Left
    BY <1>4, <1>8 DEF Affordable
  <1>10. widths' = [widths EXCEPT ![m] = NextWidth(m)] /\ stage = "grow"
         /\ UNCHANGED <<table, room, strategy, stage>>
    BY DEF GrowFrequent
  <1> HIDE DEF m
  <1>11. /\ NextWidth(m) \in Int /\ NextWidth(m) > widths[m]
         /\ NextWidth(m) <= Natural(table[m])
    BY <1>1, <1>3, <1>9, NextWidthFacts
  <1> QED BY <1>2, <1>9, <1>10, <1>11, GrowInv

LEMMA GrowMarginalInv ==
    ASSUME WidthsInv, GrowMarginal
    PROVE  WidthsInv'
PROOF
  <1>1. PICK n \in Nat \ {0} : table \in [1..n -> Kinds]
    BY DEF WidthsInv, TableType
  <1>2. Cols = 1..n
    BY <1>1, TableFacts
  <1>3. widths \in [1..n -> Int] /\ room \in Int
    BY <1>2 DEF GrowMarginal, WidthsInv, TableType, Bounded
  <1>4. PICK i \in Heap : widths' = [widths EXCEPT ![i] = @ + 1]
    BY DEF GrowMarginal
  <1>5. i \in Cols /\ widths[i] \in Int
    BY <1>2, <1>3 DEF Heap
  <1> DEFINE x == widths[i] + 1
  <1>6. widths' = [widths EXCEPT ![i] = x]
    BY <1>4
  <1>7. x \in Int /\ x > widths[i] /\ x - widths[i] = 1
    BY <1>5
  <1>8. Left \in Int /\ Left > 0
    <2>1. Total(widths) \in Int
      BY <1>3, SumInt
    <2> QED BY <2>1, <1>3 DEF Left, GrowMarginal
  <1>9. stage = "grow" /\ strategy = "MARGINAL_COST" /\ UNCHANGED <<table, room, strategy, stage>>
    BY DEF GrowMarginal
  <1> HIDE DEF x
  <1>10. x - widths[i] <= Left
    BY <1>7, <1>8
  <1> QED BY <1>5, <1>6, <1>7, <1>9, <1>10, GrowInv

\* The last step: widths that are not narrower, and what is left to one column.
LEMMA RestInv ==
    ASSUME WidthsInv, stage = "grow", NEW k \in Cols, NEW ws \in [Cols -> Int],
           \A i \in Cols : widths[i] <= ws[i],
           Left > 0 => Total(ws) <= room,
           Left <= 0 => ws = widths,
           FitsWhole => \A i \in Cols : ws[i] >= Natural(table[i]),
           widths' = Rest(ws, k), stage' = "done",
           UNCHANGED <<table, room, strategy>>
    PROVE  WidthsInv'
PROOF
  <1>1. PICK n \in Nat \ {0} : table \in [1..n -> Kinds]
    BY DEF WidthsInv, TableType
  <1>2. /\ Cols = 1..n /\ Len(table) = n /\ Cardinality(Unnamed) \in Nat
        /\ \A j \in 1..n : Natural(table[j]) \in Nat /\ Preferred(table[j]) \in Nat
    BY <1>1, TableFacts
  <1>3. Bounded(widths) /\ room \in Int
    BY DEF WidthsInv, TableType
  <1>4. /\ widths \in [1..n -> Int] /\ k \in 1..n /\ ws \in [1..n -> Int]
        /\ \A j \in 1..n : widths[j] >= 1 /\ widths[j] <= ws[j]
        /\ Total(widths) \in Int /\ Total(ws) \in Int
        /\ Total(widths) <= Larger(room, n) + Cardinality(Unnamed)
    BY <1>2, <1>3, SumInt DEF Bounded
  <1>5. Left = room - Total(widths) /\ Left \in Int
    BY <1>3, <1>4 DEF Left
  <1>6. Larger(room, n) \in Int /\ room <= Larger(room, n)
    BY <1>3 DEF Larger
  <1>7. /\ widths' \in [1..n -> Int]
        /\ \A j \in 1..n : ws[j] <= widths'[j]
        /\ Total(widths') >= room
        /\ Total(widths') <= Larger(room, n) + Cardinality(Unnamed)
    <2>1. CASE Left > 0
      <3> DEFINE x == ws[k] + room - Total(ws)
      <3>1. widths' = [ws EXCEPT ![k] = x]
        BY <2>1 DEF Rest
      <3>2. x \in Int /\ ws[k] <= x
        BY <1>3, <1>4, <2>1
      <3> HIDE DEF x
      <3>3. /\ widths' \in [1..n -> Int] /\ widths'[k] = x
            /\ \A j \in 1..n : j # k => widths'[j] = ws[j]
        BY <1>4, <3>1, <3>2
      <3>4. Total(widths') = Total(ws) + x - ws[k]
        <4>1. \A us \in [1..n -> Int] : (\A j \in 1..n : j # k => us[j] = ws[j]) =>
                 Total(us) = Total(ws) + us[k] - ws[k]
          BY <1>4, SumUpdate
        <4> QED BY <4>1, <3>3
      <3>5. Total(widths') = room
        <4>1. ws[k] \in Int
          BY <1>4
        <4> QED BY <3>4, <4>1, <1>3, <1>4 DEF x
      <3>6. \A j \in 1..n : ws[j] <= widths'[j]
        <4> SUFFICES ASSUME NEW j \in 1..n
                     PROVE  ws[j] <= widths'[j]
          OBVIOUS
        <4>1. ws[j] \in Int
          BY <1>4
        <4>2. j # k => widths'[j] = ws[j]
          BY <3>3
        <4> QED BY <4>1, <4>2, <3>2, <3>3
      <3> QED BY <3>3, <3>5, <3>6, <1>2, <1>3, <1>6
    <2>2. CASE ~ (Left > 0)
      <3>1. widths' = ws /\ ws = widths
        BY <2>2, <1>5 DEF Rest
      <3>2. Total(widths) >= room
        BY <2>2, <1>3, <1>4, <1>5
      <3> QED BY <3>1, <3>2, <1>4
    <2> QED BY <2>1, <2>2
  <1>8. \A j \in 1..n : /\ widths[j] \in Int /\ ws[j] \in Int /\ widths'[j] \in Int
                        /\ widths[j] <= widths'[j] /\ widths'[j] >= 1
    <2> SUFFICES ASSUME NEW j \in 1..n
                 PROVE  /\ widths[j] \in Int /\ ws[j] \in Int /\ widths'[j] \in Int
                        /\ widths[j] <= widths'[j] /\ widths'[j] >= 1
      OBVIOUS
    <2>1. widths[j] \in Int /\ widths[j] >= 1 /\ widths[j] <= ws[j] /\ ws[j] \in Int
      BY <1>4
    <2>2. widths'[j] \in Int /\ ws[j] <= widths'[j]
      BY <1>7
    <2> QED BY <2>1, <2>2
  <1>9. Bounded(widths')
    <2>1. Total(Wanted) <= room => \A j \in 1..n : widths'[j] >= Preferred(table[j])
      <3> SUFFICES ASSUME Total(Wanted) <= room, NEW j \in 1..n
                   PROVE  widths'[j] >= Preferred(table[j])
        OBVIOUS
      <3>1. widths[j] >= Preferred(table[j])
        BY <1>2, <1>3 DEF Bounded
      <3>2. Preferred(table[j]) \in Int
        BY <1>2
      <3> QED BY <3>1, <3>2, <1>8
    <2> QED BY <2>1, <1>2, <1>7, <1>8 DEF Bounded
  <1>10. FitsWhole => \A j \in 1..n : widths'[j] >= Natural(table[j])
    <2> SUFFICES ASSUME FitsWhole, NEW j \in 1..n
                 PROVE  widths'[j] >= Natural(table[j])
      OBVIOUS
    <2>1. ws[j] >= Natural(table[j])
      BY <1>2
    <2>2. Natural(table[j]) \in Int /\ ws[j] <= widths'[j]
      BY <1>2, <1>7
    <2> QED BY <2>1, <2>2, <1>8
  <1>11. /\ Cols' = Cols /\ Whole' = Whole /\ (FitsWhole' <=> FitsWhole)
         /\ (Bounded(widths)' <=> Bounded(widths'))
    BY SameTable
  <1>12. TableType'
    BY DEF WidthsInv, TableType
  <1> QED BY <1>2, <1>7, <1>9, <1>10, <1>11, <1>12 DEF WidthsInv

LEMMA FinishFrequentInv ==
    ASSUME WidthsInv, stage = "grow", FinishFrequent, stage' = "done",
           UNCHANGED <<table, room, strategy>>
    PROVE  WidthsInv'
PROOF
  <1>1. PICK n \in Nat \ {0} : table \in [1..n -> Kinds]
    BY DEF WidthsInv, TableType
  <1>2. /\ Cols = 1..n
        /\ \A j \in 1..n : Natural(table[j]) \in Nat
        /\ Whole \in [1..n -> Int] /\ \A j \in 1..n : Whole[j] = Larger(1, Natural(table[j]))
    BY <1>1, TableFacts
  <1>3. /\ widths \in [1..n -> Int] /\ room \in Int /\ \A j \in 1..n : widths[j] >= 1
    BY <1>2 DEF WidthsInv, TableType, Bounded
  <1>4. Total(widths) \in Int /\ Left = room - Total(widths)
    BY <1>3, SumInt DEF Left
  <1>5. FirstLargest(Shortage) \in 1..n
    <2>1. Shortage \in [1..n -> Int]
      BY <1>2, <1>3 DEF Shortage
    <2> QED BY <2>1, FirstLargestIn
  <1>6. FitsWhole => \A i \in 1..n : widths[i] >= Natural(table[i])
    <2> SUFFICES ASSUME FitsWhole, NEW i \in 1..n
                 PROVE  widths[i] >= Natural(table[i])
      OBVIOUS
    <2>1. CASE Wider(i) = {}
      <3>1. Natural(table[i]) <= widths[i]
        BY <2>1, <1>1, <1>3, NextWidthFacts
      <3> QED BY <3>1, <1>2, <1>3
    <2>2. CASE Wider(i) # {}
      <3> DEFINE x == NextWidth(i)
                 us == [widths EXCEPT ![i] = x]
      <3>1. x \in Int /\ x > widths[i] /\ x <= Natural(table[i])
        BY <2>2, <1>1, <1>3, NextWidthFacts
      <3> HIDE DEF x
      <3>2. us \in [1..n -> Int] /\ us[i] = x /\ \A j \in 1..n : j # i => us[j] = widths[j]
        BY <1>3, <3>1
      <3> HIDE DEF us
      <3>3. Total(us) = Total(widths) + us[i] - widths[i]
        BY <1>3, <3>2, SumUpdate
      <3>4. \A j \in 1..n : us[j] <= Whole[j]
        <4> SUFFICES ASSUME NEW j \in 1..n
                     PROVE  us[j] <= Whole[j]
          OBVIOUS
        <4>1. CASE j = i
          <5>1. Whole[i] = Larger(1, Natural(table[i])) /\ Natural(table[i]) \in Nat
            BY <1>2
          <5> QED BY <5>1, <4>1, <3>1, <3>2 DEF Larger
        <4>2. CASE j # i
          <5>1. widths[j] <= Whole[j]
            BY <1>2 DEF WidthsInv
          <5> QED BY <5>1, <4>2, <3>2
        <4> QED BY <4>1, <4>2
      <3>5. Total(us) <= Total(Whole) /\ Total(us) \in Int /\ Total(Whole) \in Int
        BY <1>2, <3>2, <3>4, SumMono, SumInt
      <3>6. Total(us) <= room
        BY <3>5, <1>3 DEF FitsWhole
      <3>7. Total(widths) + x - widths[i] <= room
        BY <3>2, <3>3, <3>6
      <3>8. x - widths[i] <= Left
        <4>1. widths[i] \in Int
          BY <1>3
        <4> QED BY <4>1, <3>1, <3>7, <1>3, <1>4
      <3>9. i \in Affordable
        BY <2>2, <3>8, <1>2 DEF Affordable, x
      <3> QED BY <3>9 DEF FinishFrequent
    <2> QED BY <2>1, <2>2
  <1>7. /\ widths' = Rest(widths, FirstLargest(Shortage)) /\ widths \in [Cols -> Int]
        /\ FirstLargest(Shortage) \in Cols /\ (\A i \in Cols : widths[i] <= widths[i])
        /\ (FitsWhole => \A i \in Cols : widths[i] >= Natural(table[i]))
    BY <1>2, <1>3, <1>5, <1>6 DEF FinishFrequent
  <1>8. Left > 0 => Total(widths) <= room
    BY <1>3, <1>4
  <1> QED BY <1>7, <1>8, RestInv

\* The lines of a column are counted.
LEMMA WrapLinesInt ==
    ASSUME NEW c \in Kinds, NEW w \in Int
    PROVE  WrapLines(c, w) \in Int
PROOF
  <1>1. PICK k \in Nat : DOMAIN Texts(c) = 1..k
    BY ColumnFacts
  <1>2. \A r \in 1..k : Texts(c)[r] \in Int
    BY <1>1, ColumnFacts
  <1> DEFINE ls == [r \in DOMAIN Texts(c) |-> WrapLinesOf(Texts(c)[r], w)]
  <1>3. \A t \in Int : WrapLinesOf(t, w) \in Int
    <2> SUFFICES ASSUME NEW t \in Int
                 PROVE  WrapLinesOf(t, w) \in Int
      OBVIOUS
    <2>1. CASE w <= 0
      BY <2>1 DEF WrapLinesOf
    <2>2. CASE w > 0
      <3>1. (t + w - 1) \div w \in Int
        BY <2>2
      <3> QED BY <3>1 DEF WrapLinesOf
    <2> QED BY <2>1, <2>2
  <1>4. ls \in [1..k -> Int]
    BY <1>1, <1>2, <1>3
  <1>5. WrapLines(c, w) = Total(ls)
    BY DEF WrapLines
  <1> HIDE DEF ls
  <1> QED BY <1>4, <1>5, SumInt

LEMMA FinishMarginalInv ==
    ASSUME WidthsInv, stage = "grow", FinishMarginal, stage' = "done",
           UNCHANGED <<table, room, strategy>>
    PROVE  WidthsInv'
PROOF
  <1>1. PICK n \in Nat \ {0} : table \in [1..n -> Kinds]
    BY DEF WidthsInv, TableType
  <1>2. Cols = 1..n /\ \A i \in 1..n : table[i] \in Kinds
    BY <1>1, TableFacts
  <1>3. widths \in [1..n -> Int] /\ room \in Int
    BY <1>2 DEF WidthsInv, TableType, Bounded
  <1>4. Total(widths) \in Int /\ Left = room - Total(widths)
    BY <1>3, SumInt DEF Left
  <1> DEFINE lines == [i \in Cols |-> WrapLines(table[i], widths[i])]
  <1>5. lines \in [1..n -> Int]
    <2>1. \A i \in 1..n : WrapLines(table[i], widths[i]) \in Int
      BY <1>2, <1>3, WrapLinesInt
    <2> QED BY <2>1, <1>2
  <1>6. widths' = Rest(widths, FirstLargest(lines)) /\ ~ FitsWhole
    BY DEF FinishMarginal, FitsWhole
  <1> HIDE DEF lines
  <1>7. FirstLargest(lines) \in 1..n
    BY <1>5, FirstLargestIn
  <1>8. /\ widths \in [Cols -> Int] /\ FirstLargest(lines) \in Cols
        /\ \A i \in Cols : widths[i] <= widths[i]
    BY <1>2, <1>3, <1>7
  <1>9. Left > 0 => Total(widths) <= room
    BY <1>3, <1>4
  <1> QED BY <1>6, <1>8, <1>9, RestInv

\* Nobody's share is more than what it lacks, nor are all shares more than what
\* is left; and everybody gets what it lacks where there is enough.
LEMMA Shares ==
    ASSUME NEW n \in Nat \ {0}, Cols = 1..n, \A i \in 1..n : Natural(table[i]) \in Int,
           widths \in [1..n -> Int], Left \in Int, Left > 0
    PROVE  /\ \A i \in 1..n : /\ Deficit(i) \in Nat /\ Share(i) \in Nat /\ Share(i) <= Deficit(i)
                              /\ Deficits <= Left => Share(i) = Deficit(i)
           /\ Deficits = Total([i \in 1..n |-> Deficit(i)]) /\ Deficits \in Nat
           /\ Total([i \in 1..n |-> Share(i)]) \in Int
           /\ Total([i \in 1..n |-> Share(i)]) <= Left
PROOF
  <1> DEFINE d == [i \in 1..n |-> Deficit(i)]
             s == [i \in 1..n |-> Share(i)]
             L == Left
             D == Deficits
  <1>1. \A i \in 1..n : Deficit(i) \in Nat
    BY DEF Deficit, Larger
  <1>2. d \in [1..n -> Int] /\ \A i \in 1..n : d[i] = Deficit(i) /\ 0 <= d[i]
    BY <1>1
  <1>3. D = Total(d)
    BY DEF Deficits
  <1>4. \A i \in 1..n : Share(i) = IF D = 0 THEN 0 ELSE Smaller((L * d[i]) \div D, d[i])
    BY DEF Share
  <1>5. L \in Int /\ L > 0
    OBVIOUS
  <1> HIDE DEF d, L, D
  <1>6. D \in Nat /\ \A i \in 1..n : d[i] <= D
    BY <1>2, <1>3, SumNat
  <1>7. ASSUME NEW i \in 1..n
        PROVE  /\ Share(i) \in Nat /\ Share(i) <= d[i] /\ D * Share(i) <= L * d[i]
               /\ D <= L => Share(i) = d[i]
    <2>1. d[i] \in Nat /\ d[i] <= D
      BY <1>2, <1>6
    <2>2. CASE D = 0
      BY <1>4, <1>5, <2>1, <2>2
    <2>3. CASE D # 0
      <3> DEFINE q == (L * d[i]) \div D
                 e == d[i]
                 p == L * e
      <3>1. D > 0 /\ e \in Nat
        BY <2>1, <2>3, <1>6
      <3>2. p \in Int /\ p >= 0
        BY <3>1, <1>5
      <3> HIDE DEF e
      <3>3. q = p \div D
        BY DEF e
      <3> HIDE DEF p, q
      <3>4. q \in Int /\ D * q <= p /\ p < D * q + D /\ q >= 0
        <4>1. q \in Int /\ D * q <= p /\ p < D * q + D
          BY <3>1, <3>2, <3>3, <1>6
        <4>2. q >= 0
          BY <3>1, <3>2, <3>3, <1>6
        <4> QED BY <4>1, <4>2
      <3>5. Share(i) = IF q < e THEN q ELSE e
        BY <1>4, <2>3 DEF q, e, Smaller
      <3>6. D * Share(i) <= p
        <4>1. Share(i) <= q /\ Share(i) \in Nat
          BY <3>1, <3>4, <3>5
        <4>2. D * Share(i) <= D * q
          <5>1. \A a, b, c \in Nat : a <= b => c * a <= c * b
            OBVIOUS
          <5> QED BY <5>1, <4>1, <3>4, <1>6
        <4>3. D * Share(i) \in Int /\ D * q \in Int
          BY <4>1, <3>4, <1>6
        <4> QED BY <4>2, <4>3, <3>2, <3>4
      <3>7. D <= L => Share(i) = e
        <4> SUFFICES ASSUME D <= L
                     PROVE  Share(i) = e
          OBVIOUS
        <4>1. D * e <= p
          BY <3>1, <1>5, <1>6 DEF p
        <4>2. ~ (q < e)
          <5> SUFFICES ASSUME q < e
                       PROVE  FALSE
            OBVIOUS
          <5>1. D * (q + 1) <= D * e
            <6>1. \A a, b, c \in Nat : a <= b => c * a <= c * b
              OBVIOUS
            <6>2. q + 1 \in Nat /\ q + 1 <= e
              BY <3>1, <3>4
            <6> QED BY <6>1, <6>2, <3>1, <1>6
          <5>2. D * (q + 1) = D * q + D
            BY <3>4, <1>6
          <5>3. D * q \in Int /\ D * e \in Int
            BY <3>1, <3>4, <1>6
          <5> QED BY <5>1, <5>2, <5>3, <4>1, <3>2, <3>4, <1>6
        <4> QED BY <4>2, <3>5
      <3>8. Share(i) \in Nat /\ Share(i) <= e
        BY <3>1, <3>4, <3>5
      <3> QED BY <3>6, <3>7, <3>8 DEF e, p
    <2> QED BY <2>2, <2>3
  <1>8. s \in [1..n -> Int] /\ \A i \in 1..n : s[i] = Share(i) /\ s[i] <= d[i]
    BY <1>7
  <1> HIDE DEF s
  <1>9. Total(s) \in Int
    BY <1>8, SumInt
  <1>10. Total(s) <= L
    <2>1. CASE D = 0
      <3>1. Total(s) <= Total(d)
        BY <1>2, <1>8, SumMono
      <3> QED BY <3>1, <2>1, <1>3, <1>5, <1>9
    <2>2. CASE D # 0
      <3> DEFINE sD == [i \in 1..n |-> D * s[i]]
                 dL == [i \in 1..n |-> L * d[i]]
      <3>1. /\ sD \in [1..n -> Int] /\ \A i \in 1..n : sD[i] = D * s[i]
            /\ dL \in [1..n -> Int] /\ \A i \in 1..n : dL[i] = L * d[i]
        <4>1. \A i \in 1..n : D * s[i] \in Int /\ L * d[i] \in Int
          <5>1. \A x, y \in Int : x * y \in Int
            OBVIOUS
          <5>2. D \in Int /\ L \in Int /\ \A i \in 1..n : s[i] \in Int /\ d[i] \in Int
            BY <1>2, <1>5, <1>6, <1>8
          <5> QED BY <5>1, <5>2
        <4> QED BY <4>1
      <3> HIDE DEF sD, dL
      <3>2. \A i \in 1..n : sD[i] <= dL[i]
        BY <3>1, <1>7, <1>8
      <3>3. Total(sD) <= Total(dL)
        BY <3>1, <3>2, SumMono
      <3>4. Total(sD) = D * Total(s)
        <4>1. D \in Int /\ s \in [1..n -> Int] /\ sD \in [1..n -> Int]
          BY <3>1, <1>6, <1>8
        <4>2. \A i \in 1..n : sD[i] = D * s[i]
          BY <3>1
        <4> QED BY <4>1, <4>2, SumScale
      <3>5. Total(dL) = L * D
        <4>1. L \in Int /\ d \in [1..n -> Int] /\ dL \in [1..n -> Int]
          BY <3>1, <1>2, <1>5
        <4>2. \A i \in 1..n : dL[i] = L * d[i]
          BY <3>1
        <4>3. Total(dL) = L * Total(d)
          BY <4>1, <4>2, SumScale
        <4> QED BY <4>3, <1>3
      <3> DEFINE x == Total(s)
      <3> HIDE DEF x
      <3>6. D * x <= L * D /\ x \in Int /\ D > 0
        BY <3>3, <3>4, <3>5, <2>2, <1>6, <1>9 DEF x
      <3>7. x <= L
        <4> SUFFICES ASSUME x > L
                     PROVE  FALSE
          BY <3>6, <1>5
        <4>1. D * x >= D * (L + 1)
          <5>1. \A a, b, c \in Nat : a <= b => c * a <= c * b
            OBVIOUS
          <5>2. x \in Nat /\ L + 1 \in Nat /\ L + 1 <= x
            BY <3>6, <1>5
          <5> QED BY <5>1, <5>2, <1>6
        <4>2. D * (L + 1) = L * D + D
          BY <1>5, <1>6
        <4>3. D * x \in Int /\ L * D \in Int
          BY <3>6, <1>5, <1>6
        <4> QED BY <4>1, <4>2, <4>3, <3>6, <1>6
      <3> QED BY <3>7 DEF x
    <2> QED BY <2>1, <2>2
  <1>11. \A i \in 1..n : /\ Deficit(i) \in Nat /\ Share(i) \in Nat /\ Share(i) <= Deficit(i)
                         /\ D <= L => Share(i) = Deficit(i)
    BY <1>1, <1>2, <1>7
  <1> QED BY <1>3, <1>6, <1>9, <1>10, <1>11 DEF s, d, L, D

LEMMA FinishProportionalInv ==
    ASSUME WidthsInv, stage = "grow", FinishProportional, stage' = "done",
           UNCHANGED <<table, room, strategy>>
    PROVE  WidthsInv'
PROOF
  <1>1. PICK n \in Nat \ {0} : table \in [1..n -> Kinds]
    BY DEF WidthsInv, TableType
  <1>2. /\ Cols = 1..n
        /\ \A i \in 1..n : Natural(table[i]) \in Nat
        /\ Whole \in [1..n -> Int] /\ \A j \in 1..n : Whole[j] = Larger(1, Natural(table[j]))
        /\ Total(Whole) \in Int
    BY <1>1, TableFacts
  <1>3. widths \in [1..n -> Int] /\ room \in Int /\ \A i \in 1..n : widths[i] >= 1
    BY <1>2 DEF WidthsInv, TableType, Bounded
  <1>4. Total(widths) \in Int /\ Left = room - Total(widths) /\ Left \in Int
    BY <1>3, SumInt DEF Left
  <1> DEFINE shared == [i \in Cols |-> widths[i] + (IF Left > 0 THEN Share(i) ELSE 0)]
             lacks == [i \in Cols |-> Larger(Natural(table[i]) - shared[i], 0)]
             d == [i \in 1..n |-> Deficit(i)]
             s == [i \in 1..n |-> Share(i)]
  <1>5. widths' = Rest(shared, FirstLargest(lacks))
    BY DEF FinishProportional
  <1>6. \A i \in 1..n : Deficit(i) = Larger(Natural(table[i]) - widths[i], 0)
    BY DEF Deficit
  <1>7. d \in [1..n -> Int] /\ \A i \in 1..n : d[i] = Deficit(i) /\ 0 <= d[i]
    <2>1. \A x \in Int : Larger(x, 0) \in Int /\ 0 <= Larger(x, 0)
      BY DEF Larger
    <2>2. \A i \in 1..n : Natural(table[i]) - widths[i] \in Int
      BY <1>2, <1>3
    <2>3. \A i \in 1..n : Deficit(i) \in Int /\ 0 <= Deficit(i)
      BY <2>1, <2>2, <1>6
    <2> QED BY <2>3
  <1>8. Deficits = Total(d)
    BY <1>2 DEF Deficits
  <1> HIDE DEF d
  <1>9. Deficits \in Nat /\ \A i \in 1..n : d[i] <= Deficits
    BY <1>7, <1>8, SumNat
  <1>10. FitsWhole => Deficits <= Left
    <2> SUFFICES ASSUME FitsWhole
                 PROVE  Deficits <= Left
      OBVIOUS
    <2> DEFINE us == [i \in 1..n |-> widths[i] + d[i]]
    <2>1. us \in [1..n -> Int] /\ \A i \in 1..n : us[i] = widths[i] + d[i]
      BY <1>3, <1>7
    <2> HIDE DEF us
    <2>2. Total(us) = Total(widths) + Deficits
      BY <2>1, <1>3, <1>7, <1>8, SumPlus
    <2>3. \A i \in 1..n : us[i] <= Whole[i]
      <3> SUFFICES ASSUME NEW i \in 1..n
                   PROVE  us[i] <= Whole[i]
        OBVIOUS
      <3>1. us[i] = widths[i] + Larger(Natural(table[i]) - widths[i], 0)
        BY <2>1, <1>6, <1>7
      <3>2. widths[i] <= Whole[i]
        BY <1>2 DEF WidthsInv
      <3>3. /\ Whole[i] = Larger(1, Natural(table[i])) /\ Natural(table[i]) \in Nat
            /\ widths[i] \in Int
        BY <1>2, <1>3
      <3> QED BY <3>1, <3>2, <3>3 DEF Larger
    <2>4. Total(us) <= Total(Whole)
      BY <2>1, <2>3, <1>2, SumMono
    <2>5. Total(Whole) <= room
      BY DEF FitsWhole
    <2> QED BY <2>2, <2>4, <2>5, <1>2, <1>3, <1>4, <1>9
  <1>11. \A i \in 1..n : d[i] = 0 => Natural(table[i]) <= widths[i]
    <2> SUFFICES ASSUME NEW i \in 1..n, d[i] = 0
                 PROVE  Natural(table[i]) <= widths[i]
      OBVIOUS
    <2>1. Larger(Natural(table[i]) - widths[i], 0) = 0
      BY <1>6, <1>7
    <2>2. Natural(table[i]) \in Int /\ widths[i] \in Int
      BY <1>2, <1>3
    <2> QED BY <2>1, <2>2 DEF Larger
  <1>12. /\ shared \in [1..n -> Int] /\ \A i \in 1..n : widths[i] <= shared[i]
         /\ Left > 0 => Total(shared) <= room
         /\ Left <= 0 => shared = widths
         /\ FitsWhole => \A i \in 1..n : shared[i] >= Natural(table[i])
    <2>1. CASE Left > 0
      <3>1. /\ \A i \in 1..n : /\ Share(i) \in Nat
                               /\ Deficits <= Left => Share(i) = Deficit(i)
            /\ Total([i \in 1..n |-> Share(i)]) \in Int
            /\ Total([i \in 1..n |-> Share(i)]) <= Left
        <4>1. \A i \in 1..n : Natural(table[i]) \in Int
          BY <1>2
        <4>2. Cols = 1..n /\ widths \in [1..n -> Int] /\ Left \in Int /\ Left > 0
          BY <2>1, <1>2, <1>3, <1>4
        <4> QED BY <4>1, <4>2, Shares
      <3>2. s \in [1..n -> Int] /\ \A i \in 1..n : s[i] = Share(i) /\ s[i] >= 0
        BY <3>1
      <3>3. Total(s) \in Int /\ Total(s) <= Left
        BY <3>1
      <3> HIDE DEF s
      <3>4. shared \in [1..n -> Int] /\ \A i \in 1..n : shared[i] = widths[i] + s[i]
        <4>1. \A i \in 1..n : shared[i] = widths[i] + s[i]
          BY <2>1, <3>2, <1>2
        <4>2. \A i \in 1..n : widths[i] + s[i] \in Int
          BY <3>2, <1>3
        <4>3. shared = [i \in 1..n |-> shared[i]]
          BY <1>2
        <4> HIDE DEF shared
        <4> QED BY <4>1, <4>2, <4>3
      <3> HIDE DEF shared
      <3>5. Total(shared) = Total(widths) + Total(s)
        BY <3>2, <3>4, <1>3, SumPlus
      <3>6. Total(shared) <= room
        BY <3>3, <3>5, <1>3, <1>4
      <3>7. \A i \in 1..n : widths[i] <= shared[i]
        BY <3>2, <3>4, <1>3
      <3>8. FitsWhole => \A i \in 1..n : shared[i] >= Natural(table[i])
        <4> SUFFICES ASSUME FitsWhole, NEW i \in 1..n
                     PROVE  shared[i] >= Natural(table[i])
          OBVIOUS
        <4>1. s[i] = Larger(Natural(table[i]) - widths[i], 0)
          BY <3>1, <3>2, <1>6, <1>10
        <4>2. Natural(table[i]) \in Int /\ widths[i] \in Int /\ shared[i] = widths[i] + s[i]
          BY <3>4, <1>2, <1>3
        <4> QED BY <4>1, <4>2 DEF Larger
      <3> QED BY <2>1, <3>4, <3>6, <3>7, <3>8, <1>4
    <2>2. CASE ~ (Left > 0)
      <3>1. \A i \in 1..n : shared[i] = widths[i]
        BY <2>2, <1>2, <1>3
      <3>2. shared = widths
        <4>1. shared = [i \in 1..n |-> shared[i]] /\ widths = [i \in 1..n |-> widths[i]]
          BY <1>2, <1>3
        <4> HIDE DEF shared
        <4> QED BY <3>1, <4>1
      <3>3. FitsWhole => \A i \in 1..n : widths[i] >= Natural(table[i])
        <4> SUFFICES ASSUME FitsWhole, NEW i \in 1..n
                     PROVE  widths[i] >= Natural(table[i])
          OBVIOUS
        <4>1. Deficits <= 0
          BY <1>4, <1>9, <1>10, <2>2
        <4>2. d[i] <= Deficits /\ 0 <= d[i] /\ d[i] \in Int
          BY <1>7, <1>9
        <4>3. d[i] = 0
          BY <4>1, <4>2, <1>9
        <4>4. Natural(table[i]) <= widths[i]
          BY <4>3, <1>11
        <4>5. Natural(table[i]) \in Int /\ widths[i] \in Int
          BY <1>2, <1>3
        <4> QED BY <4>4, <4>5
      <3> HIDE DEF shared
      <3>4. \A i \in 1..n : widths[i] <= widths[i]
        BY <1>3
      <3> QED BY <2>2, <3>2, <3>3, <3>4, <1>3
    <2> QED BY <2>1, <2>2
  <1>13. lacks \in [1..n -> Int]
    <2> HIDE DEF shared
    <2>1. \A i \in 1..n : Larger(Natural(table[i]) - shared[i], 0) \in Int
      BY <1>2, <1>12 DEF Larger
    <2> QED BY <2>1, <1>2
  <1> HIDE DEF lacks, shared
  <1>14. FirstLargest(lacks) \in 1..n
    BY <1>13, FirstLargestIn
  <1> QED BY <1>2, <1>5, <1>12, <1>14, RestInv

-----------------------------------------------------------------------------

LEMMA WidthNextInv ==
    ASSUME WidthsInv, [WidthNext]_widthVars
    PROVE  WidthsInv'
PROOF
  <1>1. CASE Measure
    BY <1>1, MeasureInv
  <1>2. CASE GrowFrequent
    BY <1>2, GrowFrequentInv
  <1>3. CASE GrowMarginal
    BY <1>3, GrowMarginalInv
  <1>4. CASE Finish
    BY <1>4, FinishFrequentInv, FinishMarginalInv, FinishProportionalInv DEF Finish
  <1>5. CASE UNCHANGED widthVars
    <2>1. UNCHANGED <<table, room, strategy, widths, stage>>
      BY <1>5 DEF widthVars
    <2>2. /\ Cols' = Cols /\ Whole' = Whole /\ (FitsWhole' <=> FitsWhole)
          /\ (Bounded(widths)' <=> Bounded(widths'))
      BY <2>1, SameTable
    <2>3. TableType'
      BY <2>1 DEF WidthsInv, TableType
    <2> QED BY <2>1, <2>2, <2>3 DEF WidthsInv
  <1> QED BY <1>1, <1>2, <1>3, <1>4, <1>5 DEF WidthNext, Drawn

\* The invariant says more of a table that is drawn than what is promised.
LEMMA WidthsInvSound ==
    ASSUME WidthsInv
    PROVE  WidthsSound
PROOF
  <1> SUFFICES ASSUME stage = "done"
               PROVE  WidthsSound
    BY DEF WidthsSound
  <1> DEFINE unnamed == {i \in Cols : table[i].head = 0}
             wanted == [i \in Cols |-> Larger(1, Larger(table[i].head, Preferred(table[i])))]
             whole == [i \in Cols |-> Larger(1, Natural(table[i]))]
  <1>1. unnamed = Unnamed /\ wanted = Wanted /\ whole = Whole
    BY DEF Unnamed, Wanted, Whole
  <1>2. /\ \A i \in Cols : widths[i] >= 1
        /\ Total(widths) >= room
        /\ Total(widths) <= Larger(room, Len(table)) + Cardinality(Unnamed)
        /\ Total(Wanted) <= room => \A i \in Cols : widths[i] >= Preferred(table[i])
        /\ strategy # "MARGINAL_COST" /\ Total(Whole) <= room =>
             \A i \in Cols : widths[i] >= Natural(table[i])
    BY DEF WidthsInv, Bounded, FitsWhole
  <1> QED BY <1>1, <1>2 DEF WidthsSound

\* Every table that is drawn fills the screen and does not run over it as far as
\* its columns can be cut, keeps whole what should not be wrapped where the
\* headers leave room, and wraps nothing under two of the strategies where
\* nothing needs it (CalculateWidthWithStrategy), for all columns, any number of
\* them, and all screens.
THEOREM WidthsAreSound == WidthSpec => []WidthsSound
PROOF
  <1>1. WidthInit => WidthsInv
    BY WidthInitInv
  <1>2. WidthsInv /\ [WidthNext]_widthVars => WidthsInv'
    BY WidthNextInv
  <1>3. WidthsInv => WidthsSound
    BY WidthsInvSound
  <1> QED BY <1>1, <1>2, <1>3, PTL DEF WidthSpec


-----------------------------------------------------------------------------
(***************************************************************************)
(*                               ProtoBundle                               *)
(*                                                                         *)
(* The graph is valid, so a type has one file in it; a list of files that  *)
(* is loaded, and a request that is run, are recursive functions, and what *)
(* is said of them is carried from one number to the next as above.  The   *)
(* invariant speaks of the graph, of the server with what is cached of it, *)
(* and of the last result, and a statement disturbs one or two of them.    *)
(***************************************************************************)

-----------------------------------------------------------------------------
(* What graphs and bundles are.                                            *)

FileRecord == [complete: SUBSET Types, holes: SUBSET Types, imports: SUBSET FileNames]
DescriptorGraph == UNION {[F -> FileRecord] : F \in SUBSET FileNames}
Bundle == UNION {[T -> FileNames] : T \in SUBSET Types}
BundleDdl == [op: {"create", "drop", "alter"}, insert: SUBSET Types, update: SUBSET Types,
              delete: SUBSET Types]

\* A graph is a function on some of the files.
LEMMA GraphDomain ==
    ASSUME NEW g \in DescriptorGraph
    PROVE  /\ g \in [DOMAIN g -> FileRecord] /\ DOMAIN g \in SUBSET FileNames
           /\ \A x \in DOMAIN g : /\ g[x] \in FileRecord
                                  /\ g[x].complete \in SUBSET Types /\ g[x].holes \in SUBSET Types
                                  /\ g[x].imports \in SUBSET FileNames
PROOF
  <1>1. PICK F \in SUBSET FileNames : g \in [F -> FileRecord]
    BY DEF DescriptorGraph
  <1>2. DOMAIN g = F
    BY <1>1
  <1>3. \A x \in F : g[x] \in FileRecord
    BY <1>1
  <1> QED BY <1>1, <1>2, <1>3 DEF FileRecord

\* And such a function is a graph.
LEMMA GraphIntro ==
    ASSUME NEW F \in SUBSET FileNames, NEW g \in [F -> FileRecord]
    PROVE  g \in DescriptorGraph
PROOF
  BY DEF DescriptorGraph

LEMMA BundleDomain ==
    ASSUME NEW b \in Bundle
    PROVE  /\ b \in [DOMAIN b -> FileNames] /\ DOMAIN b \in SUBSET Types
           /\ \A t \in DOMAIN b : b[t] \in FileNames
PROOF
  <1>1. PICK T \in SUBSET Types : b \in [T -> FileNames]
    BY DEF Bundle
  <1> QED BY <1>1

LEMMA BundleIntro ==
    ASSUME NEW T \in SUBSET Types, NEW b \in [T -> FileNames]
    PROVE  b \in Bundle
PROOF
  BY DEF Bundle

\* What is complete is complete in a file.
LEMMA CompleteFacts ==
    ASSUME NEW g
    PROVE  /\ \A t : t \in CompleteIn(g) <=> \E x \in DOMAIN g : t \in g[x].complete
           /\ \A x \in DOMAIN g : \A t \in g[x].complete : t \in Declared(g, x)
PROOF
  BY DEF CompleteIn, Declared

\* The file of a type is one that declares it.
LEMMA FileOfFacts ==
    ASSUME NEW g \in DescriptorGraph, NEW t \in CompleteIn(g)
    PROVE  FileOf(g, t) \in DOMAIN g /\ t \in Declared(g, FileOf(g, t)) /\ FileOf(g, t) \in FileNames
PROOF
  <1>1. \E x \in DOMAIN g : t \in Declared(g, x)
    BY CompleteFacts
  <1>2. FileOf(g, t) \in DOMAIN g /\ t \in Declared(g, FileOf(g, t))
    BY <1>1 DEF FileOf
  <1> QED BY <1>2, GraphDomain

-----------------------------------------------------------------------------
(* Files.                                                                  *)

LEMMA MergeType ==
    ASSUME NEW old \in DescriptorGraph, NEW new \in DescriptorGraph
    PROVE  /\ Merge(old, new) \in DescriptorGraph
           /\ DOMAIN Merge(old, new) = DOMAIN old \cup DOMAIN new
           /\ \A x \in DOMAIN new : Merge(old, new)[x] = new[x]
           /\ \A x \in DOMAIN old \ DOMAIN new : Merge(old, new)[x] = old[x]
PROOF
  <1> DEFINE F == DOMAIN old \cup DOMAIN new
             m == Merge(old, new)
  <1>1. m = [x \in F |-> IF x \in DOMAIN new THEN new[x] ELSE old[x]]
    BY DEF Merge
  <1>2. F \in SUBSET FileNames
    BY GraphDomain
  <1>3. \A x \in F : (IF x \in DOMAIN new THEN new[x] ELSE old[x]) \in FileRecord
    BY GraphDomain
  <1> HIDE DEF m
  <1>4. m \in [F -> FileRecord]
    BY <1>1, <1>3
  <1>5. m \in DescriptorGraph
    BY <1>2, <1>4, GraphIntro
  <1>6. DOMAIN m = F
    BY <1>1
  <1>7. \A x \in F : m[x] = IF x \in DOMAIN new THEN new[x] ELSE old[x]
    BY <1>1
  <1> QED BY <1>5, <1>6, <1>7 DEF m

LEMMA EmptyType == Empty \in DescriptorGraph /\ DOMAIN Empty = {}
PROOF
  <1>1. Empty \in [{} -> FileRecord] /\ DOMAIN Empty = {}
    BY DEF Empty
  <1>2. {} \in SUBSET FileNames
    OBVIOUS
  <1> QED BY <1>1, <1>2, GraphIntro

\* Every file can be read into a graph.
LEMMA DiskType ==
    ASSUME NEW p \in Readable
    PROVE  Disk[p] \in DescriptorGraph
PROOF
  <1>1. \A c, h \in SUBSET Types, i \in SUBSET FileNames : File(c, h, i) \in FileRecord
    BY DEF File, FileRecord
  <1>2. /\ {"A", "A.N"} \in SUBSET Types /\ {"B"} \in SUBSET Types /\ {"A"} \in SUBSET Types
        /\ {"A.N", "B"} \in SUBSET Types /\ {} \in SUBSET Types
        /\ {"g"} \in SUBSET FileNames /\ {} \in SUBSET FileNames /\ {"f"} \in SUBSET FileNames
    BY DEF Types, FileNames
  <1>3. /\ File({"A", "A.N"}, {}, {"g"}) \in FileRecord /\ File({"B"}, {}, {}) \in FileRecord
        /\ File({"A"}, {"A.N", "B"}, {}) \in FileRecord
    BY <1>1, <1>2
  <1>4. Compiled("f") \in DescriptorGraph
    <2>1. Imported({"f"}) \in SUBSET FileNames
      BY DEF Imported, Found
    <2>2. \A x \in FileNames : Sources[x] \in FileRecord
      BY <1>3 DEF Sources
    <2>3. Compiled("f") \in [Imported({"f"}) -> FileRecord]
      BY <2>1, <2>2 DEF Compiled
    <2> QED BY <2>1, <2>3, GraphIntro
  <1> DEFINE F2 == [x \in {"f"} |-> File({"A", "A.N"}, {}, {"g"})]
             F3 == [x \in {"g"} |-> File({"B"}, {}, {})]
             F4 == [x \in {"f"} |-> File({"A"}, {"A.N", "B"}, {})]
  <1>5. F2 \in [{"f"} -> FileRecord] /\ F3 \in [{"g"} -> FileRecord] /\ F4 \in [{"f"} -> FileRecord]
    BY <1>3
  <1>6. Disk[p] \in {Compiled("f"), F2, F3, F4}
    BY DEF Disk, Readable
  <1> HIDE DEF F2, F3, F4
  <1>7. F2 \in DescriptorGraph /\ F3 \in DescriptorGraph /\ F4 \in DescriptorGraph
    BY <1>2, <1>5, GraphIntro
  <1> QED BY <1>4, <1>6, <1>7

-----------------------------------------------------------------------------
(* The list of files, loaded one after the other.                          *)

IsLoaded(f, list, n) ==
    f[0] = Empty /\ \A m \in 1..n : f[m] = Merge(f[m - 1], Disk[list[m]])

LEMMA LoadedUpTo ==
    ASSUME NEW list \in Seq(Readable)
    PROVE  \E f \in [0..Len(list) -> DescriptorGraph] :
              IsLoaded(f, list, Len(list)) /\ Loaded(list) = f[Len(list)]
PROOF
  <1> DEFINE n == Len(list)
             Up(f) == [m \in 0..n |-> IF m = 0 THEN Empty ELSE Merge(f[m - 1], Disk[list[m]])]
             T == {m \in 0..n : \E f \in [0..m -> DescriptorGraph] : IsLoaded(f, list, m)}
  <1>1. n \in Nat /\ \A m \in 1..n : Disk[list[m]] \in DescriptorGraph
    <2>1. \A m \in 1..n : list[m] \in Readable
      BY ElementOfSeq
    <2> QED BY <2>1, DiskType
  <1> HIDE DEF n
  <1>2. \A m \in 0..n : m \in T
    <2>1. 0 \in T
      <3> DEFINE z == [m \in 0..0 |-> Empty]
      <3>1. z \in [0..0 -> DescriptorGraph] /\ IsLoaded(z, list, 0)
        BY EmptyType DEF IsLoaded
      <3> HIDE DEF z
      <3> QED BY <3>1, <1>1
    <2>2. ASSUME NEW m \in 1..n, m - 1 \in T
          PROVE  m \in T
      <3>1. PICK f \in [0..(m - 1) -> DescriptorGraph] : IsLoaded(f, list, m - 1)
        BY <2>2
      <3> DEFINE g == [k \in 0..m |-> IF k = m THEN Merge(f[m - 1], Disk[list[m]]) ELSE f[k]]
      <3>2. f[m - 1] \in DescriptorGraph /\ Disk[list[m]] \in DescriptorGraph
        BY <3>1, <1>1
      <3>3. Merge(f[m - 1], Disk[list[m]]) \in DescriptorGraph
        BY <3>2, MergeType
      <3>4. g \in [0..m -> DescriptorGraph]
        BY <3>1, <3>3, <1>1
      <3>5. /\ g[0] = Empty /\ g[m] = Merge(g[m - 1], Disk[list[m]])
            /\ \A k \in 1..(m - 1) : g[k] = f[k] /\ g[k - 1] = f[k - 1]
        BY <3>1, <1>1 DEF IsLoaded
      <3>6. \A k \in 1..m : g[k] = Merge(g[k - 1], Disk[list[k]])
        <4> SUFFICES ASSUME NEW k \in 1..m
                     PROVE  g[k] = Merge(g[k - 1], Disk[list[k]])
          OBVIOUS
        <4>1. CASE k = m
          BY <4>1, <3>5
        <4>2. CASE k # m
          <5>1. k \in 1..(m - 1)
            BY <4>2, <1>1
          <5>2. f[k] = Merge(f[k - 1], Disk[list[k]])
            BY <5>1, <3>1 DEF IsLoaded
          <5> HIDE DEF g
          <5> QED BY <5>1, <5>2, <3>5
        <4> QED BY <4>1, <4>2
      <3> HIDE DEF g
      <3>7. IsLoaded(g, list, m)
        BY <3>5, <3>6 DEF IsLoaded
      <3> QED BY <3>4, <3>7
    <2> HIDE DEF T
    <2> QED BY <2>1, <2>2, <1>1, CountUp
  <1>3. PICK f \in [0..n -> DescriptorGraph] : IsLoaded(f, list, n)
    <2>1. n \in 0..n
      BY <1>1
    <2>2. n \in T
      <3> HIDE DEF T
      <3> QED BY <1>2, <2>1
    <2> QED BY <2>2
  <1>4. f = Up(f)
    BY <1>1, <1>3 DEF IsLoaded
  <1> DEFINE g == CHOOSE h : h = Up(h)
  <1>5. g = Up(g)
    BY <1>4
  <1>6. Loaded(list) = g[n]
    BY DEF Loaded, n
  <1> HIDE DEF g
  <1>7. IsLoaded(g, list, n)
    BY <1>1, <1>5 DEF IsLoaded
  <1>8. \A m \in 0..n : g[m] \in DescriptorGraph
    <2> DEFINE G == {k \in 0..n : g[k] \in DescriptorGraph}
    <2>1. 0 \in G
      BY <1>1, <1>7, EmptyType DEF IsLoaded
    <2>2. ASSUME NEW m \in 1..n, m - 1 \in G
          PROVE  m \in G
      <3>1. g[m - 1] \in DescriptorGraph /\ Disk[list[m]] \in DescriptorGraph
        BY <1>1, <2>2
      <3>2. g[m] = Merge(g[m - 1], Disk[list[m]])
        BY <1>7 DEF IsLoaded
      <3>3. g[m] \in DescriptorGraph
        BY <3>1, <3>2, MergeType
      <3> QED BY <3>3
    <2> HIDE DEF G
    <2>3. \A m \in 0..n : m \in G
      BY <2>1, <2>2, <1>1, CountUp
    <2> QED BY <2>3 DEF G
  <1>9. g \in [0..n -> DescriptorGraph]
    BY <1>5, <1>8
  <1> QED BY <1>6, <1>7, <1>9 DEF n

\* The paths of a longer list: the last one's files replace the others'.
LEMMA LoadedFacts ==
    /\ Loaded(<<>>) = Empty
    /\ \A list \in Seq(Readable) : Loaded(list) \in DescriptorGraph
    /\ \A list \in Seq(Readable) : \A p \in Readable :
          Loaded(Append(list, p)) = Merge(Loaded(list), Disk[p])
PROOF
  <1>1. Loaded(<<>>) = Empty
    <2>1. <<>> \in Seq(Readable) /\ Len(<<>>) = 0
      BY EmptySeq
    <2>2. PICK f \in [0..Len(<<>>) -> DescriptorGraph] :
             IsLoaded(f, <<>>, Len(<<>>)) /\ Loaded(<<>>) = f[Len(<<>>)]
      BY <2>1, LoadedUpTo
    <2> QED BY <2>1, <2>2 DEF IsLoaded
  <1>2. ASSUME NEW list \in Seq(Readable)
        PROVE  Loaded(list) \in DescriptorGraph
    <2>1. PICK f \in [0..Len(list) -> DescriptorGraph] : Loaded(list) = f[Len(list)]
      BY LoadedUpTo
    <2> QED BY <2>1
  <1>3. ASSUME NEW list \in Seq(Readable), NEW p \in Readable
        PROVE  Loaded(Append(list, p)) = Merge(Loaded(list), Disk[p])
    <2> DEFINE n == Len(list)
               longer == Append(list, p)
    <2>1. n \in Nat /\ longer \in Seq(Readable) /\ Len(longer) = n + 1 /\ longer[n + 1] = p
          /\ \A m \in 1..n : longer[m] = list[m]
      BY AppendProperties
    <2>2. PICK f \in [0..n -> DescriptorGraph] : IsLoaded(f, list, n) /\ Loaded(list) = f[n]
      BY LoadedUpTo
    <2> HIDE DEF n, longer
    <2>3. PICK g \in [0..(n + 1) -> DescriptorGraph] :
             IsLoaded(g, longer, n + 1) /\ Loaded(longer) = g[n + 1]
      BY <2>1, LoadedUpTo
    <2> DEFINE T == {m \in 0..n : g[m] = f[m]}
    <2>4. 0 \in T
      BY <2>1, <2>2, <2>3 DEF IsLoaded
    <2>5. ASSUME NEW m \in 1..n, m - 1 \in T
          PROVE  m \in T
      <3>1. m \in 1..(n + 1) /\ g[m - 1] = f[m - 1] /\ longer[m] = list[m]
        BY <2>1, <2>5
      <3>2. g[m] = Merge(g[m - 1], Disk[longer[m]]) /\ f[m] = Merge(f[m - 1], Disk[list[m]])
        BY <3>1, <2>2, <2>3 DEF IsLoaded
      <3> QED BY <3>1, <3>2
    <2> HIDE DEF T
    <2>6. \A m \in 0..n : m \in T
      BY <2>1, <2>4, <2>5, CountUp
    <2>7. g[n] = f[n]
      BY <2>1, <2>6 DEF T
    <2>8. g[n + 1] = Merge(g[n], Disk[p])
      <3>1. n + 1 \in 1..(n + 1) /\ (n + 1) - 1 = n
        BY <2>1
      <3> QED BY <3>1, <2>1, <2>3 DEF IsLoaded
    <2> QED BY <2>2, <2>3, <2>7, <2>8 DEF longer
  <1> QED BY <1>1, <1>2, <1>3


-----------------------------------------------------------------------------
(* The server.                                                             *)

LEMMA AppliedType ==
    ASSUME NEW b \in Bundle, NEW d \in BundleDdl, NEW g \in DescriptorGraph, Accepts(b, d, g)
    PROVE  Applied(b, d, g) \in Bundle
PROOF
  <1>1. b \in [DOMAIN b -> FileNames] /\ DOMAIN b \in SUBSET Types
    BY BundleDomain
  <1>2. d.insert \in SUBSET Types /\ d.update \in SUBSET Types /\ d.delete \in SUBSET Types
    BY DEF BundleDdl
  <1>3. \A t \in d.insert \cup d.update : FileOf(g, t) \in FileNames
    BY FileOfFacts DEF Accepts
  <1>4. CASE d.op = "drop"
    <2>1. Applied(b, d, g) = [t \in {} |-> "f"]
      BY <1>4 DEF Applied
    <2>2. [t \in {} |-> "f"] \in [{} -> FileNames] /\ {} \in SUBSET Types
      OBVIOUS
    <2> QED BY <2>1, <2>2, BundleIntro
  <1>5. CASE d.op # "drop"
    <2> DEFINE T == (DOMAIN b \cup d.insert) \ d.delete
               a == [t \in T |-> IF t \in d.insert \cup d.update THEN FileOf(g, t) ELSE b[t]]
    <2>1. T \in SUBSET Types
      BY <1>1, <1>2
    <2>2. a \in [T -> FileNames]
      <3> SUFFICES ASSUME NEW t \in T
                   PROVE  (IF t \in d.insert \cup d.update THEN FileOf(g, t) ELSE b[t]) \in FileNames
        OBVIOUS
      <3>1. CASE t \in d.insert \cup d.update
        BY <3>1, <1>3
      <3>2. CASE t \notin d.insert \cup d.update
        <4>1. t \in DOMAIN b
          BY <3>2
        <4> QED BY <4>1, <3>2, <1>1
      <3> QED BY <3>1, <3>2
    <2>3. Applied(b, d, g) = a
      BY <1>5 DEF Applied
    <2> HIDE DEF T, a
    <2> QED BY <2>1, <2>2, <2>3, BundleIntro
  <1> QED BY <1>4, <1>5

\* What a request may be at, after some of its statements.
Outcome == [bundle: Bundle, ok: BOOLEAN]

IsRun(f, b, ddls, g, n) ==
    f[0] = [bundle |-> b, ok |-> TRUE] /\ \A m \in 1..n : f[m] = Ran(f[m - 1], ddls[m], g)

LEMMA RanType ==
    ASSUME NEW so \in Outcome, NEW d \in BundleDdl, NEW g \in DescriptorGraph
    PROVE  Ran(so, d, g) \in Outcome
PROOF
  <1>1. so.bundle \in Bundle /\ so.ok \in BOOLEAN
    BY DEF Outcome
  <1>2. CASE ~so.ok
    BY <1>2 DEF Ran
  <1>3. CASE so.ok /\ Accepts(so.bundle, d, g)
    <2>1. Applied(so.bundle, d, g) \in Bundle
      BY <1>1, <1>3, AppliedType
    <2>2. Ran(so, d, g) = [bundle |-> Applied(so.bundle, d, g), ok |-> TRUE]
      BY <1>3 DEF Ran
    <2> QED BY <2>1, <2>2 DEF Outcome
  <1>4. CASE so.ok /\ ~Accepts(so.bundle, d, g)
    <2>1. Ran(so, d, g) = [bundle |-> so.bundle, ok |-> FALSE]
      BY <1>4 DEF Ran
    <2> QED BY <2>1, <1>1 DEF Outcome
  <1> QED BY <1>1, <1>2, <1>3, <1>4

LEMMA RunUpTo ==
    ASSUME NEW b \in Bundle, NEW ddls \in Seq(BundleDdl), NEW g \in DescriptorGraph
    PROVE  \E f \in [0..Len(ddls) -> Outcome] :
              IsRun(f, b, ddls, g, Len(ddls)) /\ Run(b, ddls, g) = f[Len(ddls)]
PROOF
  <1> DEFINE n == Len(ddls)
             first == [bundle |-> b, ok |-> TRUE]
             Up(f) == [m \in 0..n |-> IF m = 0 THEN first ELSE Ran(f[m - 1], ddls[m], g)]
             T == {m \in 0..n : \E f \in [0..m -> Outcome] : IsRun(f, b, ddls, g, m)}
  <1>1. n \in Nat /\ first \in Outcome /\ \A m \in 1..n : ddls[m] \in BundleDdl
    BY ElementOfSeq DEF Outcome
  <1>0. first = [bundle |-> b, ok |-> TRUE]
    OBVIOUS
  <1> HIDE DEF n, first
  <1>2. \A m \in 0..n : m \in T
    <2>1. 0 \in T
      <3> DEFINE z == [m \in 0..0 |-> first]
      <3>1. z \in [0..0 -> Outcome] /\ IsRun(z, b, ddls, g, 0)
        BY <1>0, <1>1 DEF IsRun
      <3> HIDE DEF z
      <3> QED BY <3>1, <1>1
    <2>2. ASSUME NEW m \in 1..n, m - 1 \in T
          PROVE  m \in T
      <3>1. PICK f \in [0..(m - 1) -> Outcome] : IsRun(f, b, ddls, g, m - 1)
        BY <2>2
      <3> DEFINE h == [k \in 0..m |-> IF k = m THEN Ran(f[m - 1], ddls[m], g) ELSE f[k]]
      <3>2. f[m - 1] \in Outcome /\ ddls[m] \in BundleDdl
        BY <3>1, <1>1
      <3>3. Ran(f[m - 1], ddls[m], g) \in Outcome
        BY <3>2, RanType
      <3>4. h \in [0..m -> Outcome]
        BY <3>1, <3>3, <1>1
      <3>5. /\ h[0] = first /\ h[m] = Ran(h[m - 1], ddls[m], g)
            /\ \A k \in 1..(m - 1) : h[k] = f[k] /\ h[k - 1] = f[k - 1]
        <4>1. f[0] = first
          BY <3>1, <1>0 DEF IsRun
        <4>2. /\ 0 \in 0..m /\ m \in 0..m /\ m - 1 \in 0..m /\ m # 0 /\ m - 1 # m
              /\ \A k \in 1..(m - 1) : k \in 0..m /\ k - 1 \in 0..m /\ k # m /\ k - 1 # m
          BY <1>1
        <4>3. h[0] = f[0] /\ h[m] = Ran(f[m - 1], ddls[m], g) /\ h[m - 1] = f[m - 1]
          BY <4>2
        <4>4. \A k \in 1..(m - 1) : h[k] = f[k] /\ h[k - 1] = f[k - 1]
          BY <4>2
        <4> QED BY <4>1, <4>3, <4>4
      <3>6. \A k \in 1..m : h[k] = Ran(h[k - 1], ddls[k], g)
        <4> SUFFICES ASSUME NEW k \in 1..m
                     PROVE  h[k] = Ran(h[k - 1], ddls[k], g)
          OBVIOUS
        <4>1. CASE k = m
          BY <4>1, <3>5
        <4>2. CASE k # m
          <5>1. k \in 1..(m - 1)
            BY <4>2, <1>1
          <5>2. f[k] = Ran(f[k - 1], ddls[k], g)
            BY <5>1, <3>1 DEF IsRun
          <5> HIDE DEF h
          <5> QED BY <5>1, <5>2, <3>5
        <4> QED BY <4>1, <4>2
      <3> HIDE DEF h
      <3>7. IsRun(h, b, ddls, g, m)
        BY <1>0, <3>5, <3>6 DEF IsRun
      <3> QED BY <3>4, <3>7
    <2> HIDE DEF T
    <2> QED BY <2>1, <2>2, <1>1, CountUp
  <1>3. PICK f \in [0..n -> Outcome] : IsRun(f, b, ddls, g, n)
    <2>1. n \in 0..n
      BY <1>1
    <2>2. n \in T
      <3> HIDE DEF T
      <3> QED BY <1>2, <2>1
    <2> QED BY <2>2
  <1>4. f = Up(f)
    BY <1>0, <1>1, <1>3 DEF IsRun
  <1> DEFINE h == CHOOSE x : x = Up(x)
  <1>5. h = Up(h)
    BY <1>4
  <1>6. Run(b, ddls, g) = h[n]
    BY DEF Run, n, first
  <1> HIDE DEF h
  <1>7. IsRun(h, b, ddls, g, n)
    <2>1. h[0] = first
      BY <1>1, <1>5
    <2>2. \A m \in 1..n : h[m] = Ran(h[m - 1], ddls[m], g)
      <3>1. \A m \in 1..n : m \in 0..n /\ m # 0
        BY <1>1
      <3> QED BY <1>5, <3>1
    <2> QED BY <1>0, <2>1, <2>2 DEF IsRun
  <1>8. \A m \in 0..n : h[m] \in Outcome
    <2> DEFINE G == {k \in 0..n : h[k] \in Outcome}
    <2>1. 0 \in G
      BY <1>0, <1>1, <1>7 DEF IsRun
    <2>2. ASSUME NEW m \in 1..n, m - 1 \in G
          PROVE  m \in G
      <3>1. h[m - 1] \in Outcome /\ ddls[m] \in BundleDdl
        BY <1>1, <2>2
      <3>2. h[m] = Ran(h[m - 1], ddls[m], g)
        BY <1>7 DEF IsRun
      <3>3. h[m] \in Outcome
        BY <3>1, <3>2, RanType
      <3> QED BY <3>3
    <2> HIDE DEF G
    <2>3. \A m \in 0..n : m \in G
      BY <2>1, <2>2, <1>1, CountUp
    <2> QED BY <2>3 DEF G
  <1>9. h \in [0..n -> Outcome]
    BY <1>5, <1>8
  <1> QED BY <1>6, <1>7, <1>9 DEF n

\* A request of no statement changes nothing, one of one statement what it says.
LEMMA RunFacts ==
    ASSUME NEW b \in Bundle, NEW g \in DescriptorGraph
    PROVE  /\ \A ddls \in Seq(BundleDdl) :
                 Run(b, ddls, g).bundle \in Bundle /\ Run(b, ddls, g).ok \in BOOLEAN
           /\ Run(b, <<>>, g) = [bundle |-> b, ok |-> TRUE]
           /\ \A d \in BundleDdl : Accepts(b, d, g) =>
                 Run(b, <<d>>, g) = [bundle |-> Applied(b, d, g), ok |-> TRUE]
PROOF
  <1>1. ASSUME NEW ddls \in Seq(BundleDdl)
        PROVE  Run(b, ddls, g).bundle \in Bundle /\ Run(b, ddls, g).ok \in BOOLEAN
    <2>1. PICK f \in [0..Len(ddls) -> Outcome] : Run(b, ddls, g) = f[Len(ddls)]
      BY RunUpTo
    <2>2. Run(b, ddls, g) \in Outcome
      BY <2>1
    <2> QED BY <2>2 DEF Outcome
  <1>2. Run(b, <<>>, g) = [bundle |-> b, ok |-> TRUE]
    <2>1. <<>> \in Seq(BundleDdl) /\ Len(<<>>) = 0
      BY EmptySeq
    <2>2. PICK f \in [0..Len(<<>>) -> Outcome] :
             IsRun(f, b, <<>>, g, Len(<<>>)) /\ Run(b, <<>>, g) = f[Len(<<>>)]
      BY <2>1, RunUpTo
    <2> QED BY <2>1, <2>2 DEF IsRun
  <1>3. ASSUME NEW d \in BundleDdl, Accepts(b, d, g)
        PROVE  Run(b, <<d>>, g) = [bundle |-> Applied(b, d, g), ok |-> TRUE]
    <2> DEFINE one == <<d>>
    <2>1. one \in Seq(BundleDdl) /\ Len(one) = 1 /\ one[1] = d
      OBVIOUS
    <2> HIDE DEF one
    <2>2. PICK f \in [0..1 -> Outcome] : IsRun(f, b, one, g, 1) /\ Run(b, one, g) = f[1]
      BY <2>1, RunUpTo
    <2>3. f[0] = [bundle |-> b, ok |-> TRUE] /\ f[1] = Ran(f[0], d, g)
      <3>1. 1 \in 1..1 /\ 1 - 1 = 0
        OBVIOUS
      <3> QED BY <3>1, <2>1, <2>2 DEF IsRun
    <2>4. f[1] = [bundle |-> Applied(b, d, g), ok |-> TRUE]
      BY <1>3, <2>3 DEF Ran
    <2> QED BY <2>2, <2>4 DEF one
  <1> QED BY <1>1, <1>2, <1>3

-----------------------------------------------------------------------------
(* What the server says of its bundle.                                     *)

LEMMA RemoteFacts ==
    ASSUME NEW b \in Bundle
    PROVE  /\ RemoteGraph(b) \in DescriptorGraph
           /\ DOMAIN RemoteGraph(b) = {b[t] : t \in DOMAIN b}
           /\ \A x \in DOMAIN RemoteGraph(b) :
                 /\ RemoteGraph(b)[x].complete = {t \in DOMAIN b : b[t] = x}
                 /\ RemoteGraph(b)[x].holes \cap DOMAIN b = {}
           /\ CompleteIn(RemoteGraph(b)) = DOMAIN b
PROOF
  <1> DEFINE Home(t) == IF t \in DOMAIN b THEN b[t]
                        ELSE LET u == CHOOSE v \in DOMAIN b : <<v, t>> \in Fields IN b[u]
             holes == {t \in Types \ DOMAIN b : \E u \in DOMAIN b : <<u, t>> \in Fields}
             In(x, set) == {t \in set : Home(t) = x}
             D == {b[t] : t \in DOMAIN b}
             Imports(x) == {b[t] : t \in {v \in DOMAIN b : \E u \in In(x, DOMAIN b) :
                                              <<u, v>> \in Fields}} \ {x}
             R == RemoteGraph(b)
  <1>1. b \in [DOMAIN b -> FileNames] /\ DOMAIN b \in SUBSET Types /\ \A t \in DOMAIN b : b[t] \in FileNames
    BY BundleDomain
  <1>2. R = [x \in D |-> File(In(x, DOMAIN b), In(x, holes), Imports(x))]
    BY DEF RemoteGraph
  <1>3. \A x : In(x, DOMAIN b) = {t \in DOMAIN b : b[t] = x}
    OBVIOUS
  <1>4. \A x : In(x, holes) \in SUBSET Types /\ In(x, holes) \cap DOMAIN b = {}
    OBVIOUS
  <1>5. \A x : Imports(x) \in SUBSET FileNames
    BY <1>1
  <1>6. D \in SUBSET FileNames
    BY <1>1
  <1> HIDE DEF R, In, Imports, D
  <1>7. \A x : In(x, DOMAIN b) \in SUBSET Types
    BY <1>1, <1>3
  <1>8. \A x : File(In(x, DOMAIN b), In(x, holes), Imports(x)) \in FileRecord
    BY <1>4, <1>5, <1>7 DEF File, FileRecord
  <1>9. R \in [D -> FileRecord] /\ DOMAIN R = D
    BY <1>2, <1>8
  <1>10. R \in DescriptorGraph
    BY <1>6, <1>9, GraphIntro
  <1>11. \A x \in D : R[x].complete = {t \in DOMAIN b : b[t] = x} /\ R[x].holes \cap DOMAIN b = {}
    <2> SUFFICES ASSUME NEW x \in D
                 PROVE  R[x].complete = {t \in DOMAIN b : b[t] = x} /\ R[x].holes \cap DOMAIN b = {}
      OBVIOUS
    <2>1. R[x] = File(In(x, DOMAIN b), In(x, holes), Imports(x))
      BY <1>2
    <2>2. R[x].complete = In(x, DOMAIN b) /\ R[x].holes = In(x, holes)
      BY <2>1 DEF File
    <2> QED BY <2>2, <1>3, <1>4
  <1>12. CompleteIn(R) = DOMAIN b
    <2>1. ASSUME NEW t \in CompleteIn(R)
          PROVE  t \in DOMAIN b
      BY <1>9, <1>11, CompleteFacts
    <2>2. ASSUME NEW t \in DOMAIN b
          PROVE  t \in CompleteIn(R)
      <3>1. b[t] \in D
        BY DEF D
      <3>2. t \in R[b[t]].complete
        BY <3>1, <1>11
      <3> QED BY <3>1, <3>2, <1>9, CompleteFacts
    <2> QED BY <2>1, <2>2
  <1> QED BY <1>9, <1>10, <1>11, <1>12 DEF R, D

\* A type of the bundle is found in its own file, in every part of the answer.
LEMMA RemoteFile ==
    ASSUME NEW b \in Bundle, NEW F \in SUBSET (DOMAIN RemoteGraph(b)),
           NEW g, g = [x \in F |-> RemoteGraph(b)[x]],
           NEW t \in DOMAIN b, t \in CompleteIn(g)
    PROVE  b[t] \in F /\ FileOf(g, t) = b[t]
PROOF
  <1>1. DOMAIN g = F /\ \A x \in F : g[x] = RemoteGraph(b)[x]
    OBVIOUS
  <1>2. \A x \in F : t \in Declared(g, x) <=> b[t] = x
    <2> SUFFICES ASSUME NEW x \in F
                 PROVE  t \in Declared(g, x) <=> b[t] = x
      OBVIOUS
    <2>1. /\ RemoteGraph(b)[x].complete = {u \in DOMAIN b : b[u] = x}
          /\ RemoteGraph(b)[x].holes \cap DOMAIN b = {}
      BY RemoteFacts
    <2> QED BY <1>1, <2>1 DEF Declared
  <1>3. PICK x \in F : t \in g[x].complete
    BY <1>1, CompleteFacts
  <1>4. t \in Declared(g, x)
    BY <1>1, <1>3, CompleteFacts
  <1>5. b[t] = x
    BY <1>2, <1>4
  <1>6. b[t] \in F /\ b[t] \in DOMAIN g /\ t \in Declared(g, b[t])
    BY <1>1, <1>4, <1>5
  <1>7. FileOf(g, t) \in DOMAIN g /\ t \in Declared(g, FileOf(g, t))
    BY <1>6 DEF FileOf
  <1> QED BY <1>1, <1>2, <1>6, <1>7


-----------------------------------------------------------------------------
(* The invariant: the client's graph, the server with what is cached of    *)
(* it, and the last result.                                                *)

LocalInv ==
    /\ graph \in DescriptorGraph /\ Valid(graph)
    /\ paths \in Seq(Readable) /\ Len(paths) <= MaxPaths
    /\ PathsAreLoaded

ServerInv ==
    /\ ddlBatch \in [kind: {"none", "ddl", "dml"}, queue: Seq(BundleDdl)]
    /\ ddlBatch.kind # "ddl" => ddlBatch.queue = <<>>
    /\ bundle \in Bundle
    /\ cache \in [valid: BOOLEAN, bundle: Bundle]
    /\ outside \in 0..MaxOutside
    /\ OwnChangeIsSeen

LastInv == last.ok \in BOOLEAN /\ DumpedBundleReplays

ProtoInv == LocalInv /\ ServerInv /\ LastInv

LEMMA InvIsSound == ProtoInv => ProtoSound
PROOF
  <1> SUFFICES ASSUME ProtoInv
               PROVE  ProtoSound
    OBVIOUS
  <1>1. \A i \in DOMAIN paths : paths[i] \in Readable
    <2>1. paths \in Seq(Readable)
      BY DEF ProtoInv, LocalInv
    <2> QED BY <2>1
  <1>2. DOMAIN graph \subseteq {"f", "g"}
    <2>1. graph \in DescriptorGraph
      BY DEF ProtoInv, LocalInv
    <2> QED BY <2>1, GraphDomain DEF FileNames
  <1>3. DOMAIN bundle \subseteq Types
    <2>1. bundle \in Bundle
      BY DEF ProtoInv, ServerInv
    <2> QED BY <2>1, BundleDomain
  <1>4. Len(paths) <= MaxPaths /\ Valid(graph) /\ PathsAreLoaded
    BY DEF ProtoInv, LocalInv
  <1>5. /\ ddlBatch.kind \in {"none", "ddl", "dml"}
        /\ ddlBatch.kind # "ddl" => ddlBatch.queue = <<>>
        /\ cache.valid \in BOOLEAN /\ outside \in 0..MaxOutside
        /\ OwnChangeIsSeen
    BY DEF ProtoInv, ServerInv
  <1>6. last.ok \in BOOLEAN /\ DumpedBundleReplays
    BY DEF ProtoInv, LastInv
  <1>7. ProtoTypeOK
    BY <1>1, <1>2, <1>3, <1>4, <1>5, <1>6 DEF ProtoTypeOK
  <1> QED BY <1>4, <1>5, <1>6, <1>7 DEF ProtoSound

LEMMA ProtoStarts == ProtoInit => ProtoInv
PROOF
  <1> SUFFICES ASSUME ProtoInit
               PROVE  ProtoInv
    OBVIOUS
  <1>1. LocalInv
    <2>1. paths = <<>> /\ graph = Empty
      BY DEF ProtoInit
    <2>2. <<>> \in Seq(Readable) /\ Len(<<>>) = 0
      BY EmptySeq
    <2>3. Valid(Empty)
      BY EmptyType DEF Valid
    <2>4. Len(paths) <= MaxPaths
      BY <2>1, <2>2, PathsAssumption
    <2>5. PathsAreLoaded
      BY <2>1, LoadedFacts, EmptyType DEF PathsAreLoaded
    <2> QED BY <2>1, <2>2, <2>3, <2>4, <2>5, EmptyType DEF LocalInv
  <1>2. ServerInv
    <2>1. ddlBatch = NoBatch /\ cache = NoCache /\ outside = 0
      BY DEF ProtoInit
    <2>2. <<>> \in Seq(BundleDdl)
      BY EmptySeq
    <2>3. [t \in {} |-> "f"] \in Bundle
      <3>1. [t \in {} |-> "f"] \in [{} -> FileNames] /\ {} \in SUBSET Types
        OBVIOUS
      <3> QED BY <3>1, BundleIntro
    <2>4. bundle \in Bundle
      <3>1. /\ [t \in {"A"} |-> "f"] \in [{"A"} -> FileNames] /\ {"A"} \in SUBSET Types
            /\ [t \in {"B"} |-> "g"] \in [{"B"} -> FileNames] /\ {"B"} \in SUBSET Types
        BY DEF FileNames, Types
      <3>2. [t \in {"A"} |-> "f"] \in Bundle /\ [t \in {"B"} |-> "g"] \in Bundle
        BY <3>1, BundleIntro
      <3> QED BY <2>3, <3>2 DEF ProtoInit
    <2>5. ddlBatch \in [kind: {"none", "ddl", "dml"}, queue: Seq(BundleDdl)]
          /\ ddlBatch.queue = <<>>
      BY <2>1, <2>2 DEF NoBatch
    <2>6. cache \in [valid: BOOLEAN, bundle: Bundle] /\ ~cache.valid
      BY <2>1, <2>3 DEF NoCache
    <2>7. outside \in 0..MaxOutside
      BY <2>1, BoundsAssumption
    <2> QED BY <2>4, <2>5, <2>6, <2>7 DEF ServerInv, OwnChangeIsSeen
  <1>3. LastInv
    BY DEF ProtoInit, Quiet, LastInv, DumpedBundleReplays
  <1> QED BY <1>1, <1>2, <1>3 DEF ProtoInv

-----------------------------------------------------------------------------
(* What does not change.                                                   *)

LEMMA LocalStays == LocalInv /\ UNCHANGED local => LocalInv'
PROOF
  <1> SUFFICES ASSUME LocalInv, UNCHANGED local
               PROVE  LocalInv'
    OBVIOUS
  <1>1. paths' = paths /\ graph' = graph
    BY DEF local
  <1> QED BY <1>1 DEF LocalInv, PathsAreLoaded

LEMMA ServerStays == ServerInv /\ Keep => ServerInv'
PROOF
  BY DEF ServerInv, Keep, OwnChangeIsSeen

\* A result that is no dump.
LEMMA SaidFacts ==
    ASSUME NEW op, NEW good \in BOOLEAN, Said(op, good)
    PROVE  /\ last'.op = op /\ last'.ok = good
           /\ op # "dump" => LastInv'
PROOF
  BY DEF Said, Quiet, LastInv, DumpedBundleReplays

LEMMA QuietFacts ==
    ASSUME last' = Quiet
    PROVE  last'.op = "none" /\ last'.ok = TRUE /\ LastInv'
PROOF
  BY DEF Quiet, LastInv, DumpedBundleReplays

\* A statement that is neither a pull nor a sync, and succeeds or leaves the
\* graph alone.
LEMMA OtherStep ==
    ASSUME last'.op # "pull", last'.op # "sync", last'.ok \/ UNCHANGED local
    PROVE  ProtoStep
PROOF
  BY DEF ProtoStep, FailedKeepsGraph, PullOnlyAdds, SyncIsExact

LEMMA ReportedStep ==
    ASSUME NEW op \in {"set", "add", "refused", "run"}, NEW good \in BOOLEAN, Said(op, good),
           good \/ UNCHANGED local
    PROVE  LastInv' /\ ProtoStep
PROOF
  <1>0. op # "dump"
    OBVIOUS
  <1>1. last'.op = op /\ last'.ok = good /\ LastInv'
    BY <1>0, SaidFacts
  <1>2. last'.op # "pull" /\ last'.op # "sync"
    BY <1>1
  <1>3. last'.ok \/ UNCHANGED local
    BY <1>1
  <1>4. ProtoStep
    BY <1>2, <1>3, OtherStep
  <1> QED BY <1>1, <1>4

-----------------------------------------------------------------------------
(* The files.                                                              *)

LEMMA ListFacts ==
    ASSUME NEW list \in Lists
    PROVE  list \in Seq(Paths) /\ Len(list) <= MaxPaths
PROOF
  <1>1. CASE list = <<>>
    BY <1>1, PathsAssumption
  <1>2. ASSUME NEW p \in Paths, list = <<p>>
        PROVE  list \in Seq(Paths) /\ Len(list) <= MaxPaths
    BY <1>2, PathsAssumption
  <1>3. CASE list \in Readable \X Readable /\ MaxPaths >= 2
    <2>1. PICK p \in Readable, q \in Readable : list = <<p, q>>
      BY <1>3
    <2>2. p \in Paths /\ q \in Paths
      BY DEF Paths
    <2> QED BY <1>3, <2>1, <2>2, PathsAssumption
  <1> QED BY <1>1, <1>2, <1>3 DEF Lists

LEMMA SetFilePathStep ==
    ASSUME ProtoInv, NEW list \in Lists, SetFilePath(list)
    PROVE  ProtoInv' /\ ProtoStep
PROOF
  <1>1. LocalInv /\ ServerInv /\ Keep
    BY DEF ProtoInv, SetFilePath
  <1>2. ServerInv'
    BY <1>1, ServerStays
  <1>3. CASE Installable(list)
    <2>1. paths' = list /\ graph' = Loaded(list) /\ Said("set", TRUE)
      BY <1>3 DEF SetFilePath
    <2>2. list \in Seq(Readable) /\ Len(list) <= MaxPaths
      <3>1. list \in Seq(Paths) /\ Len(list) <= MaxPaths
        BY ListFacts
      <3>2. \A i \in 1..Len(list) : list[i] \in Readable
        <4>1. DOMAIN list = 1..Len(list)
          BY <3>1
        <4>2. ToSet(list) \subseteq Readable
          BY <1>3 DEF Installable
        <4> QED BY <4>1, <4>2 DEF ToSet
      <3> QED BY <3>1, <3>2, SeqDef
    <2>3. Loaded(list) \in DescriptorGraph /\ Valid(Loaded(list))
      BY <1>3, <2>2, LoadedFacts DEF Installable
    <2>4. LocalInv'
      BY <2>1, <2>2, <2>3 DEF LocalInv, PathsAreLoaded
    <2>5. LastInv' /\ ProtoStep
      BY <2>1, ReportedStep
    <2> QED BY <1>2, <2>4, <2>5 DEF ProtoInv
  <1>4. CASE ~Installable(list)
    <2>1. UNCHANGED local /\ Said("set", FALSE)
      BY <1>4 DEF SetFilePath
    <2>2. LocalInv'
      BY <1>1, <2>1, LocalStays
    <2>3. LastInv' /\ ProtoStep
      BY <2>1, ReportedStep
    <2> QED BY <1>2, <2>2, <2>3 DEF ProtoInv
  <1> QED BY <1>3, <1>4

LEMMA AddFilePathStep ==
    ASSUME ProtoInv, NEW p \in Paths, AddFilePath(p)
    PROVE  ProtoInv' /\ ProtoStep
PROOF
  <1>1. LocalInv /\ ServerInv /\ Keep
    BY DEF ProtoInv, AddFilePath
  <1>2. ServerInv'
    BY <1>1, ServerStays
  <1>3. CASE p \in Readable /\ Valid(AddCandidate(p)) /\ paths' = Append(paths, p)
             /\ graph' = AddCandidate(p) /\ Said("add", TRUE)
    <2>1. graph \in DescriptorGraph /\ paths \in Seq(Readable) /\ PathsAreLoaded
          /\ Len(paths) < MaxPaths
      BY <1>1 DEF LocalInv, AddFilePath
    <2>2. Disk[p] \in DescriptorGraph
      BY <1>3, DiskType
    <2>3. graph' = Merge(graph, Disk[p]) /\ Valid(graph')
      BY <1>3 DEF AddCandidate
    <2>4. graph' \in DescriptorGraph
      BY <2>1, <2>2, <2>3, MergeType
    <2>5. paths' \in Seq(Readable) /\ Len(paths') <= MaxPaths
      <3>1. Append(paths, p) \in Seq(Readable) /\ Len(Append(paths, p)) = Len(paths) + 1
        BY <1>3, <2>1, AppendProperties
      <3>2. Len(paths) \in Nat
        BY <2>1
      <3> QED BY <1>3, <2>1, <3>1, <3>2, PathsAssumption
    <2>6. Loaded(paths') = Merge(Loaded(paths), Disk[p]) /\ Loaded(paths) \in DescriptorGraph
      BY <1>3, <2>1, LoadedFacts
    <2>7. \A x \in DOMAIN Loaded(paths') : x \in DOMAIN graph' /\ graph'[x] = Loaded(paths')[x]
      <3> SUFFICES ASSUME NEW x \in DOMAIN Loaded(paths')
                   PROVE  x \in DOMAIN graph' /\ graph'[x] = Loaded(paths')[x]
        OBVIOUS
      <3>1. /\ DOMAIN Loaded(paths') = DOMAIN Loaded(paths) \cup DOMAIN Disk[p]
            /\ \A y \in DOMAIN Disk[p] : Loaded(paths')[y] = Disk[p][y]
            /\ \A y \in DOMAIN Loaded(paths) \ DOMAIN Disk[p] :
                  Loaded(paths')[y] = Loaded(paths)[y]
        <4> DEFINE m == Merge(Loaded(paths), Disk[p])
        <4>1. /\ DOMAIN m = DOMAIN Loaded(paths) \cup DOMAIN Disk[p]
              /\ \A y \in DOMAIN Disk[p] : m[y] = Disk[p][y]
              /\ \A y \in DOMAIN Loaded(paths) \ DOMAIN Disk[p] : m[y] = Loaded(paths)[y]
          BY <2>2, <2>6, MergeType
        <4>2. Loaded(paths') = m
          BY <2>6
        <4> HIDE DEF m
        <4> QED BY <4>1, <4>2
      <3>2. /\ DOMAIN graph' = DOMAIN graph \cup DOMAIN Disk[p]
            /\ \A y \in DOMAIN Disk[p] : graph'[y] = Disk[p][y]
            /\ \A y \in DOMAIN graph \ DOMAIN Disk[p] : graph'[y] = graph[y]
        BY <2>1, <2>2, <2>3, MergeType
      <3>3. CASE x \in DOMAIN Disk[p]
        BY <3>1, <3>2, <3>3
      <3>4. CASE x \notin DOMAIN Disk[p]
        <4>1. x \in DOMAIN Loaded(paths)
          BY <3>1, <3>4
        <4>2. x \in DOMAIN graph /\ graph[x] = Loaded(paths)[x]
          BY <2>1, <4>1 DEF PathsAreLoaded
        <4> QED BY <3>1, <3>2, <3>4, <4>1, <4>2
      <3> QED BY <3>3, <3>4
    <2>8. LocalInv'
      BY <2>3, <2>4, <2>5, <2>7 DEF LocalInv, PathsAreLoaded
    <2>9. LastInv' /\ ProtoStep
      BY <1>3, ReportedStep
    <2> QED BY <1>2, <2>8, <2>9 DEF ProtoInv
  <1>4. CASE UNCHANGED local /\ \E good \in BOOLEAN : Said("add", good)
    <2>1. LocalInv'
      BY <1>1, <1>4, LocalStays
    <2>2. LastInv' /\ ProtoStep
      BY <1>4, ReportedStep
    <2> QED BY <1>2, <2>1, <2>2 DEF ProtoInv
  <1> QED BY <1>3, <1>4 DEF AddFilePath

\* A list of no files asks for nothing to be in the graph.
LEMMA NoPaths ==
    ASSUME graph' \in DescriptorGraph, Valid(graph'), paths' = <<>>
    PROVE  LocalInv'
PROOF
  <1>1. paths' \in Seq(Readable) /\ Len(paths') = 0
    BY EmptySeq
  <1>2. Loaded(paths') = Empty
    BY LoadedFacts
  <1>3. PathsAreLoaded'
    BY <1>2, EmptyType DEF PathsAreLoaded
  <1>4. Len(paths') <= MaxPaths
    BY <1>1, PathsAssumption
  <1> QED BY <1>1, <1>3, <1>4 DEF LocalInv

LEMMA SetDescriptorsStep ==
    ASSUME ProtoInv, NEW p \in Readable, SetDescriptors(Disk[p])
    PROVE  ProtoInv' /\ ProtoStep
PROOF
  <1>1. LocalInv /\ ServerInv /\ Keep
    BY DEF ProtoInv, SetDescriptors
  <1>2. ServerInv'
    BY <1>1, ServerStays
  <1>3. CASE ddlBatch.kind = "none" /\ Valid(Disk[p])
    <2>1. paths' = <<>> /\ graph' = Disk[p] /\ Said("set", TRUE)
      BY <1>3 DEF SetDescriptors
    <2>2. LocalInv'
      BY <1>3, <2>1, DiskType, NoPaths
    <2>3. LastInv' /\ ProtoStep
      BY <2>1, ReportedStep
    <2> QED BY <1>2, <2>2, <2>3 DEF ProtoInv
  <1>4. CASE ~(ddlBatch.kind = "none" /\ Valid(Disk[p]))
    <2>1. UNCHANGED local /\ Said("set", FALSE)
      BY <1>4 DEF SetDescriptors
    <2>2. LocalInv'
      BY <1>1, <2>1, LocalStays
    <2>3. LastInv' /\ ProtoStep
      BY <2>1, ReportedStep
    <2> QED BY <1>2, <2>2, <2>3 DEF ProtoInv
  <1> QED BY <1>3, <1>4


-----------------------------------------------------------------------------
(* SYNC PROTO BUNDLE and the DDL batch.                                    *)

\* What the clauses of a statement name are types.
LEMMA ResolvedType ==
    ASSUME NEW roots \in SUBSET Types, NEW plain \in SUBSET Types, NEW gone \in SUBSET Types,
           graph \in DescriptorGraph, NEW op
    PROVE  Resolved(Clauses(roots, plain, gone), op) \in SUBSET Types
PROOF
  <1> DEFINE c == Clauses(roots, plain, gone)
  <1>1. DOMAIN c = 1..3 /\ c[1] = Upsert(TRUE, roots) /\ c[2] = Upsert(FALSE, plain)
        /\ c[3] = Delete(gone)
    BY DEF Clauses
  <1>2. /\ c[1].recursive = TRUE /\ c[2].recursive = FALSE /\ c[3].recursive = FALSE
        /\ c[2].names = plain /\ c[3].names = gone
    BY <1>1 DEF Upsert, Delete
  <1>3. CompleteIn(graph) \in SUBSET Types
    <2>1. ASSUME NEW t \in CompleteIn(graph)
          PROVE  t \in Types
      <3>1. PICK x \in DOMAIN graph : t \in graph[x].complete
        BY CompleteFacts
      <3>2. graph[x].complete \in SUBSET Types
        BY GraphDomain
      <3> QED BY <3>1, <3>2
    <2> QED BY <2>1
  <1> HIDE DEF c
  <1>4. /\ Expanded(c[1]) \in SUBSET Types /\ Expanded(c[2]) \in SUBSET Types
        /\ Expanded(c[3]) \in SUBSET Types
    <2>1. Expanded(c[2]) = plain /\ Expanded(c[3]) = gone
      BY <1>2 DEF Expanded
    <2>2. Expanded(c[1]) = (UNION {Nested(t) : t \in c[1].names}) \cap CompleteIn(graph)
      BY <1>2 DEF Expanded
    <2>3. Expanded(c[1]) \subseteq CompleteIn(graph)
      BY <2>2
    <2>4. Expanded(c[1]) \in SUBSET Types
      BY <1>3, <2>3
    <2> QED BY <2>1, <2>4
  <1>5. \A i \in DOMAIN c : Expanded(c[i]) \in SUBSET Types
    <2>1. \A i \in DOMAIN c : i = 1 \/ i = 2 \/ i = 3
      BY <1>1
    <2> QED BY <1>4, <2>1
  <1>6. Resolved(c, op) \in SUBSET Types
    <2>1. ASSUME NEW t \in Resolved(c, op)
          PROVE  t \in Types
      <3>1. PICK i \in DOMAIN c : t \in Expanded(c[i])
        BY DEF Resolved
      <3> QED BY <1>5, <3>1
    <2> QED BY <2>1
  <1> QED BY <1>6 DEF c

LEMMA DdlType ==
    ASSUME NEW op \in {"create", "drop", "alter"}, NEW i \in SUBSET Types,
           NEW u \in SUBSET Types, NEW d \in SUBSET Types
    PROVE  /\ Ddl(op, i, u, d) \in BundleDdl
           /\ Ddl(op, i, u, d).op = op /\ Ddl(op, i, u, d).insert = i
           /\ Ddl(op, i, u, d).update = u /\ Ddl(op, i, u, d).delete = d
PROOF
  BY DEF Ddl, BundleDdl

\* The outcome of a request that was asked for these types.
Synced(b, after, up, del, g) ==
    /\ after.ok
    /\ DOMAIN after.bundle = (DOMAIN b \cup up) \ del
    /\ \A t \in up : after.bundle[t] = FileOf(g, t)

\* The DDL against a bundle brings it exactly to what was asked for.
LEMMA ComposedFacts ==
    ASSUME NEW b \in Bundle, NEW up \in SUBSET Types, NEW del \in SUBSET Types, up \cap del = {}
    PROVE  /\ Composed(RemoteGraph(b), up, del) \in Seq(BundleDdl)
           /\ \A g \in DescriptorGraph : up \subseteq CompleteIn(g) =>
                 Synced(b, Run(b, Composed(RemoteGraph(b), up, del), g), up, del, g)
PROOF
  <1> DEFINE fds == RemoteGraph(b)
             ddls == Composed(fds, up, del)
             Exact(g) == Synced(b, Run(b, ddls, g), up, del, g)
  <1>1. CompleteIn(fds) = DOMAIN b /\ DOMAIN fds = {b[t] : t \in DOMAIN b}
    BY RemoteFacts
  <1>2. DOMAIN fds = {} <=> DOMAIN b = {}
    BY <1>1
  <1>3. DOMAIN b \in SUBSET Types
    BY BundleDomain
  <1>4. ddls = CASE DOMAIN b = {} -> IF up = {} THEN <<>> ELSE <<Ddl("create", up, {}, {})>>
                 [] DOMAIN b # {} /\ up = {} /\ DOMAIN b \subseteq del ->
                      <<Ddl("drop", {}, {}, {})>>
                 [] OTHER ->
                      IF up = {} /\ del \cap DOMAIN b = {} THEN <<>>
                      ELSE <<Ddl("alter", up \ DOMAIN b, up \cap DOMAIN b, del \cap DOMAIN b)>>
    BY <1>1, <1>2 DEF Composed
  <1> HIDE DEF ddls, fds
  \* The cases: nothing to do, or one statement.
  <1>5. CASE up = {} /\ del \cap DOMAIN b = {} /\ ddls = <<>>
    <2>1. <<>> \in Seq(BundleDdl)
      BY EmptySeq
    <2>2. ASSUME NEW g \in DescriptorGraph
          PROVE  Exact(g)
      <3>1. Run(b, ddls, g) = [bundle |-> b, ok |-> TRUE]
        BY <1>5, RunFacts
      <3>2. (DOMAIN b \cup up) \ del = DOMAIN b
        BY <1>5
      <3>3. \A t \in up : FALSE
        BY <1>5
      <3> QED BY <3>1, <3>2, <3>3 DEF Synced
    <2> QED BY <1>5, <2>1, <2>2 DEF ddls, fds
  <1>6. ASSUME NEW d \in BundleDdl, ddls = <<d>>,
               \A g \in DescriptorGraph : up \subseteq CompleteIn(g) =>
                  /\ Accepts(b, d, g)
                  /\ DOMAIN Applied(b, d, g) = (DOMAIN b \cup up) \ del
                  /\ \A t \in up : Applied(b, d, g)[t] = FileOf(g, t)
        PROVE  /\ ddls \in Seq(BundleDdl)
               /\ \A g \in DescriptorGraph : up \subseteq CompleteIn(g) => Exact(g)
    <2>1. <<d>> \in Seq(BundleDdl)
      OBVIOUS
    <2>2. ASSUME NEW g \in DescriptorGraph, up \subseteq CompleteIn(g)
          PROVE  Exact(g)
      <3>1. Run(b, ddls, g) = [bundle |-> Applied(b, d, g), ok |-> TRUE]
        BY <1>6, <2>2, RunFacts
      <3> QED BY <3>1, <1>6, <2>2 DEF Synced
    <2> QED BY <1>6, <2>1, <2>2
  <1>7. CASE DOMAIN b = {} /\ up # {} /\ ddls = <<Ddl("create", up, {}, {})>>
    <2> DEFINE d == Ddl("create", up, {}, {})
    <2>1. d \in BundleDdl /\ d.op = "create" /\ d.insert = up /\ d.update = {} /\ d.delete = {}
      BY DdlType
    <2> HIDE DEF d
    <2>2. ASSUME NEW g \in DescriptorGraph, up \subseteq CompleteIn(g)
          PROVE  /\ Accepts(b, d, g)
                 /\ DOMAIN Applied(b, d, g) = (DOMAIN b \cup up) \ del
                 /\ \A t \in up : Applied(b, d, g)[t] = FileOf(g, t)
      <3>1. Accepts(b, d, g)
        BY <1>7, <2>1, <2>2 DEF Accepts
      <3>2. Applied(b, d, g) = [t \in up |-> FileOf(g, t)]
        BY <1>7, <2>1 DEF Applied
      <3>3. (DOMAIN b \cup up) \ del = up
        BY <1>7
      <3> QED BY <3>1, <3>2, <3>3
    <2>3. ddls = <<d>>
      BY <1>7 DEF d
    <2>4. /\ ddls \in Seq(BundleDdl)
          /\ \A g \in DescriptorGraph : up \subseteq CompleteIn(g) => Exact(g)
      BY <2>1, <2>2, <2>3, <1>6
    <2> QED BY <2>4 DEF ddls, fds
  <1>8. CASE DOMAIN b # {} /\ up = {} /\ DOMAIN b \subseteq del /\ ddls = <<Ddl("drop", {}, {}, {})>>
    <2> DEFINE d == Ddl("drop", {}, {}, {})
    <2>1. d \in BundleDdl /\ d.op = "drop" /\ d.insert = {} /\ d.update = {} /\ d.delete = {}
      BY DdlType
    <2> HIDE DEF d
    <2>2. ASSUME NEW g \in DescriptorGraph, up \subseteq CompleteIn(g)
          PROVE  /\ Accepts(b, d, g)
                 /\ DOMAIN Applied(b, d, g) = (DOMAIN b \cup up) \ del
                 /\ \A t \in up : Applied(b, d, g)[t] = FileOf(g, t)
      <3>1. Accepts(b, d, g)
        BY <1>8, <2>1 DEF Accepts
      <3>2. Applied(b, d, g) = [t \in {} |-> "f"]
        BY <2>1 DEF Applied
      <3>3. (DOMAIN b \cup up) \ del = {}
        BY <1>8
      <3> QED BY <3>1, <3>2, <3>3, <1>8
    <2>3. ddls = <<d>>
      BY <1>8 DEF d
    <2>4. /\ ddls \in Seq(BundleDdl)
          /\ \A g \in DescriptorGraph : up \subseteq CompleteIn(g) => Exact(g)
      BY <2>1, <2>2, <2>3, <1>6
    <2> QED BY <2>4 DEF ddls, fds
  <1>9. CASE DOMAIN b # {}
             /\ ddls = <<Ddl("alter", up \ DOMAIN b, up \cap DOMAIN b, del \cap DOMAIN b)>>
    <2> DEFINE d == Ddl("alter", up \ DOMAIN b, up \cap DOMAIN b, del \cap DOMAIN b)
    <2>1. /\ d \in BundleDdl /\ d.op = "alter" /\ d.insert = up \ DOMAIN b
          /\ d.update = up \cap DOMAIN b /\ d.delete = del \cap DOMAIN b
      BY <1>3, DdlType
    <2> HIDE DEF d
    <2>2. ASSUME NEW g \in DescriptorGraph, up \subseteq CompleteIn(g)
          PROVE  /\ Accepts(b, d, g)
                 /\ DOMAIN Applied(b, d, g) = (DOMAIN b \cup up) \ del
                 /\ \A t \in up : Applied(b, d, g)[t] = FileOf(g, t)
      <3>1. Accepts(b, d, g)
        BY <1>9, <2>1, <2>2 DEF Accepts
      <3>2. d.insert \cup d.update = up
        BY <2>1
      <3>3. (DOMAIN b \cup d.insert) \ d.delete = (DOMAIN b \cup up) \ del
        BY <2>1
      <3>4. Applied(b, d, g) = [t \in (DOMAIN b \cup up) \ del |->
                                   IF t \in up THEN FileOf(g, t) ELSE b[t]]
        BY <2>1, <3>2, <3>3 DEF Applied
      <3>5. \A t \in up : t \in (DOMAIN b \cup up) \ del
        OBVIOUS
      <3> QED BY <3>1, <3>4, <3>5
    <2>3. ddls = <<d>>
      BY <1>9 DEF d
    <2>4. /\ ddls \in Seq(BundleDdl)
          /\ \A g \in DescriptorGraph : up \subseteq CompleteIn(g) => Exact(g)
      BY <2>1, <2>2, <2>3, <1>6
    <2> QED BY <2>4 DEF ddls, fds
  <1> QED BY <1>4, <1>5, <1>7, <1>8, <1>9

LEMMA KnownType == ServerInv => Known \in Bundle /\ (outside = 0 => Known = bundle)
PROOF
  BY DEF ServerInv, OwnChangeIsSeen, Known

\* A request leaves nothing cached of the time before it.
LEMMA ExecuteFacts ==
    ASSUME ServerInv, graph \in DescriptorGraph, NEW ddls \in Seq(BundleDdl), Execute(ddls),
           outside' = outside
    PROVE  /\ bundle' \in Bundle /\ cache' \in [valid: BOOLEAN, bundle: Bundle]
           /\ OwnChangeIsSeen' /\ Run(bundle, ddls, graph).ok \in BOOLEAN
PROOF
  <1>1. bundle \in Bundle /\ Known \in Bundle /\ (outside = 0 => Known = bundle)
    BY KnownType DEF ServerInv
  <1>2. /\ bundle' = Run(bundle, ddls, graph).bundle
        /\ cache' = [valid |-> ~(ddls # <<>>), bundle |-> Known]
    BY DEF Execute, Bumped
  <1>3. bundle' \in Bundle /\ Run(bundle, ddls, graph).ok \in BOOLEAN
    BY <1>1, <1>2, RunFacts
  <1>4. cache' \in [valid: BOOLEAN, bundle: Bundle]
    BY <1>1, <1>2
  <1>5. cache'.valid /\ outside' = 0 => cache'.bundle = bundle'
    <2> SUFFICES ASSUME cache'.valid, outside' = 0
                 PROVE  cache'.bundle = bundle'
      OBVIOUS
    <2>1. ddls = <<>> /\ cache'.bundle = Known
      BY <1>2
    <2>2. bundle' = bundle
      BY <1>1, <1>2, <2>1, RunFacts
    <2> QED BY <1>1, <2>1, <2>2
  <1> QED BY <1>3, <1>4, <1>5 DEF OwnChangeIsSeen

\* What was read through the cache stays there.
LEMMA CachedFacts ==
    ASSUME ServerInv, cache' = [valid |-> TRUE, bundle |-> Known], UNCHANGED <<bundle, outside>>
    PROVE  cache' \in [valid: BOOLEAN, bundle: Bundle] /\ OwnChangeIsSeen'
PROOF
  <1>1. Known \in Bundle /\ (outside = 0 => Known = bundle)
    BY KnownType
  <1> QED BY <1>1 DEF OwnChangeIsSeen


LEMMA SyncStep ==
    ASSUME ProtoInv, NEW roots \in SUBSET Types, NEW plain \in SUBSET Types,
           NEW gone \in SUBSET Types, Sync(Clauses(roots, plain, gone))
    PROVE  ProtoInv' /\ ProtoStep
PROOF
  <1> DEFINE clauses == Clauses(roots, plain, gone)
             up == Resolved(clauses, "upsert")
             del == Resolved(clauses, "delete")
             ddls == Composed(RemoteGraph(Known), up, del)
             Report(good) == last' = [op |-> IF ddlBatch.kind = "none" THEN "sync" ELSE "queue",
                                    ok |-> good, up |-> up, del |-> del]
  <1>1. LocalInv /\ ServerInv /\ UNCHANGED <<local, outside>>
    BY DEF ProtoInv, Sync
  <1>2. LocalInv'
    BY <1>1, LocalStays
  <1>3. graph \in DescriptorGraph /\ bundle \in Bundle /\ Known \in Bundle
    BY <1>1, KnownType DEF LocalInv, ServerInv
  <1>4. up \in SUBSET Types /\ del \in SUBSET Types
    BY <1>3, ResolvedType
  <1>5. CASE SyncRefused(clauses)
    <2>1. Said("refused", FALSE) /\ UNCHANGED <<ddlBatch, bundle, cache>>
      BY <1>5 DEF Sync
    <2>2. ServerInv'
      BY <1>1, <2>1, ServerStays DEF Keep
    <2>3. LastInv' /\ ProtoStep
      BY <1>1, <2>1, ReportedStep
    <2> QED BY <1>2, <2>2, <2>3 DEF ProtoInv
  <1>6. CASE ddlBatch.kind = "dml" /\ ~SyncRefused(clauses)
    <2>1. Said("refused", FALSE) /\ UNCHANGED <<ddlBatch, bundle>>
          /\ cache' = [valid |-> TRUE, bundle |-> Known]
      BY <1>6 DEF Sync
    <2>2. cache' \in [valid: BOOLEAN, bundle: Bundle] /\ OwnChangeIsSeen'
      BY <1>1, <2>1, CachedFacts
    <2>3. ServerInv'
      BY <1>1, <2>1, <2>2 DEF ServerInv
    <2>4. LastInv' /\ ProtoStep
      BY <1>1, <2>1, ReportedStep
    <2> QED BY <1>2, <2>3, <2>4 DEF ProtoInv
  <1>7. CASE ddlBatch.kind = "ddl" /\ ~SyncRefused(clauses)
    <2>1. /\ ddlBatch' = [ddlBatch EXCEPT !.queue = @ \o ddls]
          /\ cache' = [valid |-> TRUE, bundle |-> Known]
          /\ UNCHANGED bundle /\ Report(TRUE)
      BY <1>7 DEF Sync
    <2>2. cache' \in [valid: BOOLEAN, bundle: Bundle] /\ OwnChangeIsSeen'
      BY <1>1, <2>1, CachedFacts
    <2>3. ddls \in Seq(BundleDdl)
      <3>1. up \cap del = {}
        BY <1>7 DEF SyncRefused
      <3> QED BY <1>3, <1>4, <3>1, ComposedFacts
    <2>4. ddlBatch' \in [kind: {"none", "ddl", "dml"}, queue: Seq(BundleDdl)]
          /\ ddlBatch'.kind = "ddl"
      <3> HIDE DEF ddls
      <3>1. ddlBatch \in [kind: {"none", "ddl", "dml"}, queue: Seq(BundleDdl)]
        BY <1>1 DEF ServerInv
      <3>2. ddlBatch.queue \o ddls \in Seq(BundleDdl)
        BY <2>3, <3>1, ConcatProperties
      <3> QED BY <1>7, <2>1, <3>1, <3>2
    <2>5. ServerInv'
      BY <1>1, <2>1, <2>2, <2>4 DEF ServerInv
    <2>6. last'.op = "queue" /\ last'.ok = TRUE
      BY <1>7, <2>1
    <2>7. LastInv' /\ ProtoStep
      BY <2>6, OtherStep DEF LastInv, DumpedBundleReplays
    <2> QED BY <1>2, <2>5, <2>7 DEF ProtoInv
  <1>8. CASE ddlBatch.kind \notin {"ddl", "dml"} /\ ~SyncRefused(clauses)
    <2>1. Execute(ddls) /\ UNCHANGED ddlBatch /\ Report(Run(bundle, ddls, graph).ok)
      BY <1>8 DEF Sync
    <2>2. up \cap del = {}
      BY <1>8 DEF SyncRefused
    <2>3. /\ ddls \in Seq(BundleDdl)
          /\ \A g \in DescriptorGraph : up \subseteq CompleteIn(g) =>
                Synced(Known, Run(Known, ddls, g), up, del, g)
      <3> HIDE DEF up, del, clauses
      <3>1. ddls \in Seq(BundleDdl)
        BY <1>3, <1>4, <2>2, ComposedFacts
      <3>2. ASSUME NEW g \in DescriptorGraph, up \subseteq CompleteIn(g)
            PROVE  Synced(Known, Run(Known, ddls, g), up, del, g)
        BY <1>3, <1>4, <2>2, <3>2, ComposedFacts
      <3> HIDE DEF ddls
      <3> QED BY <3>1, <3>2
    <2>4. /\ bundle' = Run(bundle, ddls, graph).bundle
          /\ last'.op = "sync" /\ last'.ok = Run(bundle, ddls, graph).ok
          /\ last'.up = up /\ last'.del = del
      <3>1. ddlBatch.kind = "none"
        BY <1>1, <1>8 DEF ServerInv
      <3> QED BY <2>1, <3>1 DEF Execute
    <2> HIDE DEF up, del, ddls, clauses
    <2>5. /\ bundle' \in Bundle /\ cache' \in [valid: BOOLEAN, bundle: Bundle]
          /\ OwnChangeIsSeen' /\ Run(bundle, ddls, graph).ok \in BOOLEAN
      BY <1>1, <1>3, <2>1, <2>3, ExecuteFacts
    <2>6. ServerInv'
      BY <1>1, <2>1, <2>5 DEF ServerInv
    <2>7. LastInv'
      BY <2>4, <2>5 DEF LastInv, DumpedBundleReplays
    <2>8. FailedKeepsGraph /\ PullOnlyAdds
      BY <1>1, <2>4 DEF FailedKeepsGraph, PullOnlyAdds
    <2>9. SyncIsExact
      <3> SUFFICES ASSUME Known = bundle, last'.up \subseteq CompleteIn(graph)
                   PROVE  /\ last'.ok
                          /\ DOMAIN bundle' = (DOMAIN bundle \cup last'.up) \ last'.del
                          /\ \A t \in last'.up : bundle'[t] = FileOf(graph, t)
        BY DEF SyncIsExact
      <3>1. /\ Run(bundle, ddls, graph).ok
            /\ DOMAIN Run(bundle, ddls, graph).bundle = (DOMAIN bundle \cup up) \ del
            /\ \A t \in up : Run(bundle, ddls, graph).bundle[t] = FileOf(graph, t)
        BY <1>3, <2>3, <2>4 DEF Synced
      <3> QED BY <2>4, <3>1
    <2> QED BY <1>2, <2>6, <2>7, <2>8, <2>9 DEF ProtoInv, ProtoStep
  <1> QED BY <1>5, <1>6, <1>7, <1>8

LEMMA StartBatchStep ==
    ASSUME ProtoInv, NEW kind \in {"ddl", "dml"}, StartBatch(kind)
    PROVE  ProtoInv' /\ ProtoStep
PROOF
  <1>1. LocalInv /\ ServerInv /\ UNCHANGED <<local, bundle, cache, outside>>
        /\ ddlBatch' = [kind |-> kind, queue |-> <<>>] /\ last' = Quiet
    BY DEF ProtoInv, StartBatch
  <1>2. LocalInv'
    BY <1>1, LocalStays
  <1>3. <<>> \in Seq(BundleDdl)
    BY EmptySeq
  <1>4. ServerInv'
    BY <1>1, <1>3 DEF ServerInv, OwnChangeIsSeen
  <1>5. LastInv' /\ ProtoStep
    BY <1>1, QuietFacts, OtherStep
  <1> QED BY <1>2, <1>4, <1>5 DEF ProtoInv

LEMMA RunBatchStep ==
    ASSUME ProtoInv, RunBatch
    PROVE  ProtoInv' /\ ProtoStep
PROOF
  <1>1. LocalInv /\ ServerInv /\ UNCHANGED <<local, outside>>
        /\ Execute(ddlBatch.queue) /\ ddlBatch' = NoBatch
        /\ Said("run", Run(bundle, ddlBatch.queue, graph).ok)
    BY DEF ProtoInv, RunBatch
  <1>2. LocalInv'
    BY <1>1, LocalStays
  <1>3. graph \in DescriptorGraph /\ ddlBatch.queue \in Seq(BundleDdl)
    BY <1>1 DEF LocalInv, ServerInv
  <1>4. /\ bundle' \in Bundle /\ cache' \in [valid: BOOLEAN, bundle: Bundle]
        /\ OwnChangeIsSeen' /\ Run(bundle, ddlBatch.queue, graph).ok \in BOOLEAN
    BY <1>1, <1>3, ExecuteFacts
  <1>5. <<>> \in Seq(BundleDdl)
    BY EmptySeq
  <1>6. ServerInv'
    BY <1>1, <1>4, <1>5 DEF ServerInv, NoBatch
  <1>7. LastInv' /\ ProtoStep
    BY <1>1, <1>4, ReportedStep
  <1> QED BY <1>2, <1>6, <1>7 DEF ProtoInv

-----------------------------------------------------------------------------
(* PULL REMOTE PROTO.                                                      *)

\* A search finds at least what it starts from.
LEMMA FoundFacts ==
    ASSUME NEW files, NEW imports
    PROVE  /\ Found(files, imports) \in SUBSET FileNames
           /\ files \cap FileNames \subseteq Found(files, imports)
PROOF
  BY DEF Found

\* What a pull that is not refused would merge into the graph.
LEMMA IncomingFacts ==
    ASSUME graph \in DescriptorGraph, NEW remote \in DescriptorGraph, NEW names,
           ~PullRefused(remote, names)
    PROVE  /\ Incoming(remote, names) \in DescriptorGraph
           /\ \A x \in DOMAIN Incoming(remote, names) :
                 Incoming(remote, names)[x] = FileFrom(remote, x)
           /\ \A t \in names : FileOf(remote, t) \in DOMAIN Incoming(remote, names)
PROOF
  <1> DEFINE starts == {FileOf(remote, t) : t \in names}
             files == Closure(remote, starts)
             in == Incoming(remote, names)
  <1>1. in = [x \in files |-> FileFrom(remote, x)]
    BY DEF Incoming
  <1>2. files \in SUBSET FileNames /\ starts \cap FileNames \subseteq files
    BY FoundFacts DEF Closure
  <1>3. files \subseteq DOMAIN remote \cup DOMAIN graph /\ names \subseteq CompleteIn(remote)
    BY DEF PullRefused
  <1> HIDE DEF files, in
  <1>4. \A x \in files : FileFrom(remote, x) \in FileRecord
    BY <1>3, GraphDomain DEF FileFrom
  <1>5. in \in [files -> FileRecord]
    BY <1>1, <1>4
  <1>6. in \in DescriptorGraph
    BY <1>2, <1>5, GraphIntro
  <1>7. \A t \in names : FileOf(remote, t) \in FileNames
    BY <1>3, FileOfFacts
  <1>8. \A t \in names : FileOf(remote, t) \in files
    BY <1>2, <1>7
  <1> QED BY <1>1, <1>6, <1>8 DEF in

LEMMA PullStep ==
    ASSUME ProtoInv, NEW names \in SUBSET Types, NEW written \in BOOLEAN, Pull(names, written)
    PROVE  ProtoInv' /\ ProtoStep
PROOF
  <1> DEFINE remote == RemoteGraph(bundle)
             in == Incoming(remote, names)
             candidate == Merge(graph, in)
  <1>1. LocalInv /\ ServerInv /\ Keep
    BY DEF ProtoInv, Pull
  <1>2. ServerInv'
    BY <1>1, ServerStays
  <1>3. graph \in DescriptorGraph /\ Valid(graph) /\ bundle \in Bundle
    BY <1>1 DEF LocalInv, ServerInv
  <1>4. remote \in DescriptorGraph /\ CompleteIn(remote) = DOMAIN bundle
    BY <1>3, RemoteFacts
  <1>5. CASE PullRefused(remote, names)
    <2>1. UNCHANGED local /\ Said("pull", FALSE)
      BY <1>5 DEF Pull
    <2>2. LocalInv'
      BY <1>1, <2>1, LocalStays
    <2>3. last'.op = "pull" /\ last'.ok = FALSE /\ LastInv'
      BY <2>1 DEF Said, Quiet, LastInv, DumpedBundleReplays
    <2>4. graph' = graph
      BY <2>1 DEF local
    <2>5. ProtoStep
      BY <2>1, <2>3, <2>4 DEF ProtoStep, FailedKeepsGraph, PullOnlyAdds, SyncIsExact
    <2> QED BY <1>2, <2>2, <2>3, <2>5 DEF ProtoInv
  <1>6. CASE ~PullRefused(remote, names)
    <2>1. /\ IF written /\ candidate # graph
             THEN graph' = candidate /\ paths' = <<>>
             ELSE UNCHANGED local
          /\ last' = [op |-> "pull", ok |-> written, up |-> names, del |-> {}]
      BY <1>6 DEF Pull, Installed
    <2>2. /\ in \in DescriptorGraph
          /\ \A x \in DOMAIN in : in[x] = FileFrom(remote, x)
          /\ \A t \in names : FileOf(remote, t) \in DOMAIN in
      BY <1>3, <1>4, <1>6, IncomingFacts
    <2>3. /\ names \subseteq CompleteIn(remote) /\ ~Conflict(in) /\ ~Loses(candidate)
          /\ Valid(candidate)
      BY <1>6 DEF PullRefused
    <2> HIDE DEF in
    <2>4. /\ candidate \in DescriptorGraph
          /\ DOMAIN candidate = DOMAIN graph \cup DOMAIN in
          /\ \A x \in DOMAIN in : candidate[x] = in[x]
          /\ \A x \in DOMAIN graph \ DOMAIN in : candidate[x] = graph[x]
      BY <1>3, <2>2, MergeType
    <2> HIDE DEF candidate, remote
    <2>5. graph' = graph \/ graph' = candidate
      BY <2>1 DEF local
    <2>6. written => graph' = candidate
      BY <2>1 DEF local
    <2>7. LocalInv'
      <3>1. CASE written /\ candidate # graph
        BY <2>1, <2>3, <2>4, <3>1, NoPaths
      <3>2. CASE ~(written /\ candidate # graph)
        BY <1>1, <2>1, <3>2, LocalStays
      <3> QED BY <3>1, <3>2
    <2>8. LastInv' /\ last'.op = "pull" /\ last'.ok = written /\ last'.up = names
      BY <2>1 DEF LastInv, DumpedBundleReplays
    <2>9. FailedKeepsGraph
      BY <2>1, <2>8 DEF FailedKeepsGraph
    \* No complete type is lost or moved: it is complete in one file of the
    \* candidate, and neither the two graphs nor this one disagree on files.
    <2>10. ASSUME NEW x \in DOMAIN graph, NEW t \in graph[x].complete
           PROVE  x \in DOMAIN candidate /\ t \in candidate[x].complete
      <3>1. t \in CompleteIn(graph) /\ t \in Declared(graph, x)
        BY CompleteFacts
      <3>2. t \in CompleteIn(candidate)
        BY <2>3, <3>1 DEF Loses
      <3>3. PICK y \in DOMAIN candidate : t \in candidate[y].complete
        BY <3>2, CompleteFacts
      <3>4. CASE y \in DOMAIN in
        <4>1. t \in in[y].complete
          BY <2>4, <3>3, <3>4
        <4>2. t \in Declared(in, y)
          BY <3>4, <4>1, CompleteFacts
        <4>3. t \in DeclaredIn(in) \cap DeclaredIn(graph)
          BY <3>1, <3>4, <4>2 DEF DeclaredIn
        <4>4. x = y
          BY <2>3, <3>1, <3>4, <4>2, <4>3 DEF Conflict
        <4> QED BY <3>3, <4>4
      <3>5. CASE y \notin DOMAIN in
        <4>1. y \in DOMAIN graph /\ t \in graph[y].complete
          BY <2>4, <3>3, <3>5
        <4>2. t \in Declared(graph, y)
          BY <4>1, CompleteFacts
        <4>3. x = y
          BY <1>3, <3>1, <4>1, <4>2 DEF Valid
        <4> QED BY <3>3, <4>3
      <3> QED BY <3>4, <3>5
    <2>11. ASSUME NEW t \in names
           PROVE  bundle[t] \in DOMAIN candidate /\ t \in candidate[bundle[t]].complete
      <3>1. t \in DOMAIN bundle /\ t \in CompleteIn(remote)
        BY <1>4, <2>3
      <3>2. bundle[t] \in DOMAIN remote /\ FileOf(remote, t) = bundle[t]
        <4>1. remote = [x \in DOMAIN remote |-> remote[x]]
          BY <1>4, GraphDomain
        <4> QED BY <1>3, <3>1, <4>1, RemoteFile DEF remote
      <3>3. bundle[t] \in DOMAIN in
        BY <2>2, <3>2
      <3>4. candidate[bundle[t]] = remote[bundle[t]]
        BY <2>2, <2>4, <3>2, <3>3 DEF FileFrom
      <3>5. t \in remote[bundle[t]].complete
        <4>1. remote[bundle[t]].complete = {u \in DOMAIN bundle : bundle[u] = bundle[t]}
          BY <1>3, <3>2, RemoteFacts DEF remote
        <4> QED BY <3>1, <4>1
      <3> QED BY <2>4, <3>3, <3>4, <3>5
    <2>12. PullOnlyAdds
      BY <2>5, <2>6, <2>8, <2>10, <2>11 DEF PullOnlyAdds
    <2>13. SyncIsExact
      BY <2>8 DEF SyncIsExact
    <2> QED BY <1>2, <2>7, <2>8, <2>9, <2>12, <2>13 DEF ProtoInv, ProtoStep
  <1> QED BY <1>5, <1>6


-----------------------------------------------------------------------------
(* The dump, the cache and the other clients.                              *)

LEMMA DumpStep ==
    ASSUME ProtoInv, NEW answer \in Answers, DumpWithBundle(answer)
    PROVE  ProtoInv' /\ ProtoStep
PROOF
  <1>1. LocalInv /\ ServerInv /\ UNCHANGED <<local, ddlBatch, bundle, cache, outside>>
        /\ last' = [op |-> "dump", ok |-> Preambled(answer),
                    up |-> DOMAIN bundle, del |-> LostOnReplay(answer)]
    BY DEF ProtoInv, DumpWithBundle
  <1>2. LocalInv'
    BY <1>1, LocalStays
  <1>3. ServerInv'
    BY <1>1, ServerStays DEF Keep
  <1>4. bundle \in Bundle
    BY <1>1 DEF ServerInv
  <1>5. PICK F \in SUBSET DOMAIN RemoteGraph(bundle) : answer = [x \in F |-> RemoteGraph(bundle)[x]]
    BY DEF Answers
  <1>6. answer \in DescriptorGraph
    <2>1. RemoteGraph(bundle) \in DescriptorGraph
      BY <1>4, RemoteFacts
    <2>2. /\ DOMAIN RemoteGraph(bundle) \in SUBSET FileNames
          /\ \A x \in DOMAIN RemoteGraph(bundle) : RemoteGraph(bundle)[x] \in FileRecord
      BY <2>1, GraphDomain
    <2>3. F \in SUBSET FileNames /\ answer \in [F -> FileRecord]
      BY <1>5, <2>2
    <2> QED BY <2>3, GraphIntro
  <1>7. ASSUME Preambled(answer)
        PROVE  LostOnReplay(answer) = {}
    <2> DEFINE none == [t \in {} |-> "f"]
               d == Ddl("create", DOMAIN bundle, {}, {})
               created == Run(none, <<d>>, answer)
    <2>1. DOMAIN bundle \subseteq CompleteIn(answer) /\ Valid(answer)
      BY <1>7 DEF Preambled, BundleTypes
    <2>2. none \in Bundle /\ DOMAIN none = {}
      <3>1. none \in [{} -> FileNames] /\ {} \in SUBSET Types
        OBVIOUS
      <3> QED BY <3>1, BundleIntro
    <2>3. /\ d \in BundleDdl /\ d.op = "create" /\ d.insert = DOMAIN bundle
          /\ d.update = {} /\ d.delete = {}
      BY <1>4, BundleDomain, DdlType
    <2> HIDE DEF none, d
    <2>4. Accepts(none, d, answer)
      BY <2>1, <2>2, <2>3 DEF Accepts
    <2>5. created = [bundle |-> Applied(none, d, answer), ok |-> TRUE]
      BY <1>6, <2>2, <2>3, <2>4, RunFacts
    <2>6. Applied(none, d, answer) = [t \in DOMAIN bundle |-> FileOf(answer, t)]
      BY <2>2, <2>3 DEF Applied
    <2>7. created.ok /\ \A t \in DOMAIN bundle : created.bundle[t] = FileOf(answer, t)
      BY <2>5, <2>6
    <2>8. \A t \in DOMAIN bundle : FileOf(answer, t) = bundle[t]
      BY <1>4, <1>5, <2>1, RemoteFile
    <2>9. LostOnReplay(answer) =
             IF ~Valid(answer) \/ ~created.ok THEN DOMAIN bundle
             ELSE {t \in DOMAIN bundle : created.bundle[t] # bundle[t]}
      BY DEF LostOnReplay, none, d
    <2> HIDE DEF created
    <2> QED BY <2>1, <2>7, <2>8, <2>9
  <1>8. last'.op = "dump" /\ last'.ok = Preambled(answer) /\ last'.del = LostOnReplay(answer)
    BY <1>1
  <1>9. Preambled(answer) \in BOOLEAN
    BY DEF Preambled
  <1>10. LastInv'
    BY <1>7, <1>8, <1>9 DEF LastInv, DumpedBundleReplays
  <1>11. ProtoStep
    BY <1>1, <1>8, OtherStep
  <1> QED BY <1>2, <1>3, <1>10, <1>11 DEF ProtoInv

LEMMA ShowRemoteStep ==
    ASSUME ProtoInv, ShowRemote
    PROVE  ProtoInv' /\ ProtoStep
PROOF
  <1>1. LocalInv /\ ServerInv /\ UNCHANGED <<local, ddlBatch, bundle, outside>>
        /\ cache' = [valid |-> TRUE, bundle |-> Known] /\ last' = Quiet
    BY DEF ProtoInv, ShowRemote
  <1>2. LocalInv'
    BY <1>1, LocalStays
  <1>3. cache' \in [valid: BOOLEAN, bundle: Bundle] /\ OwnChangeIsSeen'
    BY <1>1, CachedFacts
  <1>4. ServerInv'
    BY <1>1, <1>3 DEF ServerInv
  <1>5. LastInv' /\ ProtoStep
    BY <1>1, QuietFacts, OtherStep
  <1> QED BY <1>2, <1>4, <1>5 DEF ProtoInv

LEMMA CacheExpiresStep ==
    ASSUME ProtoInv, CacheExpires
    PROVE  ProtoInv' /\ ProtoStep
PROOF
  <1>1. LocalInv /\ ServerInv /\ UNCHANGED <<local, ddlBatch, bundle, outside>>
        /\ cache' = NoCache /\ last' = Quiet
    BY DEF ProtoInv, CacheExpires
  <1>2. LocalInv'
    BY <1>1, LocalStays
  <1>3. [t \in {} |-> "f"] \in Bundle
    <2>1. [t \in {} |-> "f"] \in [{} -> FileNames] /\ {} \in SUBSET Types
      OBVIOUS
    <2> QED BY <2>1, BundleIntro
  <1>4. cache' \in [valid: BOOLEAN, bundle: Bundle] /\ ~cache'.valid
    BY <1>1, <1>3 DEF NoCache
  <1>5. ServerInv'
    BY <1>1, <1>4 DEF ServerInv, OwnChangeIsSeen
  <1>6. LastInv' /\ ProtoStep
    BY <1>1, QuietFacts, OtherStep
  <1> QED BY <1>2, <1>5, <1>6 DEF ProtoInv

LEMMA OutsideChangeStep ==
    ASSUME ProtoInv, NEW d \in BundleDdl, OutsideChange(d)
    PROVE  ProtoInv' /\ ProtoStep
PROOF
  <1> DEFINE theirs == Loaded(<<"p2", "p3">>)
  <1>1. /\ LocalInv /\ ServerInv /\ UNCHANGED <<local, ddlBatch, cache>>
        /\ outside < MaxOutside /\ outside' = outside + 1
        /\ Accepts(bundle, d, theirs) /\ bundle' = Applied(bundle, d, theirs)
        /\ last' = Quiet
    BY DEF ProtoInv, OutsideChange
  <1>2. LocalInv'
    BY <1>1, LocalStays
  <1>3. theirs \in DescriptorGraph
    <2>1. <<"p2", "p3">> \in Seq(Readable)
      BY DEF Readable
    <2> QED BY <2>1, LoadedFacts
  <1> HIDE DEF theirs
  <1>4. bundle' \in Bundle
    <2>1. bundle \in Bundle
      BY <1>1 DEF ServerInv
    <2> QED BY <1>1, <1>3, <2>1, AppliedType
  <1>5. outside' \in 0..MaxOutside /\ outside' # 0
    <2>1. outside \in 0..MaxOutside
      BY <1>1 DEF ServerInv
    <2> QED BY <1>1, <2>1, BoundsAssumption
  <1>6. ServerInv'
    BY <1>1, <1>4, <1>5 DEF ServerInv, OwnChangeIsSeen
  <1>7. LastInv' /\ ProtoStep
    BY <1>1, QuietFacts, OtherStep
  <1> QED BY <1>2, <1>6, <1>7 DEF ProtoInv

LEMMA PromptStep ==
    ASSUME ProtoInv, Prompt
    PROVE  ProtoInv' /\ ProtoStep
PROOF
  <1>1. LocalInv /\ ServerInv /\ UNCHANGED <<local, ddlBatch, bundle, cache, outside>>
        /\ last' = Quiet
    BY DEF ProtoInv, Prompt
  <1>2. LocalInv' /\ ServerInv'
    BY <1>1, LocalStays, ServerStays DEF Keep
  <1>3. LastInv' /\ ProtoStep
    BY <1>1, QuietFacts, OtherStep
  <1> QED BY <1>2, <1>3 DEF ProtoInv

-----------------------------------------------------------------------------
(* The theorem.                                                            *)

LEMMA ProtoNextKeeps == ProtoInv /\ ProtoNext => ProtoInv' /\ ProtoStep
PROOF
  <1> SUFFICES ASSUME ProtoInv, ProtoNext
               PROVE  ProtoInv' /\ ProtoStep
    OBVIOUS
  <1>1. ASSUME NEW list \in Lists, SetFilePath(list)
        PROVE  ProtoInv' /\ ProtoStep
    BY <1>1, SetFilePathStep
  <1>2. ASSUME NEW p \in Paths, AddFilePath(p)
        PROVE  ProtoInv' /\ ProtoStep
    BY <1>2, AddFilePathStep
  <1>3. ASSUME NEW p \in Readable, SetDescriptors(Disk[p])
        PROVE  ProtoInv' /\ ProtoStep
    BY <1>3, SetDescriptorsStep
  <1>4. ASSUME NEW roots \in SUBSET Types, NEW plain \in SUBSET Types, NEW gone \in SUBSET Types,
               Sync(Clauses(roots, plain, gone))
        PROVE  ProtoInv' /\ ProtoStep
    BY <1>4, SyncStep
  <1>5. ASSUME NEW kind \in {"ddl", "dml"}, StartBatch(kind)
        PROVE  ProtoInv' /\ ProtoStep
    BY <1>5, StartBatchStep
  <1>6. CASE RunBatch
    BY <1>6, RunBatchStep
  <1>7. ASSUME NEW names \in SUBSET Types, NEW written \in BOOLEAN, Pull(names, written)
        PROVE  ProtoInv' /\ ProtoStep
    BY <1>7, PullStep
  <1>8. ASSUME NEW written \in BOOLEAN, PullAll(written)
        PROVE  ProtoInv' /\ ProtoStep
    <2> DEFINE all == CompleteIn(RemoteGraph(bundle))
    <2>1. bundle \in Bundle
      BY DEF ProtoInv, ServerInv
    <2>2. all \in SUBSET Types
      BY <2>1, RemoteFacts, BundleDomain
    <2>3. Pull(all, written)
      BY <1>8 DEF PullAll
    <2> HIDE DEF all
    <2> QED BY <2>2, <2>3, PullStep
  <1>9. ASSUME NEW answer \in Answers, DumpWithBundle(answer)
        PROVE  ProtoInv' /\ ProtoStep
    BY <1>9, DumpStep
  <1>10. CASE ShowRemote
    BY <1>10, ShowRemoteStep
  <1>11. CASE CacheExpires
    BY <1>11, CacheExpiresStep
  <1>12. ASSUME NEW t \in Types,
                OutsideChange(Ddl("alter", {t}, {}, {})) \/ OutsideChange(Ddl("alter", {}, {}, {t}))
         PROVE  ProtoInv' /\ ProtoStep
    <2>1. Ddl("alter", {t}, {}, {}) \in BundleDdl /\ Ddl("alter", {}, {}, {t}) \in BundleDdl
      BY DdlType
    <2> QED BY <1>12, <2>1, OutsideChangeStep
  <1>13. CASE Prompt
    BY <1>13, PromptStep
  <1>14. CASE Statement
    BY <1>14, <1>1, <1>2, <1>3, <1>4, <1>5, <1>6, <1>7, <1>8, <1>9, <1>10, <1>11, <1>12
       DEF Statement
  <1> QED BY <1>13, <1>14 DEF ProtoNext

LEMMA ProtoStutters == ProtoInv /\ UNCHANGED protoVars => ProtoInv'
PROOF
  <1> SUFFICES ASSUME ProtoInv, UNCHANGED protoVars
               PROVE  ProtoInv'
    OBVIOUS
  <1>1. LocalInv /\ ServerInv /\ LastInv /\ UNCHANGED local /\ Keep /\ last' = last
    BY DEF ProtoInv, protoVars, Keep
  <1>2. LocalInv' /\ ServerInv'
    BY <1>1, LocalStays, ServerStays
  <1>3. LastInv'
    BY <1>1 DEF LastInv, DumpedBundleReplays
  <1> QED BY <1>2, <1>3 DEF ProtoInv

\* The descriptors of the client and the proto bundle of the server, after any
\* sequence of SET and ADD of descriptor files, SYNC, PULL, batches, dumps, and
\* changes by others: the graph has every file of the list, in the version of
\* the last path; a statement that failed left it alone; a pull loses nothing and
\* brings what it names; a sync against the state it read reaches exactly the
\* bundle it was asked for, and never composes against what this session itself
\* made stale; a dump that succeeds brings the bundle back.
THEOREM BundleStaysSound == ProtoSpec => BundleSound
PROOF
  <1>1. ProtoInit => ProtoInv
    BY ProtoStarts
  <1>2. ProtoInv /\ [ProtoNext]_protoVars => ProtoInv'
    BY ProtoNextKeeps, ProtoStutters
  <1>3. ProtoInv /\ [ProtoNext]_protoVars => [ProtoStep]_protoVars
    BY ProtoNextKeeps
  <1>4. ProtoInv => ProtoSound
    BY InvIsSound
  <1> QED BY <1>1, <1>2, <1>3, <1>4, PTL DEF ProtoSpec, BundleSound, ProtoSteps


=============================================================================
