---------------------------- MODULE DatabaseDump ----------------------------
(***************************************************************************)
(* DUMP DATABASE, DUMP SCHEMA and DUMP TABLES: the catalog read in one     *)
(* read-only snapshot, the interleave parents taken from fresh DDL, the    *)
(* safety preflight (strongly connected components of the dependency       *)
(* graph), the order of the data units and their writing to a stream or a  *)
(* buffer.  A table is a number, and the order of the numbers is the order *)
(* of (schema, name).  Rows are abstracted to "the table is populated".    *)
(* The schema does not change: the code reads the DDL beside the snapshot, *)
(* not at its timestamp.                                                   *)
(***************************************************************************)
EXTENDS Naturals, Sequences, FiniteSets, SequencesExt, FiniteSetsExt

CONSTANTS N,             \* tables of the catalog
          MaxInterleave, \* bound on interleaved tables
          Keys,          \* foreign keys a schema may have, <<child, target>>
          MaxForeign,    \* bound on enforced foreign keys
          MaxEdges,      \* bound on both together
          ByteLimit      \* CLI_DUMP_CYCLIC_MAX_BYTES, in encoded rows

Tables == 1..N

None == 0

ASSUME CatalogAssumption == N \in Nat /\ Keys \subseteq Tables \X Tables
ASSUME LimitAssumption == ByteLimit \in Nat

VARIABLES parent,  \* DDL truth: the INTERLEAVE parent of a table, or None
          fks,     \* enforced foreign keys, <<child, target>>
          rows,    \* tables populated at the read timestamp of the snapshot
          bare,    \* tables all of whose columns are generated
          live,    \* tables populated now, outside the snapshot
          pc,      \* "idle", "writing", "end"
          req,     \* the request: mode, selected tables, cyclic mode
          plan,    \* the data units that are still to be written
          out,     \* what the writer received
          ddl,     \* the DDL script of the plan
          verdict  \* "none", "ok", "refused" (planning) or "broken" (writing)

schema == <<parent, fks, rows, bare>>
dumpVars == <<schema, live, pc, req, plan, out, ddl, verdict>>

NoRequest == [mode |-> "none", sel |-> {}, mutate |-> FALSE]
Basename(t) == t % 2   \* tables 1 and 3 have one name in two schemas

-----------------------------------------------------------------------------
(* Loops of the code, as recursive functions.                              *)

\* A walk along a list: step[x][a] is what x makes of a.
Through(step, start, list) ==
    LET at[i \in 0..Len(list)] == IF i = 0 THEN start ELSE step[list[i]][at[i - 1]]
    IN at[Len(list)]

\* A set emptied one element at a time: pick[left] goes next.
Parts(set) == (SUBSET set) \ {{}}

Drained(pick, set) ==
    LET left[n \in 0..Cardinality(set)] ==
            IF n = 0 THEN set ELSE left[n - 1] \ {pick[left[n - 1]]}
    IN [i \in 1..Cardinality(set) |-> pick[left[i - 1]]]

Sorted(set) == Drained([left \in Parts(set) |-> Min(left)], set)

-----------------------------------------------------------------------------
(* The catalog graph.                                                      *)

\* selectedNeedsInterleaveDDL: does a basename match of a selected table
\* leave the parent to the DDL?
NeedsInterleaveDdl(sel) ==
    \E t \in sel : parent[t] # None
        /\ \E other \in sel \ {t} : Basename(other) = Basename(parent[t])

\* extractInterleaveParent: the target in the child's CREATE TABLE.
CreateTableParent(t) == parent[t]

\* applyInterleaveParents: a parent counts only when it is selected, and it is
\* the qualified one of the child's CREATE TABLE, not any basename match.
InterleaveParent(sel) ==
    [t \in sel |->
        IF NeedsInterleaveDdl(sel) /\ CreateTableParent(t) \in sel
        THEN CreateTableParent(t) ELSE None]

\* hasInterleavePathBetween: is anc a parent or grandparent of t?
Descends(known, anc, t) ==
    LET depth == Cardinality(DOMAIN known)
        up[n \in 0..depth] ==
            IF n = 0 THEN t ELSE IF up[n - 1] = None THEN None ELSE known[up[n - 1]]
    IN \E n \in 1..depth : up[n] = anc

\* Edges of the physical INSERT order, <<before, after>>.  A foreign key of
\* an interleave ancestor to its descendant is left out.
OrderEdges(sel, known) ==
    {<<known[t], t>> : t \in {u \in sel : known[u] # None}}
    \cup {<<e[2], e[1]>> : e \in {f \in fks :
              /\ f[1] \in sel /\ f[2] \in sel /\ f[1] # f[2]
              /\ ~Descends(known, f[1], f[2])}}

\* selectedSafetyGraph: a table's prerequisites, self-edges and ancestor
\* foreign keys included.
SafetyGraph_OrderEdges(sel, known) ==
    [t \in sel |-> {e[1] : e \in {f \in OrderEdges(sel, known) : f[2] = t}}]
SafetyGraph(sel, known) ==
    [t \in sel |-> ({known[t]} \ {None}) \cup {p \in sel : <<t, p>> \in fks}]

-----------------------------------------------------------------------------
(* stronglyConnectedTableIDs: two depth-first passes.                      *)

\* dfs1 and dfs2: a[seen] is visited, a[post] the stack.  No walk is deeper
\* than the graph has tables.
Walks(g) == [seen : SUBSET DOMAIN g, post : Seq(DOMAIN g)]

Visit(g, below) ==
    [u \in DOMAIN g |-> [a \in Walks(g) |->
        IF u \in a.seen THEN a
        ELSE LET first == [seen |-> a.seen \cup {u}, post |-> a.post]
                 last == Through(below, first, Sorted(g[u]))
             IN [seen |-> last.seen, post |-> Append(last.post, u)]]]

Visiting(g) ==
    LET size == Cardinality(DOMAIN g)
        visit[n \in 0..size] ==
            IF n = 0 THEN [u \in DOMAIN g |-> [a \in Walks(g) |-> a]] ELSE Visit(g, visit[n - 1])
    IN visit[size]

Unvisited == [seen |-> {}, post |-> <<>>]
Reversed(g) == [v \in DOMAIN g |-> {u \in DOMAIN g : v \in g[u]}]

FirstPass(g) == Through(Visiting(g), Unvisited, Sorted(DOMAIN g)).post

\* From a table that is not in a component yet: one component.
Gathering(g) ==
    LET back == Visiting(Reversed(g))
    IN [u \in DOMAIN g |-> [a \in [seen : SUBSET DOMAIN g, comps : SUBSET SUBSET DOMAIN g] |->
           IF u \in a.seen THEN a
           ELSE LET seen == back[u][[seen |-> a.seen, post |-> <<>>]].seen
                IN [seen |-> seen, comps |-> a.comps \cup {seen \ a.seen}]]]

Components(g) ==
    Through(Gathering(g), [seen |-> {}, comps |-> {}], Reverse(FirstPass(g))).comps

IsCyclic(g, comp) ==
    Cardinality(comp) > 1 \/ \E t \in comp : t \in g[t]

\* orderedSafetyComponents: the condensation, smallest ready component first.
Ready(g, left) == {c \in left : \A t \in c : \A d \in left \ {c} : g[t] \cap d = {}}

OrderedComponents(g) ==
    LET all == Components(g)
        First(left) == CHOOSE c \in Ready(g, left) : \A d \in Ready(g, left) : Min(c) <= Min(d)
    IN Drained([left \in Parts(all) |-> First(left)], all)

\* The tables of which none has a prerequisite left, and the fallback when
\* there is none: tables whose interleave parent was picked.
FallbackPick(left, known) ==
    LET cands == {t \in left : known[t] \notin left}
    IN Min(IF cands = {} THEN left ELSE cands)

Pick(left, edges, known) ==
    LET ready == {t \in left : \A e \in edges : e[2] = t => e[1] \notin left}
    IN IF ready # {} THEN Min(ready) ELSE FallbackPick(left, known)

\* topologicalSort
TableOrder(sel, known) ==
    LET edges == OrderEdges(sel, known)
    IN Drained([left \in Parts(sel) |-> Pick(left, edges, known)], sel)

-----------------------------------------------------------------------------
(* The plan.  A unit has its tables; a cyclic unit was encoded whole, an   *)
(* Empty unit is a scanned cyclic table that has no row.                   *)

Unit == [tables : SUBSET Tables, kind : {"ordinary", "empty", "cyclic"}]

Ordinary(t) == [tables |-> {t}, kind |-> "ordinary"]
EmptyUnit(t) == [tables |-> {t}, kind |-> "empty"]
Cyclic(comp) == [tables |-> comp, kind |-> "cyclic"]

CyclicComps(g) == {c \in Components(g) : IsCyclic(g, c)}

\* tableHasRowsWithTxn and getWritableColumnsWithTxn, in the snapshot.
Populated(comp) == comp \cap rows
Writable(comp) == comp \ bare

Groups(g) == {c \in CyclicComps(g) : Populated(c) # {}}

\* dumpCyclicBudget: framing once for a group that has a row, and each row.
OverBudget(g) ==
    Cardinality(Groups(g)) + Cardinality(UNION {Populated(c) : c \in Groups(g)}) > ByteLimit

\* prepareDumpCyclicData: a populated cyclic table without writable columns
\* cannot be exported.
Unwritable(g) == \E c \in CyclicComps(g) : Populated(c) \ Writable(c) # {}

\* A populated cycle is refused (rejectPopulatedCyclicDumpSCCs), or encoded
\* whole within the budget.
Rejected(g, mutate) ==
    IF mutate THEN OverBudget(g) \/ Unwritable(g)
    ELSE Groups(g) # {}

\* A table on its own: a scanned one of a cycle is not scanned again.
Alone(t, cyclic) == IF cyclic THEN EmptyUnit(t) ELSE Ordinary(t)

\* prepareDumpMutationUnits: each component in condensation order; without a
\* populated group, the order of the plain dump.
UnitsOf(g, comp) ==
    IF comp \in Groups(g) THEN <<Cyclic(comp)>>
    ELSE [i \in 1..Cardinality(comp) |-> Alone(Sorted(comp)[i], IsCyclic(g, comp))]

PlainUnits(sel, known) ==
    LET order == TableOrder(sel, known)
    IN [i \in DOMAIN order |-> Ordinary(order[i])]

GroupUnits(sel, known, g) ==
    LET parts == OrderedComponents(g)
        order == TableOrder(sel, known)
        cyclic == UNION CyclicComps(g)
    IN IF Groups(g) # {} THEN FlattenSeq([i \in DOMAIN parts |-> UnitsOf(g, parts[i])])
       ELSE [i \in DOMAIN order |-> Alone(order[i], order[i] \in cyclic)]

-----------------------------------------------------------------------------
(* prepareDumpDDLForReplay: inline foreign keys to a table that is not     *)
(* created yet become ALTERs after all the CREATEs.                        *)

CreationOrders ==
    {p \in Bijection(1..N, Tables) : \A i, j \in 1..N : parent[p[j]] = p[i] => i < j}

Create(t, inline) == [op |-> "create", table |-> t, targets |-> inline]
Alter(t, target) == [op |-> "alter", table |-> t, targets |-> {target}]

ForwardKeys(order, i) ==
    {p \in Tables : <<order[i], p>> \in fks
        /\ \A j \in 1..i : order[j] # p}

ReplayScript(order) ==
    [i \in 1..N |->
        Create(order[i], {p \in Tables : <<order[i], p>> \in fks}
                            \ ForwardKeys(order, i))]
    \o FlattenSeq([i \in 1..N |->
           SetToSeq({Alter(order[i], p) : p \in ForwardKeys(order, i)})])

-----------------------------------------------------------------------------
(* The statement.                                                          *)

\* No table is interleaved, over any number of others, in itself.
Forest(par) == \A set \in Parts(Tables) : \E t \in set : par[t] \notin set

ForeignSets == UNION {kSubset(k, Keys) : k \in 0..MaxForeign}
Interleaved(par) == Cardinality({t \in Tables : par[t] # None})

DumpInit ==
    /\ parent \in {par \in [Tables -> Tables \cup {None}] :
                     Interleaved(par) <= MaxInterleave /\ Forest(par)}
    /\ fks \in {f \in ForeignSets :
                  Cardinality(f) + Interleaved(parent) <= MaxEdges}
    /\ rows \in {r \in SUBSET Tables :
                   \A t \in r : parent[t] = None \/ parent[t] \in r}
    /\ bare \in SUBSET (rows \cap {N})
    /\ live = rows
    /\ pc = "idle" /\ req = NoRequest /\ verdict = "none"
    /\ plan = <<>> /\ out = <<>> /\ ddl = <<>>

\* An error before the first write: nothing was emitted.
Refuse ==
    /\ pc' = "end" /\ verdict' = "refused"
    /\ UNCHANGED <<schema, live, plan, out, ddl>>

\* One plan is made, in the snapshot, before anything is written.
Planned(units, script) ==
    /\ pc' = "writing" /\ plan' = units /\ ddl' = script
    /\ UNCHANGED <<schema, live, out, verdict>>

Units(sel, mutate) ==
    LET known == InterleaveParent(sel)
    IN IF mutate THEN GroupUnits(sel, known, SafetyGraph(sel, known))
       ELSE PlainUnits(sel, known)

\* LIKE patterns are united, EXCEPT is taken away, from all the base tables
\* when there is no LIKE (buildDumpTableSelectorQuery); a list is as written.
Selected(like, except) == (IF like = {} THEN Tables ELSE like) \ except
Selections == {Selected(like, except) : like, except \in SUBSET Tables}

\* DUMP TABLES takes a list, or the base tables of LIKE/EXCEPT, of which none
\* is an error; DUMP DATABASE takes all of them, if any, and its DDL.
Dump(mode, sel, mutate) ==
    /\ pc = "idle"
    /\ req' = [mode |-> mode, sel |-> sel, mutate |-> mutate]
    /\ IF (mode = "tables" /\ sel = {}) \/ Rejected(SafetyGraph(sel, InterleaveParent(sel)), mutate)
       THEN Refuse
       ELSE Planned(Units(sel, mutate),
                    IF mode = "tables" THEN <<>>
                    ELSE ReplayScript(CHOOSE o \in CreationOrders : TRUE))

\* A view or an unknown name in the list, a failed catalog, column or row
\* read, a failed GetDatabaseDdl, a value that cannot be encoded.
PlanningFails(mode) ==
    /\ pc = "idle"
    /\ req' = [NoRequest EXCEPT !.mode = mode]
    /\ Refuse

\* DUMP SCHEMA has no snapshot and no data.
DumpSchema ==
    /\ pc = "idle"
    /\ req' = [mode |-> "schema", sel |-> {}, mutate |-> FALSE]
    /\ \E order \in CreationOrders : Planned(<<>>, ReplayScript(order))

\* Another client fills a table while the dump is written.
OutsideWrite(t) ==
    /\ pc = "writing" /\ req.mode = "database" /\ out = <<>> /\ live = rows
    /\ t \notin live
    /\ live' = live \cup {t}
    /\ UNCHANGED <<schema, pc, req, plan, out, ddl, verdict>>

\* The tables of a unit whose rows are in the output: the snapshot's.  A table
\* without writable columns leaves a comment, as does an empty cyclic one.
Exported(unit) ==
    IF unit.kind = "empty" THEN {} ELSE Writable(Populated(unit.tables))

WriteUnit ==
    /\ pc = "writing" /\ plan # <<>>
    /\ out' = Append(out, [tables |-> Exported(Head(plan)),
                           atomic |-> Head(plan).kind = "cyclic"])
    /\ plan' = Tail(plan)
    /\ UNCHANGED <<schema, live, pc, req, ddl, verdict>>

\* A write or a read fails.  A stream keeps the units it received, a buffer
\* is thrown away.
Kept(streaming) == IF streaming THEN out ELSE <<>>

WriteFails(streaming) ==
    /\ pc = "writing"
    /\ pc' = "end" /\ verdict' = "broken"
    /\ out' = Kept(streaming)
    /\ UNCHANGED <<schema, live, req, plan, ddl>>

Complete ==
    /\ pc = "writing" /\ plan = <<>>
    /\ pc' = "end" /\ verdict' = "ok"
    /\ UNCHANGED <<schema, live, req, plan, out, ddl>>

\* The result was shown; the next statement.
Return ==
    /\ pc = "end"
    /\ pc' = "idle" /\ req' = NoRequest /\ verdict' = "none"
    /\ plan' = <<>> /\ out' = <<>> /\ ddl' = <<>> /\ live' = rows
    /\ UNCHANGED schema

DumpNext ==
    \/ \E sel \in Selections, mutate \in BOOLEAN : Dump("tables", sel, mutate)
    \/ \E mutate \in BOOLEAN : Dump("database", Tables, mutate)
    \/ DumpSchema
    \/ \E mode \in {"tables", "database", "schema"} : PlanningFails(mode)
    \/ \E t \in Tables : OutsideWrite(t)
    \/ WriteUnit
    \/ \E streaming \in BOOLEAN : WriteFails(streaming)
    \/ Complete
    \/ Return

DumpSpec == DumpInit /\ [][DumpNext]_dumpVars

-----------------------------------------------------------------------------
DumpTypeOK ==
    /\ parent \in [Tables -> Tables \cup {None}]
    /\ fks \subseteq Tables \X Tables
    /\ bare \subseteq rows /\ rows \subseteq live /\ live \subseteq Tables
    /\ pc \in {"idle", "writing", "end"}
    /\ req \in [mode : {"none", "database", "tables", "schema"},
                sel : SUBSET Tables, mutate : BOOLEAN]
    /\ plan \in Seq(Unit) /\ out \in Seq([tables : SUBSET Tables, atomic : BOOLEAN])
    /\ \A i, j \in DOMAIN plan :
          i # j => plan[i].tables \cap plan[j].tables = {}
    /\ verdict \in {"none", "ok", "refused", "broken"}

\* What a table leads to, and the tables that lead to each other.
ClosedUnder(g, set) == \A t \in set : g[t] \subseteq set

Reaches(g, t, u) == \A set \in SUBSET DOMAIN g : ClosedUnder(g, set) /\ t \in set => u \in set

Together(g, t) == {u \in DOMAIN g : Reaches(g, t, u) /\ Reaches(g, u, t)}

\* What a populated table needs before its rows can be inserted: its
\* interleave parent and the targets of its foreign keys, of those that the
\* dump has rows of.
Needs(sel, t) ==
    {p \in (sel \cap rows) \ bare : parent[t] = p \/ <<t, p>> \in fks}

\* The script can be restored in the order it is written: INSERTs find every
\* prerequisite in an earlier unit, and the rows of a group, committed as one
\* transaction, also in the group (topologicalSort, orderedSafetyComponents).
RestoresInOrder ==
    \A i \in DOMAIN out : \A t \in out[i].tables :
        Needs(req.sel, t) \subseteq
            (UNION {out[j].tables : j \in 1..(i - 1)})
            \cup (IF out[i].atomic THEN out[i].tables ELSE {})

\* Empty cycles are ordered by the fallback, which may misplace the tables that
\* depend on them.
LeadsToEmptyCycle(sel) ==
    LET g == SafetyGraph(sel, InterleaveParent(sel))
    IN \E t \in sel \cap rows, c \in CyclicComps(g) :
          Populated(c) = {} /\ \E u \in c : Reaches(g, t, u)

RestoresUnlessStuck == RestoresInOrder \/ LeadsToEmptyCycle(req.sel)

\* A dump that reports success holds the rows of every selected table as the
\* snapshot had them, once, whatever was written since it was planned.
OkIsWholeSnapshot ==
    verdict = "ok" /\ req.mode # "schema" =>
        /\ (UNION {out[i].tables : i \in DOMAIN out}) = (req.sel \cap rows) \ bare
        /\ \A i, j \in DOMAIN out :
              i # j => out[i].tables \cap out[j].tables = {}

\* Under the default mode no populated cycle is exported, and under MUTATE a
\* cycle is in one transaction; the text retained for the groups of one dump
\* stays within one limit (dumpCyclicBudget).
GroupsStayBounded ==
    LET groups == {i \in DOMAIN out : out[i].atomic}
    IN /\ groups # {} => req.mutate
       /\ Cardinality(groups) + Cardinality(UNION {out[i].tables : i \in groups}) <= ByteLimit

\* The two depth-first passes find the classes of mutual reachability.
ComponentsAreCycles ==
    pc = "idle" =>
      LET g == SafetyGraph(Tables, InterleaveParent(Tables))
      IN Components(g) = {Together(g, t) : t \in Tables}

\* Every statement of the exported DDL finds the tables it names, and every
\* foreign key is added exactly once (prepareDumpDDLForReplay).
DdlReplays ==
    ddl # <<>> =>
      LET Made(i) == {ddl[j].table : j \in {k \in 1..i : ddl[k].op = "create"}}
          keys == {k \in (DOMAIN ddl) \X Tables : k[2] \in ddl[k[1]].targets}
      IN /\ \A i \in DOMAIN ddl :
               /\ ddl[i].table \in Made(i) /\ ddl[i].targets \subseteq Made(i)
               /\ ddl[i].op = "create" =>
                     parent[ddl[i].table] \in Made(i) \cup {None}
         /\ Made(Len(ddl)) = Tables
         /\ {<<ddl[k[1]].table, k[2]>> : k \in keys} = fks
         /\ Cardinality(keys) = Cardinality(fks)

\* A dump that says OK is a whole snapshot that restores in its own order, unless
\* an empty cycle misplaced a table.
DumpSound ==
    /\ DumpTypeOK
    /\ RestoresUnlessStuck /\ OkIsWholeSnapshot /\ DdlReplays
    /\ GroupsStayBounded /\ ComponentsAreCycles

=============================================================================
