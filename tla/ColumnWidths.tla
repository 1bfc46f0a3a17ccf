---------------------------- MODULE ColumnWidths ----------------------------
(***************************************************************************)
(* How wide the columns of a table are drawn: header widths that fit the   *)
(* screen, floors for the values that should not be wrapped, and one of    *)
(* three strategies that hands out what is left.                           *)
(*                                                                         *)
(* A text is one line, and is its display width; of several lines the code *)
(* measures the widest and adds up what each wraps into.  A column has a   *)
(* header and cells; hard are the widths of the cells that should not be   *)
(* wrapped.                                                                *)
(* The two loops take one step of this module per iteration.               *)
(***************************************************************************)
EXTENDS Integers, Sequences, FiniteSets, FiniteSetsExt

CONSTANTS Kinds,     \* the columns a table may have
          MaxCols,   \* bound: columns
          Screens    \* widths of the screen

VARIABLES table,     \* headers and rows, by column
          room,      \* availableWidth
          strategy,  \* CLI_WIDTH_STRATEGY
          widths,    \* adjustedWidths
          stage      \* "measure", "grow", "done"

widthVars == <<table, room, strategy, widths, stage>>

\* A width is counted in characters; what should not be wrapped is a cell.
ASSUME KindsAssumption ==
    \A k \in Kinds : /\ k.head \in Nat /\ k.cells \in Seq(Nat)
                     /\ k.hard \subseteq {k.cells[r] : r \in DOMAIN k.cells}
ASSUME ScreensAssumption == Screens \subseteq Int
ASSUME MaxColsAssumption == MaxCols \in Nat

Cols == DOMAIN table
Total(ws) ==
    LET upTo[n \in 0..Len(ws)] == IF n = 0 THEN 0 ELSE upTo[n - 1] + ws[n]
    IN upTo[Len(ws)]
Larger(a, b) == IF a < b THEN b ELSE a
Smaller(a, b) == IF a < b THEN a ELSE b

\* The first index of the largest value.
FirstLargest(f) ==
    CHOOSE i \in DOMAIN f : \A j \in DOMAIN f : f[j] < f[i] \/ (f[j] = f[i] /\ i <= j)

-----------------------------------------------------------------------------
(* Measuring.                                                              *)

Texts(c) == <<c.head>> \o c.cells
Natural(c) == Max({Texts(c)[r] : r \in DOMAIN Texts(c)})
Preferred(c) == Max(c.hard \cup {0})

\* Lines that the texts of a column take at a width.
WrapLinesOf(t, w) == IF w <= 0 \/ t <= w THEN 1 ELSE (t + w - 1) \div w
WrapLines(c, w) == Total([r \in DOMAIN Texts(c) |-> WrapLinesOf(Texts(c)[r], w)])

\* The same width for all, one more for the first ones.
Even(limit, n) ==
    LET each == Larger(limit \div n, 1)
    IN [i \in 1..n |-> IF i <= limit - each * n THEN each + 1 ELSE each]

\* The widest values are cut to the next smaller one, and so on until they fit.
AdjustToSum(limit, vs) ==
    LET cut(t) == [i \in DOMAIN vs |-> Smaller(vs[i], t)]
        fitting == {t \in {vs[i] : i \in DOMAIN vs} : Total(cut(t)) <= limit}
    IN IF fitting # {} THEN cut(Max(fitting)) ELSE Even(limit, Len(vs))

\* Mutant: the floors are kept though they do not fit.
Floored_Always(ws, hints, limit) ==
    [i \in DOMAIN ws |-> Larger(ws[i], Larger(1, hints[i]))]

\* Room for what should not be wrapped, if all of it can have some.
Floored(ws, hints, limit) ==
    LET soft == [i \in DOMAIN ws |-> Larger(ws[i], Larger(1, hints[i]))]
    IN IF Total(soft) <= limit THEN soft ELSE [i \in DOMAIN ws |-> Larger(ws[i], 1)]

-----------------------------------------------------------------------------
(* The strategies.                                                         *)

Left == room - Total(widths)

\* GREEDY_FREQUENCY: the next width a column would gain by, and by how many texts.
Wider(i) == {w \in {Texts(table[i])[r] : r \in DOMAIN Texts(table[i])} : w > widths[i]}
NextWidth(i) == Min(Wider(i))
Count(i) == Cardinality({r \in DOMAIN Texts(table[i]) : Texts(table[i])[r] = NextWidth(i)})
Affordable == {i \in Cols : Wider(i) # {} /\ NextWidth(i) - widths[i] <= Left}
MostFrequent ==
    CHOOSE i \in Affordable :
        \A j \in Affordable : Count(j) < Count(i) \/ (Count(j) = Count(i) /\ i <= j)

Shortage ==
    [i \in Cols |->
        (IF Natural(table[i]) > widths[i] THEN Natural(table[i]) ELSE 0) - widths[i]]

\* MARGINAL_COST: the lines that one more character saves; the heap holds the
\* columns where it saves some.
Benefit(i) == WrapLines(table[i], widths[i]) - WrapLines(table[i], widths[i] + 1)
Heap == {i \in Cols : Benefit(i) > 0}

\* PROPORTIONAL: everyone's share by what it lacks.
Deficit(i) == Larger(Natural(table[i]) - widths[i], 0)
Deficits == Total([i \in Cols |-> Deficit(i)])
Share(i) == IF Deficits = 0 THEN 0
            ELSE Smaller((Left * Deficit(i)) \div Deficits, Deficit(i))

-----------------------------------------------------------------------------

WidthInit ==
    /\ table \in UNION {[1..n -> Kinds] : n \in 1..MaxCols}
    /\ \E screen \in Screens : room = screen - (4 + 3 * (Len(table) - 1))
    /\ strategy \in {"GREEDY_FREQUENCY", "PROPORTIONAL", "MARGINAL_COST"}
    /\ widths = [i \in Cols |-> 0] /\ stage = "measure"

Measure ==
    /\ stage = "measure" /\ stage' = "grow"
    /\ widths' = Floored(AdjustToSum(room, [i \in Cols |-> table[i].head]),
                         [i \in Cols |-> Preferred(table[i])], room)
    /\ UNCHANGED <<table, room, strategy>>

GrowFrequent ==
    /\ stage = "grow" /\ strategy = "GREEDY_FREQUENCY" /\ Affordable # {}
    /\ widths' = [widths EXCEPT ![MostFrequent] = NextWidth(MostFrequent)]
    /\ UNCHANGED <<table, room, strategy, stage>>

\* Among columns of one benefit the heap has an order of its own.
GrowMarginal ==
    /\ stage = "grow" /\ strategy = "MARGINAL_COST" /\ Left > 0
    /\ \E i \in Heap : /\ \A j \in Heap : Benefit(j) <= Benefit(i)
                       /\ widths' = [widths EXCEPT ![i] = @ + 1]
    /\ UNCHANGED <<table, room, strategy, stage>>

\* What is left goes to one column.
Rest(ws, i) == IF Left > 0 THEN [ws EXCEPT ![i] = @ + room - Total(ws)] ELSE ws

FinishFrequent ==
    /\ strategy = "GREEDY_FREQUENCY" /\ Affordable = {}
    /\ widths' = Rest(widths, FirstLargest(Shortage))

FinishMarginal ==
    /\ strategy = "MARGINAL_COST" /\ (Left <= 0 \/ Heap = {})
    /\ widths' = Rest(widths, FirstLargest([i \in Cols |-> WrapLines(table[i], widths[i])]))

FinishProportional ==
    /\ strategy = "PROPORTIONAL"
    /\ LET shared == [i \in Cols |-> widths[i] + (IF Left > 0 THEN Share(i) ELSE 0)]
           lacks == [i \in Cols |-> Larger(Natural(table[i]) - shared[i], 0)]
       IN widths' = Rest(shared, FirstLargest(lacks))

Finish ==
    /\ stage = "grow" /\ stage' = "done"
    /\ FinishFrequent \/ FinishMarginal \/ FinishProportional
    /\ UNCHANGED <<table, room, strategy>>

\* The table is drawn.
Drawn == stage = "done" /\ UNCHANGED widthVars

WidthNext == Measure \/ GrowFrequent \/ GrowMarginal \/ Finish \/ Drawn

WidthSpec == WidthInit /\ [][WidthNext]_widthVars

-----------------------------------------------------------------------------
(* What the table looks like in the end.                                   *)

\* A table fills the screen and does not run over it, as far as columns can be
\* cut: a column has one character at least, and an unnamed one may come on top
\* of headers that fill the line.  What should not be wrapped is not wrapped
\* where headers leave room for it.  The two strategies that look at whole
\* texts wrap nothing in a table that fits the screen
\* (CalculateWidthWithStrategy).
WidthsSound ==
    stage = "done" =>
        LET unnamed == {i \in Cols : table[i].head = 0}
            wanted(i) == Larger(1, Larger(table[i].head, Preferred(table[i])))
            whole(i) == Larger(1, Natural(table[i]))
        IN /\ \A i \in Cols : widths[i] >= 1
           /\ Total(widths) >= room
           /\ Total(widths) <= Larger(room, Len(table)) + Cardinality(unnamed)
           /\ Total([i \in Cols |-> wanted(i)]) <= room =>
                \A i \in Cols : widths[i] >= Preferred(table[i])
           /\ strategy # "MARGINAL_COST" /\ Total([i \in Cols |-> whole(i)]) <= room =>
                \A i \in Cols : widths[i] >= Natural(table[i])

=============================================================================
