------------------------------- MODULE MCTools -------------------------------
(***************************************************************************)
(* One TLC run for the client's own work: system variables, what a line is *)
(* taken to mean, DUMP DATABASE, proto descriptors, and column widths.     *)
(*                                                                         *)
(* The modules share no state, so a behaviour exercises one of them, its   *)
(* part, and the variables of the others keep a first value.               *)
(***************************************************************************)
EXTENDS SystemVariables, ClientStatements, DatabaseDump, ProtoBundle, ColumnWidths

VARIABLE part

AllKeys == Tables \X Tables

\* Columns of a table: no header, a short and a long one; texts that are empty,
\* that differ, that repeat, and that should not be wrapped.
TableKinds ==
    {[head |-> h, cells |-> t.cells, hard |-> t.hard] :
        h \in {0, 2, 5},
        t \in {[cells |-> <<0, 1>>, hard |-> {}], [cells |-> <<3, 3, 6>>, hard |-> {}],
               [cells |-> <<4, 7>>, hard |-> {4}], [cells |-> <<2, 9>>, hard |-> {9}]}}

allVars == <<part, vars, textVars, dumpVars, protoVars, widthVars>>

-----------------------------------------------------------------------------

\* A part that is not exercised stays in one of its states: the dump is one that
\* was refused, the others are in an initial state.
ToolsInit ==
    /\ part \in {"variables", "text", "dump", "proto", "widths"}
    /\ IF part = "variables" THEN Init
       ELSE /\ val = [v \in Vars |-> 0] /\ base = val /\ snap = Capture(val)
            /\ owner = NoOwner /\ undo = <<>> /\ batch = FALSE /\ ok = TRUE
    /\ IF part = "text" THEN TextInit
       ELSE /\ text = <<>> /\ right = <<>> /\ open = FALSE /\ at = "edit"
            /\ picks = 0 /\ lead = "none" /\ sub = [mode |-> "none", out |-> "none"]
    /\ IF part = "dump" THEN DumpInit
       ELSE /\ parent = [t \in Tables |-> None] /\ fks = {} /\ rows = {} /\ bare = {}
            /\ live = {} /\ pc = "end" /\ verdict = "refused"
            /\ req = [NoRequest EXCEPT !.mode = "tables"]
            /\ plan = <<>> /\ out = <<>> /\ ddl = <<>>
    /\ ProtoInit /\ (part # "proto" => DOMAIN bundle = {})
    /\ IF part = "widths" THEN WidthInit
       ELSE /\ table = <<>> /\ room = 0 /\ strategy = "none" /\ widths = <<>>
            /\ stage = "measure"

ToolsNext ==
    \/ part = "variables" /\ Next /\ UNCHANGED <<part, textVars, dumpVars, protoVars, widthVars>>
    \/ part = "text" /\ TextNext /\ UNCHANGED <<part, vars, dumpVars, protoVars, widthVars>>
    \/ part = "dump" /\ DumpNext /\ UNCHANGED <<part, vars, textVars, protoVars, widthVars>>
    \/ part = "proto" /\ ProtoNext /\ UNCHANGED <<part, vars, textVars, dumpVars, widthVars>>
    \/ part = "widths" /\ WidthNext /\ UNCHANGED <<part, vars, textVars, dumpVars, protoVars>>

ToolsSpec == ToolsInit /\ [][ToolsNext]_allVars

-----------------------------------------------------------------------------
\* The property of lines speaks of initial values; ClientStatements says what it
\* means.

LineSound == part = "text" => LineMeansOneThing

=============================================================================
