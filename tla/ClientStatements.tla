--------------------------- MODULE ClientStatements ---------------------------
(***************************************************************************)
(* The client-side statement table: which statement a line is dispatched   *)
(* to (first match wins, then the native parsers of CLI_PARSE_MODE), what  *)
(* the fuzzy finder offers at the cursor, and what a pick does to the line.*)
(*                                                                         *)
(* A line is a sequence of words.  A shape stands for a definition's       *)
(* regular expression: <w> is one word, <num>, <str> and <id> a word of    *)
(* that kind, and a shape may end in <rest> (one or more words), <any>     *)
(* (zero or more) or <noeq> (any, without an equals sign).                 *)
(***************************************************************************)
EXTENDS Naturals, Sequences, SequencesExt, FiniteSets

CONSTANTS
    Fillers,   \* the words a sample line puts in the place of a wildcard
    MaxPicks   \* bound: completions of one line

Signs == {"=", "+="}
Strings == {"'s'"}
Numbers == {"7"}
Open == {"<rest>", "<any>", "<noeq>"}

\* A shape built of parts, and an optional part.
Cat(S, T) == {s \o t : s \in S, t \in T}
Opt(S) == S \cup {<<>>}
Words(S) == {<<w>> : w \in S}

\* clientSideStatementDef: what it matches, the syntaxes it documents, and
\* its completions [fix, type, suffix].
Def(name, shapes, syntax, comps) ==
    [name |-> name, shapes |-> shapes, syntax |-> syntax, comps |-> comps]
Plain(name, words) == Def(name, {words}, {words}, <<>>)
Arg(fix, type) == [fix |-> fix, type |-> type, suffix |-> ""]

DatabaseDefs == <<
    Def("use", {<<"USE", "<w>">>, <<"USE", "<w>", "ROLE", "<rest>">>}, {<<"USE", "<>">>},
        <<Arg(<<"USE", "<w>", "ROLE">>, "role"), Arg(<<"USE">>, "database")>>),
    Plain("detach", <<"DETACH">>),
    Def("drop_database", {<<"DROP", "DATABASE", "<rest>">>}, {<<"DROP", "DATABASE", "<>">>},
        <<Arg(<<"DROP", "DATABASE">>, "database")>>),
    Plain("show_databases", <<"SHOW", "DATABASES">>) >>

\* schemaObjectsReStr
SchemaObjects ==
    Words({"SCHEMA", "DATABASE", "PLACEMENT", "TABLE", "QUEUE", "INDEX", "VIEW", "ROLE",
           "SEQUENCE", "MODEL"})
    \cup {<<"PROTO", "BUNDLE">>, <<"SEARCH", "INDEX">>, <<"CHANGE", "STREAM">>,
          <<"VECTOR", "INDEX">>, <<"PROPERTY", "GRAPH">>}

IndexWords == {"INDEX", "INDEXES", "KEYS"}

SchemaDefs == <<
    Def("show_create", Cat({<<"SHOW", "CREATE">>}, Cat(SchemaObjects, {<<"<rest>">>})),
        {<<"SHOW", "CREATE", "<>">>},
        <<Arg(<<"SHOW", "CREATE", "CHANGE", "STREAM">>, "change_stream"),
          Arg(<<"SHOW", "CREATE", "TABLE">>, "table"),
          Arg(<<"SHOW", "CREATE", "VIEW">>, "view"),
          Arg(<<"SHOW", "CREATE", "INDEX">>, "index"),
          Arg(<<"SHOW", "CREATE", "SEQUENCE">>, "sequence"),
          Arg(<<"SHOW", "CREATE", "MODEL">>, "model"),
          Arg(<<"SHOW", "CREATE", "SCHEMA">>, "schema")>>),
    Def("show_tables", {<<"SHOW", "TABLES">>, <<"SHOW", "TABLES", "<rest>">>},
        {<<"SHOW", "TABLES", "[]">>}, <<Arg(<<"SHOW", "TABLES">>, "schema")>>),
    Plain("show_change_streams", <<"SHOW", "CHANGE", "STREAMS">>),
    Def("show_columns", {<<"SHOW", "COLUMNS", "FROM", "<rest>">>},
        {<<"SHOW", "COLUMNS", "FROM", "<>">>}, <<Arg(<<"SHOW", "COLUMNS", "FROM">>, "table")>>),
    Def("show_index", {<<"SHOW", i, "FROM", "<rest>">> : i \in IndexWords},
        {<<"SHOW", "INDEX", "FROM", "<>">>},
        <<Arg(<<"SHOW", "INDEX", "FROM">>, "table"), Arg(<<"SHOW", "INDEXES", "FROM">>, "table"),
          Arg(<<"SHOW", "KEYS", "FROM">>, "table")>>),
    Plain("show_ddls", <<"SHOW", "DDLS">>) >>

\* Of a list of tables, the completion is tried after one table.
DumpDefs == <<
    Plain("dump_database", <<"DUMP", "DATABASE">>),
    Plain("dump_schema", <<"DUMP", "SCHEMA">>),
    Def("dump_tables", {<<"DUMP", "TABLES", "<rest>">>},
        {<<"DUMP", "TABLES", "<>">>, <<"DUMP", "TABLES", "LIKE", "<>">>,
         <<"DUMP", "TABLES", "EXCEPT", "<>">>},
        <<Arg(<<"DUMP", "TABLES">>, "table"), Arg(<<"DUMP", "TABLES", "<w>", ",">>, "table")>>) >>

OperationDefs == <<
    Plain("show_operations", <<"SHOW", "SCHEMA", "UPDATE", "OPERATIONS">>),
    Def("show_operation", {<<"SHOW", "OPERATION", "<rest>">>}, {<<"SHOW", "OPERATION", "<>">>},
        <<Arg(<<"SHOW", "OPERATION">>, "operation")>>),
    Def("add_split_points", {<<"ADD", "SPLIT", "POINTS", "<rest>">>},
        {<<"ADD", "SPLIT", "POINTS", "[]">>}, <<>>),
    Def("drop_split_points", {<<"DROP", "SPLIT", "POINTS", "<rest>">>},
        {<<"DROP", "SPLIT", "POINTS", "{}">>}, <<>>),
    Plain("show_split_points", <<"SHOW", "SPLIT", "POINTS">>) >>

ProtoDefs == <<
    Plain("show_local_proto", <<"SHOW", "LOCAL", "PROTO">>),
    Plain("show_remote_proto", <<"SHOW", "REMOTE", "PROTO">>),
    Def("pull_proto", {<<"PULL", "REMOTE", "PROTO", "<any>">>},
        {<<"PULL", "REMOTE", "PROTO", "{}">>}, <<>>),
    Def("sync_proto", {<<"SYNC", "PROTO", "BUNDLE", "<any>">>},
        {<<"SYNC", "PROTO", "BUNDLE", "[]">>}, <<>>) >>

PlanDefs == <<
    Def("truncate", {<<"TRUNCATE", "TABLE", "<rest>">>}, {<<"TRUNCATE", "TABLE", "<>">>},
        <<Arg(<<"TRUNCATE", "TABLE">>, "table")>>),
    Def("explain", {<<"EXPLAIN", "<rest>">>}, {<<"EXPLAIN", "[]">>, <<"EXPLAIN", "ANALYZE", "[]">>},
        <<>>) >>

PlanNodeDefs == <<
    Def("show_plan_node", {<<"SHOW", "PLAN", "NODE", "<num>">>}, {<<"SHOW", "PLAN", "NODE", "<>">>},
        <<Arg(<<"SHOW", "PLAN", "NODE">>, "plan_node")>>),
    Def("show_last_plan",
        Cat({<<"SHOW", "LAST", "QUERY", "PLAN">>},
            Cat(Opt({<<"WITH", "STATS">>}), Opt({<<"INTO", "<rest>">>}))),
        {<<"SHOW", "LAST", "QUERY", "PLAN", "[]">>}, <<>>),
    Def("describe", {<<"DESCRIBE", "<rest>">>}, {<<"DESCRIBE", "<>">>}, <<>>) >>

PartitionDefs == <<
    Def("partitioned", {<<"PARTITIONED", "<rest>">>}, {<<"PARTITIONED", "{}">>}, <<>>),
    Def("partition", {<<"PARTITION", "<rest>">>}, {<<"PARTITION", "<>">>}, <<>>),
    Def("run_partitioned_query", {<<"RUN", "PARTITIONED", "QUERY", "<rest>">>},
        {<<"RUN", "PARTITIONED", "QUERY", "<>">>}, <<>>),
    Def("run_partition", {<<"RUN", "PARTITION", "<str>">>}, {<<"RUN", "PARTITION", "<>">>}, <<>>),
    Def("try_partitioned_query", {<<"TRY", "PARTITIONED", "QUERY", "<rest>">>},
        {<<"TRY", "PARTITIONED", "QUERY", "<>">>}, <<>>) >>

Txn == Opt({<<"TRANSACTION">>})
Isolation == Opt(Cat({<<"ISOLATION", "LEVEL">>}, {<<"SERIALIZABLE">>, <<"REPEATABLE", "READ">>}))
Priority == Opt({<<"PRIORITY", p>> : p \in {"HIGH", "MEDIUM", "LOW"}})

BeginDefs == <<
    Def("begin_rw", Cat({<<"BEGIN", "RW">>}, Cat(Txn, Cat(Isolation, Priority))),
        {<<"BEGIN", "RW", "[]">>}, <<>>),
    Def("begin_ro", Cat({<<"BEGIN", "RO">>}, Cat(Txn, Cat(Opt({<<"<w>">>}), Priority))),
        {<<"BEGIN", "RO", "[]">>}, <<>>),
    Def("begin", Cat({<<"BEGIN">>}, Cat(Txn, Cat(Isolation, Priority))), {<<"BEGIN", "[]">>}, <<>>) >>

EndDefs == <<
    Def("commit", Cat({<<"COMMIT">>}, Txn), {<<"COMMIT", "[]">>}, <<>>),
    Def("savepoint", {<<"SAVEPOINT", "<rest>">>}, {<<"SAVEPOINT", "<>">>}, <<>>),
    Def("rollback_to",
        Cat({<<"ROLLBACK">>},
            Cat(Txn, Cat({<<"TO">>}, Cat(Opt({<<"SAVEPOINT">>}), {<<"<rest>">>})))),
        {<<"ROLLBACK", "[]">>}, <<>>),
    Def("release", Cat({<<"RELEASE">>}, Cat(Opt({<<"SAVEPOINT">>}), {<<"<rest>">>})),
        {<<"RELEASE", "[]">>}, <<>>),
    Def("rollback", Cat({<<"ROLLBACK">>, <<"CLOSE">>}, Txn), {<<"ROLLBACK", "[]">>}, <<>>),
    Def("set_transaction", {<<"SET", "TRANSACTION", "<rest>">>}, {<<"SET", "TRANSACTION", "{}">>},
        <<>>),
    Def("show_transaction", {<<"SHOW", "TRANSACTION", "<any>">>},
        {<<"SHOW", "TRANSACTION", "ISOLATION", "LEVEL">>, <<"SHOW", "TRANSACTION", "READ", "ONLY">>},
        <<>>) >>

BatchDefs == <<
    Def("start_batch", {<<"START", "BATCH", "DDL">>, <<"START", "BATCH", "DML">>},
        {<<"START", "BATCH", "DDL">>, <<"START", "BATCH", "DML">>}, <<>>),
    Plain("run_batch", <<"RUN", "BATCH">>),
    Def("abort_batch", Cat({<<"ABORT", "BATCH">>}, Txn), {<<"ABORT", "BATCH", "[]">>}, <<>>) >>

\* Mutant: RESET <name> before RESET ALL.
ResetDefs_NameFirst == <<
    Def("reset", {<<"RESET", "<w>">>}, {<<"RESET", "<>">>}, <<Arg(<<"RESET">>, "variable")>>),
    Plain("reset_all", <<"RESET", "ALL">>),
    Def("set_local", {<<"SET", "LOCAL", "<w>", "=", "<rest>">>}, {<<"SET", "LOCAL", "<>">>},
        <<Arg(<<"SET", "LOCAL", "<w>", "=">>, "variable_value"),
          [Arg(<<"SET", "LOCAL">>, "variable") EXCEPT !.suffix = "="]>>) >>

ResetDefs == <<
    Plain("reset_all", <<"RESET", "ALL">>),
    Def("reset", {<<"RESET", "<w>">>}, {<<"RESET", "<>">>}, <<Arg(<<"RESET">>, "variable")>>),
    Def("set_local", {<<"SET", "LOCAL", "<w>", "=", "<rest>">>}, {<<"SET", "LOCAL", "<>">>},
        <<Arg(<<"SET", "LOCAL", "<w>", "=">>, "variable_value"),
          [Arg(<<"SET", "LOCAL">>, "variable") EXCEPT !.suffix = "="]>>) >>

SetDefs == <<
    Def("set_param_type", {<<"SET", "PARAM", "<w>", "<noeq>">>}, {<<"SET", "PARAM", "<>">>},
        <<[Arg(<<"SET", "PARAM">>, "param") EXCEPT !.suffix = " "]>>),
    Def("set", {<<"SET", "<w>", "=", "<rest>">>}, {<<"SET", "<>">>},
        <<Arg(<<"SET", "<w>", "=">>, "variable_value"),
          [Arg(<<"SET">>, "set_target") EXCEPT !.suffix = "="]>>),
    Def("set_add", {<<"SET", "<w>", "+=", "<rest>">>}, {<<"SET", "<>">>}, <<>>),
    Plain("show_variables", <<"SHOW", "VARIABLES">>),
    Def("show_variable", {<<"SHOW", "VARIABLE", "<rest>">>}, {<<"SHOW", "VARIABLE", "<>">>},
        <<Arg(<<"SHOW", "VARIABLE">>, "variable")>>) >>

ParamDefs == <<
    Def("set_param_value", {<<"SET", "PARAM", "<w>", "=", "<any>">>}, {<<"SET", "PARAM", "<>">>},
        <<>>),
    Plain("show_params", <<"SHOW", "PARAMS">>),
    Def("show_param", {<<"SHOW", "PARAM", "<w>">>}, {<<"SHOW", "PARAM", "<>">>},
        <<Arg(<<"SHOW", "PARAM">>, "param")>>),
    Def("unset_param", {<<"UNSET", "PARAM", "<w>">>}, {<<"UNSET", "PARAM", "<>">>},
        <<Arg(<<"UNSET", "PARAM">>, "param")>>),
    Def("mutate", {<<"MUTATE", "<any>">>}, {<<"MUTATE", "<>">>}, <<Arg(<<"MUTATE">>, "table")>>) >>

CliDefs == <<
    Plain("show_profiles", <<"SHOW", "QUERY", "PROFILES">>),
    Def("show_profile", {<<"SHOW", "QUERY", "PROFILE", "<rest>">>},
        {<<"SHOW", "QUERY", "PROFILE", "<>">>}, <<Arg(<<"SHOW", "QUERY", "PROFILE">>, "query_profile")>>),
    Def("show_history", {<<"SHOW", "HISTORY">>, <<"SHOW", "HISTORY", "LIMIT", "<num>">>},
        {<<"SHOW", "HISTORY">>, <<"SHOW", "HISTORY", "LIMIT", "<>">>}, <<>>),
    Plain("help", <<"HELP">>),
    Plain("help_variables", <<"HELP", "VARIABLES">>),
    Def("help_topic", {<<"HELP", "<id>">>}, {<<"HELP", "<>">>}, <<>>),
    Plain("exit", <<"EXIT">>) >>

\* MergedStatementDefs: the features' definitions follow the core table.
FeatureDefs == <<
    Def("gemini", {<<"GEMINI", "<rest>">>}, {<<"GEMINI", "<>">>}, <<>>),
    Def("cql", {<<"CQL", "<rest>">>}, {<<"CQL", "<>">>}, <<>>),
    Def("bigquery", {<<"BIGQUERY", "<rest>">>}, {<<"BIGQUERY", "<>">>}, <<>>) >>

Defs ==
    DatabaseDefs \o SchemaDefs \o DumpDefs \o OperationDefs \o ProtoDefs \o PlanDefs
    \o PlanNodeDefs \o PartitionDefs \o BeginDefs \o EndDefs \o BatchDefs \o ResetDefs
    \o SetDefs \o ParamDefs \o CliDefs \o FeatureDefs

\* sqlSkeletonItems: the SQL that no definition is for, by its first words ...
AlteredObjects ==
    Words({"TABLE", "INDEX", "SEQUENCE", "MODEL"})
    \cup {<<"SEARCH", "INDEX">>, <<"CHANGE", "STREAM">>, <<"VECTOR", "INDEX">>,
          <<"LOCALITY", "GROUP">>}
CreatedObjects ==
    AlteredObjects
    \cup Words({"SCHEMA", "VIEW", "ROLE", "PLACEMENT"}) \cup {<<"PROPERTY", "GRAPH">>}

Skeletons ==
    Words({"SELECT", "WITH", "UPDATE", "GRANT", "REVOKE", "CALL", "GRAPH"})
    \cup {<<"SELECT", "*", "FROM">>, <<"DELETE", "FROM">>, <<"RENAME", "TABLE">>}
    \cup Cat({<<"INSERT">>},
             Cat({<<>>, <<"OR", "UPDATE">>, <<"OR", "IGNORE">>}, {<<"INTO">>}))
    \cup Cat({<<"CREATE">>, <<"ALTER">>}, {<<"DATABASE">>, <<"PROTO", "BUNDLE">>})
    \cup Cat({<<"CREATE">>, <<"DROP">>}, CreatedObjects)
    \cup Cat({<<"ALTER">>}, AlteredObjects \cup {<<"STATISTICS">>})
    \cup Cat({<<"CREATE">>},
             {<<"TABLE", "IF", "NOT", "EXISTS">>, <<"UNIQUE", "INDEX">>,
              <<"NULL_FILTERED", "INDEX">>, <<"OR", "REPLACE", "VIEW">>,
              <<"OR", "REPLACE", "MODEL">>})

\* ... those that take no argument, and EXPORT DATA, which is not offered.
CompleteSql == {<<"ANALYZE">>, <<"DROP", "PROTO", "BUNDLE">>}
SqlItems == Cat(Skeletons, {<<"x">>}) \cup CompleteSql \cup {<<"EXPORT", "DATA", "x">>}

----------------------------------------------------------------------------
\* Dispatch

Fits(e, w) ==
    \/ e = w
    \/ e = "<w>" /\ w \notin Signs
    \/ e = "<num>" /\ w \in Numbers
    \/ e = "<str>" /\ w \in Strings
    \/ e = "<id>" /\ w \notin Signs \cup Numbers \cup Strings

Closed(shape) == SelectSeq(shape, LAMBDA e : e \notin Open)

Starts(fix, text) ==
    Len(fix) <= Len(text) /\ \A i \in 1..Len(fix) : Fits(fix[i], text[i])

Matches(shape, text) ==
    LET fix == Closed(shape)
        more == {text[i] : i \in Len(fix) + 1..Len(text)}
    IN  /\ Starts(<<shape[1]>>, text) /\ Starts(fix, text)
        /\ CASE Last(shape) = "<rest>" -> more # {}
             [] Last(shape) = "<any>"  -> TRUE
             [] Last(shape) = "<noeq>" -> more \cap Signs = {}
             [] OTHER                  -> more = {}

MatchingShapes(d, text) == {s \in d.shapes : Matches(s, text)}

\* BuildStatementWithDefs: the first definition whose pattern matches.
Match(text) == SelectInSeq(Defs, LAMBDA d : MatchingShapes(d, text) # {})

\* rejectSetKeywordAsVarName, and RESET LOCAL
Rejects(name, text) ==
    \/ name \in {"set", "set_add"} /\ text[2] = "PARAM"
    \/ name = "reset" /\ text[2] = "LOCAL"

CliStatement(text) ==
    LET i == Match(text)
    IN  IF i = 0 THEN "no_match" ELSE IF Rejects(Defs[i].name, text) THEN "error" ELSE Defs[i].name

\* stmtkind: the kind of statement its first words say (external).  A tree of
\* memefish is assumed to be of the kind that its text says.
NativeKind(text) ==
    CASE text = <<>> -> "none"
      [] text[1] \in {"SELECT", "WITH", "CALL", "GRAPH"} -> "select"
      [] text[1] \in {"INSERT", "UPDATE", "DELETE"} -> "dml"
      [] Starts(<<"EXPORT", "DATA">>, text) -> "export_data"
      [] text[1] \in {"CREATE", "ALTER", "DROP", "RENAME", "GRANT", "REVOKE", "ANALYZE"} -> "ddl"
      [] OTHER -> "none"

\* statementFromNativeKind, and CREATE DATABASE first
FromKind(text) ==
    IF Starts(<<"CREATE", "DATABASE", "<w>">>, text) THEN "create_database"
    ELSE IF NativeKind(text) = "none" THEN "error" ELSE NativeKind(text)

Lexical(text) == FromKind(text)
Memefish(text, parses) == IF parses THEN FromKind(text) ELSE "error"

\* getParserForMode: composeStatementParseFunc stops at the first error that
\* is not a missing match; in FALLBACK, ignoreParseError makes it one.
NativeStatement(mode, text, parses) ==
    CASE mode = "NO_MEMEFISH" -> Lexical(text)
      [] mode = "MEMEFISH_ONLY" -> Memefish(text, parses)
      [] OTHER -> IF Memefish(text, parses) = "error" THEN Lexical(text) ELSE Memefish(text, parses)

Dispatch(mode, text, parses) ==
    IF CliStatement(text) = "no_match" THEN NativeStatement(mode, text, parses)
    ELSE CliStatement(text)

----------------------------------------------------------------------------
\* Completion

VARIABLES
    text,   \* the words up to the cursor
    open,   \* whether the cursor touches the last of them
    right,  \* the words after the cursor
    at,     \* edit | ended (a pick that ends in a semicolon) | sent
    picks,
    lead,   \* history: the definition the last pick is for, sql, or none
    sub     \* the mode the line was sent in, and the statement built

textVars == <<text, open, right, at, picks, lead, sub>>

Modes == {"NO_MEMEFISH", "MEMEFISH_ONLY", "FALLBACK"}
Whole == text \o right

TextTypeOK ==
    /\ open \in BOOLEAN /\ (open => text # <<>>)
    /\ \A i \in DOMAIN text : text[i] # "glued"   \* two words run together
    /\ at \in {"edit", "ended", "sent"} /\ picks \in 0..MaxPicks
    /\ lead \in {"none", "sql"} \cup {Defs[i].name : i \in DOMAIN Defs}
    /\ sub.mode \in Modes \cup {"none"}

\* The lines a user may be typing: every shape filled in, and SQL.
Tails == {<<>>, <<"x", "SYNC">>, <<"=", "x">>} \cup {<<f>> : f \in Fillers}
Filled(shape, f) ==
    [i \in DOMAIN Closed(shape) |->
        IF shape[i] \in {"<w>", "<num>", "<str>", "<id>"} THEN f ELSE shape[i]]
Samples(d) ==
    UNION {{l \in Cat({Filled(s, f) : f \in Fillers}, Tails) : Matches(s, l)} : s \in d.shapes}
Lines == SqlItems \cup UNION {Samples(Defs[i]) : i \in DOMAIN Defs}

TextInit ==
    /\ \E line \in Lines : \E i \in 0..Len(line) :
        /\ text = SubSeq(line, 1, i)
        /\ right = SubSeq(line, i + 1, Len(line))
    /\ open \in (IF text = <<>> THEN {FALSE} ELSE BOOLEAN)
    /\ at = "edit" /\ picks = 0 /\ lead = "none"
    /\ sub = [mode |-> "none", out |-> "none"]

ArgFits(c, w) ==
    CASE c.type \in {"plan_node", "query_profile"} -> w \in Numbers
      [] c.suffix # "" -> w \notin Signs
      [] OTHER -> TRUE

\* The argument is under the cursor, or the cursor is where it would start.
Under(c) ==
    open /\ Len(text) = Len(c.fix) + 1 /\ Starts(c.fix, Front(text)) /\ ArgFits(c, Last(text))

Before(c) ==
    Len(text) = Len(c.fix) /\ Starts(c.fix, text) /\ (open => Last(c.fix) = "=")

\* detectFuzzyContext: the first completion whose prefix matches, in table order.
Comps ==
    FlattenSeq([i \in DOMAIN Defs |->
        [k \in DOMAIN Defs[i].comps |-> [def |-> Defs[i].name, arg |-> Defs[i].comps[k]]]])
Context == SelectInSeq(Comps, LAMBDA c : Under(c.arg) \/ Before(c.arg))

\* What the finder offers: x stands for a name of the right kind, and is also
\* the only variable a value can be offered for.
Candidates(c) ==
    CASE c.type = "set_target" -> {"x", "PARAM", "LOCAL"}
      [] c.type \in {"plan_node", "query_profile"} -> {"7"}
      [] c.type = "variable_value" -> IF text[Len(c.fix) - 1] = "x" THEN {"x"} ELSE {}
      [] OTHER -> {"x"}

\* resolveCompletionSuffix: the keywords take a space.
SuffixOf(c, item) == IF item \in {"PARAM", "LOCAL"} THEN " " ELSE c.suffix

\* fuzzyArgumentEnd: the word the cursor stands before is the one replaced, up
\* to the equals sign of a +=.
AfterArgument ==
    CASE open \/ right = <<>> \/ Head(right) \in {"=", ","} -> right
      [] ~open /\ right # <<>> /\ Head(right) = "+=" -> <<"=">> \o Tail(right)
      [] OTHER -> Tail(right)

\* fuzzyCompletionSuffix: an equals sign that is there already is reused.
Reused(s, rest) == s = "=" /\ rest # <<>> /\ Head(rest) = "="

\* Call: an argument completion replaces the argument.
PickArgument ==
    /\ at = "edit" /\ picks < MaxPicks /\ Context # 0
    /\ LET c == Comps[Context].arg
       IN  \E item \in Candidates(c) :
            LET kept == IF Under(c) THEN Front(text) ELSE text
                s    == SuffixOf(c, item)
                rest == AfterArgument
            IN  /\ text' = (IF open /\ ~Under(c) /\ Last(text) # "=" THEN Append(Front(text), "glued")
                            ELSE Append(kept, item))
                           \o (IF s = "=" /\ ~Reused(s, rest) THEN <<"=">> ELSE <<>>)
                /\ right' = rest
                /\ open' = (s = "" \/ rest # <<>>)
                /\ lead' = CASE item = "PARAM" -> IF rest = <<>> THEN "set_param_type" ELSE "none"
                             [] item = "LOCAL" -> IF rest = <<>> THEN "set_local" ELSE "none"
                             [] OTHER -> Comps[Context].def
    /\ picks' = picks + 1
    /\ UNCHANGED <<at, sub>>

\* extractFixedPrefix: the words of a syntax before its first placeholder.
FixedPrefix(s) == SelectSeq(s, LAMBDA w : w \notin {"<>", "[]", "{}"})

\* Call: a statement name replaces the whole line; one that takes no argument
\* is ended by a semicolon.  Bound: the user picks a name that starts with
\* the word typed.
Insert(words, ends) ==
    /\ text # <<>> => text[1] = words[1]
    /\ text' = words /\ right' = <<>> /\ open' = FALSE
    /\ at' = IF ends THEN "ended" ELSE "edit"

\* statementNameItems: the definitions' syntaxes, and the SQL.
PickName ==
    /\ at = "edit" /\ picks < MaxPicks /\ Context = 0
    /\ \/ \E i \in DOMAIN Defs : \E s \in Defs[i].syntax :
            /\ Insert(FixedPrefix(s), FixedPrefix(s) = s)
            /\ lead' = IF FixedPrefix(s) = s THEN Defs[i].name ELSE "none"
       \/ /\ \E s \in Skeletons \cup CompleteSql : Insert(s, s \in CompleteSql)
          /\ lead' = "sql"
    /\ picks' = picks + 1
    /\ UNCHANGED sub

\* A candidate list that is empty, or left without a choice.
PickNothing == at = "edit" /\ UNCHANGED textVars

\* BuildStatementWithCommentsWithMode; whether memefish parses the line is
\* not the table's to know.  Bound: a line is sent with the cursor after it.
Send ==
    /\ at \in {"edit", "ended"} /\ right = <<>> /\ text # <<>> /\ ~open
    /\ \E m \in Modes, parses \in BOOLEAN :
        sub' = [mode |-> m, out |-> Dispatch(m, Whole, parses)]
    /\ at' = "sent"
    /\ UNCHANGED <<text, open, right, picks, lead>>

Sent == at = "sent" /\ UNCHANGED textVars

TextNext == PickArgument \/ PickName \/ PickNothing \/ Send \/ Sent
TextSpec == TextInit /\ [][TextNext]_textVars

----------------------------------------------------------------------------
\* Properties

Literal(d, l) ==
    Max({Cardinality({i \in DOMAIN Closed(s) : s[i] = l[i]}) : s \in MatchingShapes(d, l)})

\* The table's order is what makes RESET ALL or HELP VARIABLES more than an
\* argument: of all definitions that match a line, the one that gets it spells
\* out at least as many of its words.
MostSpecific ==
    (at # "sent" /\ Match(Whole) # 0) =>
        \A i \in DOMAIN Defs :
            MatchingShapes(Defs[i], Whole) # {} =>
                Literal(Defs[Match(Whole)], Whole) >= Literal(Defs[i], Whole)

\* No definition takes a statement that is Spanner's, whether it is typed or
\* picked; one that is picked is offered no argument of a definition.
SqlPassesThrough ==
    /\ (picks = 0 /\ Whole \in SqlItems) \/ lead = "sql" => Match(Whole) = 0
    /\ lead = "sql" => Match(Append(Whole, "x")) = 0 /\ Context = 0

\* SET PARAM's two definitions share their completion.
Family(d) == IF d = "set_param_type" THEN {d, "set_param_value"} ELSE {d}

\* What a pick inserts belongs to the statement that offered it: the line as it
\* stands, or with its argument typed, is dispatched there.  (A name inserted
\* before += gets an equals sign of its own, and the rest of the line becomes
\* its value: the line is SET's still, but not what was meant.)
CompletionLeads ==
    at # "sent" /\ lead \notin {"none", "sql"} =>
        \E more \in (IF at = "edit" THEN {<<>>, <<"7">>, <<"x", "=", "7">>} ELSE {<<>>}) :
            /\ Match(Whole \o more) # 0
            /\ Defs[Match(Whole \o more)].name \in Family(lead)

\* CLI_PARSE_MODE does not change what a statement is: FALLBACK builds what the
\* lexical parser builds, whatever memefish makes of the line, and a CLI
\* statement is one in every mode.
ModeIsNoMeaning ==
    at = "sent" =>
        \/ sub.out = Dispatch("NO_MEMEFISH", Whole, TRUE)
        \/ sub.mode = "MEMEFISH_ONLY" /\ sub.out = "error" /\ Match(Whole) = 0

\* A line is the statement its words spell, for the dispatcher, the completion
\* and every parse mode.
LineMeansOneThing ==
    TextTypeOK /\ MostSpecific /\ SqlPassesThrough /\ CompletionLeads /\ ModeIsNoMeaning

=============================================================================
