---------------------------- MODULE ProtoBundle ----------------------------
(***************************************************************************)
(* Protocol buffer descriptors: the session's descriptor graph with the    *)
(* files it was loaded from, SYNC PROTO BUNDLE, which composes DDL from    *)
(* the cached remote descriptors, PULL REMOTE PROTO, which copies remote   *)
(* files into the session, and the SET that a schema dump begins with.     *)
(*                                                                         *)
(* Type "A" has the nested type "A.N" and a field of type "B".  A graph    *)
(* maps a file name to the types it defines, the types it only has as      *)
(* placeholders, and its imports.  The server keeps the bundle's types,    *)
(* each with the file it came in.                                          *)
(***************************************************************************)
EXTENDS Naturals, Sequences, FiniteSets, SequencesExt

CONSTANTS MaxPaths,   \* bound: files of PROTO_DESCRIPTORS_FILE_PATH
          MaxQueue,   \* bound: statements of a DDL batch
          MaxOutside  \* bound: bundle changes by other clients

VARIABLES paths,    \* Internal.ProtoDescriptorFile
          graph,    \* Internal.ProtoDescriptor
          ddlBatch, \* the open manual batch: kind and queued statements
          bundle,   \* server: the types of the proto bundle, with their file
          cache,    \* session.ddlCache, as far as descriptors go
          outside,  \* bundle changes by other clients so far
          last      \* the last statement and how it ended

\* A path and a statement, at least; the bounds are numbers.
ASSUME PathsAssumption == MaxPaths \in Nat \ {0}
ASSUME BoundsAssumption == MaxQueue \in Nat /\ MaxOutside \in Nat

local == <<paths, graph>>
protoVars == <<local, ddlBatch, bundle, cache, outside, last>>

Types == {"A", "A.N", "B"}
Fields == {<<"A", "B">>, <<"A.N", "A">>}      \* field type, enclosing message
Nested(t) == IF t = "A" THEN {"A", "A.N"} ELSE {t}

File(complete, holes, imports) ==
    [complete |-> complete, holes |-> holes, imports |-> imports]
Empty == [x \in {} |-> File({}, {}, {})]

\* The .proto sources, by the name they are imported under.
FileNames == {"f", "g"}
Sources ==
    [x \in FileNames |-> IF x = "f" THEN File({"A", "A.N"}, {}, {"g"}) ELSE File({"B"}, {}, {})]

\* The files a search from some of them finds: those that no set can do without
\* that holds these and with each file its imports.
Found(files, imports) ==
    {x \in FileNames : \A S \in SUBSET FileNames :
        files \subseteq S /\ (\A y \in S : imports[y] \subseteq S) => x \in S}

\* A compiled source is exported with everything it imports.
Imported(files) == Found(files, [x \in FileNames |-> Sources[x].imports])
Compiled(root) == [x \in Imported({root}) |-> Sources[x]]

\* What is at each path: a source, two fragments of one graph, and a set that
\* was exported with placeholders.  Nothing is at "p0".
Readable == {"p1", "p2", "p3", "p4"}
Disk ==
    [p \in Readable |->
        CASE p = "p1" -> Compiled("f")
          [] p = "p2" -> [x \in {"f"} |-> File({"A", "A.N"}, {}, {"g"})]
          [] p = "p3" -> [x \in {"g"} |-> File({"B"}, {}, {})]
          [] OTHER    -> [x \in {"f"} |-> File({"A"}, {"A.N", "B"}, {})]]
Paths == Readable \cup {"p0"}

-----------------------------------------------------------------------------
(* Graphs.                                                                 *)

Declared(g, x) == g[x].complete \cup g[x].holes
CompleteIn(g) == UNION {g[x].complete : x \in DOMAIN g}
DeclaredIn(g) == UNION {Declared(g, x) : x \in DOMAIN g}
FileOf(g, t) == CHOOSE x \in DOMAIN g : t \in Declared(g, x)

\* protodesc.NewFiles: every import is there, every type has one file.
Valid(g) ==
    \A x \in DOMAIN g :
        /\ g[x].imports \subseteq DOMAIN g
        /\ \A y \in DOMAIN g \ {x} : Declared(g, x) \cap Declared(g, y) = {}

\* mergeFDS: the later file of a name replaces the earlier one.
Merge(old, new) ==
    [x \in DOMAIN old \cup DOMAIN new |-> IF x \in DOMAIN new THEN new[x] ELSE old[x]]

\* The descriptors of a GetDatabaseDdl answer: the files of the bundle's types;
\* what they need outside the bundle is a placeholder.
RemoteGraph(b) ==
    LET Home(t) == IF t \in DOMAIN b THEN b[t]
                   ELSE LET u == CHOOSE v \in DOMAIN b : <<v, t>> \in Fields IN b[u]
        holes == {t \in Types \ DOMAIN b : \E u \in DOMAIN b : <<u, t>> \in Fields}
        In(x, set) == {t \in set : Home(t) = x}
    IN [x \in {b[t] : t \in DOMAIN b} |->
          File(In(x, DOMAIN b), In(x, holes),
               {b[t] : t \in {v \in DOMAIN b : \E u \in In(x, DOMAIN b) :
                                 <<u, v>> \in Fields}} \ {x})]

-----------------------------------------------------------------------------
(* The server: one statement of UpdateDatabaseDdl.                         *)

Ddl(op, insert, update, delete) ==
    [op |-> op, insert |-> insert, update |-> update, delete |-> delete]

Accepts(b, d, g) ==
    /\ d.insert \cup d.update \subseteq CompleteIn(g)
    /\ CASE d.op = "create" -> DOMAIN b = {}
         [] d.op = "drop" -> DOMAIN b # {}
         [] OTHER -> /\ DOMAIN b # {}
                     /\ d.insert \cap DOMAIN b = {}
                     /\ d.update \cup d.delete \subseteq DOMAIN b

Applied(b, d, g) ==
    IF d.op = "drop" THEN [t \in {} |-> "f"]
    ELSE [t \in (DOMAIN b \cup d.insert) \ d.delete |->
             IF t \in d.insert \cup d.update THEN FileOf(g, t) ELSE b[t]]

\* The statements of a request in order, up to the first one that fails.
Ran(so, d, g) ==
    IF ~so.ok THEN so
    ELSE IF Accepts(so.bundle, d, g) THEN [bundle |-> Applied(so.bundle, d, g), ok |-> TRUE]
    ELSE [bundle |-> so.bundle, ok |-> FALSE]

Run(b, ddls, g) ==
    LET after[n \in 0..Len(ddls)] ==
            IF n = 0 THEN [bundle |-> b, ok |-> TRUE] ELSE Ran(after[n - 1], ddls[n], g)
    IN after[Len(ddls)]

-----------------------------------------------------------------------------
(* The session.                                                            *)

NoCache == [valid |-> FALSE, bundle |-> [t \in {} |-> "f"]]
Quiet == [op |-> "none", ok |-> TRUE, up |-> {}, del |-> {}]
NoBatch == [kind |-> "none", queue |-> <<>>]

ProtoInit ==
    /\ paths = <<>> /\ graph = Empty
    /\ ddlBatch = NoBatch /\ cache = NoCache /\ outside = 0 /\ last = Quiet
    /\ bundle \in {[t \in {} |-> "f"], [t \in {"A"} |-> "f"], [t \in {"B"} |-> "g"]}

Said(op, ok) == last' = [Quiet EXCEPT !.op = op, !.ok = ok]
Keep == UNCHANGED <<ddlBatch, bundle, cache, outside>>

\* installProtoDescriptorsFromFilePath, at startup and for SET: all the files
\* are merged, then the candidate is validated, then both are assigned.
Loaded(list) ==
    LET upTo[n \in 0..Len(list)] == IF n = 0 THEN Empty ELSE Merge(upTo[n - 1], Disk[list[n]])
    IN upTo[Len(list)]

Installable(list) == ToSet(list) \subseteq Readable /\ Valid(Loaded(list))

SetFilePath(list) ==
    /\ IF Installable(list)
       THEN paths' = list /\ graph' = Loaded(list) /\ Said("set", TRUE)
       ELSE UNCHANGED local /\ Said("set", FALSE)
    /\ Keep

\* SET PROTO_DESCRIPTORS_FILE_PATH += path
AddCandidate(p) == Merge(graph, Disk[p])

AddFilePath(p) ==
    /\ Len(paths) < MaxPaths
    /\ CASE \E i \in DOMAIN paths : paths[i] = p -> UNCHANGED local /\ Said("add", TRUE)
         [] OTHER ->
              IF p \in Readable /\ Valid(AddCandidate(p))
              THEN /\ paths' = Append(paths, p) /\ graph' = AddCandidate(p)
                   /\ Said("add", TRUE)
              ELSE UNCHANGED local /\ Said("add", FALSE)
    /\ Keep

\* SET PROTO_DESCRIPTORS replaces the graph and forgets the files; it is
\* refused while a batch is open.
SetDescriptors(g) ==
    /\ IF ddlBatch.kind = "none" /\ Valid(g)
       THEN paths' = <<>> /\ graph' = g /\ Said("set", TRUE)
       ELSE UNCHANGED local /\ Said("set", FALSE)
    /\ Keep

-----------------------------------------------------------------------------
(* SYNC PROTO BUNDLE.                                                      *)

\* The statement is a list of clauses; RECURSIVE belongs to one UPSERT.
Upsert(recursive, names) == [op |-> "upsert", recursive |-> recursive, names |-> names]
Delete(names) == [op |-> "delete", recursive |-> FALSE, names |-> names]
Clauses(roots, plain, gone) == <<Upsert(TRUE, roots), Upsert(FALSE, plain), Delete(gone)>>

\* expandRecursiveProtoNames: the complete types lexically under the root.
Expanded(c) ==
    IF c.recursive THEN (UNION {Nested(t) : t \in c.names}) \cap CompleteIn(graph)
    ELSE c.names
Resolved(clauses, op) ==
    UNION {Expanded(clauses[i]) : i \in {j \in DOMAIN clauses : clauses[j].op = op}}

\* composeProtoBundleDDLs, against the remote descriptors it was given.
Composed(fds, up, del) ==
    LET have == CompleteIn(fds)
    IN CASE DOMAIN fds = {} ->
              IF up = {} THEN <<>> ELSE <<Ddl("create", up, {}, {})>>
         [] DOMAIN fds # {} /\ up = {} /\ have \subseteq del ->
              <<Ddl("drop", {}, {}, {})>>
         [] OTHER ->
              IF up = {} /\ del \cap have = {} THEN <<>>
              ELSE <<Ddl("alter", up \ have, up \cap have, del \cap have)>>

\* GetDatabaseSchema answers from the cache while it is valid.
Known == IF cache.valid THEN cache.bundle ELSE bundle

\* A request bumps the schema generation, whether or not it succeeds, so the
\* next answer is fetched; no statements, no request.
Bumped(ddls, ok) == ddls # <<>>

Execute(ddls) ==
    LET run == Run(bundle, ddls, graph)
    IN /\ bundle' = run.bundle
       /\ cache' = [valid |-> ~Bumped(ddls, run.ok), bundle |-> Known]

SyncRefused(clauses) ==
    \/ \E i \in DOMAIN clauses :
          clauses[i].recursive /\ ~(clauses[i].names \subseteq CompleteIn(graph))
    \/ Resolved(clauses, "upsert") \cap Resolved(clauses, "delete") # {}

Sync(clauses) ==
    LET up == Resolved(clauses, "upsert")
        del == Resolved(clauses, "delete")
        ddls == Composed(RemoteGraph(Known), up, del)
        Report(ok) == last' = [op |-> IF ddlBatch.kind = "none" THEN "sync" ELSE "queue",
                               ok |-> ok, up |-> up, del |-> del]
    IN /\ UNCHANGED <<local, outside>>
       /\ CASE SyncRefused(clauses) ->
                 Said("refused", FALSE) /\ UNCHANGED <<ddlBatch, bundle, cache>>
            [] ddlBatch.kind = "dml" /\ ~SyncRefused(clauses) ->
                 /\ Said("refused", FALSE) /\ UNCHANGED <<ddlBatch, bundle>>
                 /\ cache' = [valid |-> TRUE, bundle |-> Known]
            [] ddlBatch.kind = "ddl" /\ ~SyncRefused(clauses) ->
                 /\ Len(ddlBatch.queue \o ddls) <= MaxQueue
                 /\ ddlBatch' = [ddlBatch EXCEPT !.queue = @ \o ddls]
                 /\ cache' = [valid |-> TRUE, bundle |-> Known]
                 /\ UNCHANGED bundle /\ Report(TRUE)
            [] OTHER ->
                 /\ Execute(ddls) /\ UNCHANGED ddlBatch
                 /\ Report(Run(bundle, ddls, graph).ok)

StartBatch(kind) ==
    /\ ddlBatch.kind = "none"
    /\ ddlBatch' = [kind |-> kind, queue |-> <<>>] /\ last' = Quiet
    /\ UNCHANGED <<local, bundle, cache, outside>>

\* RUN BATCH sends the descriptors the session has now.
RunBatch ==
    /\ ddlBatch.kind # "none"
    /\ Execute(ddlBatch.queue) /\ ddlBatch' = NoBatch
    /\ Said("run", Run(bundle, ddlBatch.queue, graph).ok)
    /\ UNCHANGED <<local, outside>>

-----------------------------------------------------------------------------
(* PULL REMOTE PROTO, from a fresh answer.                                 *)

\* choosePullFile: remote files first, then local ones; then the closure of
\* the imports.
FileFrom(remote, x) == IF x \in DOMAIN remote THEN remote[x] ELSE graph[x]

Closure(remote, files) ==
    Found(files, [x \in FileNames |->
                     IF x \in DOMAIN remote \cup DOMAIN graph THEN FileFrom(remote, x).imports
                     ELSE {}])

Incoming(remote, names) ==
    LET files == Closure(remote, {FileOf(remote, t) : t \in names})
    IN [x \in files |-> FileFrom(remote, x)]

Conflict(in) ==      \* rejectTypeFileIdentityConflicts
    \E t \in DeclaredIn(in) \cap DeclaredIn(graph) :
        \E x \in DOMAIN in, y \in DOMAIN graph :
            x # y /\ t \in Declared(in, x) /\ t \in Declared(graph, y)

\* Mutant: a type that becomes a placeholder is not missed.
Loses_Removed(candidate) == ~(CompleteIn(graph) \subseteq DeclaredIn(candidate))
Loses(candidate) ==  \* rejectPullDeletionOrDowngrade
    ~(CompleteIn(graph) \subseteq CompleteIn(candidate))

PullRefused(remote, names) ==
    \/ ddlBatch.kind # "none"
    \/ ~(names \subseteq CompleteIn(remote))
    \/ ~(Closure(remote, {FileOf(remote, t) : t \in names})
            \subseteq DOMAIN remote \cup DOMAIN graph)
    \/ Conflict(Incoming(remote, names))
    \/ Loses(Merge(graph, Incoming(remote, names)))
    \/ ~Valid(Merge(graph, Incoming(remote, names)))

\* The rows are written first, and the graph is installed only then.
Installed(written) == written

Pull(names, written) ==
    LET remote == RemoteGraph(bundle)
        candidate == Merge(graph, Incoming(remote, names))
    IN /\ IF PullRefused(remote, names)
          THEN UNCHANGED local /\ Said("pull", FALSE)
          ELSE /\ IF Installed(written) /\ candidate # graph
                  THEN graph' = candidate /\ paths' = <<>>
                  ELSE UNCHANGED local
               /\ last' = [op |-> "pull", ok |-> written, up |-> names, del |-> {}]
       /\ Keep

PullAll(written) == Pull(CompleteIn(RemoteGraph(bundle)), written)

-----------------------------------------------------------------------------
(* renderDumpDDL: SET PROTO_DESCRIPTORS before the DDL that creates the    *)
(* bundle, if the answer holds every type of it.                           *)

\* createProtoBundleTypeNames: the types the exported DDL names.
BundleTypes == DOMAIN bundle

Preambled(answer) == BundleTypes \subseteq CompleteIn(answer) /\ Valid(answer)

\* The types that replaying the dump into an empty database would not bring
\* back: SET PROTO_DESCRIPTORS, then CREATE PROTO BUNDLE.
LostOnReplay(answer) ==
    LET created == Run([t \in {} |-> "f"], <<Ddl("create", DOMAIN bundle, {}, {})>>, answer)
    IN IF ~Valid(answer) \/ ~created.ok THEN DOMAIN bundle
       ELSE {t \in DOMAIN bundle : created.bundle[t] # bundle[t]}

\* The answer may lack its descriptors, or a file of them.
DumpWithBundle(answer) ==
    /\ last' = [op |-> "dump", ok |-> Preambled(answer),
                up |-> DOMAIN bundle, del |-> LostOnReplay(answer)]
    /\ UNCHANGED <<local, ddlBatch, bundle, cache, outside>>

\* SHOW REMOTE PROTO and SHOW CREATE read through the cache, which ages.
ShowRemote ==
    /\ cache' = [valid |-> TRUE, bundle |-> Known] /\ last' = Quiet
    /\ UNCHANGED <<local, ddlBatch, bundle, outside>>

CacheExpires ==
    /\ cache.valid /\ cache' = NoCache /\ last' = Quiet
    /\ UNCHANGED <<local, ddlBatch, bundle, outside>>

OutsideChange(d) ==
    /\ outside < MaxOutside /\ outside' = outside + 1
    /\ Accepts(bundle, d, Loaded(<<"p2", "p3">>))
    /\ bundle' = Applied(bundle, d, Loaded(<<"p2", "p3">>))
    /\ last' = Quiet
    /\ UNCHANGED <<local, ddlBatch, cache>>

Lists == {<<>>} \cup {<<p>> : p \in Paths}
         \cup {l \in Readable \X Readable : MaxPaths >= 2 /\ l[1] # l[2]}

Answers ==
    LET whole == RemoteGraph(bundle)
    IN {[x \in files |-> whole[x]] : files \in SUBSET DOMAIN whole}

\* The result was shown.
Prompt == last # Quiet /\ last' = Quiet /\ UNCHANGED <<local, ddlBatch, bundle, cache, outside>>

Statement ==
    \/ \E list \in Lists : SetFilePath(list)
    \/ \E p \in Paths : AddFilePath(p)
    \/ \E p \in Readable : SetDescriptors(Disk[p])
    \/ \E roots, plain, gone \in SUBSET Types :
          /\ Cardinality(roots) + Cardinality(plain) + Cardinality(gone) \in 1..2
          /\ Sync(Clauses(roots, plain, gone))
    \/ \E kind \in {"ddl", "dml"} : StartBatch(kind)
    \/ RunBatch
    \/ \E names \in (SUBSET Types) \ {{}}, written \in BOOLEAN : Pull(names, written)
    \/ \E written \in BOOLEAN : PullAll(written)
    \/ \E answer \in Answers : DumpWithBundle(answer)
    \/ ShowRemote \/ CacheExpires
    \/ \E t \in Types : OutsideChange(Ddl("alter", {t}, {}, {}))
                        \/ OutsideChange(Ddl("alter", {}, {}, {t}))

ProtoNext == (last = Quiet /\ Statement) \/ Prompt

ProtoSpec == ProtoInit /\ [][ProtoNext]_protoVars

-----------------------------------------------------------------------------
ProtoTypeOK ==
    /\ Len(paths) <= MaxPaths /\ \A i \in DOMAIN paths : paths[i] \in Readable
    /\ DOMAIN graph \subseteq {"f", "g"} /\ Valid(graph)
    /\ ddlBatch.kind \in {"none", "ddl", "dml"}
    /\ ddlBatch.kind # "ddl" => ddlBatch.queue = <<>>
    /\ DOMAIN bundle \subseteq Types
    /\ cache.valid \in BOOLEAN /\ outside \in 0..MaxOutside
    /\ last.ok \in BOOLEAN

\* The files that PROTO_DESCRIPTORS_FILE_PATH names are in the graph, each in
\* the version of the last path that has it, after any sequence of SET, ADD,
\* SET PROTO_DESCRIPTORS and PULL.
PathsAreLoaded ==
    \A x \in DOMAIN Loaded(paths) : x \in DOMAIN graph /\ graph[x] = Loaded(paths)[x]

\* A statement that failed, also one whose rows could not be written, left the
\* graph and the file list alone.
FailedKeepsGraph == ~last'.ok => UNCHANGED local

\* PULL never loses a complete local type nor moves it to another file, and
\* when it says OK every type it names is complete here as it is remotely.
PullOnlyAdds ==
    last'.op = "pull" =>
      /\ \A x \in DOMAIN graph : \A t \in graph[x].complete :
            x \in DOMAIN graph' /\ t \in graph'[x].complete
      /\ last'.ok => \A t \in last'.up : bundle[t] \in DOMAIN graph'
                        /\ t \in graph'[bundle[t]].complete

\* SYNC reaches exactly the bundle it was asked for, in one request, whenever
\* the local graph has the types and the remote state it composed against is
\* the one the request meets.
SyncIsExact ==
    last'.op = "sync" /\ Known = bundle /\ last'.up \subseteq CompleteIn(graph) =>
      /\ last'.ok
      /\ DOMAIN bundle' = (DOMAIN bundle \cup last'.up) \ last'.del
      /\ \A t \in last'.up : bundle'[t] = FileOf(graph, t)

\* The first SYNC after a statement of this session changed the bundle does
\* not compose against what was cached before it.
OwnChangeIsSeen == cache.valid /\ outside = 0 => cache.bundle = bundle

\* A schema dump that succeeds brings the bundle back when it is replayed, each
\* type from its own file, whatever part of the descriptors the answer had.
DumpedBundleReplays == last.op = "dump" /\ last.ok => last.del = {}

\* The graph, the file list, the cache and a dump agree with what they stand
\* for.
ProtoSound == ProtoTypeOK /\ PathsAreLoaded /\ OwnChangeIsSeen /\ DumpedBundleReplays

\* What a statement may do to the local graph and the remote bundle.
ProtoStep == FailedKeepsGraph /\ PullOnlyAdds /\ SyncIsExact
ProtoSteps == [][ProtoStep]_protoVars

\* The client's descriptors and the bundle are what the statements made them.
BundleSound == []ProtoSound /\ ProtoSteps

=============================================================================
