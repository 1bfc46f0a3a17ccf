--------------------------- MODULE MCSavepointOwner ---------------------------
(***************************************************************************)
(* Small instances of SavepointOwner, and its refinement of                *)
(* NestedTransaction: the journal is the work, the automatic queue (also   *)
(* one that a retried flush has taken) is the queue, a marker stands for   *)
(* the journal's prefix up to its position.                                *)
(***************************************************************************)
EXTENDS SavepointOwner

Work == Batches(tc.entries)
Queue == CASE tc.recovering -> <<>> [] held # <<>> -> held [] OTHER -> tc.autoDML
Snapshots ==
    [i \in DOMAIN tc.marks |->
        [name |-> tc.marks[i].name, work |-> SubSeq(Work, 1, tc.marks[i].pos)]]

Nested == INSTANCE NestedTransaction WITH
    Statements <- Ops,
    request <- st.kind,
    inTxn <- InTxn,
    broken <- tc.recovering,
    work <- Work,
    queue <- Queue,
    marks <- Snapshots,
    durable <- durable

NestedSpec == Nested!Spec

==============================================================================
