---------------------------- MODULE MCStatements ----------------------------
(***************************************************************************)
(* One TLC run for the modules about the course of one statement: an       *)
(* implicit DML statement, a query, a partitioned query, the token of a    *)
(* partition, a statement's output, the calls of an MCP session.           *)
(*                                                                         *)
(* The modules share no state, so a behaviour exercises one of them, its   *)
(* part, and the variables of the others keep a first value.               *)
(***************************************************************************)
EXTENDS ImplicitDml, McpServer, Sequences

CONSTANTS c1, c2, d1, d2,
          MaxRows, MaxPipe, PreviewRows, MaxRetries, MaxJournal,
          PartitionCount, PartitionRows, Parallelism,
          Validity, Skew, MaxTime

\* A pool has a worker, a token is good for some time, and NoToken is of no
\* database.
ASSUME StatementsAssumption ==
    /\ {MaxRows, MaxPipe, PreviewRows, MaxRetries, MaxJournal, PartitionCount, PartitionRows,
        Skew, MaxTime} \subseteq Nat
    /\ {Parallelism, Validity} \subseteq Nat \ {0}
    /\ "none" \notin {d1, d2}

VARIABLES
    part,
    \* StatementOutput
    outPc, tee, files, to, sink, pager, pipe, spinner, outCancelled, written, shown, filed,
    outResult,
    \* QueryExecution
    queryPc, owner, query, token, iter, total, rows, held, queryShown, presented, exec,
    queryErr, frozen, tag, sent, cache, answer,
    \* PartitionedQuery
    mode, size, left, worker, sub, next, closed, ctx, cancel, cons, got, md, mdSeen, partResult,
    \* PartitionToken
    now, ahead, partToken, made, session, outcome

Out == INSTANCE StatementOutput
       WITH pc <- outPc, cancelled <- outCancelled, result <- outResult
Query == INSTANCE QueryExecution
         WITH pc <- queryPc, stmt <- query, shown <- queryShown, err <- queryErr
Part == INSTANCE PartitionedQuery
        WITH N <- PartitionCount, MaxRows <- PartitionRows, result <- partResult
Token == INSTANCE PartitionToken
         WITH Databases <- {d1, d2}, token <- partToken

outVars == <<outPc, tee, files, to, sink, pager, pipe, spinner, outCancelled, written, shown,
             filed, outResult>>
queryVars == <<queryPc, owner, query, token, iter, total, rows, held, queryShown, presented,
               exec, queryErr, frozen, tag, sent, cache, answer>>
partVars == <<mode, size, left, worker, sub, next, closed, ctx, cancel, cons, got, md, mdSeen,
              partResult>>
tokenVars == <<now, ahead, partToken, made, session, outcome>>
allVars == <<part, vars, outVars, queryVars, partVars, tokenVars, mcpVars>>

-----------------------------------------------------------------------------

Parts == {"dml", "output", "query", "partitions", "token", "mcp"}

StatementsInit ==
    /\ part \in Parts
    /\ Init /\ Out!Init /\ Query!Init
    /\ Part!Init /\ (part # "partitions" =>
                        mode = "stream" /\ size = [p \in 1..PartitionCount |-> 0])
    /\ Token!Init /\ (part # "token" =>
                        ahead = 0 /\ session = [db |-> d1, txn |-> FALSE, batch |-> FALSE])
    /\ McpInit /\ (part # "mcp" => kind = [c \in Calls |-> "statement"])

StatementsNext ==
    \/ /\ part = "dml" /\ Next
       /\ UNCHANGED <<part, outVars, queryVars, partVars, tokenVars, mcpVars>>
    \/ /\ part = "output" /\ Out!Next
       /\ UNCHANGED <<part, vars, queryVars, partVars, tokenVars, mcpVars>>
    \/ /\ part = "query" /\ Query!Next
       /\ UNCHANGED <<part, vars, outVars, partVars, tokenVars, mcpVars>>
    \/ /\ part = "partitions" /\ Part!Next
       /\ UNCHANGED <<part, vars, outVars, queryVars, tokenVars, mcpVars>>
    \/ /\ part = "token" /\ Token!Next
       /\ UNCHANGED <<part, vars, outVars, queryVars, partVars, mcpVars>>
    \/ /\ part = "mcp" /\ McpNext
       /\ UNCHANGED <<part, vars, outVars, queryVars, partVars, tokenVars>>

\* Each module's own fairness.
StatementsFairness ==
    /\ WF_vars(part = "dml" /\ Step)
    /\ WF_outVars(part = "output" /\ Out!Cli)
    /\ WF_outVars(part = "output" /\ Out!PagerKilled)
    /\ WF_queryVars(part = "query" /\ Query!Query)
    /\ WF_partVars(part = "partitions" /\ Part!Submitter)
    /\ WF_partVars(part = "partitions" /\ Part!Consumer)
    /\ \A p \in 1..PartitionCount : WF_partVars(part = "partitions" /\ Part!Worker(p))
    /\ \A c \in Calls :
        /\ SF_mcpVars(part = "mcp" /\ Enter(c))
        /\ WF_mcpVars(part = "mcp" /\ (Leave(c) \/ Refuse(c) \/ BeginCall(c) \/ EndStatement(c)))

StatementsSpec == StatementsInit /\ [][StatementsNext]_allVars /\ StatementsFairness

-----------------------------------------------------------------------------
\* The properties of the modules that are not extended, under names of their
\* own; the modules say what they mean.

OutputSound == part = "output" => Out!OutputSound
QuerySound == part = "query" => Query!QuerySound
QuerySteps == [][part = "query" => Query!QueryStep]_queryVars
PartitionsSound ==
    /\ part = "partitions" => Part!PartitionedQuerySound
    /\ part = "token" => Token!PartitionTokenSound

\* Whatever is in progress ends: a DML statement, a cancelled output, a query, a
\* partitioned query, and every MCP call.
StatementsEnd ==
    /\ StatementEnds
    /\ Out!CancelEnds
    /\ Query!QueryEnds
    /\ part = "partitions" => Part!QueryReturns
    /\ part = "mcp" => EveryCallAnswered
=============================================================================
