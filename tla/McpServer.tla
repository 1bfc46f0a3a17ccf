------------------------------- MODULE McpServer -------------------------------
(***************************************************************************)
(* The execute_statement tool of --mcp: concurrent calls pass a gate one   *)
(* at a time, a cancelled call leaves the queue, and what a call's         *)
(* statement writes is captured up to a limit.                             *)
(*                                                                         *)
(* The MCP library delivers each call on a goroutine of its own, cancels   *)
(* its context when the client withdraws it, and sends the returned result.*)
(***************************************************************************)
EXTENDS Naturals, FiniteSets

CONSTANTS
    Calls,      \* the calls of one server session
    Limit,      \* mcpMaxOutputBytes
    MaxWrites   \* bound: writes of one statement

ASSUME McpAssumption == Limit \in Nat /\ MaxWrites \in Nat /\ IsFiniteSet(Calls)

\* What a call carries: a statement, a meta command by its spelling or by the
\* statement it parses to, or a line that does not parse.
Kinds == {"statement", "meta", "metaStatement", "noParse"}
Early == {"queued", "gated"}

VARIABLES
    call,      \* Calls -> where the handler is
    kind,      \* Calls -> Kinds
    done,      \* Calls -> ctx.Done
    gate,      \* the callers in the channel of capacity one
    kept,      \* bytes of the running statement captured so far
    notes,     \* truncation notices in the capture
    wrote,     \* history: bytes it wrote
    writes,    \* history: its writes
    result,    \* Calls -> the tool result
    began       \* history: Calls -> whether it was cancelled when it began

mcpVars == <<call, kind, done, gate, kept, notes, wrote, writes, result, began>>

None == [err |-> FALSE, kept |-> 0, notes |-> 0, wrote |-> 0, none |-> TRUE]
Error == [None EXCEPT !.err = TRUE, !.none = FALSE]

McpTypeOK ==
    /\ call \in [Calls -> Early \cup {"running", "answered"}]
    /\ kind \in [Calls -> Kinds] /\ done \in [Calls -> BOOLEAN]
    /\ gate \subseteq Calls
    /\ gate = {c \in Calls : call[c] \in {"gated", "running"}}
    /\ kept <= Limit /\ notes \in {0, 1} /\ wrote \in Nat /\ writes \in 0..MaxWrites
    /\ began \in [Calls -> {"no", "live", "cancelled"}]

McpInit ==
    /\ call = [c \in Calls |-> "queued"]
    /\ kind \in [Calls -> Kinds]
    /\ done = [c \in Calls |-> FALSE]
    /\ gate = {}
    /\ kept = 0 /\ notes = 0 /\ wrote = 0 /\ writes = 0
    /\ result = [c \in Calls |-> None]
    /\ began = [c \in Calls |-> "no"]

\* The client withdraws a call it has no answer to.
Withdraw(c) ==
    /\ ~done[c] /\ call[c] # "answered"
    /\ done' = [done EXCEPT ![c] = TRUE]
    /\ UNCHANGED <<call, kind, gate, kept, notes, wrote, writes, result, began>>

\* Mutant: the gate is not freed.
Answer_KeepsGate(c, r) ==
    /\ call' = [call EXCEPT ![c] = "answered"]
    /\ result' = [result EXCEPT ![c] = r]
    /\ gate' = gate

\* The handler returns; its deferred receive frees the gate.
Answer(c, r) ==
    /\ call' = [call EXCEPT ![c] = "answered"]
    /\ result' = [result EXCEPT ![c] = r]
    /\ gate' = gate \ {c}

Free == gate = {}

\* select: the gate has a slot.
Enter(c) ==
    /\ call[c] = "queued" /\ Free
    /\ call' = [call EXCEPT ![c] = "gated"]
    /\ gate' = gate \cup {c}
    /\ UNCHANGED <<kind, done, kept, notes, wrote, writes, result, began>>

\* select: ctx.Done.
Leave(c) ==
    /\ call[c] = "queued" /\ done[c]
    /\ Answer(c, Error)
    /\ UNCHANGED <<kind, done, kept, notes, wrote, writes, began>>

\* Mutant: the slot was won, and cancellation is not looked at again.
Dead_Unasked(c) == FALSE

\* ctx.Err after the gate
Dead(c) == done[c]

Runnable(c) == kind[c] = "statement"

\* A cancelled call, a meta command or a line that does not parse is answered
\* with its error, and the session is not touched.
Refuse(c) ==
    /\ call[c] = "gated" /\ (Runnable(c) => Dead(c))
    /\ Answer(c, Error)
    /\ UNCHANGED <<kind, done, kept, notes, wrote, writes, began>>

\* executeStatement, with a new capture.
BeginCall(c) ==
    /\ call[c] = "gated" /\ Runnable(c) /\ ~Dead(c)
    /\ call' = [call EXCEPT ![c] = "running"]
    /\ kept' = 0 /\ notes' = 0 /\ wrote' = 0 /\ writes' = 0
    /\ began' = [began EXCEPT ![c] = IF done[c] THEN "cancelled" ELSE "live"]
    /\ UNCHANGED <<kind, done, gate, result>>

\* mcpOutputCapture.Write: what fits is kept; the first byte that does not
\* leaves the notice, and nothing is kept after it.
Taken(n) == IF notes > 0 THEN 0 ELSE IF n <= Limit - kept THEN n ELSE Limit - kept

Noted(n) == IF notes = 0 /\ n > Limit - kept THEN 1 ELSE notes

Write(c) ==
    /\ call[c] = "running" /\ writes < MaxWrites
    /\ \E n \in 0..Limit + 1 :
        /\ kept' = kept + Taken(n)
        /\ notes' = Noted(n)
        /\ wrote' = wrote + n
    /\ writes' = writes + 1
    /\ UNCHANGED <<call, kind, done, gate, result, began>>

\* The statement succeeds, or fails, as it does when its context ends.
EndStatement(c) ==
    /\ call[c] = "running"
    /\ \/ Answer(c, [err |-> FALSE, kept |-> kept, notes |-> notes, wrote |-> wrote, none |-> FALSE])
       \/ Answer(c, Error)
    /\ UNCHANGED <<kind, done, kept, notes, wrote, writes, began>>

McpIdle == (\A c \in Calls : call[c] = "answered") /\ UNCHANGED mcpVars

Handle(c) == Enter(c) \/ Leave(c) \/ Refuse(c) \/ BeginCall(c) \/ EndStatement(c)

McpNext ==
    \/ \E c \in Calls :
        \/ Withdraw(c) \/ Enter(c) \/ Leave(c) \/ Refuse(c) \/ BeginCall(c) \/ Write(c) \/ EndStatement(c)
    \/ McpIdle

\* A goroutine runs; a channel serves its senders in turn, so one that waits
\* for the gate gets it.  That a statement ends is its own timeouts' business.
McpFairness ==
    \A c \in Calls : SF_mcpVars(Enter(c)) /\ WF_mcpVars(Leave(c) \/ Refuse(c) \/ BeginCall(c) \/ EndStatement(c))

McpSpec == McpInit /\ [][McpNext]_mcpVars
McpLiveSpec == McpSpec /\ McpFairness

----------------------------------------------------------------------------
\* Properties

\* Parsing and executing share the session: no two calls are past the gate.
OneAtATime == \A c, d \in Calls : {call[c], call[d]} \subseteq {"gated", "running"} => c = d

\* A call that was cancelled before its statement began never begins, even when
\* it wins the gate at the same moment.
CancelledNeverBegins == \A c \in Calls : began[c] # "cancelled"

\* Only a statement reaches the session: a meta command is refused by its
\* spelling and by what it parses to.
OnlyStatementsBegin == \A c \in Calls : began[c] # "no" => kind[c] = "statement"

\* A successful answer holds all that was written, or the first Limit bytes of
\* it and one notice.
AnswerIsHonest ==
    \A c \in Calls :
        (call[c] = "answered" /\ ~result[c].err) =>
            IF result[c].wrote <= Limit
            THEN result[c].kept = result[c].wrote /\ result[c].notes = 0
            ELSE result[c].kept = Limit /\ result[c].notes = 1

\* Every call is answered: a withdrawn one leaves the queue, and the rest are
\* not held up by it.
EveryCallAnswered == \A c \in Calls : <>(call[c] = "answered")

\* The calls of one session, however they are withdrawn: one at a time, only
\* what may run, and an answer that says what was written.
CallsSound ==
    /\ McpTypeOK
    /\ OneAtATime /\ CancelledNeverBegins
    /\ OnlyStatementsBegin /\ AnswerIsHonest

=============================================================================
