----------------------------- MODULE CliSession -----------------------------
(***************************************************************************)
(* The session of the program and the statements that replace it: USE, \u, *)
(* DETACH, the client that is recreated after an ABORTED, and Close, from  *)
(* each of the front ends (interactive loop, SOURCE, batch input, startup  *)
(* SQL, MCP), with the caches that outlive a session or a schema change.   *)
(*                                                                         *)
(* A client, an admin client or a feature's state is a handle, numbered in *)
(* the order of its creation; a session has the number it was created      *)
(* with.  How owners live and die is OwnerLifetime's.                      *)
(***************************************************************************)
EXTENDS Naturals, FiniteSets

CONSTANTS
    Databases,      \* names of databases
    MaxHandles,     \* bound: numbers given to sessions and handles
    MaxVersion      \* bound: schema changes

VARIABLES
    pc,         \* where the CLI goroutine is
    front,      \* the loop that reads statements
    session,    \* SessionHandler.Session
    cand,       \* the candidate of switchSession
    live,       \* systemVariables.Connection and the live callbacks
    open,       \* handles that are open
    next,       \* the next number
    owner,      \* session.txn.tc, as far as a switch asks
    batch,      \* a manual or an automatic batch has statements
    undo,       \* the session whose manager holds SET LOCAL undo, or 0
    exists,     \* databases on the server
    schema,     \* each database's schema version
    completion  \* the fuzzy finder's cached candidates

clients == <<session, cand, live, open, next>>
activity == <<owner, batch, undo>>
server == <<exists, schema>>
vars == <<pc, front, clients, activity, server, completion>>

Detached == "detached"          \* the empty database name
Roles == {"default", "reader"}
NoDdl == [gen |-> 0, version |-> 0]
NoSession == [id |-> 0, db |-> Detached, role |-> "default", client |-> 0,
              txnClient |-> 0, admin |-> 0, feature |-> 0, gen |-> 1, ddl |-> NoDdl]
NoCompletion == [session |-> 0, gen |-> 0, of |-> <<Detached, 0>>]

\* Live values as adoptSession publishes them.
Publish(s) == [db |-> s.db, role |-> s.role, bound |-> s.id]

Handles(s) == {s.client, s.admin, s.feature} \ {0}

TypeOK ==
    /\ pc \in {"prompt", "dial", "dialAdmin", "check", "recreate", "closing", "exited"}
    /\ front \in {"startup", "interactive", "source", "batch", "mcp"}
    /\ session.db \in Databases \cup {Detached} /\ session.role \in Roles
    /\ session.db = Detached => session.client = 0
    /\ open \subseteq 1..MaxHandles /\ next \in 1..(MaxHandles + 1)
    /\ owner \in {"none", "pending", "rw"} /\ batch \in BOOLEAN
    /\ undo \in 0..MaxHandles
    /\ exists \subseteq Databases /\ schema \in [Databases -> 0..MaxVersion]

Init ==
    /\ pc = "prompt" /\ front = "startup"
    /\ \E db \in Databases \cup {Detached} :
          session = [NoSession EXCEPT !.id = 1, !.db = db, !.admin = 2,
                        !.client = IF db = Detached THEN 0 ELSE 3,
                        !.txnClient = IF db = Detached THEN 0 ELSE 3]
    /\ cand = NoSession /\ live = Publish(session)
    /\ open = Handles(session) /\ next = 4
    /\ owner = "none" /\ batch = FALSE /\ undo = 0
    /\ exists = Databases /\ schema = [d \in Databases |-> 0]
    /\ completion = NoCompletion

Room(n) == next + n <= MaxHandles + 1

----------------------------------------------------------------------------
\* How a statement ends

Done == pc' = "prompt" /\ UNCHANGED front

\* An error ends a SOURCE, batch input and startup SQL, and nothing else.
Failed ==
    /\ pc' = IF front \in {"startup", "batch"} THEN "closing" ELSE "prompt"
    /\ front' = IF front = "source" THEN "interactive" ELSE front

\* The owner a statement leaves; Session.executeStatement drains detached
\* LOCAL undo before and after the statement's own work.
Leaves(o) == owner' = o /\ undo' = IF o = "none" THEN 0 ELSE undo

----------------------------------------------------------------------------
\* Front ends

\* After startup SQL; RunInteractive and RunMCP ask whether the database is
\* there, where there is one, and MCP wants one.
Start ==
    /\ pc = "prompt" /\ front = "startup"
    /\ \/ front' = "batch" /\ UNCHANGED pc
       \/ front' = "interactive" /\ UNCHANGED pc /\ session.db \in exists \cup {Detached}
       \/ front' = "mcp" /\ UNCHANGED pc /\ session.db \in exists
       \/ pc' = "closing" /\ UNCHANGED front
    /\ UNCHANGED <<clients, activity, server, completion>>

\* executeSourceFile, and the end of the file.
Source ==
    /\ pc = "prompt"
    /\ \/ front = "interactive" /\ front' = "source"
       \/ front = "source" /\ front' = "interactive"
    /\ UNCHANGED <<pc, clients, activity, server, completion>>

\* EXIT: SOURCE skips it, startup SQL refuses it, MCP has no use for it.
Exit ==
    /\ pc = "prompt" /\ front \in {"startup", "interactive", "batch", "mcp"}
    /\ pc' = "closing"
    /\ UNCHANGED <<front, clients, activity, server, completion>>

\* Session.Close: the transaction context, LOCAL values, clients, features.
Retire(s, more) ==
    /\ open' = (open \cup more) \ Handles(s)
    /\ owner' = "none" /\ batch' = FALSE
    /\ undo' = IF undo = s.id THEN 0 ELSE undo

CloseCli ==
    /\ pc = "closing" /\ pc' = "exited"
    /\ Retire(session, {})
    /\ UNCHANGED <<front, session, cand, live, next, server, completion>>

----------------------------------------------------------------------------
\* Ordinary statements, as far as they matter to a switch

Statement == pc = "prompt" /\ Done /\ UNCHANGED <<cand, live>>

\* BEGIN needs a database; SET LOCAL needs an owner.
Begin ==
    /\ Statement /\ session.client # 0 /\ owner = "none"
    /\ Leaves("pending") \/ Leaves("rw")
    /\ UNCHANGED <<session, open, next, batch, server, completion>>

SetLocal ==
    /\ Statement /\ owner # "none" /\ undo' = session.id
    /\ UNCHANGED <<session, open, next, owner, batch, server, completion>>

EndOwner ==
    /\ Statement /\ owner # "none" /\ Leaves("none")
    /\ UNCHANGED <<session, open, next, batch, server, completion>>

\* The idle timer retires the owner between statements; its LOCAL values
\* stay until the CLI goroutine drains them.
IdleExpires ==
    /\ pc = "prompt" /\ owner # "none" /\ owner' = "none"
    /\ UNCHANGED <<pc, front, clients, batch, undo, server, completion>>

Batch ==
    /\ Statement /\ session.client # 0 /\ Leaves(owner)
    /\ batch' = ~batch
    /\ UNCHANGED <<session, open, next, server, completion>>

\* FeatureState: built once for a session; a failed build is tried again.
UseFeature ==
    /\ Statement /\ Leaves(owner)
    /\ session.feature = 0 /\ Room(1)
    /\ session' = [session EXCEPT !.feature = next]
    /\ open' = open \cup {next} /\ next' = next + 1
    /\ UNCHANGED <<batch, server, completion>>

----------------------------------------------------------------------------
\* USE and DETACH

\* switchSession: the identity of the candidate is a copy of the live one.
Wanted(db, role) ==
    /\ cand' = [NoSession EXCEPT !.id = next, !.db = db, !.role = role]
    /\ next' = next + 1
    /\ UNCHANGED live

\* validateSessionSwitch
SwitchAllowed == owner = "none" /\ ~batch

\* handleUse, handleDetach.  The idle notice is consumed, LOCAL undo is not
\* drained: this does not pass through Session.executeStatement.
Switch ==
    /\ pc = "prompt"
    /\ IF SwitchAllowed
       THEN /\ Room(3) /\ pc' = "dial" /\ UNCHANGED front
            /\ \E db \in Databases, r \in Roles : Wanted(db, r) \/ Wanted(Detached, "default")
       ELSE Failed /\ UNCHANGED <<cand, live, next>>
    /\ UNCHANGED <<session, open, activity, server, completion>>

\* candidate.Close, and the error.
DropCandidate ==
    /\ Failed /\ cand' = NoSession /\ open' = open \ Handles(cand)

\* createSessionWithIdentity: a detached session has no data client.
NeedsClient(s) == s.db # Detached

\* newSessionWithFactories and newAdminSessionWithFactories.
Dial ==
    /\ pc = "dial"
    /\ \/ ~NeedsClient(cand) /\ pc' = "dialAdmin" /\ UNCHANGED <<front, cand, open, next>>
       \/ /\ NeedsClient(cand) /\ pc' = "dialAdmin" /\ UNCHANGED front
          /\ cand' = [cand EXCEPT !.client = next, !.txnClient = next]
          /\ open' = open \cup {next} /\ next' = next + 1
       \/ NeedsClient(cand) /\ DropCandidate /\ UNCHANGED next
    /\ UNCHANGED <<session, live, activity, server, completion>>

\* Mutant: the client is forgotten when the admin client is not to be had.
DialAdmin_Leaks ==
    /\ pc = "dialAdmin"
    /\ \/ /\ pc' = "check" /\ UNCHANGED front
          /\ cand' = [cand EXCEPT !.admin = next]
          /\ open' = open \cup {next} /\ next' = next + 1
       \/ Failed /\ cand' = NoSession /\ UNCHANGED <<open, next>>
    /\ UNCHANGED <<session, live, activity, server, completion>>

DialAdmin ==
    /\ pc = "dialAdmin"
    /\ \/ /\ pc' = "check" /\ UNCHANGED front
          /\ cand' = [cand EXCEPT !.admin = next]
          /\ open' = open \cup {next} /\ next' = next + 1
       \/ DropCandidate /\ UNCHANGED next
    /\ UNCHANGED <<session, live, activity, server, completion>>

\* adoptSession: the old session is closed, the candidate published.
Adopt ==
    /\ Done /\ Retire(session, {})
    /\ session' = cand /\ live' = Publish(cand) /\ cand' = NoSession

\* DatabaseExists (which may fail, by permission or deadline) for USE,
\* InstanceExists for DETACH.
Check ==
    /\ pc = "check"
    /\ \/ cand.db \in exists \cup {Detached} /\ Adopt
       \/ DropCandidate /\ UNCHANGED <<session, live, activity>>
    /\ UNCHANGED <<next, server, completion>>

----------------------------------------------------------------------------
\* The client after an ABORTED

\* Cli.executeStatement: a statement ends ABORTED; an owner that SAVEPOINT
\* recovery keeps makes it go no further.
Abort ==
    /\ pc = "prompt" /\ session.client # 0
    /\ \/ Leaves("none") /\ pc' = "recreate" /\ UNCHANGED front
       \/ owner = "rw" /\ Leaves("rw") /\ Failed
    /\ UNCHANGED <<clients, batch, server, completion>>

\* SetClient and the swap.
Recreated(c) == [session EXCEPT !.client = c, !.txnClient = c]

\* RecreateClient; no owner is live.
Recreate ==
    /\ pc = "recreate" /\ Failed
    /\ \/ /\ Room(1) /\ next' = next + 1
          /\ session' = Recreated(next)
          /\ open' = (open \cup {next}) \ {session.client}
       \/ UNCHANGED <<session, open, next>>
    /\ UNCHANGED <<cand, live, activity, server, completion>>

----------------------------------------------------------------------------
\* Databases, schemas and the caches.  What other clients change is seen
\* when an entry's time is over, and is left out.

\* DROP DATABASE: the interactive loop refuses the database in use; a script
\* or another client does not.
DropDatabase ==
    /\ Statement /\ Leaves(owner)
    /\ \E d \in exists :
          /\ front = "interactive" => live.db # d
          /\ exists' = exists \ {d}
    /\ UNCHANGED <<session, open, next, batch, schema, completion>>

DroppedElsewhere ==
    /\ \E d \in exists : exists' = exists \ {d}
    /\ UNCHANGED <<pc, front, clients, activity, schema, completion>>

\* A schema change of this session, waited for; its generation moves.
ChangeSchema ==
    /\ Statement /\ Leaves(owner)
    /\ session.db \in exists /\ schema[session.db] < MaxVersion
    /\ schema' = [schema EXCEPT ![session.db] = @ + 1]
    /\ session' = [session EXCEPT !.gen = @ + 1]
    /\ UNCHANGED <<open, next, batch, exists, completion>>

\* GetDatabaseDdlCached: asks again when DDL of this session came between.
DdlValid == session.ddl.gen = session.gen

ReadDdl ==
    /\ Statement /\ Leaves(owner)
    /\ session.db \in exists /\ ~DdlValid
    /\ session' = [session EXCEPT !.ddl = [gen |-> session.gen,
                                          version |-> schema[session.db]]]
    /\ UNCHANGED <<open, next, batch, server, completion>>

\* fuzzyCacheEntry.valid
CompletionValid == completion.session = session.id /\ completion.gen = session.gen

\* resolveCandidates: a schema query when the entry is not valid.
Complete ==
    /\ pc = "prompt" /\ front = "interactive" /\ session.db \in exists
    /\ ~CompletionValid
    /\ completion' = [session |-> session.id, gen |-> session.gen,
                      of |-> <<session.db, schema[session.db]>>]
    /\ UNCHANGED <<pc, front, clients, activity, server>>

----------------------------------------------------------------------------

Terminated == pc = "exited" /\ UNCHANGED vars

Next ==
    \/ Start \/ Source \/ Exit \/ CloseCli
    \/ Begin \/ SetLocal \/ EndOwner \/ IdleExpires \/ Batch \/ UseFeature
    \/ Switch \/ Dial \/ DialAdmin \/ Check
    \/ Abort \/ Recreate
    \/ DropDatabase \/ DroppedElsewhere \/ ChangeSchema \/ ReadDdl \/ Complete
    \/ Terminated

Spec == Init /\ [][Next]_vars

----------------------------------------------------------------------------

\* Nothing is open but what the session and the candidate hold, and all they
\* hold is open, until the program has exited and everything is closed.
HandlesAccounted ==
    IF pc = "exited" THEN open = {}
    ELSE open = Handles(session) \cup Handles(cand)

\* Connection variables, callbacks, session and transaction manager are of
\* one session at every prompt, whichever switches failed (adoptSession,
\* SetClient).
OneIdentity ==
    pc # "exited" => live = Publish(session) /\ session.txnClient = session.client

\* No LOCAL value is left to a manager that no statement drains any more:
\* the old session's undo is applied when it is retired.
UndoReachable == undo \in {0, session.id}

\* A transaction, pending ones included, or a batch is never dropped by a
\* change of session.
SwitchLosesNothing ==
    session'.id # session.id => owner = "none" /\ ~batch

\* Neither completion nor SHOW CREATE answers with the schema of another
\* database, or with one from before this session's DDL, whatever was cached
\* (fuzzyCacheEntry.valid, GetDatabaseDdlCached).
CachesCurrent ==
    session.db \in Databases =>
        /\ CompletionValid => completion.of = <<session.db, schema[session.db]>>
        /\ DdlValid => session.ddl.version = schema[session.db]

\* The interactive DROP DATABASE never drops the database of the session.
KeepsOwnDatabase ==
    DropDatabase /\ front = "interactive" /\ session.db \in exists
      => session.db \in exists'

\* One identity, no handle lost, no cache of another session, whichever step
\* of a switch failed.
SessionSound ==
    TypeOK /\ HandlesAccounted /\ OneIdentity /\ UndoReachable /\ CachesCurrent

\* What a change of session may never drop.
SessionStep == SwitchLosesNothing /\ KeepsOwnDatabase

=============================================================================
