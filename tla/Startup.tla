------------------------------- MODULE Startup -------------------------------
(***************************************************************************)
(* One run of the program, from its flags to its exit: which flags may go  *)
(* together, where each setting comes from, the resources that are opened  *)
(* one after the other, the startup SQL, the input, and the deferred calls *)
(* that give everything back, whatever step failed.                        *)
(*                                                                         *)
(* A flag is only its name: a boolean one is given when it is true, and    *)
(* =false is as if it were absent.  The environment and the configuration  *)
(* files give the database under the names dbEnv and dbToml.               *)
(***************************************************************************)
EXTENDS Naturals, Sequences, FiniteSets, FiniteSetsExt, Functions

CONSTANT MaxFlags   \* bound: flags given besides project, dbFlag and one runtime

VARIABLES
    pc,       \* the step runWithOutput is at
    flags,    \* the flags given
    tty,      \* whether standard input is a terminal
    conf,     \* sysVars: address, insecure, database, and the last writer of a variable
    base,     \* the value of that variable RESET returns to
    loads,    \* the files of the sample database
    open,     \* what the process holds
    deferred, \* the deferred calls, the last registered one last
    ran,      \* what was executed on the session, in order
    result

vars == <<pc, flags, tty, conf, base, loads, open, deferred, ran, result>>

None == "none"

Embedded(f) == f \cap {"emulator", "omni"} # {}

Inputs == {"execute", "sql", "file", "source"}

Others ==
    Inputs \cup
    {"endpoint", "deploymentEndpoint", "host", "port", "detached", "sample", "tee", "output",
     "mcp", "insecure", "skipTls", "tls", "noAuth", "credential", "csv", "format", "set",
     "setBad", "strong", "readTimestamp", "partition", "metrics", "traces", "init", "dbEnv",
     "dbToml"}

-----------------------------------------------------------------------------
\* Flags and settings.

\* Flags no two of which, one of each side, go together.
Exclusive ==
    {<<{"strong"}, {"readTimestamp"}>>, <<{"endpoint"}, {"host", "port"}>>,
     <<{"emulator"}, {"omni"}>>, <<{"file", "source"}, {"execute", "sql"}>>,
     <<{"sample"}, {"detached"}>>, <<{"csv"}, {"format"}>>,
     <<{"tls"}, {"emulator", "omni"}>>, <<{"noAuth"}, {"credential"}>>}

InsecureAsked(f) == f \cap {"insecure", "skipTls"} # {}

EndpointGiven(f) == f \cap {"endpoint", "deploymentEndpoint", "host"} # {}

TlsValid(f) ==
    /\ "tls" \in f => EndpointGiven(f) /\ ~InsecureAsked(f)
    /\ "noAuth" \in f => "tls" \in f /\ EndpointGiven(f)

Databases == {"dbFlag", "dbEnv", "dbToml"}

ValidateSpannerOptions(f) ==
    /\ \A e \in Exclusive : f \cap e[1] = {} \/ f \cap e[2] = {}
    /\ "project" \in f \/ Embedded(f)
    /\ f \cap Databases # {} \/ "detached" \in f \/ Embedded(f)
    /\ "sample" \in f => Embedded(f)
    /\ "partition" \in f => f \cap Inputs # {}
    /\ TlsValid(f)

\* The first of the names that is given.
First(f, names) ==
    LET given == {i \in DOMAIN names : names[i] \in f}
    IN  IF given = {} THEN None ELSE names[Min(given)]

\* Of a flag, its variable in the environment and a configuration file, the
\* first one counts.
Database(f) ==
    IF "detached" \in f THEN None ELSE First(f, <<"dbFlag", "dbEnv", "dbToml">>)

\* A port alone means the local host.
Address(f) == First(f, <<"endpoint", "deploymentEndpoint", "host", "port">>)

\* applyFormatAndSetOptions: the last writer of the output format.
Format(f) == First(f, <<"set", "csv", "format">>)

\* A runtime of one's own needs no certificate, and has a database unless the
\* session is to start detached.
EmbeddedDefaults(f, c) ==
    IF ~Embedded(f) THEN c
    ELSE [c EXCEPT !.insecure = TRUE,
                   !.database = IF @ = None /\ "detached" \notin f THEN "dbDefault" ELSE @]

\* The settings, in the order in which they are written.
Settings(f) ==
    EmbeddedDefaults(f, [address |-> Address(f), insecure |-> InsecureAsked(f),
                         auth |-> "noAuth" \notin f, database |-> Database(f),
                         format |-> Format(f)])

\* What batch mode executes: flags before their aliases, SQL before files,
\* then standard input.
Input(f, terminal) ==
    LET given == First(f, <<"execute", "sql", "file", "source">>)
    IN  IF given # None THEN given ELSE IF terminal THEN "interactive" ELSE "stdin"

-----------------------------------------------------------------------------
Init ==
    /\ pc = "flags" /\ tty \in BOOLEAN
    /\ flags \in {basic \cup more :
                    basic \in {{"project"}, {"project", "dbFlag"}, {"project", "dbFlag", "tls"},
                               {"emulator"}, {"omni", "dbFlag"}, {"emulator", "omni"}},
                    more \in {Range(g) \ {None} : g \in [1..MaxFlags -> Others \cup {None}]}}
    /\ conf = Settings({}) /\ base = None
    /\ loads = [u \in {"schema", "data"} |-> "idle"]
    /\ open = {} /\ deferred = <<>> /\ ran = <<>> /\ result = None

\* Every error of a step makes runWithOutput return, and the deferred calls run.
Fail ==
    /\ pc' = "unwind" /\ result' = "error"
    /\ UNCHANGED <<flags, tty, conf, base, loads, open, deferred, ran>>

Failing == pc \in {"settings", "sample", "runtime", "metrics", "traces", "client", "init",
                   "input"}

StepFails ==
    /\ Failing
    /\ pc = "sample" => "pending" \notin {loads[u] : u \in DOMAIN loads}
    /\ pc = "metrics" => "metrics" \in flags
    /\ pc = "traces" => "traces" \in flags
    /\ pc = "init" => "init" \in flags
    /\ Fail

Validate ==
    /\ pc = "flags"
    /\ \/ /\ ValidateSpannerOptions(flags)
          /\ pc' = "settings"
          /\ UNCHANGED <<flags, tty, conf, base, loads, open, deferred, ran, result>>
       \/ ~ValidateSpannerOptions(flags) /\ Fail

\* RESET's values are taken here, before any startup SQL.
Initialize ==
    /\ pc = "settings"
    /\ "setBad" \notin flags
    /\ conf' = Settings(flags) /\ base' = Settings(flags).format
    /\ pc' = IF ~Embedded(flags) THEN "streams"
             ELSE IF "sample" \in flags THEN "sample" ELSE "runtime"
    /\ loads' = IF "sample" \in flags THEN [u \in DOMAIN loads |-> "pending"] ELSE loads
    /\ UNCHANGED <<flags, tty, open, deferred, ran, result>>

\* loadMultipleFromURIs: one goroutine per file; it waits for all of them.
Load(u) ==
    /\ pc = "sample" /\ loads[u] = "pending"
    /\ \E r \in {"ok", "failed"} : loads' = [loads EXCEPT ![u] = r]
    /\ UNCHANGED <<pc, flags, tty, conf, base, open, deferred, ran, result>>

Loaded == \A u \in DOMAIN loads : loads[u] = "ok"

SampleReady ==
    /\ pc = "sample" /\ Loaded
    /\ pc' = "runtime"
    /\ UNCHANGED <<flags, tty, conf, base, loads, open, deferred, ran, result>>

\* The runtime names the database, the address and, the emulator, no
\* authentication.
Adopted(c) ==
    [c EXCEPT !.address = "runtime", !.auth = @ /\ "emulator" \notin flags]

StartRuntime ==
    /\ pc = "runtime"
    /\ open' = open \cup {"runtime"} /\ deferred' = Append(deferred, "runtime")
    /\ \/ pc' = "streams" /\ conf' = Adopted(conf) /\ UNCHANGED result
       \/ pc' = "unwind" /\ result' = "error" /\ UNCHANGED conf   \* no usable address
    /\ UNCHANGED <<flags, tty, base, loads, ran>>

\* NewStreamManager and its deferred Close, then --tee or --output, not both.
Streams ==
    /\ pc = "streams"
    /\ deferred' = Append(deferred, "streams")
    /\ LET files == flags \cap {"tee", "output"}
       IN  \/ /\ Cardinality(files) < 2
              /\ pc' = "metrics" /\ UNCHANGED result
              /\ open' = IF files = {} THEN open ELSE open \cup {"tee"}
           \/ files # {} /\ pc' = "unwind" /\ result' = "error" /\ UNCHANGED open
    /\ UNCHANGED <<flags, tty, conf, base, loads, ran>>

\* The deferred release is registered between metrics and traces: it reads what
\* they and the client are when it runs.
StartMetrics ==
    /\ pc = "metrics"
    /\ open' = open \cup (flags \cap {"metrics"})
    /\ deferred' = Append(deferred, "release")
    /\ pc' = "traces"
    /\ UNCHANGED <<flags, tty, conf, base, loads, ran, result>>

StartTraces ==
    /\ pc = "traces"
    /\ open' = open \cup (flags \cap {"traces"})
    /\ pc' = "client"
    /\ UNCHANGED <<flags, tty, conf, base, loads, deferred, ran, result>>

\* An MCP server runs no startup SQL and reads no input.
NewCli ==
    /\ pc = "client"
    /\ open' = open \cup {"client"}
    /\ IF "mcp" \in flags
       THEN pc' = "run" /\ ran' = <<"mcp">>
       ELSE pc' = "init" /\ UNCHANGED ran
    /\ UNCHANGED <<flags, tty, conf, base, loads, deferred, result>>

\* Startup SQL may change any variable a session can change.
ExecuteStartupSQL ==
    /\ pc = "init"
    /\ ran' = IF "init" \in flags THEN Append(ran, "init") ELSE ran
    /\ conf' = IF "init" \in flags THEN [conf EXCEPT !.format = "init"] ELSE conf
    /\ pc' = "input"
    /\ UNCHANGED <<flags, tty, base, loads, open, deferred, result>>

DetermineInput ==
    /\ pc = "input"
    /\ ran' = Append(ran, Input(flags, tty))
    /\ pc' = "run"
    /\ UNCHANGED <<flags, tty, conf, base, loads, open, deferred, result>>

\* RunMCP, RunBatch or RunInteractive returns; EXIT and an error at the start of
\* an interactive session close the session handler on the way.
Run ==
    /\ pc = "run"
    /\ \E r \in {"ok", "error"} : result' = r
    /\ open' \in {open, open \ {"client"}}
    /\ pc' = "unwind"
    /\ UNCHANGED <<flags, tty, conf, base, loads, deferred, ran>>

\* What a deferred call gives back; releaseOwnedClientsAndTelemetry closes the
\* clients and then shuts metrics and traces down, each one even if the other
\* failed.
Releases_TelemetryFirst(d) ==
    CASE d = "runtime" -> <<"runtime">>
      [] d = "streams" -> <<"tee">>
      [] d = "release" -> <<"metrics", "traces", "client">>

Releases(d) ==
    CASE d = "runtime" -> <<"runtime">>
      [] d = "streams" -> <<"tee">>
      [] d = "release" -> <<"client", "metrics", "traces">>

\* The deferred calls run last registered first, each closing in its order.
Unwind ==
    /\ pc = "unwind"
    /\ IF deferred = <<>>
       THEN pc' = "done" /\ UNCHANGED <<open, deferred>>
       ELSE LET rel == Releases(deferred[Len(deferred)])
                held == {i \in DOMAIN rel : rel[i] \in open}
            IN  /\ UNCHANGED pc
                /\ IF held = {} THEN /\ deferred' = SubSeq(deferred, 1, Len(deferred) - 1)
                                     /\ UNCHANGED open
                   ELSE open' = open \ {rel[Min(held)]} /\ UNCHANGED deferred
    /\ UNCHANGED <<flags, tty, conf, base, loads, ran, result>>

Done == pc = "done" /\ UNCHANGED vars

Next ==
    \/ Validate \/ Initialize \/ SampleReady \/ StartRuntime \/ Streams \/ StartMetrics
    \/ StartTraces \/ NewCli \/ ExecuteStartupSQL \/ DetermineInput \/ Run \/ Unwind
    \/ StepFails \/ Done
    \/ \E u \in DOMAIN loads : Load(u)

Spec == Init /\ [][Next]_vars

-----------------------------------------------------------------------------
(***************************************************************************)
(* Properties.                                                             *)
(***************************************************************************)

\* Whatever step fails, the process ends with nothing open: the embedded
\* runtime's container, the output file, the clients, the telemetry.
NothingLeftOpen == pc = "done" => open = {}

\* Clients are closed while what they use is alive: the runtime they talk to,
\* the telemetry their spans and points go to.
ClientsFirst ==
    "client" \in open =>
        /\ Embedded(flags) => "runtime" \in open
        /\ flags \cap {"metrics", "traces"} \subseteq open

\* A client of an embedded runtime talks to it and to nothing else, whatever
\* address was given; a client with TLS files of its own is never an insecure
\* one nor one of a runtime.
ClientsGoWhereTold ==
    "client" \in open =>
        /\ Embedded(flags) => conf.address = "runtime" /\ conf.insecure
        /\ "tls" \in flags => ~conf.insecure /\ conf.address \notin {"runtime", "port", None}
        /\ ~conf.auth => "tls" \in flags \/ "emulator" \in flags
        /\ conf.database = None <=> "detached" \in flags

\* RESET returns to what flags and --set asked for, never to what startup SQL
\* made of it.
ResetsToStartup ==
    pc \in {"init", "input", "run"} => base # "init" /\ (conf.format # "init" => conf.format = base)

\* Input follows startup SQL that succeeded, one input is read, the one the
\* flags name, and an interactive session starts only when no flag names one.
InputAfterStartup ==
    \A i \in DOMAIN ran :
        /\ ran[i] # "init" => i = Len(ran) /\ (i = 1 => {"init", "mcp"} \cap flags # {"init"})
        /\ ran[i] = "interactive" => flags \cap Inputs = {}
        /\ ran[i] \in Inputs => ran[i] \in flags
        /\ "mcp" \in flags => ran = <<"mcp">>

\* A runtime of a sample database starts with all of its files.
SampleIsWhole == "runtime" \in open /\ "sample" \in flags => Loaded

\* The six together.
StartupSound ==
    /\ NothingLeftOpen /\ ClientsFirst /\ ClientsGoWhereTold
    /\ ResetsToStartup /\ InputAfterStartup /\ SampleIsWhole
=============================================================================
