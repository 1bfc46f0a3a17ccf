------------------------------ MODULE MCSession ------------------------------
(***************************************************************************)
(* One TLC run for the life of the program: DDL, the changes of session    *)
(* and database, and the start and the end of a run.                       *)
(*                                                                         *)
(* The modules share no state, so a behaviour exercises one of them, its   *)
(* part, and the variables of the others keep a first value.               *)
(***************************************************************************)
EXTENDS DdlExecution

CONSTANTS d1, d2, MaxHandles, MaxVersion, MaxFlags

\* The first session takes the first three numbers.
ASSUME SessionAssumption == MaxHandles \in Nat /\ MaxHandles >= 3 /\ MaxVersion \in Nat

VARIABLES
    part,
    \* CliSession
    cliPc, front, current, cand, live, open, next, cliOwner, cliBatch, undo, exists, schema,
    completion,
    \* Startup
    startPc, flags, tty, conf, base, loads, held, deferred, ran, result

Cli == INSTANCE CliSession
       WITH Databases <- {d1, d2}, pc <- cliPc, session <- current, owner <- cliOwner,
            batch <- cliBatch
Start == INSTANCE Startup WITH pc <- startPc, open <- held

cliVars == <<cliPc, front, current, cand, live, open, next, cliOwner, cliBatch, undo, exists,
             schema, completion>>
startVars == <<startPc, flags, tty, conf, base, loads, held, deferred, ran, result>>
allVars == <<part, vars, cliVars, startVars>>

-----------------------------------------------------------------------------

\* A part that is not exercised starts in one of its initial states.
SessionInit ==
    /\ part \in {"ddl", "switch", "startup"}
    /\ Init
    /\ Cli!Init /\ (part # "switch" => current.db = d1)
    /\ IF part = "startup" THEN Start!Init
       ELSE /\ startPc = "flags" /\ flags = {} /\ tty = FALSE /\ conf = Start!Settings({})
            /\ base = Start!None /\ loads = [u \in {"schema", "data"} |-> "idle"]
            /\ held = {} /\ deferred = <<>> /\ ran = <<>> /\ result = Start!None

SessionNext ==
    \/ part = "ddl" /\ Next /\ UNCHANGED <<part, cliVars, startVars>>
    \/ part = "switch" /\ Cli!Next /\ UNCHANGED <<part, vars, startVars>>
    \/ part = "startup" /\ Start!Next /\ UNCHANGED <<part, vars, cliVars>>

SessionSpec == SessionInit /\ [][SessionNext]_allVars

-----------------------------------------------------------------------------
\* The properties of the modules that are not extended, under names of their
\* own; the modules say what they mean.

SwitchSound == part = "switch" => Cli!SessionSound
StartupSound == part = "startup" => Start!StartupSound
SessionSteps ==
    /\ [][part = "ddl" => DdlStep]_vars
    /\ [][part = "switch" => Cli!SessionStep]_cliVars
=============================================================================
