--------------------------- MODULE StatementOutput ---------------------------
(***************************************************************************)
(* The output of one statement after another: the writer that StreamManager*)
(* gives it (screen, tee, or file alone), the resultSink that decorates it *)
(* on its first byte, the pager that may carry it, and the spinner that    *)
(* has to be off the screen before.                                        *)
(*                                                                         *)
(* The CLI goroutine, the spinner, the pager process, Ctrl+C and the file  *)
(* system take steps of their own.  A byte that matters is a token.        *)
(***************************************************************************)
EXTENDS Naturals, Sequences, FiniteSets

CONSTANTS
    MaxRows,        \* bound: rows a statement writes
    MaxPipe         \* the pipe's capacity, in tokens

VARIABLES
    pc,         \* where the CLI goroutine is
    tee,        \* StreamManager's file, mode and writer
    files,      \* open output files
    to,         \* the writer captured when the statement began
    sink,       \* the resultSink
    pager,      \* the pager process
    pipe,       \* what is written and not yet read by the pager
    spinner,    \* the progress mark goroutine runs
    cancelled,  \* the statement's context has ended
    written,    \* tokens whose Write succeeded
    shown,      \* the statement's tokens on the screen
    filed,      \* the statement's tokens in the file
    result      \* how the last statement ended

streams == <<tee, files>>
places == <<shown, filed>>
vars == <<pc, streams, to, sink, pager, pipe, spinner, cancelled, written, places, result>>

Opened == {1, 2}                  \* handles; a path may have more than one
NoTee == [file |-> 0, silent |-> FALSE, warned |-> FALSE]
NewSink == [out |-> "none", then |-> "row", fence |-> FALSE,
            failed |-> FALSE, broken |-> FALSE, quit |-> FALSE]
NoPager == [state |-> "none", quit |-> FALSE, bad |-> FALSE]

\* GetWriter: the screen, both, or the file alone.
Target == IF tee.file = 0 THEN "screen" ELSE IF tee.silent THEN "file" ELSE "both"

TypeOK ==
    /\ pc \in {"prompt", "run", "row", "start", "fence", "echo", "close", "reap", "newline", "abort"}
    /\ tee.file \in Opened \cup {0} /\ (tee.file = 0 => tee = NoTee)
    /\ files \subseteq Opened
    /\ to \in {"screen", "both", "file"}
    /\ sink.out \in {"none", "dst", "pager"} /\ (sink.fence => sink.out # "none")
    /\ pager.state \in {"none", "running", "gone"}
    /\ pager.state # "none" => sink.out = "pager"
    /\ Len(pipe) <= MaxPipe
    /\ spinner \in BOOLEAN /\ cancelled \in BOOLEAN
    /\ result \in {"none", "ok", "error"}

Init ==
    /\ pc = "prompt" /\ tee = NoTee /\ files = {} /\ to = "screen"
    /\ sink = NewSink /\ pager = NoPager /\ pipe = <<>>
    /\ spinner = FALSE /\ cancelled = FALSE
    /\ written = <<>> /\ shown = <<>> /\ filed = <<>> /\ result = "none"

----------------------------------------------------------------------------
\* StreamManager between statements.  A file whose Close failed is closed.

\* A new statement; a meta command has no sink.
Begins ==
    /\ pc = "prompt"
    /\ to' = Target /\ sink' = NewSink /\ cancelled' = FALSE
    /\ written' = <<>> /\ shown' = <<>> /\ filed' = <<>> /\ result' = "none"

MetaCommand == Begins /\ UNCHANGED <<pc, pager, pipe, spinner>>

\* What is open after the previous file is closed.
Previous == files \ {tee.file}

\* EnableTee opens first, then closes the previous file, then resets.
EnableTee ==
    /\ MetaCommand
    /\ \E p \in Opened \ {tee.file}, s \in BOOLEAN :
          \/ /\ tee.file \in files \cup {0}
             /\ \/ /\ tee' = [file |-> p, silent |-> s, warned |-> FALSE]
                   /\ files' = Previous \cup {p}
                \/ s /\ files' = Previous /\ tee' = NoTee          \* reset failed
          \/ tee.file # 0 /\ files' = Previous /\ UNCHANGED tee    \* closing failed

Disabled == NoTee

DisableTee ==
    /\ MetaCommand /\ tee.file # 0
    /\ files' = Previous /\ tee' = Disabled

----------------------------------------------------------------------------
\* Writing.  Bytes(place, token, fails) are the outcomes of one Write.

\* safeTeeWriter: a failure of the tee file is a warning, once, and success.
FileFailed(fails) == ~fails /\ tee' = [tee EXCEPT !.warned = TRUE]

\* One Write to the captured writer.
Deliver(token, fails) ==
    \/ /\ to = "screen" /\ shown' = (IF fails THEN shown ELSE Append(shown, token))
       /\ UNCHANGED <<filed, tee>>
    \/ /\ to = "file" /\ (tee.file \in files \/ fails)
       /\ filed' = (IF fails THEN filed ELSE Append(filed, token))
       /\ UNCHANGED <<shown, tee>>
    \/ /\ to = "both" /\ ~fails /\ shown' = Append(shown, token)
       /\ (tee.warned \/ tee.file \in files)
       /\ filed' = (IF tee.warned THEN filed ELSE Append(filed, token))
       /\ UNCHANGED tee
    \/ to = "both" /\ ~tee.warned /\ shown' = Append(shown, token)
       /\ FileFailed(fails) /\ UNCHANGED filed
    \/ to = "both" /\ fails /\ UNCHANGED <<places, tee>>        \* the screen failed

\* One Write to the sink's destination: the pager's pipe, or the writer.
Put(token, fails) ==
    \/ /\ sink.out = "dst" /\ Deliver(token, fails) /\ UNCHANGED pipe
    \/ /\ sink.out = "pager" /\ UNCHANGED <<places, tee>>
       /\ IF fails THEN pager.state = "gone" /\ UNCHANGED pipe
          ELSE pager.state = "running" /\ Len(pipe) < MaxPipe /\ pipe' = Append(pipe, token)

\* Put, with what follows its success and its failure.
Write(token, good, bad) ==
    \/ /\ Put(token, FALSE) /\ pc' = good /\ written' = Append(written, token)
       /\ sink' = [sink EXCEPT !.fence = IF token = "row" \/ token = "echo" THEN @
                                         ELSE token = "fence"]
    \/ /\ Put(token, TRUE) /\ pc' = bad /\ UNCHANGED written
       /\ sink' = [sink EXCEPT !.failed = TRUE, !.broken = TRUE]

----------------------------------------------------------------------------
\* Cli.executeStatement and resultSink

\* The writer is taken before the statement runs; the spinner is interactive.
Execute ==
    /\ Begins /\ pc' = "run"
    /\ spinner' \in BOOLEAN
    /\ UNCHANGED <<streams, pager, pipe>>

Rows == Len(SelectSeq(written, LAMBDA t : t = "row"))

\* resultSink.Write, from a streaming statement or from printResult.
Row ==
    /\ pc = "run" /\ Rows < MaxRows
    /\ IF cancelled THEN pc' = "abort" /\ sink' = [sink EXCEPT !.failed = TRUE]
       ELSE /\ pc' = IF sink.out = "none" THEN "start" ELSE "row"
            /\ sink' = [sink EXCEPT !.then = "row"]
    /\ UNCHANGED <<streams, to, pager, pipe, spinner, cancelled, written, places, result>>

WriteRow ==
    /\ pc = "row" /\ Write("row", "run", "abort")
    /\ UNCHANGED <<files, to, pager, spinner, cancelled, result>>

\* The statement, or its buffered display, has written what it had to write;
\* finish starts the sink where nothing did.
Finish ==
    /\ pc = "run"
    /\ IF sink.out = "none"
       THEN pc' = "start" /\ sink' = [sink EXCEPT !.then = "finish"]
       ELSE pc' = "close" /\ UNCHANGED sink
    /\ spinner' = FALSE
    /\ UNCHANGED <<streams, to, pager, pipe, cancelled, written, places, result>>

Fails ==
    /\ pc = "run" /\ pc' = "abort" /\ sink' = [sink EXCEPT !.failed = TRUE]
    /\ UNCHANGED <<streams, to, pager, pipe, spinner, cancelled, written, places, result>>

\* Where start's success and its failure lead: to the first Write, or on in
\* finish, which then reaps the pager.
Started == IF sink.then = "row" THEN "row" ELSE "close"
NotStarted == IF sink.then = "row" THEN "abort" ELSE "reap"

\* start joins the spinner before any byte.
Joined == FALSE

\* resultSink.start: the context, then the pager, which may not start.
Start ==
    /\ pc = "start" /\ spinner' = Joined
    /\ \/ /\ pc' = NotStarted /\ sink' = [sink EXCEPT !.failed = TRUE]
          /\ UNCHANGED pager
       \/ /\ ~cancelled /\ pc' = "fence" /\ sink' = [sink EXCEPT !.out = "dst"]
          /\ UNCHANGED pager
       \/ /\ ~cancelled /\ pc' = "fence" /\ sink' = [sink EXCEPT !.out = "pager"]
          /\ pager' = [NoPager EXCEPT !.state = "running"]
    /\ UNCHANGED <<streams, to, pipe, cancelled, written, places, result>>

\* The decorations, where CLI_MARKDOWN_CODEBLOCK and CLI_ECHO_INPUT ask.
Fence ==
    /\ pc = "fence"
    /\ \/ pc' = "echo" /\ UNCHANGED <<sink, pipe, tee, places, written>>
       \/ Write("fence", "echo", NotStarted)
    /\ UNCHANGED <<files, to, pager, spinner, cancelled, result>>

Echo ==
    /\ pc = "echo"
    /\ \/ pc' = Started /\ UNCHANGED <<sink, pipe, tee, places, written>>
       \/ Write("echo", Started, NotStarted)
    /\ UNCHANGED <<files, to, pager, spinner, cancelled, result>>

\* Mutant: a failure of the last fence is returned at once.
CloseFailed_Returns == "prompt"

\* The pager is reaped also when the last fence fails.
CloseFailed == "reap"

\* finish
Close ==
    /\ pc = "close"
    /\ IF sink.fence THEN Write("close", "reap", CloseFailed)
       ELSE pc' = "reap" /\ UNCHANGED <<sink, pipe, tee, places, written>>
    /\ UNCHANGED <<files, to, pager, spinner, cancelled, result>>

\* abort closes a fence that was opened.
OpenFence == sink.fence

Abort ==
    /\ pc = "abort"
    /\ IF OpenFence THEN Write("close", "reap", "reap")
       ELSE pc' = "reap" /\ UNCHANGED <<sink, pipe, tee, places, written>>
    /\ UNCHANGED <<files, to, pager, spinner, cancelled, result>>

\* stop: the context's error, or the pager's exit status.
PagerFailed == pager.state = "gone" /\ pager.bad

\* reapPager closes the pager's input and waits for it; the statement ends.
Reap ==
    /\ pc = "reap"
    /\ \/ pager.state = "none"
       \/ pager.state = "gone"
       \/ pager.state = "running" /\ pipe = <<>>
    /\ pc' = IF ~sink.failed /\ ~PagerFailed THEN "newline" ELSE "prompt"
    /\ result' = IF pc' = "prompt" THEN "error" ELSE result
    /\ pager' = NoPager /\ pipe' = <<>> /\ spinner' = FALSE
    /\ sink' = [sink EXCEPT !.quit = pager.quit]
    /\ UNCHANGED <<streams, to, cancelled, written, places>>

\* displayResult's last newline, where it is interactive, after the pager.
Newline ==
    /\ pc = "newline"
    /\ \/ pc' = "prompt" /\ result' = "ok" /\ UNCHANGED <<tee, places, written>>
       \/ \E f \in BOOLEAN :
             /\ Deliver("newline", f) /\ pc' = "prompt"
             /\ written' = (IF f THEN written ELSE Append(written, "newline"))
             /\ result' = IF f THEN "error" ELSE "ok"
    /\ UNCHANGED <<files, to, sink, pager, pipe, spinner, cancelled>>

----------------------------------------------------------------------------
\* The others

\* startProgressingMark; repeated marks say nothing new.
Mark ==
    /\ spinner /\ (shown # <<>> => shown[Len(shown)] # "mark")
    /\ shown' = Append(shown, "mark")
    /\ UNCHANGED <<pc, streams, to, sink, pager, pipe, spinner, cancelled, written, filed, result>>

\* The pager copies its input to the captured writer, or fails to.
PagerReads ==
    /\ pager.state = "running" /\ pipe # <<>>
    /\ \E f \in BOOLEAN :
          /\ Deliver(Head(pipe), f)
          /\ pager' = IF f THEN [pager EXCEPT !.state = "gone", !.bad = TRUE] ELSE pager
    /\ pipe' = Tail(pipe)
    /\ UNCHANGED <<pc, files, to, sink, spinner, cancelled, written, result>>

\* The user quits the pager, or it dies.
PagerEnds ==
    /\ pager.state = "running"
    /\ \E b \in BOOLEAN : pager' = [state |-> "gone", quit |-> TRUE, bad |-> b]
    /\ UNCHANGED <<pc, streams, to, sink, pipe, spinner, cancelled, written, places, result>>

\* Ctrl+C or the timeout; CommandContext kills the pager, sooner or later.
Cancel ==
    /\ pc # "prompt" /\ ~cancelled /\ cancelled' = TRUE
    /\ UNCHANGED <<pc, streams, to, sink, pager, pipe, spinner, written, places, result>>

\* CommandContext
Killed == cancelled

PagerKilled ==
    /\ Killed /\ pager.state = "running"
    /\ pager' = [pager EXCEPT !.state = "gone", !.bad = TRUE]
    /\ UNCHANGED <<pc, streams, to, sink, pipe, spinner, cancelled, written, places, result>>

Cli ==
    \/ Row \/ WriteRow \/ Finish \/ Fails \/ Start \/ Fence \/ Echo
    \/ Close \/ Abort \/ Reap \/ Newline

Next ==
    \/ EnableTee \/ DisableTee \/ Execute \/ Cli
    \/ Mark \/ PagerReads \/ PagerEnds \/ Cancel \/ PagerKilled

Spec == Init /\ [][Next]_vars

\* The goroutine runs on; a killed process dies.
LiveSpec == Spec /\ WF_vars(Cli) /\ WF_vars(PagerKilled)

----------------------------------------------------------------------------

Count(token) == Cardinality({i \in DOMAIN written : written[i] = token})

\* The screen without the mark, which is alone and comes first.
Unmarked == IF shown # <<>> /\ shown[1] = "mark" THEN Tail(shown) ELSE shown

\* The spinner never draws among, or after, a statement's output (start joins
\* it before the first byte).
NoMarkAfterOutput ==
    \A i, j \in 1..Len(shown) : i < j /\ shown[j] = "mark" => shown[i] = "mark"

\* A markdown block that was opened is closed, by finish or abort, unless the
\* place it is written to no longer takes anything.
FenceBalanced ==
    pc = "prompt" /\ ~sink.broken => Count("fence") = Count("close")

\* What a Write without a pager reports is what happened where the user looks:
\* a tee file that fails takes nothing from the screen and fails nothing.
WriteMeansShown ==
    sink.out # "pager" =>
        IF to = "file" THEN filed = written ELSE Unmarked = written

\* A statement that succeeded has all its output where it belongs, a pager
\* that the user quit and a tee file that warned aside.
OkMeansDelivered ==
    result = "ok" /\ ~sink.quit =>
        /\ to # "file" => Unmarked = written
        /\ to = "file" \/ (to = "both" /\ ~tee.warned) => filed = written

\* Neither the spinner nor the pager outlives its statement.
NothingLeftRunning == pc = "prompt" => pager = NoPager /\ pipe = <<>> /\ ~spinner

\* StreamManager has at most its current file open.
OneFileOpen == files \subseteq {tee.file}

\* Ctrl+C ends a statement, also one that writes to a pager that reads nothing
\* (CommandContext; stdin is a file of the process and not an io.Pipe).
CancelEnds == cancelled /\ pc # "prompt" ~> pc = "prompt"

\* All of the above at every moment: what a statement wrote reaches the screen
\* and the file, once, in order, and nothing of it is left behind.
OutputSound ==
    /\ TypeOK
    /\ NoMarkAfterOutput /\ FenceBalanced
    /\ WriteMeansShown /\ OkMeansDelivered
    /\ NothingLeftRunning /\ OneFileOpen

=============================================================================
