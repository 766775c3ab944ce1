------------------------------- MODULE RcPipe -------------------------------
(***************************************************************************)
(* The boot of a CargOS machine as etc/rc runs it: rc_real_work starts the *)
(* scripts one after the other and writes what they say and its own        *)
(* metadata into a pipe; rc_postprocess reads the pipe and keeps the log.  *)
(* A script may leave a daemon behind that still writes into the pipe, and *)
(* a writer of its own sends a nop every few seconds.                      *)
(*                                                                         *)
(* The pipe holds pieces of lines.  Metadata always ends its line; a piece *)
(* of text need not (a prompt).  CargOS has no script mountcritlocal, so   *)
(* rc_log_flush keeps the log in memory until rc_postprocess exits.        *)
(***************************************************************************)
EXTENDS Integers, Sequences, FiniteSets

CONSTANTS
    Scripts,    \* the scripts in the order rcorder gives
    Leaving,    \* those that may leave a daemon behind
    MaxTexts,   \* the texts one writer writes
    MaxFailures,\* the commands that fail
    Capacity,   \* the pieces the pipe holds
    Nil

VARIABLES
    pc,         \* where rc_real_work is
    at,         \* the command it runs
    pipe,
    holders,    \* other processes with the pipe open for writing
    sent,       \* how many texts each writer has written
    failed,     \* the scripts that failed
    killed,     \* rc_real_work has died without its exit line
    partial,    \* what read has got of a line that has not ended
    log,        \* _rc_log_buffer
    failures,   \* ${rc_failures}
    status      \* what rc_postprocess, and so etc/rc, has exited with

vars == <<pc, at, pipe, holders, sent, failed, killed, partial, log, failures, status>>
work == <<pc, at, failed, killed>>
post == <<partial, log, failures, status>>

ScriptSet == {Scripts[i] : i \in DOMAIN Scripts}
Commands == <<"rcorder">> \o Scripts \o <<"cloud-init-runcmd">>
Fore(s) == <<s, "script">>
Back(s) == <<s, "daemon">>
Nopper == <<"rc", "nop">>
Writers == {Fore(s) : s \in ScriptSet} \cup {Back(s) : s \in ScriptSet}
Words == {"start", "cmd-name", "cmd-status", "nop", "end", "exit", "interrupted"}

Text(w, n, nl) == [word |-> "text", from |-> w, arg |-> n, nl |-> nl]
Meta(word, from, arg) == [word |-> word, from |-> from, arg |-> arg, nl |-> TRUE]

Put(piece) == Len(pipe) < Capacity /\ pipe' = Append(pipe, piece)
print_rc_metadata(word, from, arg) == Put(Meta(word, from, arg)) /\ UNCHANGED post

Init ==
    /\ pc = "start" /\ at = 1 /\ pipe = <<>> /\ holders = {}
    /\ sent = [w \in Writers |-> 0]
    /\ failed = {} /\ killed = FALSE
    /\ partial = <<>> /\ log = <<>> /\ failures = {} /\ status = Nil

------------------------------------------------------------------------------
(* rc_real_work *)

\* The first line, and the writer of the nops.
Start ==
    /\ pc = "start" /\ pc' = "name"
    /\ print_rc_metadata("start", Nil, 0)
    /\ holders' = {Nopper}
    /\ UNCHANGED <<at, sent, failed, killed>>

CmdName ==
    /\ pc = "name" /\ at \in DOMAIN Commands /\ pc' = "run"
    /\ print_rc_metadata("cmd-name", Commands[at], 0)
    /\ UNCHANGED <<at, holders, sent, failed, killed>>

\* The script prints a line, or a prompt and waits for its answer.
ScriptPrints ==
    /\ pc = "run" /\ Commands[at] \in ScriptSet
    /\ LET w == Fore(Commands[at]) IN
       /\ sent[w] < MaxTexts
       /\ sent' = [sent EXCEPT ![w] = @ + 1]
       /\ \E nl \in BOOLEAN : /\ Put(Text(w, sent[w] + 1, nl))
                              /\ pc' = IF nl THEN "run" ELSE "asking"
    /\ UNCHANGED <<at, holders, failed, killed, post>>

Answer ==
    /\ pc = "asking" /\ pc' = "run"
    /\ UNCHANGED <<at, pipe, holders, sent, failed, killed, post>>

\* The command ends; what it leaves in the background keeps the pipe.
CommandEnds ==
    /\ pc = "run" /\ pc' = "status"
    /\ \/ UNCHANGED failed
       \/ Cardinality(failed) < MaxFailures /\ failed' = failed \cup {Commands[at]}
    /\ holders' \in {holders, holders \cup {Back(s) : s \in Leaving \cap {Commands[at]}}}
    /\ UNCHANGED <<at, pipe, sent, killed, post>>

CmdStatus ==
    /\ pc = "status" /\ pc' = "name" /\ at' = at + 1
    /\ print_rc_metadata("cmd-status", Commands[at], IF Commands[at] \in failed THEN 1 ELSE 0)
    /\ UNCHANGED <<holders, sent, failed, killed>>

End ==
    /\ pc = "name" /\ at = Len(Commands) + 1 /\ pc' = "exit"
    /\ print_rc_metadata("end", Nil, 0)
    /\ UNCHANGED <<at, holders, sent, failed, killed>>

\* SIGQUIT stops the command that runs and goes to the trap.
Interrupt ==
    /\ pc \in {"name", "run", "asking", "status"} /\ pc' = "exit1"
    /\ print_rc_metadata("interrupted", Nil, 0)
    /\ UNCHANGED <<at, holders, sent, failed, killed>>

\* The trap on exit.
ExitLine ==
    /\ pc \in {"exit", "exit1"} /\ pc' = "gone"
    /\ print_rc_metadata("exit", Nil, IF pc = "exit" THEN 0 ELSE 1)
    /\ UNCHANGED <<at, holders, sent, failed, killed>>

\* Something kills the shell: no trap, no exit line.
Killed ==
    /\ pc \notin {"start", "gone"} /\ pc' = "gone" /\ killed' = TRUE
    /\ UNCHANGED <<at, pipe, holders, sent, failed, post>>

------------------------------------------------------------------------------
(* The processes in the background *)

\* One nop is under way at a time: the writer sleeps three seconds after it.
Nop ==
    /\ Nopper \in holders /\ pc # "gone" /\ status = Nil
    /\ \A i \in DOMAIN pipe : pipe[i].word # "nop"
    /\ print_rc_metadata("nop", Nil, 0)
    /\ UNCHANGED <<work, holders, sent>>

\* kill -0 tells it that the shell has gone.
NopEnds ==
    /\ Nopper \in holders /\ pc = "gone"
    /\ holders' = holders \ {Nopper}
    /\ UNCHANGED <<work, pipe, sent, post>>

DaemonPrints ==
    \E s \in Leaving, nl \in BOOLEAN :
        /\ Back(s) \in holders /\ sent[Back(s)] < MaxTexts /\ status = Nil
        /\ Put(Text(Back(s), sent[Back(s)] + 1, nl))
        /\ sent' = [sent EXCEPT ![Back(s)] = @ + 1]
        /\ UNCHANGED <<work, holders, post>>

\* A daemon ends, or writes when nobody reads any more and gets SIGPIPE.
DaemonGoes ==
    \E s \in Leaving :
        /\ Back(s) \in holders /\ holders' = holders \ {Back(s)}
        /\ UNCHANGED <<work, pipe, sent, post>>

------------------------------------------------------------------------------
(* rc_postprocess *)

Plain(line) == IF line.word = "text" THEN <<line>> ELSE <<>>
Entry(word, arg) == <<[word |-> word, from |-> Nil, arg |-> arg, nl |-> TRUE]>>

\* rc_postprocess_metadata: a failing command is remembered, end and interrupted
\* are logged, and the exit line ends the loop.
Failures(line) ==
    IF line.word = "cmd-status" /\ line.arg # 0 THEN failures \cup {line.from} ELSE failures
Logged(line) ==
    CASE line.word = "end" /\ failures # {} -> Entry("failures", failures)
      [] line.word = "interrupted" -> Entry("interrupted", 0)
      [] OTHER -> Plain(line)
\* The exit line is read, and the loop waits for the end of the file.
StatusAfterAll(line) == status
StatusAfter(line) == IF line.word = "exit" THEN line.arg ELSE status

\* Only a line that starts with the prefix is metadata.
HandleNoPartial(before, line) ==
    /\ log' = log \o before \o Plain(line)
    /\ failures' = IF before = <<>> THEN Failures(line) ELSE failures
    /\ status' = IF before = <<>> THEN StatusAfter(line) ELSE status
\* A line: what comes before its last piece is text without a newline, the
\* partial line of rc_postprocess_partial_line, and is logged as it is.
Handle(before, line) ==
    /\ log' = log \o before \o Logged(line)
    /\ failures' = Failures(line)
    /\ status' = StatusAfter(line)

\* read takes the pieces as they come and returns when a line has ended.
ReadPiece ==
    /\ status = Nil /\ pipe # <<>> /\ pipe' = Tail(pipe)
    /\ \/ ~Head(pipe).nl /\ partial' = Append(partial, Head(pipe)) /\ UNCHANGED <<log, failures, status>>
       \/ Head(pipe).nl /\ partial' = <<>> /\ Handle(partial, Head(pipe))
    /\ UNCHANGED <<work, holders, sent>>

\* The end of the file: nobody has the pipe open.  What read has got of a
\* last, unfinished line is not looked at.
EndOfFile ==
    /\ status = Nil /\ pipe = <<>> /\ pc = "gone" /\ holders = {}
    /\ status' = 1
    /\ UNCHANGED <<work, pipe, holders, sent, partial, log, failures>>

Next ==
    \/ Start \/ CmdName \/ ScriptPrints \/ Answer \/ CommandEnds \/ CmdStatus
    \/ End \/ Interrupt \/ ExitLine \/ Killed
    \/ Nop \/ NopEnds \/ DaemonPrints \/ DaemonGoes
    \/ ReadPiece \/ EndOfFile

\* The shell and the reader go on; so do the scripts, which need not print but
\* do end unless they wait for an answer.  Nobody makes a daemon write or end.
Fairness ==
    /\ WF_vars(Start) /\ WF_vars(CmdName) /\ WF_vars(CommandEnds) /\ WF_vars(CmdStatus)
    /\ WF_vars(End) /\ WF_vars(ExitLine) /\ WF_vars(Nop) /\ WF_vars(NopEnds)
    /\ WF_vars(ReadPiece) /\ WF_vars(EndOfFile)
Spec == Init /\ [][Next]_vars /\ Fairness

------------------------------------------------------------------------------
(* Properties *)

IsText(piece, w) == piece.word = "text" /\ piece.from = w
Has(pieces, w, n) == \E i \in DOMAIN pieces : IsText(pieces[i], w) /\ pieces[i].arg = n
Ordered(pieces, w) ==
    \A i, j \in DOMAIN pieces :
        i < j /\ IsText(pieces[i], w) /\ IsText(pieces[j], w) => pieces[i].arg < pieces[j].arg
AllLogged(w) == \A n \in 1 .. sent[w] : Has(log, w, n)

\* The log has the texts of every writer in the order they were written and
\* without a gap; and when a boot has ended by its exit line it has all that
\* the scripts themselves have written, whatever the daemons write between.
\* (rc_postprocess, *"${rc_metadata_prefix}"* case)
ScriptsAreLogged ==
    /\ \A w \in Writers :
           /\ Ordered(log, w)
           /\ \A m, n \in 1 .. sent[w] : m < n /\ Has(log, w, n) => Has(log, w, m)
    /\ status # Nil /\ ~killed => \A s \in ScriptSet : AllLogged(Fore(s))

\* etc/rc says 0 only of a boot in which every command has run to its end and
\* was neither interrupted nor killed, and such a boot has listed its failures.
\* (rc:389-447, and exit 1 after the loop)
ZeroIsComplete ==
    status = 0 =>
        /\ at = Len(Commands) + 1 /\ ~killed
        /\ failures = failed
        /\ failed # {} => \E i \in DOMAIN log : log[i].word = "failures" /\ log[i].arg = failed

\* The log and the exit status tell what has happened. (rc:279-459)
BootIsReported == ScriptsAreLogged /\ ZeroIsComplete

\* The boot ends whatever the daemons do with the pipe they have inherited,
\* unless a script waits for an answer for ever; only a boot that was killed
\* waits for the daemons too.
BootEnds ==
    <>[](status # Nil \/ pc = "asking" \/ (killed /\ holders # {}))

\* A prompt without a newline gets through to the console although the script
\* that printed it waits: the nops end its line. (rc:191-207)
PromptIsShown ==
    \A s \in ScriptSet :
        (pc = "asking" /\ Commands[at] = s)
            ~> (pc # "asking" \/ AllLogged(Fore(s)))

\* Both: the boot neither hangs nor leaves anybody in the dark. (rc:149-317)
BootGoesOn == BootEnds /\ PromptIsShown
=============================================================================
