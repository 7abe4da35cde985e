--------------------------- MODULE ExpectConsole ---------------------------
(***************************************************************************)
(* Commands typed into a remote shell and their answers picked out of its  *)
(* output (meter/expect.py, ParamikoExpect).  A thread moves what arrives  *)
(* on the channel into a queue; expect takes it from there, tests every    *)
(* full line, and tests the line it has when nothing came for a second.    *)
(* Channel and queue are one sequence here: how far the thread has come    *)
(* matters only when the channel is closed.                                *)
(*                                                                         *)
(* The shell and its tty are external.  A line is a sequence of symbols,   *)
(* each a text the code looks for.  What a command prints is a number, the *)
(* worst case for the search of an exit status.  Symbols name the command  *)
(* they are of; an exit status is the command whose status it is.          *)
(***************************************************************************)
EXTENDS Integers, Sequences, SequencesExt

CONSTANTS Fault,     \* what may happen, a subset of Faults
          MaxCalls,  \* bound: lines the script sends, by command or send_line
          MaxNoise   \* bound: messages of somebody else on the terminal

Faults == {"noise",     \* a message of somebody else, anywhere in the output
           "delay",     \* a second passes between two bytes of the output
           "readline",  \* the script uses readline
           "ahead"}     \* the script sends a line before the last one has ended

ASSUME FaultAssumption == Fault \subseteq Faults
ASSUME BoundsAssumption == MaxCalls \in Nat /\ MaxNoise \in Nat

VARIABLES
  ps,            \* the prompt of the shell
  shell, typed,  \* the line it executes, the lines it has not read
  status, printed,  \* $?, and what the last command has printed: at most a line
  closed,        \* the channel is
  queue,         \* of NonBlockingStreamReader, and what it will read
  pc,            \* what the caller is about: see Expecting
  line, before, tested,  \* of expect: bytes of a line, lines_before; a test was made
  current_line,  \* the line is_match has tested last
  call,          \* the last line of the script, 0: the assignment of PS1
  ret, code, result,     \* of command
  noise

shellVars  == <<ps, shell, typed, status, printed>>
expectVars == <<line, before, tested, current_line>>
commandVars == <<call, ret, code, result>>
vars == <<shellVars, closed, queue, pc, expectVars, commandVars, noise>>

Symbol(kind, n) == [kind |-> kind, of |-> n]
Login   == Symbol("login", 0)
Prompt  == Symbol("prompt", 0)
Newline == Symbol("newline", 0)
Noise   == Symbol("noise", 0)
Eof     == Symbol("eof", 0)

SetPS1 == 0
EchoStatus == MaxCalls + 1
AtPrompt == -1
Lines == SetPS1..EchoStatus

Init ==
  /\ ps = Login /\ shell = AtPrompt /\ typed = <<>> /\ status = SetPS1 /\ printed = "nothing"
  /\ closed = FALSE /\ queue = <<Login>>
  /\ pc = "login" /\ line = <<>> /\ before = {} /\ tested = FALSE /\ current_line = <<>>
  /\ call = SetPS1 /\ ret = {} /\ code = Eof /\ result = "none"
  /\ noise = 0

-----------------------------------------------------------------------------
(* The shell: external *)

Output(symbols) == queue' = queue \o symbols

callerVars == <<pc, expectVars, commandVars>>

\* The terminal has echoed the line when it was typed.
ShellReads ==
  /\ shell = AtPrompt /\ typed # <<>> /\ ~closed
  /\ shell' = Head(typed) /\ typed' = Tail(typed)
  /\ printed' = IF Head(typed) = EchoStatus THEN printed ELSE "nothing"
  /\ UNCHANGED <<ps, status, closed, queue, callerVars, noise>>

\* A command prints a line, or a line it does not end.
ShellPrints ==
  /\ shell \in 1..MaxCalls /\ printed = "nothing" /\ ~closed
  /\ LET text == Symbol("number", shell)
     IN \/ Output(<<text, Newline>>) /\ printed' = "line"
        \/ Output(<<text>>) /\ printed' = "part"
  /\ UNCHANGED <<ps, shell, typed, status, closed, callerVars, noise>>

\* Commands end by themselves or never do.
ShellEnds ==
  /\ shell # AtPrompt /\ ~closed
  /\ ps' = Prompt /\ shell' = AtPrompt
  /\ status' = IF shell = EchoStatus THEN SetPS1 ELSE shell
  /\ Output(IF shell = EchoStatus THEN <<Symbol("status", status), Newline, ps'>> ELSE <<ps'>>)
  /\ UNCHANGED <<typed, printed, closed, callerVars, noise>>

\* Another line on the terminal, or an unfinished one.
Message ==
  /\ "noise" \in Fault /\ noise < MaxNoise /\ ~closed
  /\ noise' = noise + 1
  /\ Output(<<Noise>>) \/ Output(<<Noise, Newline>>)
  /\ UNCHANGED <<shellVars, closed, callerVars>>

-----------------------------------------------------------------------------
(* NonBlockingStreamReader *)

\* The thread looks at stream.closed first: what it has not read is lost.  The
\* mark of the end comes once.
_populateQueue ==
  \E read \in 0..Len(queue) : queue' = Append(SubSeq(queue, 1, read), Eof)

\* The shell exits or the connection breaks.
Breaks ==
  /\ ~closed /\ closed' = TRUE /\ _populateQueue
  /\ UNCHANGED <<shellVars, callerVars, noise>>

-----------------------------------------------------------------------------
(* expect *)

\* PROMPT ends in $, and a full line ends in CR LF: only a line without its end
\* matches, as long as nothing follows the prompt.
EndsInPrompt(l) == l # <<>> /\ Last(l) = Prompt

\* Mutant: the expression of the status is not anchored at the end of the line.
StartsWithStatus(l) == l # <<>> /\ l[1].kind \in {"number", "status", "echo"}

\* ^(\d+)[\r\n]$
IsStatus(l) == Len(l) = 2 /\ l[1].kind \in {"number", "status"} /\ l[2] = Newline

\* What each expect in progress waits for.
Expecting == {"login", "ps1", "resync", "prompt", "status", "final",
              "line", "any", "readline", "expect_prompt"}

is_match(l) ==
  \/ pc = "login" /\ \E i \in DOMAIN l : l[i] \in {Login, Prompt}
  \/ pc \in {"ps1", "resync", "prompt", "final", "expect_prompt"} /\ EndsInPrompt(l)
  \/ pc = "status" /\ IsStatus(l)
  \/ pc = "line" /\ \E i \in DOMAIN l : l[i] = Symbol("number", call)
  \/ pc = "any"

\* The locals of expect, before it and after it.
NoLocals == line' = <<>> /\ before' = {} /\ tested' = FALSE

Raise == pc' = "idle" /\ result' = "error" /\ UNCHANGED <<call, ret, code>>

\* The constructor has returned, or it raised and there is no object.
GiveUp ==
  IF pc \in {"login", "send_ps1", "ps1"} THEN pc' = "gone" /\ UNCHANGED commandVars
  ELSE Raise

\* What follows the match of an expect.
Matched(l) ==
  /\ \/ pc = "login"  /\ pc' = "send_ps1"
     \/ pc = "resync" /\ pc' = "send_command"
     \/ pc = "prompt" /\ pc' = "send_status"
     \/ pc = "status" /\ pc' = "final"
     \/ pc \notin {"login", "resync", "prompt", "status"} /\ pc' = "idle"
  /\ ret' = IF pc = "prompt" THEN before ELSE ret
  /\ code' = IF pc = "status" THEN l[1] ELSE code
  /\ result' = IF pc = "final" THEN "returned" ELSE result
  /\ UNCHANGED call

otherVars == <<shellVars, closed, noise>>

\* The matcher is asked; only is_match keeps the line.
Test(l) == current_line' = IF pc = "readline" THEN current_line ELSE l

expect_byte ==
  /\ pc \in Expecting /\ queue # <<>> /\ Head(queue) \notin {Newline, Eof}
  /\ queue' = Tail(queue) /\ line' = Append(line, Head(queue))
  /\ UNCHANGED <<otherVars, pc, before, tested, current_line, commandVars>>

expect_line ==
  /\ pc \in Expecting /\ queue # <<>> /\ Head(queue) = Newline
  /\ queue' = Tail(queue)
  /\ LET full == Append(line, Newline)
     IN /\ Test(full)
        /\ IF is_match(full) \/ pc = "readline"
           THEN Matched(full) /\ NoLocals
           ELSE /\ line' = <<>> /\ before' = before \cup ToSet(line) /\ tested' = TRUE
                /\ UNCHANGED <<pc, commandVars>>
  /\ UNCHANGED otherVars

\* Nothing came for a second.
expect_partial ==
  /\ pc \in Expecting /\ (queue = <<>> \/ "delay" \in Fault)
  /\ Test(line)
  /\ IF is_match(line) THEN Matched(line) /\ NoLocals
     ELSE tested' = TRUE /\ UNCHANGED <<pc, commandVars, line, before>>
  /\ UNCHANGED <<otherVars, queue>>

\* None is in the queue once; without an expression it is no error.
expect_eof ==
  /\ pc \in Expecting /\ queue # <<>> /\ Head(queue) = Eof
  /\ queue' = Tail(queue)
  /\ IF pc \in {"any", "readline"} THEN pc' = "idle" /\ UNCHANGED commandVars ELSE GiveUp
  /\ NoLocals /\ UNCHANGED <<otherVars, current_line>>

\* Mutant: the time starts anew when it is over.
expect_again ==
  /\ pc \in Expecting /\ tested
  /\ tested' = FALSE
  /\ UNCHANGED <<otherVars, queue, pc, line, before, current_line, commandVars>>

\* The bytes of an unfinished line are lost.
expect_timeout ==
  /\ pc \in Expecting /\ tested
  /\ GiveUp
  /\ NoLocals /\ UNCHANGED <<otherVars, queue, current_line>>

-----------------------------------------------------------------------------
(* What the script calls *)

\* send_line; a channel that is closed raises.
Send(n, label) ==
  /\ IF closed THEN /\ GiveUp /\ UNCHANGED <<typed, queue>>
     ELSE /\ typed' = Append(typed, n) /\ Output(<<Symbol("echo", n), Newline>>)
          /\ pc' = label /\ UNCHANGED commandVars
  /\ UNCHANGED <<ps, shell, status, printed, closed, expectVars, noise>>

Sends ==
  \/ pc = "send_ps1" /\ Send(SetPS1, "ps1")
  \/ pc = "send_command" /\ Send(call, "prompt")
  \/ pc = "send_status" /\ Send(EchoStatus, "status")
  \/ pc = "send_line" /\ \E label \in {"line", "any"} \cup ({"readline"} \cap Fault) :
                             Send(call, label)

Called ==
  /\ pc = "idle" /\ call < MaxCalls /\ call' = call + 1
  /\ result' = "none" /\ ret' = {} /\ code' = Eof
  /\ UNCHANGED <<otherVars, queue, expectVars>>

\* Mutant: command trusts its caller to be at a prompt.
command_at_once == Called /\ pc' = "send_command"

\* "we should be at a prompt, or something is wrong": then wait for one.
command ==
  /\ Called
  /\ pc' = IF EndsInPrompt(current_line) THEN "send_command" ELSE "resync"

\* A script starts a command at a prompt, and expects what it prints.
send_line ==
  /\ (shell = AtPrompt /\ typed = <<>>) \/ "ahead" \in Fault
  /\ Called /\ pc' = "send_line"

expect_prompt ==
  /\ pc = "idle" /\ pc' = "expect_prompt"
  /\ UNCHANGED <<otherVars, queue, expectVars, commandVars>>

\* A script stops what it has not seen end.  The terminal drops lines typed ahead;
\* if nothing runs any more, there is a second prompt.
send_ctrl_c ==
  /\ pc = "idle" /\ ~closed /\ result \in {"none", "error"}
  /\ result' = "stopped"
  /\ shell' = AtPrompt /\ typed' = <<>>
  /\ status' = IF shell \in 1..MaxCalls THEN shell ELSE SetPS1
  /\ Output(<<Newline, ps>>)
  /\ UNCHANGED <<ps, printed, closed, pc, expectVars, call, ret, code, noise>>

\* The script closes the channel.
__exit__ ==
  /\ pc = "idle" /\ closed' = TRUE /\ _populateQueue /\ pc' = "gone"
  /\ UNCHANGED <<shellVars, expectVars, commandVars, noise>>

-----------------------------------------------------------------------------

Shell == ShellReads \/ ShellPrints \/ ShellEnds \/ Message \/ Breaks

Advance == expect_byte \/ expect_line \/ expect_partial \/ expect_eof \/ Sends

Script == command \/ send_line \/ expect_prompt \/ send_ctrl_c \/ __exit__

Next == Shell \/ Advance \/ expect_timeout \/ Script

\* The caller goes on and time passes; no command has to end.
Fairness == WF_vars(Advance) /\ WF_vars(expect_timeout)

Spec == Init /\ [][Next]_vars /\ Fairness

-----------------------------------------------------------------------------
(* Properties *)

Symbols == [kind : {"login", "prompt", "newline", "noise", "eof"}, of : {0}]
             \cup [kind : {"echo", "number", "status"}, of : Lines]

\* The variables keep their types.
TypeOK ==
  /\ ps \in {Login, Prompt} /\ shell \in Lines \cup {AtPrompt} /\ typed \in Seq(Lines)
  /\ status \in Lines /\ printed \in {"nothing", "line", "part"}
  /\ closed \in BOOLEAN /\ queue \in Seq(Symbols)
  /\ pc \in Expecting \cup {"idle", "gone", "send_ps1", "send_command", "send_status", "send_line"}
  /\ line \in Seq(Symbols) /\ before \subseteq Symbols /\ tested \in BOOLEAN
  /\ current_line \in Seq(Symbols)
  /\ call \in 0..MaxCalls /\ ret \subseteq Symbols /\ code \in Symbols
  /\ result \in {"none", "returned", "error", "stopped"} /\ noise \in 0..MaxNoise

\* What command types reaches a shell that waits for it: whatever timed out, was
\* stopped or was sent before, nothing runs any more and nothing is typed ahead
\* (expect.py: "we should be at a prompt, or something is wrong").
InStep ==
  [][typed' # typed /\ pc \in {"send_command", "send_status"} =>
       typed = <<>> /\ shell = AtPrompt]_vars

\* What command returns is its own: the exit status of its line and not of an
\* earlier one, nor a number that was printed; the line it has printed is among
\* lines_before, and no line of another command is.
OwnResult ==
  result = "returned" =>
    /\ code = Symbol("status", call)
    /\ printed = "line" => Symbol("number", call) \in ret
    /\ \A s \in ret : s.kind \in {"echo", "number", "status"} => s.of = call

\* Every call returns or raises, although commands run for ever, connections
\* break, and what came before a break may never be read.
CallsReturn == pc \notin {"idle", "gone"} ~> pc \in {"idle", "gone"}

=============================================================================
