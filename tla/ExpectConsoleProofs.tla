------------------------ MODULE ExpectConsoleProofs ------------------------
(***************************************************************************)
(* Theorems about ExpectConsole, for any number of calls and messages of   *)
(* others: command stays in step with the shell and returns the result of  *)
(* its own line, if the output does not pause for a second within a line,  *)
(* scripts leave readline alone, and send no line before the last one has  *)
(* ended.                                                                  *)
(***************************************************************************)
EXTENDS ExpectConsole, SequenceTheorems, TLAPS

\* What the theorems about InStep and OwnResult assume of the network and of scripts.
Careful == Fault \cap {"delay", "readline", "ahead"} = {}

\* The shell waits for a line and has none.
Waits == shell = AtPrompt /\ typed = <<>>

\* The last of all symbols that have come, and that no call has thrown away.
LastIsPrompt == IF queue # <<>> THEN Last(queue) = Prompt ELSE EndsInPrompt(line)

Sending == {"login", "send_ps1", "send_command", "send_status", "send_line"}

\* InStep rests on what a prompt means.  At most one line is on its way to the
\* shell; a prompt that nothing follows says that it waits; a call sends only
\* then; and current_line ends in a prompt only then, because every expect that
\* ends has tested a line since the last line was sent.
OneLine  == typed = <<>> \/ (shell = AtPrompt /\ Len(typed) = 1)
NoEof    == \A i \in 1..Len(queue) : queue[i] # Eof
Shown    == LastIsPrompt => Waits
SendsInStep == pc \in Sending => Waits
LineIsNew == pc = "idle" \/ (pc \in Expecting /\ tested) => (EndsInPrompt(current_line) => Waits)
NoReadline == pc # "readline"
StepInv  == ~closed => OneLine /\ NoEof /\ Shown /\ SendsInStep /\ LineIsNew /\ NoReadline
Untested == pc \notin Expecting => tested = FALSE

IInv == TypeOK /\ Untested /\ StepInv

-----------------------------------------------------------------------------
(* Sequences of symbols. *)

LEMMA SymbolKinds ==
  /\ Login \in Symbols /\ Prompt \in Symbols /\ Newline \in Symbols
  /\ Noise \in Symbols /\ Eof \in Symbols
  /\ \A n \in Lines : /\ Symbol("echo", n) \in Symbols /\ Symbol("number", n) \in Symbols
                      /\ Symbol("status", n) \in Symbols
  /\ Newline # Prompt /\ Noise # Prompt /\ Login # Prompt
  /\ Newline # Eof /\ Noise # Eof /\ Login # Eof /\ Prompt # Eof
  /\ \A n : /\ Symbol("echo", n) # Eof /\ Symbol("number", n) # Eof
           /\ Symbol("status", n) # Eof /\ Symbol("number", n) # Prompt
BY DEF Symbols, Symbol, Login, Prompt, Newline, Noise, Eof, Lines, SetPS1, EchoStatus

LEMMA Extended ==
  ASSUME NEW q \in Seq(Symbols), NEW s \in Seq(Symbols), s # <<>>
  PROVE  /\ q \o s \in Seq(Symbols) /\ q \o s # <<>> /\ Last(q \o s) = Last(s)
         /\ (\A i \in 1..Len(q) : q[i] # Eof) /\ (\A i \in 1..Len(s) : s[i] # Eof)
              => \A i \in 1..Len(q \o s) : (q \o s)[i] # Eof
<1>1. /\ q \o s \in Seq(Symbols) /\ Len(q \o s) = Len(q) + Len(s)
      /\ \A i \in 1..Len(q) + Len(s) : (q \o s)[i] = IF i <= Len(q) THEN q[i] ELSE s[i - Len(q)]
  BY ConcatProperties
<1>2. Len(s) \in Nat \ {0} /\ Len(q) \in Nat
  OBVIOUS
<1> QED BY <1>1, <1>2 DEF Last

\* Whatever a step puts out can be read, and only a prompt at its end is a prompt.
LEMMA OutputFacts ==
  ASSUME NEW s \in Seq(Symbols), s # <<>>, queue \in Seq(Symbols), Output(s)
  PROVE  /\ queue' \in Seq(Symbols) /\ queue' # <<>> /\ Last(queue') = Last(s)
         /\ NoEof /\ (\A i \in 1..Len(s) : s[i] # Eof) => NoEof'
BY Extended DEF Output, NoEof

LEMMA PutsOne ==
  ASSUME NEW a \in Symbols, queue \in Seq(Symbols), Output(<<a>>)
  PROVE  /\ queue' \in Seq(Symbols) /\ queue' # <<>> /\ Last(queue') = a
         /\ NoEof /\ a # Eof => NoEof'
<1>1. /\ <<a>> \in Seq(Symbols) /\ <<a>> # <<>> /\ Last(<<a>>) = a
      /\ a # Eof => \A i \in 1..Len(<<a>>) : <<a>>[i] # Eof
  BY DEF Last
<1> QED BY <1>1, OutputFacts

LEMMA PutsTwo ==
  ASSUME NEW a \in Symbols, NEW b \in Symbols, queue \in Seq(Symbols), Output(<<a, b>>)
  PROVE  /\ queue' \in Seq(Symbols) /\ queue' # <<>> /\ Last(queue') = b
         /\ NoEof /\ a # Eof /\ b # Eof => NoEof'
<1>1. /\ <<a, b>> \in Seq(Symbols) /\ <<a, b>> # <<>> /\ Last(<<a, b>>) = b
      /\ a # Eof /\ b # Eof => \A i \in 1..Len(<<a, b>>) : <<a, b>>[i] # Eof
  BY DEF Last
<1> QED BY <1>1, OutputFacts

LEMMA PutsThree ==
  ASSUME NEW a \in Symbols, NEW b \in Symbols, NEW c \in Symbols,
         queue \in Seq(Symbols), Output(<<a, b, c>>)
  PROVE  /\ queue' \in Seq(Symbols) /\ queue' # <<>> /\ Last(queue') = c
         /\ NoEof /\ a # Eof /\ b # Eof /\ c # Eof => NoEof'
<1>1. /\ <<a, b, c>> \in Seq(Symbols) /\ <<a, b, c>> # <<>> /\ Last(<<a, b, c>>) = c
      /\ a # Eof /\ b # Eof /\ c # Eof => \A i \in 1..Len(<<a, b, c>>) : <<a, b, c>>[i] # Eof
  BY DEF Last
<1> QED BY <1>1, OutputFacts

LEMMA TailFacts ==
  ASSUME queue \in Seq(Symbols), queue # <<>>, queue' = Tail(queue)
  PROVE  /\ Head(queue) \in Symbols /\ queue' \in Seq(Symbols)
         /\ NoEof => NoEof'
         /\ IF queue' = <<>> THEN Last(queue) = Head(queue) ELSE Last(queue') = Last(queue)
<1>1. /\ Head(queue) \in Symbols /\ Tail(queue) \in Seq(Symbols)
      /\ Len(Tail(queue)) = Len(queue) - 1
      /\ \A i \in 1..Len(Tail(queue)) : Tail(queue)[i] = queue[i + 1]
  BY HeadTailProperties
<1>2. Len(queue) \in Nat \ {0} /\ Head(queue) = queue[1]
  OBVIOUS
<1>3. NoEof => NoEof'
  BY <1>1, <1>2 DEF NoEof
<1>4. CASE queue' = <<>>
  <2>0. Len(Tail(queue)) = 0
    BY <1>1, <1>4, EmptySeq
  <2>1. Len(queue) = 1
    BY <1>1, <1>2, <2>0
  <2>2. Last(queue) = Head(queue)
    BY <1>2, <2>1 DEF Last
  <2> QED BY <1>1, <1>3, <1>4, <2>2
<1>5. CASE queue' # <<>>
  <2>1. Len(queue') \in Nat \ {0}
    BY <1>1, <1>5
  <2> QED BY <1>1, <1>2, <1>3, <1>5, <2>1 DEF Last
<1> QED BY <1>4, <1>5

LEMMA CloseFacts == queue \in Seq(Symbols) /\ _populateQueue => queue' \in Seq(Symbols)
<1> SUFFICES ASSUME queue \in Seq(Symbols), _populateQueue PROVE queue' \in Seq(Symbols)
  OBVIOUS
<1>1. PICK read \in 0..Len(queue) : queue' = Append(SubSeq(queue, 1, read), Eof)
  BY DEF _populateQueue
<1>2. \A i \in 1..read : queue[i] \in Symbols
  BY <1>1
<1>3. SubSeq(queue, 1, read) \in Seq(Symbols)
  BY <1>2, SubSeqProperties
<1> QED BY <1>1, <1>3, SymbolKinds

\* A full line never matches a prompt.
LEMMA FullLine ==
  ASSUME NEW l \in Seq(Symbols)
  PROVE  /\ Append(l, Newline) \in Seq(Symbols) /\ ~EndsInPrompt(Append(l, Newline))
<1>1. Append(l, Newline) \in Seq(Symbols)
  BY SymbolKinds
<1>2. Last(Append(l, Newline)) = Newline
  BY SymbolKinds DEF Last
<1> QED BY <1>1, <1>2, SymbolKinds DEF EndsInPrompt

-----------------------------------------------------------------------------
(* Types. *)

LEMMA InitTypes == Init => TypeOK /\ Untested
<1> SUFFICES ASSUME Init PROVE TypeOK /\ Untested
  OBVIOUS
<1>1. <<Login>> \in Seq(Symbols) /\ <<>> \in Seq(Symbols) /\ <<>> \in Seq(Lines)
  BY SymbolKinds
<1>2. 0 \in Lines /\ 0 \in 0..MaxCalls /\ 0 \in 0..MaxNoise
  BY BoundsAssumption DEF Lines, SetPS1, EchoStatus
<1> QED BY <1>1, <1>2, SymbolKinds DEF Init, TypeOK, Untested, Expecting, SetPS1

\* The end of an expect, for the variables of command and for all of them.
Ended ==
  /\ pc' \in {"send_ps1", "send_command", "send_status", "final", "idle", "gone"}
  /\ call' \in 0..MaxCalls /\ ret' \subseteq Symbols /\ code' \in Symbols
  /\ result' \in {"none", "returned", "error", "stopped"}

LEMMA EndTypes ==
  ASSUME TypeOK, NEW l \in Seq(Symbols),
         \/ Matched(l) /\ (is_match(l) \/ pc = "readline")
         \/ GiveUp
  PROVE  Ended
<1>1. CASE Matched(l) /\ (is_match(l) \/ pc = "readline")
  <2>1. pc = "status" => l[1] \in Symbols
    <3> SUFFICES ASSUME pc = "status" PROVE l[1] \in Symbols
      OBVIOUS
    <3>1. Len(l) = 2
      BY <1>1 DEF Matched, is_match, IsStatus, GiveUp, Raise
    <3> QED BY <3>1
  <2> QED BY <1>1, <2>1 DEF Ended, Matched, TypeOK
<1>2. CASE GiveUp
  BY <1>2 DEF Ended, GiveUp, Raise, commandVars, TypeOK
<1> QED BY <1>1, <1>2

LEMMA EndedTypes ==
  ASSUME TypeOK, Ended, NoLocals, UNCHANGED otherVars,
         queue' \in Seq(Symbols), current_line' \in Seq(Symbols)
  PROVE  TypeOK' /\ Untested'
<1>0. <<>> \in Seq(Symbols)
  OBVIOUS
<1>1. line' \in Seq(Symbols) /\ before' \subseteq Symbols /\ tested' = FALSE
  BY <1>0 DEF NoLocals
<1>2. /\ pc' \in Expecting \cup {"idle", "gone", "send_ps1", "send_command", "send_status", "send_line"}
      /\ call' \in 0..MaxCalls /\ ret' \subseteq Symbols /\ code' \in Symbols
      /\ result' \in {"none", "returned", "error", "stopped"}
  BY DEF Ended, Expecting
<1>3. UNCHANGED <<ps, shell, typed, status, printed, closed, noise>>
  BY DEF otherVars, shellVars
<1>4. TypeOK'
  BY <1>1, <1>2, <1>3 DEF TypeOK
<1> QED BY <1>1, <1>4 DEF Untested

LEMMA NextTypes == TypeOK /\ Untested /\ [Next]_vars => TypeOK' /\ Untested'
<1> SUFFICES ASSUME TypeOK, Untested, [Next]_vars PROVE TypeOK' /\ Untested'
  OBVIOUS
<1>0. /\ queue \in Seq(Symbols) /\ line \in Seq(Symbols) /\ ps \in Symbols
      /\ current_line \in Seq(Symbols)
      /\ status \in Lines /\ typed \in Seq(Lines)
  BY SymbolKinds DEF TypeOK
<1>1. CASE ShellReads
  <2>1. Head(typed) \in Lines /\ Tail(typed) \in Seq(Lines)
    BY <1>0, <1>1, HeadTailProperties DEF ShellReads
  <2> QED BY <1>1, <2>1 DEF ShellReads, callerVars, expectVars, commandVars, TypeOK, Untested, Expecting
<1>2. CASE ShellPrints
  <2> DEFINE text == Symbol("number", shell)
  <2>1. shell \in Lines /\ text \in Symbols
    BY <1>2, BoundsAssumption, SymbolKinds DEF ShellPrints, Lines, SetPS1, EchoStatus
  <2>2. Output(<<text>>) \/ Output(<<text, Newline>>)
    BY <1>2 DEF ShellPrints
  <2>3. queue' \in Seq(Symbols)
    BY <1>0, <2>1, <2>2, SymbolKinds, PutsOne, PutsTwo, PutsThree
  <2> QED BY <1>2, <2>3 DEF ShellPrints, callerVars, expectVars, commandVars, TypeOK, Untested, Expecting
<1>3. CASE ShellEnds
  <2> DEFINE answer == Symbol("status", status)
  <2>1. answer \in Symbols /\ ps' \in Symbols
    BY <1>0, <1>3, SymbolKinds DEF ShellEnds
  <2>2. Output(<<ps'>>) \/ Output(<<answer, Newline, ps'>>)
    BY <1>3 DEF ShellEnds
  <2>3. queue' \in Seq(Symbols)
    BY <1>0, <2>1, <2>2, SymbolKinds, PutsOne, PutsTwo, PutsThree
  <2>4. status' \in Lines
    BY <1>3, BoundsAssumption DEF ShellEnds, Lines, SetPS1, EchoStatus, TypeOK
  <2> QED BY <1>3, <2>3, <2>4 DEF ShellEnds, callerVars, expectVars, commandVars, TypeOK, Untested, Expecting
<1>4. CASE Message
  <2>1. queue' \in Seq(Symbols)
    <3>1. Output(<<Noise>>) \/ Output(<<Noise, Newline>>)
      BY <1>4 DEF Message
    <3> QED BY <1>0, <3>1, SymbolKinds, PutsOne, PutsTwo
  <2> QED BY <1>4, <2>1, BoundsAssumption
          DEF Message, shellVars, callerVars, expectVars, commandVars, TypeOK, Untested, Expecting
<1>5. CASE Breaks \/ __exit__
  <2>1. queue' \in Seq(Symbols)
    BY <1>0, <1>5, CloseFacts DEF Breaks, __exit__
  <2>2. /\ pc' = pc \/ (pc = "idle" /\ pc' = "gone")
        /\ closed' = TRUE /\ UNCHANGED <<shellVars, expectVars, commandVars, noise>>
    BY <1>5 DEF Breaks, __exit__, callerVars
  <2> QED BY <2>1, <2>2 DEF shellVars, expectVars, commandVars, TypeOK, Untested, Expecting
<1>6. CASE expect_byte
  <2>1. Head(queue) \in Symbols /\ queue' \in Seq(Symbols)
    BY <1>0, <1>6, TailFacts DEF expect_byte
  <2> QED BY <1>6, <2>1 DEF expect_byte, otherVars, shellVars, commandVars, TypeOK, Untested, Expecting
<1>7. CASE expect_line
  <2> DEFINE full == Append(line, Newline)
  <2>1. queue' \in Seq(Symbols) /\ full \in Seq(Symbols)
    BY <1>0, <1>7, TailFacts, FullLine DEF expect_line
  <2>2. current_line' \in Seq(Symbols) /\ UNCHANGED otherVars
    BY <1>7, <2>1 DEF expect_line, Test, TypeOK
  <2>3. CASE Matched(full) /\ NoLocals /\ (is_match(full) \/ pc = "readline")
    <3>1. Ended
      BY <2>1, <2>3, EndTypes
    <3> QED BY <2>1, <2>2, <2>3, <3>1, EndedTypes
  <2>4. CASE /\ line' = <<>> /\ before' = before \cup ToSet(line) /\ tested' = TRUE
             /\ UNCHANGED <<pc, commandVars>>
    <3>1. ToSet(line) \subseteq Symbols
      BY <1>0 DEF ToSet
    <3> QED BY <1>7, <2>1, <2>2, <2>4, <3>1
            DEF expect_line, otherVars, shellVars, commandVars, TypeOK, Untested
  <2> QED BY <1>7, <2>3, <2>4 DEF expect_line
<1>8. CASE expect_partial
  <2>1. current_line' \in Seq(Symbols) /\ UNCHANGED <<otherVars, queue>>
    BY <1>0, <1>8 DEF expect_partial, Test, TypeOK
  <2>2. CASE Matched(line) /\ NoLocals /\ is_match(line)
    <3>1. Ended
      BY <1>0, <2>2, EndTypes
    <3> QED BY <1>0, <2>1, <2>2, <3>1, EndedTypes
  <2>3. CASE tested' = TRUE /\ UNCHANGED <<pc, commandVars, line, before>>
    BY <1>8, <2>1, <2>3 DEF expect_partial, otherVars, shellVars, commandVars, TypeOK, Untested
  <2> QED BY <1>8, <2>2, <2>3 DEF expect_partial
<1>9. CASE expect_eof
  <2>1. queue' \in Seq(Symbols)
    BY <1>0, <1>9, TailFacts DEF expect_eof
  <2>2. Ended
    <3>1. CASE pc' = "idle" /\ UNCHANGED commandVars
      BY <3>1 DEF Ended, commandVars, TypeOK
    <3>2. CASE GiveUp
      BY <1>0, <3>2, EndTypes
    <3> QED BY <1>9, <3>1, <3>2 DEF expect_eof
  <2>3. current_line' \in Seq(Symbols) /\ UNCHANGED otherVars
    BY <1>0, <1>9 DEF expect_eof
  <2> QED BY <1>9, <2>1, <2>2, <2>3, EndedTypes DEF expect_eof
<1>10. CASE expect_timeout
  <2>1. Ended
    BY <1>0, <1>10, EndTypes DEF expect_timeout
  <2> QED BY <1>0, <1>10, <2>1, EndedTypes DEF expect_timeout
<1>11. CASE Sends
  <2>1. PICK n \in Lines, label \in {"ps1", "prompt", "status", "line", "any", "readline"} :
          Send(n, label)
    BY <1>11, BoundsAssumption DEF Sends, Lines, SetPS1, EchoStatus, TypeOK
  <2>2. tested = FALSE /\ UNCHANGED <<ps, shell, status, printed, closed, expectVars, noise>>
    BY <1>11, <2>1 DEF Sends, Send, Untested, Expecting
  <2>3. CASE closed
    <3>1. Ended /\ UNCHANGED <<typed, queue>>
      BY <1>0, <2>1, <2>3, EndTypes DEF Send
    <3> QED BY <2>2, <3>1 DEF Ended, expectVars, TypeOK, Untested, Expecting
  <2>4. CASE ~closed
    <3> DEFINE echo == Symbol("echo", n)
    <3>1. Output(<<echo, Newline>>) /\ typed' = Append(typed, n) /\ pc' = label /\ UNCHANGED commandVars
      BY <2>1, <2>4 DEF Send
    <3>2. queue' \in Seq(Symbols)
      BY <1>0, <3>1, SymbolKinds, PutsTwo
    <3>3. typed' \in Seq(Lines)
      BY <1>0, <3>1
    <3> QED BY <2>2, <3>1, <3>2, <3>3 DEF expectVars, commandVars, TypeOK, Untested, Expecting
  <2> QED BY <2>3, <2>4
<1>12. CASE command \/ send_line
  BY <1>12, SymbolKinds, BoundsAssumption
     DEF command, send_line, Called, otherVars, shellVars, expectVars, TypeOK, Untested, Expecting
<1>13. CASE expect_prompt
  BY <1>13 DEF expect_prompt, otherVars, shellVars, expectVars, commandVars, TypeOK, Untested, Expecting
<1>14. CASE send_ctrl_c
  <2>1. queue' \in Seq(Symbols)
    BY <1>0, <1>14, SymbolKinds, PutsTwo DEF send_ctrl_c
  <2>2. status' \in Lines
    BY <1>14, BoundsAssumption DEF send_ctrl_c, Lines, SetPS1, EchoStatus
  <2>3. shell' \in Lines \cup {AtPrompt} /\ typed' \in Seq(Lines)
    BY <1>14 DEF send_ctrl_c
  <2> QED BY <1>14, <2>1, <2>2, <2>3 DEF send_ctrl_c, expectVars, TypeOK, Untested, Expecting
<1>15. CASE UNCHANGED vars
  BY <1>15 DEF vars, shellVars, expectVars, commandVars, TypeOK, Untested, Expecting
<1> QED
  BY <1>1, <1>2, <1>3, <1>4, <1>5, <1>6, <1>7, <1>8, <1>9, <1>10, <1>11, <1>12, <1>13,
     <1>14, <1>15 DEF Next, Shell, Advance, Script

-----------------------------------------------------------------------------
(* In step with the shell. *)

LEMMA InitStep == Init => StepInv
<1> SUFFICES ASSUME Init PROVE StepInv
  OBVIOUS
<1>1. Waits /\ NoEof /\ ~LastIsPrompt /\ ~EndsInPrompt(current_line)
  BY SymbolKinds DEF Init, Waits, NoEof, LastIsPrompt, EndsInPrompt, Last
<1> QED BY <1>1 DEF Init, StepInv, OneLine, Shown, SendsInStep, LineIsNew, NoReadline, Waits

\* Each step of the shell, of expect and of the script keeps StepInv.
LEMMA StepNext ==
  ASSUME Careful, IInv, [Next]_vars
  PROVE  StepInv'
<1> SUFFICES ASSUME ~closed' PROVE (OneLine /\ NoEof /\ Shown /\ SendsInStep /\ LineIsNew /\ NoReadline)'
  BY DEF StepInv
<1>0. /\ queue \in Seq(Symbols) /\ line \in Seq(Symbols) /\ typed \in Seq(Lines)
      /\ ps \in {Login, Prompt} /\ status \in Lines /\ shell \in Lines \cup {AtPrompt}
      /\ Untested
  BY DEF IInv, TypeOK
<1>a. closed => closed'
  BY DEF Next, Shell, Advance, Script, ShellReads, ShellPrints, ShellEnds, Message, Breaks,
     expect_byte, expect_line, expect_partial, expect_eof, Sends, Send, expect_timeout, command,
     send_line, Called, expect_prompt, send_ctrl_c, __exit__, otherVars, vars
<1>b. ~closed /\ OneLine /\ NoEof /\ Shown /\ SendsInStep /\ LineIsNew /\ NoReadline
  BY <1>a DEF IInv, StepInv
<1>c. AtPrompt \notin Lines
  BY BoundsAssumption DEF AtPrompt, Lines, SetPS1
\* Steps of the shell and of others on the terminal.
<1>1. CASE ShellReads
  <2>1. ~Waits /\ OneLine' /\ UNCHANGED <<queue, line, pc, tested, current_line>>
    <3>1. Len(typed) = 1 /\ typed' = Tail(typed)
      BY <1>b, <1>1 DEF ShellReads, OneLine
    <3>2. typed' = <<>>
      BY <1>0, <1>1, <3>1, HeadTailProperties, EmptySeq DEF ShellReads
    <3> QED BY <1>1, <3>2 DEF ShellReads, Waits, OneLine, callerVars, expectVars
  <2> QED BY <1>b, <2>1 DEF Shown, SendsInStep, LineIsNew, NoReadline, NoEof, LastIsPrompt, EndsInPrompt
<1>2. CASE ShellPrints
  <2> DEFINE text == Symbol("number", shell)
  <2>1. /\ ~Waits /\ shell \in Lines
        /\ UNCHANGED <<shell, typed, line, pc, tested, current_line>>
        /\ Output(<<text>>) \/ Output(<<text, Newline>>)
    BY <1>2, BoundsAssumption
       DEF ShellPrints, Waits, AtPrompt, Lines, SetPS1, EchoStatus, callerVars, expectVars
  <2>2. queue' # <<>> /\ Last(queue') # Prompt /\ NoEof'
    BY <1>0, <1>b, <2>1, SymbolKinds, PutsOne, PutsTwo
  <2> QED BY <1>b, <2>1, <2>2
          DEF OneLine, Shown, SendsInStep, LineIsNew, NoReadline, LastIsPrompt, EndsInPrompt, Waits
<1>3. CASE ShellEnds
  <2> DEFINE answer == Symbol("status", status)
  <2>1. Output(<<ps'>>) \/ Output(<<answer, Newline, ps'>>)
    BY <1>3 DEF ShellEnds
  <2>0. answer \in Symbols /\ answer # Eof /\ ps' \in {Login, Prompt}
    BY <1>0, <1>3, SymbolKinds DEF ShellEnds
  <2>2. NoEof'
    BY <1>0, <1>b, <2>0, <2>1, SymbolKinds, PutsOne, PutsThree
  <2>3. Waits' /\ pc' = pc
    BY <1>3, <1>b DEF ShellEnds, OneLine, Waits, callerVars
  <2> QED BY <1>b, <2>2, <2>3 DEF OneLine, Shown, SendsInStep, LineIsNew, NoReadline, Waits
<1>4. CASE Message
  <2>1. Output(<<Noise>>) \/ Output(<<Noise, Newline>>)
    BY <1>4 DEF Message
  <2>2. queue' # <<>> /\ Last(queue') # Prompt /\ NoEof'
    BY <1>0, <1>b, <2>1, SymbolKinds, PutsOne, PutsTwo
  <2>3. UNCHANGED <<shell, typed, line, pc, tested, current_line>>
    BY <1>4 DEF Message, shellVars, callerVars, expectVars
  <2> QED BY <1>b, <2>2, <2>3
          DEF OneLine, Shown, SendsInStep, LineIsNew, NoReadline, LastIsPrompt, EndsInPrompt, Waits
<1>5. CASE Breaks \/ __exit__
  BY <1>5 DEF Breaks, __exit__
\* Steps of expect: the shell is not touched.
<1>6. CASE expect_byte
  <2> DEFINE byte == Head(queue)
  <2>1. /\ UNCHANGED <<shell, typed, pc, tested, current_line>> /\ byte \in Symbols
        /\ line' = Append(line, byte) /\ queue # <<>> /\ NoEof'
        /\ IF queue' = <<>> THEN Last(queue) = byte ELSE Last(queue') = Last(queue)
    BY <1>0, <1>6, <1>b, TailFacts DEF expect_byte, otherVars, shellVars
  <2>2. Last(line') = byte
    BY <1>0, <2>1 DEF Last
  <2>3. LastIsPrompt' => LastIsPrompt
    BY <2>1, <2>2 DEF LastIsPrompt, EndsInPrompt
  <2> QED BY <1>b, <2>1, <2>3 DEF OneLine, Shown, SendsInStep, LineIsNew, NoReadline, Waits, EndsInPrompt
<1>7. CASE expect_line
  <2> DEFINE full == Append(line, Newline)
  <2>1. /\ UNCHANGED <<shell, typed>> /\ queue # <<>> /\ NoEof' /\ line' = <<>>
        /\ IF queue' = <<>> THEN Last(queue) = Newline ELSE Last(queue') = Last(queue)
    BY <1>0, <1>7, <1>b, TailFacts DEF expect_line, otherVars, shellVars, NoLocals
  <2>2. Shown' /\ OneLine'
    BY <1>b, <2>1 DEF Shown, LastIsPrompt, EndsInPrompt, OneLine, Waits
  <2>3. current_line' = full /\ ~EndsInPrompt(full)
    BY <1>0, <1>7, <1>b, FullLine DEF NoReadline, expect_line, Test
  <2>4. CASE Matched(full)
    <3>1. pc' \notin {"send_command", "send_status", "readline"} /\ (pc' = "send_ps1" => Waits)
      BY <1>7, <1>b, <2>3, <2>4 DEF expect_line, Matched, is_match, SendsInStep, Sending, NoReadline
    <3>2. pc' \notin {"login", "send_line"}
      BY <2>4 DEF Matched
    <3> QED BY <2>1, <2>2, <2>3, <3>1, <3>2
            DEF SendsInStep, Sending, LineIsNew, NoReadline, Waits
  <2>5. CASE pc' = pc
    BY <1>b, <2>1, <2>2, <2>3, <2>5 DEF SendsInStep, LineIsNew, NoReadline, Waits
  <2> QED BY <1>7, <2>4, <2>5 DEF expect_line
<1>8. CASE expect_partial
  <2>1. /\ UNCHANGED <<shell, typed, queue>> /\ queue = <<>> /\ line' \in {line, <<>>}
        /\ current_line' = line /\ (EndsInPrompt(line) => Waits)
    BY <1>8, <1>b DEF Careful, expect_partial, NoLocals, otherVars, shellVars, Test, NoReadline,
       Shown, LastIsPrompt
  <2>2. OneLine' /\ NoEof' /\ Shown'
    BY <1>b, <2>1 DEF OneLine, NoEof, Shown, LastIsPrompt, EndsInPrompt, Waits
  <2>3. LineIsNew'
    BY <2>1 DEF LineIsNew, Waits
  <2>4. CASE Matched(line) /\ is_match(line)
    <3>1. pc' \in Sending => Waits
      BY <1>8, <1>b, <2>1, <2>4 DEF Matched, is_match, SendsInStep, Sending
    <3>2. pc' # "readline"
      BY <2>4 DEF Matched
    <3> QED BY <2>1, <2>2, <2>3, <3>1, <3>2 DEF SendsInStep, NoReadline, Waits
  <2>5. CASE pc' = pc
    BY <1>b, <2>1, <2>2, <2>3, <2>5 DEF SendsInStep, NoReadline, Waits
  <2> QED BY <1>8, <2>4, <2>5 DEF expect_partial
<1>9. CASE expect_eof
  <2>1. queue[1] = Eof /\ 1 \in 1..Len(queue)
    BY <1>0, <1>9, EmptySeq DEF expect_eof
  <2> QED BY <1>b, <2>1 DEF NoEof
<1>10. CASE expect_timeout
  <2>1. /\ UNCHANGED <<shell, typed, queue, current_line>> /\ line' = <<>>
        /\ pc' \in {"idle", "gone"} /\ pc \in Expecting /\ tested
    BY <1>10 DEF expect_timeout, GiveUp, Raise, NoLocals, otherVars, shellVars
  <2>2. OneLine' /\ NoEof' /\ Shown'
    BY <1>b, <2>1 DEF OneLine, NoEof, Shown, LastIsPrompt, EndsInPrompt, Waits
  <2> QED BY <1>b, <2>1, <2>2
          DEF SendsInStep, Sending, LineIsNew, NoReadline, Waits, EndsInPrompt, Expecting
<1>11. CASE Sends
  <2>1. PICK n \in Lines, label \in {"ps1", "prompt", "status", "line", "any"} : Send(n, label)
    BY <1>11, BoundsAssumption DEF Careful, Sends, Lines, SetPS1, EchoStatus, IInv, TypeOK
  <2> DEFINE echo == Symbol("echo", n)
  <2>2. /\ Output(<<echo, Newline>>) /\ typed' = Append(typed, n) /\ pc' = label
        /\ UNCHANGED <<shell, tested>>
    BY <1>b, <2>1 DEF Send, expectVars
  <2>3. Waits /\ tested = FALSE
    BY <1>0, <1>11, <1>b DEF Sends, SendsInStep, Sending, Untested, Expecting
  <2>4. queue' # <<>> /\ Last(queue') # Prompt /\ NoEof'
    BY <1>0, <1>b, <2>2, SymbolKinds, PutsTwo
  <2>5. OneLine'
    BY <1>0, <2>2, <2>3 DEF OneLine, Waits
  <2> QED BY <2>2, <2>3, <2>4, <2>5
          DEF Shown, LastIsPrompt, SendsInStep, Sending, LineIsNew, NoReadline
\* Steps of the script between its calls.
<1>12. CASE command \/ send_line \/ expect_prompt
  <2>1. /\ UNCHANGED <<shell, typed, queue, line, tested, current_line>> /\ pc = "idle"
        /\ pc' \in {"resync", "send_command", "send_line", "expect_prompt"}
        /\ pc' = "send_command" => EndsInPrompt(current_line)
        /\ pc' = "send_line" => Waits
    BY <1>12 DEF command, send_line, expect_prompt, Called, otherVars, shellVars, expectVars,
       Careful, Waits
  <2>2. OneLine' /\ NoEof' /\ Shown'
    BY <1>b, <2>1 DEF OneLine, NoEof, Shown, LastIsPrompt, EndsInPrompt, Waits
  <2>3. tested = FALSE
    BY <1>0, <2>1 DEF Untested, Expecting
  <2> QED BY <1>b, <2>1, <2>2, <2>3
          DEF SendsInStep, Sending, LineIsNew, NoReadline, Waits, EndsInPrompt
<1>13. CASE send_ctrl_c
  <2>1. Waits' /\ pc' = pc /\ Output(<<Newline, ps>>)
    BY <1>13 DEF send_ctrl_c, Waits
  <2>2. NoEof'
    BY <1>0, <1>b, <2>1, SymbolKinds, PutsTwo
  <2> QED BY <1>b, <2>1, <2>2 DEF OneLine, Shown, SendsInStep, LineIsNew, NoReadline, Waits
<1>14. CASE UNCHANGED vars
  BY <1>14, <1>b DEF vars, shellVars, expectVars, OneLine, NoEof, Shown, SendsInStep, LineIsNew,
     NoReadline, LastIsPrompt, EndsInPrompt, Waits
<1> QED
  BY <1>1, <1>2, <1>3, <1>4, <1>5, <1>6, <1>7, <1>8, <1>9, <1>10, <1>11, <1>12, <1>13, <1>14
  DEF Next, Shell, Advance, Script

-----------------------------------------------------------------------------

\* The variables keep their types, for any faults, numbers of calls and messages.
THEOREM ConsoleTypes == Spec => []TypeOK
<1>1. TypeOK /\ Untested /\ [Next]_vars => TypeOK' /\ Untested'
  BY NextTypes
<1> QED BY InitTypes, <1>1, PTL DEF Spec

\* What command sends a shell waits for, for any number of calls, timeouts, stops
\* and messages of others (expect.py: "we should be at a prompt").
THEOREM StaysInStep == Careful => (Spec => InStep)
<1> SUFFICES ASSUME Careful PROVE Spec => InStep
  OBVIOUS
<1>1. Init => IInv
  BY InitTypes, InitStep DEF IInv
<1>2. IInv /\ [Next]_vars => IInv'
  BY NextTypes, StepNext DEF IInv
<1>3. IInv /\ [Next]_vars =>
        [typed' # typed /\ (pc \in {"send_command", "send_status"}) =>
           typed = <<>> /\ (shell = AtPrompt)]_vars
  <2> SUFFICES ASSUME IInv, Next, typed' # typed, pc \in {"send_command", "send_status"}
               PROVE  typed = <<>> /\ shell = AtPrompt
    OBVIOUS
  <2>1. ~closed
    BY DEF Next, Shell, Advance, Script, ShellReads, ShellPrints, ShellEnds, Message, Breaks,
       expect_byte, expect_line, expect_partial, expect_eof, Sends, Send, expect_timeout, command,
       send_line, Called, expect_prompt, send_ctrl_c, __exit__, otherVars, shellVars
  <2> QED BY <2>1 DEF IInv, StepInv, SendsInStep, Sending, Waits
<1> QED BY <1>1, <1>2, <1>3, PTL DEF Spec, InStep

-----------------------------------------------------------------------------
(* The result of command.  A call starts when nothing with a text is on its *)
(* way, so what comes while it waits for the prompt is its own; the prompt  *)
(* comes after its output; and the only number in a line that comes after   *)
(* the echo of "echo $?" is its status.                                     *)

Texts == {"echo", "number", "status"}

Plain(S) == \A s \in S : s.kind \notin Texts

OfCall(S) == \A s \in S : s.kind \in Texts => s.of = call

Number == Symbol("number", call)

\* The line of the command, with its end, is still to come.
Pending == \E i, j \in 1..Len(queue) : i < j /\ queue[i] = Number /\ queue[j] = Newline

LineComing ==
  \/ Number \in before
  \/ Number \in ToSet(line) /\ Newline \in ToSet(queue)
  \/ Pending

Calling == {"resync", "send_command", "prompt", "send_status", "status", "final"}

CallInv == pc \in Calling => call \in 1..MaxCalls

LocalsInv == pc \notin Expecting => line = <<>> /\ before = {}

ClosedInv == closed => IF queue = <<>> THEN line = <<>> ELSE Last(queue) = Eof

CleanInv ==
  /\ ~closed /\ (pc = "idle" \/ (pc \in Expecting /\ tested)) /\ EndsInPrompt(current_line)
       => Plain(ToSet(queue))
  /\ pc = "send_command" => closed \/ Plain(ToSet(queue))

PromptInv ==
  pc = "prompt" =>
    /\ OfCall(ToSet(queue) \cup ToSet(line) \cup before)
    /\ \/ typed = <<call>> /\ shell = AtPrompt
       \/ typed = <<>> /\ shell = call
       \/ Waits /\ status = call
    /\ typed = <<>> /\ printed = "line" /\ ~closed => LineComing

StatusInv ==
  /\ pc = "send_status" => Waits /\ status = call /\ Plain(ToSet(queue))
  /\ pc = "status" =>
       /\ \/ typed = <<EchoStatus>> /\ shell = AtPrompt /\ status = call
          \/ typed = <<>> /\ shell = EchoStatus /\ status = call
          \/ Waits
       /\ \A s \in ToSet(queue) \cup ToSet(line) :
            /\ s.kind # "number"
            /\ s.kind = "status" => Waits /\ s.of = call

RetInv ==
  pc \in {"send_status", "status", "final"} \/ result = "returned" =>
    OfCall(ret) /\ (printed = "line" => Number \in ret)

CodeInv ==
  /\ pc = "final" \/ result = "returned" => code = Symbol("status", call) /\ Waits
  /\ result = "returned" => pc \in {"idle", "gone", "expect_prompt"}

OwnInv ==
  CallInv /\ LocalsInv /\ ClosedInv /\ CleanInv /\ PromptInv /\ StatusInv /\ RetInv /\ CodeInv

LEMMA InToSet ==
  ASSUME NEW q \in Seq(Symbols), NEW s
  PROVE  s \in ToSet(q) <=> \E i \in 1..Len(q) : q[i] = s
<1>1. DOMAIN q = 1..Len(q)
  OBVIOUS
<1> QED BY <1>1 DEF ToSet

LEMMA Kinds ==
  /\ Login.kind \notin Texts /\ Prompt.kind \notin Texts /\ Newline.kind \notin Texts
  /\ Noise.kind \notin Texts /\ Eof.kind \notin Texts
  /\ \A n : /\ Symbol("echo", n).kind = "echo" /\ Symbol("number", n).kind = "number"
            /\ Symbol("status", n).kind = "status"
            /\ Symbol("echo", n).of = n /\ Symbol("number", n).of = n /\ Symbol("status", n).of = n
            /\ Symbol("number", n) # Newline /\ Symbol("number", n) # Eof
  /\ \A s \in Symbols : s = Symbol(s.kind, s.of)
BY DEF Symbols, Symbol, Login, Prompt, Newline, Noise, Eof, Texts

\* A step that puts symbols into the queue keeps what is there, and its order.
LEMMA OutputSet ==
  ASSUME NEW s \in Seq(Symbols), queue \in Seq(Symbols), Output(s)
  PROVE  /\ ToSet(queue') = ToSet(queue) \cup ToSet(s)
         /\ Pending /\ UNCHANGED call => Pending'
<1>1. /\ queue' \in Seq(Symbols) /\ Len(queue') = Len(queue) + Len(s)
      /\ \A i \in 1..Len(queue) + Len(s) : queue'[i] = IF i <= Len(queue) THEN queue[i] ELSE s[i - Len(queue)]
  BY ConcatProperties DEF Output
<1>2. Len(s) \in Nat /\ Len(queue) \in Nat
  OBVIOUS
<1>3. \A i \in 1..Len(queue) : i \in 1..Len(queue') /\ queue'[i] = queue[i]
  BY <1>1, <1>2
<1>4. ASSUME NEW i \in 1..Len(s)
      PROVE  i + Len(queue) \in 1..Len(queue') /\ queue'[i + Len(queue)] = s[i]
  <2>1. /\ i + Len(queue) \in 1..Len(queue') /\ i + Len(queue) \in 1..Len(queue) + Len(s)
        /\ ~(i + Len(queue) <= Len(queue)) /\ (i + Len(queue)) - Len(queue) = i
    BY <1>1, <1>2
  <2> QED BY <1>1, <2>1
<1>5. \A i \in 1..Len(queue') : i \notin 1..Len(queue) =>
        i - Len(queue) \in 1..Len(s) /\ queue'[i] = s[i - Len(queue)]
  BY <1>1, <1>2
<1>6. ToSet(queue') \subseteq ToSet(queue) \cup ToSet(s)
  BY <1>1, <1>3, <1>5, InToSet
<1>7. ToSet(queue) \subseteq ToSet(queue')
  BY <1>1, <1>3, InToSet
<1>9. ASSUME NEW e \in ToSet(s) PROVE e \in ToSet(queue')
  <2>1. PICK i \in 1..Len(s) : s[i] = e
    BY <1>9, InToSet
  <2>2. \E k \in 1..Len(queue') : queue'[k] = e
    BY <1>4, <2>1
  <2> QED BY <1>1, <2>2, InToSet
<1>8. Pending /\ UNCHANGED call => Pending'
  BY <1>3 DEF Pending, Number
<1> QED BY <1>6, <1>7, <1>8, <1>9

LEMMA PutsSet ==
  ASSUME NEW a \in Symbols, NEW b \in Symbols, NEW c \in Symbols, queue \in Seq(Symbols)
  PROVE  /\ Output(<<a>>) => ToSet(queue') = ToSet(queue) \cup {a}
         /\ Output(<<a, b>>) => ToSet(queue') = ToSet(queue) \cup {a, b}
         /\ Output(<<a, b, c>>) => ToSet(queue') = ToSet(queue) \cup {a, b, c}
         /\ Output(<<a>>) \/ Output(<<a, b>>) \/ Output(<<a, b, c>>) =>
              (Pending /\ UNCHANGED call => Pending')
         /\ Output(<<a, b>>) /\ a = Number' /\ b = Newline => Pending'
<1>1. <<a>> \in Seq(Symbols) /\ <<a, b>> \in Seq(Symbols) /\ <<a, b, c>> \in Seq(Symbols)
  OBVIOUS
<1>2. ToSet(<<a>>) = {a} /\ ToSet(<<a, b>>) = {a, b} /\ ToSet(<<a, b, c>>) = {a, b, c}
  BY DEF ToSet
<1>3. ASSUME Output(<<a, b>>), a = Number', b = Newline PROVE Pending'
  <2>1. /\ Len(queue') = Len(queue) + 2 /\ Len(queue) \in Nat
        /\ queue'[Len(queue) + 1] = a /\ queue'[Len(queue) + 2] = b
    BY <1>1, <1>3, ConcatProperties DEF Output
  <2> QED BY <1>3, <2>1 DEF Pending
<1> QED BY <1>1, <1>2, <1>3, OutputSet

\* Reading the queue moves its first symbol on.
LEMMA TailSet ==
  ASSUME queue \in Seq(Symbols), queue # <<>>, queue' = Tail(queue)
  PROVE  /\ ToSet(queue) = {Head(queue)} \cup ToSet(queue')
         /\ Pending /\ UNCHANGED call =>
              \/ Pending'
              \/ Head(queue) = Number /\ Newline \in ToSet(queue')
<1>1. /\ Head(queue) \in Symbols /\ Tail(queue) \in Seq(Symbols)
      /\ Len(Tail(queue)) = Len(queue) - 1
      /\ \A i \in 1..Len(Tail(queue)) : Tail(queue)[i] = queue[i + 1]
  BY HeadTailProperties
<1>2. Len(queue) \in Nat \ {0} /\ Head(queue) = queue[1]
  OBVIOUS
<1>3. \A i \in 2..Len(queue) : i - 1 \in 1..Len(queue') /\ queue'[i - 1] = queue[i]
  BY <1>1, <1>2
<1>4. ToSet(queue) = {Head(queue)} \cup ToSet(queue')
  <2>1. \A i \in 1..Len(queue') : i + 1 \in 1..Len(queue) /\ queue'[i] = queue[i + 1]
    BY <1>1, <1>2
  <2>2. \A i \in 1..Len(queue) : queue[i] = Head(queue) \/ \E k \in 1..Len(queue') : queue'[k] = queue[i]
    BY <1>2, <1>3
  <2>3. queue' \in Seq(Symbols) /\ 1 \in 1..Len(queue)
    BY <1>1, <1>2
  <2>4. \A s : s \in ToSet(queue) <=> \E i \in 1..Len(queue) : queue[i] = s
    BY InToSet
  <2>5. \A s : s \in ToSet(queue') <=> \E i \in 1..Len(queue') : queue'[i] = s
    BY <2>3, InToSet
  <2>6. ToSet(queue') \subseteq ToSet(queue) /\ Head(queue) \in ToSet(queue)
    BY <1>2, <2>1, <2>3, <2>4, <2>5
  <2>7. ToSet(queue) \subseteq {Head(queue)} \cup ToSet(queue')
    BY <2>2, <2>4, <2>5
  <2> QED BY <2>6, <2>7
<1>5. ASSUME Pending, UNCHANGED call
      PROVE  Pending' \/ (Head(queue) = Number /\ Newline \in ToSet(queue'))
  <2>1. PICK i \in 1..Len(queue), j \in 1..Len(queue) : i < j /\ queue[i] = Number /\ queue[j] = Newline
    BY <1>5 DEF Pending
  <2>2. j - 1 \in 1..Len(queue') /\ queue'[j - 1] = Newline
    BY <1>2, <1>3, <2>1
  <2>3. Newline \in ToSet(queue')
    BY <1>1, <2>2, InToSet
  <2>4. CASE i = 1
    BY <1>2, <2>1, <2>3, <2>4
  <2>5. CASE i # 1
    <3>1. i - 1 \in 1..Len(queue') /\ queue'[i - 1] = Number /\ i - 1 < j - 1
      BY <1>2, <1>3, <2>1, <2>5
    <3> QED BY <1>5, <2>2, <3>1 DEF Pending, Number
  <2> QED BY <2>4, <2>5
<1> QED BY <1>4, <1>5

LEMMA CloseSet ==
  ASSUME queue \in Seq(Symbols), _populateQueue
  PROVE  ToSet(queue') \subseteq ToSet(queue) \cup {Eof} /\ queue' # <<>> /\ Last(queue') = Eof
<1>1. PICK read \in 0..Len(queue) : queue' = Append(SubSeq(queue, 1, read), Eof)
  BY DEF _populateQueue
<1> DEFINE r == SubSeq(queue, 1, read)
<1>2. r \in Seq(Symbols) /\ Len(r) = read /\ \A i \in 1..read : r[i] = queue[i]
  BY <1>1, SubSeqProperties
<1> HIDE DEF r
<1>3. queue' = Append(r, Eof)
  BY <1>1 DEF r
<1>4. /\ Len(queue') = read + 1 /\ queue'[read + 1] = Eof /\ \A i \in 1..read : queue'[i] = queue[i]
      /\ queue' \in Seq(Symbols)
  BY <1>2, <1>3, SymbolKinds
<1>5. \A i \in 1..Len(queue') : queue'[i] = Eof \/ (i \in 1..Len(queue) /\ queue'[i] = queue[i])
  BY <1>1, <1>4
<1> QED BY <1>1, <1>4, <1>5 DEF ToSet, Last

\* The bytes of a line.
LEMMA LineSet ==
  ASSUME NEW l \in Seq(Symbols), NEW s \in Symbols
  PROVE  ToSet(Append(l, s)) = ToSet(l) \cup {s}
<1>1. /\ Append(l, s) \in Seq(Symbols) /\ Len(Append(l, s)) = Len(l) + 1 /\ Len(l) \in Nat
      /\ \A i \in 1..Len(l) : Append(l, s)[i] = l[i]
      /\ Append(l, s)[Len(l) + 1] = s
  OBVIOUS
<1> QED BY <1>1 DEF ToSet

LEMMA InitOwn == Init => OwnInv
<1> SUFFICES ASSUME Init PROVE OwnInv
  OBVIOUS
<1>1. pc = "login" /\ closed = FALSE /\ tested = FALSE /\ result = "none"
  BY DEF Init
<1> QED BY <1>1 DEF OwnInv, CallInv, LocalsInv, ClosedInv, CleanInv, PromptInv, StatusInv, RetInv,
           CodeInv, Calling, Expecting

\* While the shell works, the caller is in none of these places.
LEMMA Working ==
  ASSUME Careful, IInv, OwnInv, ~closed, ~Waits
  PROVE  /\ pc \notin {"send_command", "send_status", "final"} /\ result # "returned"
         /\ ~((pc = "idle" \/ (pc \in Expecting /\ tested)) /\ EndsInPrompt(current_line))
BY DEF IInv, StepInv, SendsInStep, Sending, LineIsNew, OwnInv, StatusInv, CodeInv

LEMMA Codes == MaxCalls \in Nat /\ AtPrompt = -1 /\ EchoStatus = MaxCalls + 1 /\ SetPS1 = 0
BY BoundsAssumption DEF AtPrompt, EchoStatus, SetPS1

\* Steps of the shell and of others on the terminal.
LEMMA OwnShell ==
  ASSUME Careful, IInv, OwnInv, Shell
  PROVE  OwnInv'
<1>0. /\ queue \in Seq(Symbols) /\ ps \in Symbols /\ status \in Lines /\ typed \in Seq(Lines)
  BY SymbolKinds DEF IInv, TypeOK
<1>1. CASE ShellReads
  <2>1. /\ ~closed /\ ~Waits /\ typed # <<>> /\ shell' = Head(typed) /\ typed' = Tail(typed)
        /\ printed' = IF Head(typed) = EchoStatus THEN printed ELSE "nothing"
        /\ UNCHANGED <<status, closed, queue, pc, line, before, tested, current_line, call, ret,
                       code, result>>
    BY <1>1 DEF ShellReads, callerVars, expectVars, commandVars, Waits
  <2>2. \A n : typed = <<n>> => Head(typed) = n /\ Tail(typed) = <<>>
    OBVIOUS
  <2>3. PromptInv'
    <3> SUFFICES ASSUME pc = "prompt" PROVE PromptInv'
      BY <2>1 DEF PromptInv
    <3>1. typed = <<call>> /\ call # EchoStatus
      BY <2>1, Codes DEF OwnInv, PromptInv, CallInv, Calling, Waits
    <3>2. shell' = call /\ typed' = <<>> /\ printed' = "nothing"
      BY <2>1, <2>2, <3>1
    <3> QED BY <2>1, <3>2 DEF OwnInv, PromptInv, OfCall
  <2>4. StatusInv' /\ RetInv'
    <3>1. pc \notin {"send_status", "final"} /\ result # "returned"
      BY <2>1, Working
    <3>2. ASSUME pc = "status" PROVE shell' = EchoStatus /\ typed' = <<>> /\ printed' = printed
      BY <2>1, <2>2, <3>2 DEF OwnInv, StatusInv, Waits
    <3> QED BY <2>1, <3>1, <3>2 DEF OwnInv, StatusInv, RetInv, Waits, OfCall, Number
  <2>5. CodeInv'
    BY <2>1, Working DEF CodeInv
  <2> QED BY <2>1, <2>3, <2>4, <2>5
          DEF OwnInv, CallInv, Calling, LocalsInv, ClosedInv, CleanInv, Plain, EndsInPrompt
<1>2. CASE ShellPrints
  <2> DEFINE text == Symbol("number", shell)
  <2>1. /\ ~closed /\ ~Waits /\ shell \in 1..MaxCalls /\ text \in Symbols
        /\ \/ Output(<<text, Newline>>) /\ printed' = "line"
           \/ Output(<<text>>) /\ printed' = "part"
        /\ UNCHANGED <<shell, typed, status, closed, pc, line, before, tested, current_line, call,
                       ret, code, result>>
    BY <1>2, Codes, SymbolKinds DEF ShellPrints, callerVars, expectVars, commandVars, Waits, Lines
  <2>2. ToSet(queue') \subseteq ToSet(queue) \cup {text, Newline}
    <3>1. Output(<<text>>) => ToSet(queue') = ToSet(queue) \cup {text}
      BY <1>0, <2>1, PutsSet
    <3>2. Output(<<text, Newline>>) => ToSet(queue') = ToSet(queue) \cup {text, Newline}
      BY <1>0, <2>1, PutsSet, SymbolKinds
    <3> QED BY <2>1, <3>1, <3>2
  <2>3. PromptInv'
    <3> SUFFICES ASSUME pc = "prompt" PROVE PromptInv'
      BY <2>1 DEF PromptInv
    <3>1. typed = <<>> /\ shell = call
      BY <2>1, Codes DEF OwnInv, PromptInv, Waits
    <3>2. OfCall(ToSet(queue) \cup ToSet(line) \cup before)'
      BY <2>1, <2>2, <3>1, Kinds DEF OwnInv, PromptInv, OfCall
    <3>3. printed' = "line" => Pending'
      <4> SUFFICES ASSUME printed' = "line" PROVE Pending'
        OBVIOUS
      <4>1. Output(<<text, Newline>>) /\ text = Number'
        BY <2>1, <3>1 DEF Number
      <4> QED BY <1>0, <2>1, <4>1, PutsSet, SymbolKinds
    <3> QED BY <2>1, <3>1, <3>2, <3>3 DEF PromptInv, LineComing
  <2>4. pc \notin {"send_command", "send_status", "status", "final"} /\ result # "returned"
    BY <2>1, Working, Codes DEF OwnInv, StatusInv, Waits
  <2>5. CleanInv'
    BY <2>1, <2>4, Working DEF CleanInv, EndsInPrompt
  <2> QED BY <2>1, <2>3, <2>4, <2>5
          DEF OwnInv, CallInv, Calling, LocalsInv, ClosedInv, StatusInv, RetInv, CodeInv
<1>3. CASE ShellEnds
  <2> DEFINE answer == Symbol("status", status)
  <2>1. /\ ~closed /\ ~Waits /\ shell # AtPrompt /\ shell' = AtPrompt /\ ps' = Prompt
        /\ status' = IF shell = EchoStatus THEN SetPS1 ELSE shell
        /\ IF shell = EchoStatus THEN Output(<<answer, Newline, Prompt>>) ELSE Output(<<Prompt>>)
        /\ UNCHANGED <<typed, printed, closed, pc, line, before, tested, current_line, call,
                       ret, code, result>>
    BY <1>3 DEF ShellEnds, callerVars, expectVars, commandVars, Waits
  <2>2. answer \in Symbols
    BY <1>0, SymbolKinds
  <2>3. /\ IF shell = EchoStatus THEN ToSet(queue') = ToSet(queue) \cup {answer, Newline, Prompt}
                                 ELSE ToSet(queue') = ToSet(queue) \cup {Prompt}
        /\ Pending => Pending'
    BY <1>0, <2>1, <2>2, PutsSet, SymbolKinds
  <2>4. PromptInv'
    <3> SUFFICES ASSUME pc = "prompt" PROVE PromptInv'
      BY <2>1 DEF PromptInv
    <3>1. typed = <<>> /\ shell = call /\ call # EchoStatus
      BY <2>1, Codes DEF OwnInv, PromptInv, CallInv, Calling, Waits
    <3>2. ToSet(queue') = ToSet(queue) \cup {Prompt} /\ status' = call
      BY <2>1, <2>3, <3>1
    <3>3. OfCall(ToSet(queue) \cup ToSet(line) \cup before)'
      BY <2>1, <3>2, Kinds DEF OwnInv, PromptInv, OfCall
    <3>4. LineComing => LineComing'
      BY <2>1, <2>3, <3>2 DEF LineComing, Number
    <3> QED BY <2>1, <3>1, <3>2, <3>3, <3>4 DEF OwnInv, PromptInv, Waits
  <2>5. StatusInv'
    <3>1. pc # "send_status"
      BY <2>1, Working
    <3>2. ASSUME pc = "status" PROVE shell = EchoStatus /\ typed = <<>> /\ status = call
      BY <2>1, <3>2 DEF OwnInv, StatusInv, Waits
    <3> QED BY <2>1, <2>3, <3>1, <3>2, Kinds DEF OwnInv, StatusInv, Waits, Texts
  <2>6. CleanInv'
    BY <2>1, Working DEF CleanInv, EndsInPrompt
  <2> QED BY <2>1, <2>4, <2>5, <2>6, Working
          DEF OwnInv, CallInv, Calling, LocalsInv, ClosedInv, RetInv, CodeInv, OfCall, Number
<1>4. CASE Message
  <2>1. /\ ~closed /\ (Output(<<Noise>>) \/ Output(<<Noise, Newline>>))
        /\ UNCHANGED <<shell, typed, status, printed, closed, pc, line, before, tested,
                       current_line, call, ret, code, result>>
    BY <1>4 DEF Message, shellVars, callerVars, expectVars, commandVars
  <2>2. /\ ToSet(queue) \subseteq ToSet(queue')
        /\ ToSet(queue') \subseteq ToSet(queue) \cup {Noise, Newline}
        /\ Pending => Pending'
    <3>1. Output(<<Noise>>) => ToSet(queue') = ToSet(queue) \cup {Noise} /\ (Pending => Pending')
      BY <1>0, <2>1, PutsSet, SymbolKinds
    <3>2. Output(<<Noise, Newline>>) =>
            ToSet(queue') = ToSet(queue) \cup {Noise, Newline} /\ (Pending => Pending')
      BY <1>0, <2>1, PutsSet, SymbolKinds
    <3> QED BY <2>1, <3>1, <3>2
  <2>3. Plain(ToSet(queue)) => Plain(ToSet(queue))'
    BY <2>2, Kinds DEF Plain
  <2>4. PromptInv'
    <3>1. LineComing => LineComing'
      BY <2>1, <2>2 DEF LineComing, Number
    <3> QED BY <2>1, <2>2, <3>1, Kinds DEF OwnInv, PromptInv, OfCall, Waits
  <2>5. StatusInv'
    BY <2>1, <2>2, <2>3, Kinds DEF OwnInv, StatusInv, Waits, Texts
  <2> QED BY <2>1, <2>3, <2>4, <2>5
          DEF OwnInv, CallInv, Calling, LocalsInv, ClosedInv, CleanInv, RetInv, CodeInv,
              EndsInPrompt, OfCall, Number, Waits
<1>5. CASE Breaks
  <2>1. /\ closed' = TRUE /\ _populateQueue
        /\ UNCHANGED <<shell, typed, status, printed, pc, line, before, tested,
                       current_line, call, ret, code, result>>
    BY <1>5 DEF Breaks, shellVars, callerVars, expectVars, commandVars
  <2>2. ToSet(queue') \subseteq ToSet(queue) \cup {Eof} /\ queue' # <<>> /\ Last(queue') = Eof
    BY <1>0, <2>1, CloseSet
  <2>3. PromptInv'
    BY <2>1, <2>2, Kinds DEF OwnInv, PromptInv, OfCall, Waits
  <2>4. StatusInv'
    BY <2>1, <2>2, Kinds DEF OwnInv, StatusInv, Plain, Waits, Texts
  <2> QED BY <2>1, <2>2, <2>3, <2>4
          DEF OwnInv, CallInv, Calling, LocalsInv, ClosedInv, CleanInv, RetInv, CodeInv,
              OfCall, Number, Waits
<1> QED BY <1>1, <1>2, <1>3, <1>4, <1>5 DEF Shell

\* A call has ended, with an error or with the object gone.
LEMMA OwnGone ==
  ASSUME OwnInv, pc \notin {"idle", "gone"},
         GiveUp \/ (pc # "expect_prompt" /\ pc' = "idle" /\ UNCHANGED commandVars)
  PROVE  /\ pc' \in {"idle", "gone"} /\ result' # "returned"
         /\ CallInv' /\ PromptInv' /\ StatusInv' /\ RetInv' /\ CodeInv'
<1>1. pc' \in {"idle", "gone"} /\ result' # "returned"
  BY DEF GiveUp, Raise, commandVars, OwnInv, CodeInv
<1> QED BY <1>1 DEF CallInv, Calling, PromptInv, StatusInv, RetInv, CodeInv

LEMMA OwnByte ==
  ASSUME Careful, IInv, OwnInv, expect_byte
  PROVE  OwnInv'
<1> DEFINE byte == Head(queue)
<1>1. /\ queue \in Seq(Symbols) /\ queue # <<>> /\ queue' = Tail(queue) /\ byte \notin {Newline, Eof}
      /\ line \in Seq(Symbols) /\ line' = Append(line, byte) /\ pc \in Expecting
      /\ UNCHANGED <<shell, typed, status, printed, closed, pc, before, tested, current_line, call,
                     ret, code, result>>
  BY DEF IInv, TypeOK, expect_byte, otherVars, shellVars, commandVars
<1>2. /\ byte \in Symbols
      /\ IF queue' = <<>> THEN Last(queue) = byte ELSE Last(queue') = Last(queue)
  BY <1>1, TailFacts
<1>3. /\ ToSet(queue) = {byte} \cup ToSet(queue')
      /\ Pending => Pending' \/ (byte = Number /\ Newline \in ToSet(queue'))
  BY <1>1, TailSet
<1>4. ToSet(line') = ToSet(line) \cup {byte}
  BY <1>1, <1>2, LineSet
<1>5. ClosedInv'
  BY <1>1, <1>2 DEF OwnInv, ClosedInv
<1>6. PromptInv'
  <2>1. LineComing => LineComing'
    BY <1>1, <1>3, <1>4 DEF LineComing, Number
  <2>2. ToSet(queue') \cup ToSet(line') \cup before' = ToSet(queue) \cup ToSet(line) \cup before
    BY <1>1, <1>3, <1>4
  <2> QED BY <1>1, <2>1, <2>2 DEF OwnInv, PromptInv, OfCall, Waits
<1>7. StatusInv'
  BY <1>1, <1>3, <1>4 DEF OwnInv, StatusInv, Waits, Expecting
<1>8. CleanInv'
  BY <1>1, <1>3 DEF OwnInv, CleanInv, Plain, EndsInPrompt, Expecting
<1> QED BY <1>1, <1>5, <1>6, <1>7, <1>8
        DEF OwnInv, CallInv, Calling, LocalsInv, RetInv, CodeInv, OfCall, Number, Waits

\* What the match of an exit status says: of the symbols that have come, only the
\* status of this call is a number alone in its line.
LEMMA StatusMatched ==
  ASSUME IInv, OwnInv, pc = "status", NEW l \in Seq(Symbols), IsStatus(l), l[1] \in ToSet(line)
  PROVE  l[1] = Symbol("status", call) /\ Waits
<1>1. l[1] \in Symbols /\ l[1].kind = "status"
  <2>1. Len(l) = 2 /\ l[1].kind \in {"number", "status"}
    BY DEF IsStatus
  <2>2. l[1].kind # "number"
    BY DEF OwnInv, StatusInv
  <2> QED BY <2>1, <2>2
<1>2. l[1].of = call /\ Waits
  BY <1>1 DEF OwnInv, StatusInv
<1> QED BY <1>1, <1>2, Kinds

LEMMA OwnLine ==
  ASSUME Careful, IInv, OwnInv, expect_line
  PROVE  OwnInv'
<1> DEFINE full == Append(line, Newline)
<1>1. /\ queue \in Seq(Symbols) /\ queue # <<>> /\ queue' = Tail(queue) /\ Head(queue) = Newline
      /\ line \in Seq(Symbols) /\ line' = <<>> /\ pc \in Expecting
      /\ UNCHANGED <<shell, typed, status, printed, closed>>
  BY DEF IInv, TypeOK, expect_line, otherVars, shellVars, NoLocals
<1>2. IF queue' = <<>> THEN Last(queue) = Newline ELSE Last(queue') = Last(queue)
  BY <1>1, TailFacts
<1>3. /\ ToSet(queue) = {Newline} \cup ToSet(queue')
      /\ Pending /\ UNCHANGED call => Pending'
  BY <1>1, TailSet, Kinds DEF Number
<1>4. full \in Seq(Symbols) /\ ~EndsInPrompt(full)
  BY <1>1, FullLine
<1>5. ClosedInv'
  BY <1>1, <1>2, SymbolKinds DEF OwnInv, ClosedInv
<1>6. CleanInv'
  <2>1. ~closed => current_line' = full
    BY DEF expect_line, Test, IInv, StepInv, NoReadline
  <2>2. pc' # "send_command"
    BY <1>1, <1>4 DEF expect_line, Matched, is_match, Expecting
  <2> QED BY <1>1, <1>4, <2>1, <2>2 DEF CleanInv
<1>7. CASE Matched(full) /\ NoLocals /\ (is_match(full) \/ pc = "readline")
  <2>1. pc \in {"login", "status", "line", "any", "readline"}
    BY <1>4, <1>7 DEF is_match
  <2>2. /\ pc' \in {"send_ps1", "final", "idle"} /\ (pc' = "final" => pc = "status")
        /\ call' = call /\ ret' = ret /\ result' = result
        /\ code' = IF pc = "status" THEN full[1] ELSE code
    BY <1>7, <2>1 DEF Matched
  <2>3. result # "returned"
    BY <2>1 DEF OwnInv, CodeInv
  <2>4. pc = "status" => full[1] = Symbol("status", call) /\ Waits
    <3> SUFFICES ASSUME pc = "status" PROVE full[1] = Symbol("status", call) /\ Waits
      OBVIOUS
    <3>1. IsStatus(full)
      BY <1>7 DEF is_match
    <3>2. /\ Len(full) = 2 /\ Len(full) = Len(line) + 1 /\ Len(line) \in Nat
          /\ \A i \in 1..Len(line) : full[i] = line[i]
      BY <1>1, <3>1 DEF IsStatus
    <3>3. 1 \in 1..Len(line) /\ full[1] = line[1]
      BY <3>2
    <3>4. full[1] \in ToSet(line)
      BY <1>1, <3>3, InToSet
    <3> QED BY <1>4, <3>1, <3>4, StatusMatched
  <2>5. CodeInv'
    BY <1>1, <2>2, <2>3, <2>4 DEF CodeInv, Waits
  <2>6. RetInv'
    BY <1>1, <2>2, <2>3 DEF OwnInv, RetInv, OfCall, Number
  <2>7. CallInv' /\ LocalsInv'
    BY <1>7, <2>2 DEF OwnInv, CallInv, Calling, LocalsInv, NoLocals
  <2> QED BY <1>5, <1>6, <2>2, <2>5, <2>6, <2>7 DEF OwnInv, PromptInv, StatusInv
<1>8. CASE /\ line' = <<>> /\ before' = before \cup ToSet(line) /\ tested' = TRUE
           /\ UNCHANGED <<pc, commandVars>>
  <2>1. UNCHANGED <<pc, call, ret, code, result>> /\ ToSet(line') = {}
    BY <1>8 DEF commandVars, ToSet
  <2>2. PromptInv'
    <3>1. LineComing => LineComing'
      BY <1>3, <1>8, <2>1 DEF LineComing, Number
    <3>2. ToSet(queue') \cup ToSet(line') \cup before' \subseteq ToSet(queue) \cup ToSet(line) \cup before
      BY <1>3, <1>8, <2>1
    <3> QED BY <1>1, <2>1, <3>1, <3>2 DEF OwnInv, PromptInv, OfCall, Waits
  <2>3. StatusInv'
    BY <1>1, <1>3, <2>1 DEF OwnInv, StatusInv, Waits, Expecting
  <2> QED BY <1>1, <1>5, <1>6, <2>1, <2>2, <2>3
          DEF OwnInv, CallInv, Calling, LocalsInv, RetInv, CodeInv, OfCall, Number, Waits
<1> QED BY <1>7, <1>8 DEF expect_line

LEMMA OwnPartial ==
  ASSUME Careful, IInv, OwnInv, expect_partial
  PROVE  OwnInv'
<1>1. /\ queue = <<>> /\ line \in Seq(Symbols) /\ line' \in {line, <<>>} /\ pc \in Expecting
      /\ UNCHANGED <<queue, shell, typed, status, printed, closed>>
  BY DEF Careful, IInv, TypeOK, expect_partial, otherVars, shellVars, NoLocals
<1>2. ToSet(queue) = {} /\ ~Pending
  BY <1>1 DEF ToSet, Pending
<1>3. ClosedInv'
  BY <1>1 DEF OwnInv, ClosedInv
<1>4. CleanInv'
  BY <1>1, <1>2 DEF CleanInv, Plain
<1>5. EndsInPrompt(line) => ~closed /\ Waits
  BY <1>1 DEF EndsInPrompt, OwnInv, ClosedInv, IInv, StepInv, Shown, LastIsPrompt
<1>6. CASE Matched(line) /\ NoLocals /\ is_match(line)
  <2>1. pc \in {"resync", "prompt", "final", "expect_prompt"} => EndsInPrompt(line)
    BY <1>6 DEF is_match
  <2>2. /\ pc' \in {"send_ps1", "send_command", "send_status", "final", "idle"}
        /\ pc' = "send_command" => pc = "resync"
        /\ pc' = "send_status" => pc = "prompt" /\ ret' = before
        /\ pc' = "final" => pc = "status" /\ code' = line[1] /\ ret' = ret
        /\ result' = "returned" =>
             pc' = "idle" /\ ret' = ret /\ code' = code /\ (pc = "final" \/ result = "returned")
        /\ call' = call
    BY <1>6 DEF Matched, OwnInv, CodeInv, Expecting
  <2>3. pc = "status" => line[1] = Symbol("status", call) /\ Waits
    <3> SUFFICES ASSUME pc = "status" PROVE line[1] = Symbol("status", call) /\ Waits
      OBVIOUS
    <3>1. IsStatus(line)
      BY <1>6 DEF is_match
    <3>2. line[1] \in ToSet(line)
      BY <1>1, <3>1, InToSet DEF IsStatus
    <3> QED BY <1>1, <3>1, <3>2, StatusMatched
  <2>4. ASSUME pc = "prompt"
        PROVE  Waits /\ status = call /\ OfCall(before) /\ (printed = "line" => Number \in before)
    <3>1. Waits /\ ~closed /\ call \in 1..MaxCalls
      BY <1>5, <2>1, <2>4 DEF OwnInv, CallInv, Calling
    <3>2. status = call
      BY <2>4, <3>1, Codes DEF OwnInv, PromptInv, Waits
    <3>3. printed = "line" => Number \in before
      BY <1>2, <2>4, <3>1 DEF OwnInv, PromptInv, LineComing, Waits
    <3> QED BY <2>4, <3>1, <3>2, <3>3 DEF OwnInv, PromptInv, OfCall
  <2>5. StatusInv'
    BY <1>1, <1>2, <2>2, <2>4 DEF StatusInv, Plain, Waits
  <2>6. RetInv'
    BY <1>1, <2>2, <2>4 DEF OwnInv, RetInv, OfCall, Number
  <2>7. CodeInv'
    BY <1>1, <2>2, <2>3 DEF OwnInv, CodeInv, Waits
  <2>8. CallInv' /\ LocalsInv'
    BY <1>6, <2>2 DEF OwnInv, CallInv, Calling, LocalsInv, NoLocals
  <2> QED BY <1>3, <1>4, <2>2, <2>5, <2>6, <2>7, <2>8 DEF OwnInv, PromptInv
<1>7. CASE tested' = TRUE /\ UNCHANGED <<pc, commandVars, line, before>>
  <2>1. UNCHANGED <<pc, line, before, call, ret, code, result>>
    BY <1>7 DEF commandVars
  <2>2. PromptInv'
    BY <1>1, <2>1 DEF OwnInv, PromptInv, OfCall, LineComing, Pending, Number, Waits
  <2>3. StatusInv'
    BY <1>1, <2>1 DEF OwnInv, StatusInv, Waits, Plain
  <2> QED BY <1>1, <1>3, <1>4, <2>1, <2>2, <2>3
          DEF OwnInv, CallInv, Calling, LocalsInv, RetInv, CodeInv, OfCall, Number, Waits
<1> QED BY <1>6, <1>7 DEF expect_partial

LEMMA OwnEnds ==
  ASSUME Careful, IInv, OwnInv, expect_eof \/ expect_timeout
  PROVE  OwnInv'
<1>1. /\ queue \in Seq(Symbols) /\ pc \in Expecting /\ UNCHANGED <<closed, current_line>>
      /\ GiveUp \/ (pc \in {"any", "readline"} /\ pc' = "idle" /\ UNCHANGED commandVars)
      /\ line' = <<>> /\ before' = {} /\ tested' = FALSE
  BY DEF IInv, TypeOK, expect_eof, expect_timeout, otherVars, NoLocals
<1>2. /\ pc' \in {"idle", "gone"} /\ CallInv' /\ PromptInv' /\ StatusInv' /\ RetInv' /\ CodeInv'
  BY <1>1, OwnGone DEF Expecting
<1>3. CASE expect_eof
  <2>1. closed
    <3>1. queue[1] = Eof /\ 1 \in 1..Len(queue)
      BY <1>1, <1>3, EmptySeq DEF expect_eof
    <3> QED BY <3>1 DEF IInv, StepInv, NoEof
  <2>2. queue' # <<>> => Last(queue') = Last(queue) /\ queue # <<>>
    BY <1>1, <1>3, TailFacts DEF expect_eof
  <2> QED BY <1>1, <1>2, <2>1, <2>2 DEF OwnInv, ClosedInv, LocalsInv, CleanInv
<1>4. CASE expect_timeout
  <2>1. queue' = queue /\ tested
    BY <1>4 DEF expect_timeout
  <2> QED BY <1>1, <1>2, <2>1 DEF OwnInv, ClosedInv, LocalsInv, CleanInv, EndsInPrompt
<1> QED BY <1>3, <1>4

LEMMA OwnSends ==
  ASSUME Careful, IInv, OwnInv, Sends
  PROVE  OwnInv'
<1>1. PICK n \in Lines, label \in {"ps1", "prompt", "status", "line", "any"} :
        /\ Send(n, label)
        /\ \/ pc = "send_ps1" /\ label = "ps1"
           \/ pc = "send_command" /\ n = call /\ label = "prompt"
           \/ pc = "send_status" /\ n = EchoStatus /\ label = "status"
           \/ pc = "send_line" /\ label \in {"line", "any"}
  BY Codes DEF Careful, Sends, Lines, IInv, TypeOK
<1>2. /\ queue \in Seq(Symbols) /\ typed \in Seq(Lines) /\ tested = FALSE
      /\ line = <<>> /\ before = {}
      /\ UNCHANGED <<shell, status, printed, closed, line, before, tested, current_line>>
  BY <1>1 DEF IInv, TypeOK, Untested, Send, expectVars, Expecting, OwnInv, LocalsInv
<1>3. CASE closed
  <2>1. GiveUp /\ UNCHANGED <<typed, queue>>
    BY <1>1, <1>3 DEF Send
  <2>2. pc' \in {"idle", "gone"} /\ CallInv' /\ PromptInv' /\ StatusInv' /\ RetInv' /\ CodeInv'
    BY <1>1, <2>1, OwnGone
  <2> QED BY <1>2, <1>3, <2>1, <2>2 DEF OwnInv, ClosedInv, LocalsInv, CleanInv
<1>4. CASE ~closed
  <2> DEFINE echo == Symbol("echo", n)
  <2>1. /\ Output(<<echo, Newline>>) /\ typed' = Append(typed, n) /\ pc' = label
        /\ UNCHANGED <<call, ret, code, result>>
    BY <1>1, <1>4 DEF Send, commandVars
  <2>2. ToSet(queue') = ToSet(queue) \cup {echo, Newline}
    BY <1>2, <2>1, PutsSet, SymbolKinds
  <2>3. Waits /\ typed' = <<n>> /\ typed' # <<>>
    <3>1. Waits
      BY <1>1, <1>4 DEF IInv, StepInv, SendsInStep, Sending
    <3> QED BY <1>2, <2>1, <3>1 DEF Waits
  <2>4. result # "returned"
    BY <1>1 DEF OwnInv, CodeInv
  <2>5. ToSet(line') = {}
    BY <1>2 DEF ToSet
  <2>6. CleanInv' /\ ClosedInv' /\ LocalsInv'
    BY <1>1, <1>2, <1>4, <2>1 DEF CleanInv, ClosedInv, LocalsInv, Expecting
  <2>7. PromptInv'
    <3> SUFFICES ASSUME label = "prompt" PROVE PromptInv'
      BY <2>1 DEF PromptInv
    <3>1. pc = "send_command" /\ n = call /\ Plain(ToSet(queue))
      BY <1>1, <1>4 DEF OwnInv, CleanInv
    <3>2. OfCall(ToSet(queue) \cup ToSet(line) \cup before)'
      BY <1>2, <2>1, <2>2, <2>5, <3>1, Kinds DEF OfCall, Plain
    <3> QED BY <1>2, <2>1, <2>3, <3>1, <3>2 DEF PromptInv, Waits
  <2>8. StatusInv'
    <3> SUFFICES ASSUME label = "status" PROVE StatusInv'
      BY <1>1, <2>1 DEF StatusInv
    <3>1. pc = "send_status" /\ n = EchoStatus /\ Plain(ToSet(queue)) /\ status = call
      BY <1>1 DEF OwnInv, StatusInv
    <3>2. \A s \in ToSet(queue') \cup ToSet(line') : s.kind \notin {"number", "status"}
      BY <2>2, <2>5, <3>1, Kinds DEF Plain, Texts
    <3> QED BY <1>2, <2>1, <2>3, <3>1, <3>2 DEF StatusInv, Waits
  <2>9. CallInv' /\ RetInv' /\ CodeInv'
    BY <1>1, <1>2, <2>1, <2>4 DEF OwnInv, CallInv, Calling, RetInv, CodeInv, OfCall, Number
  <2> QED BY <2>6, <2>7, <2>8, <2>9 DEF OwnInv
<1> QED BY <1>3, <1>4

\* Steps of the script between its calls.
LEMMA OwnScript ==
  ASSUME Careful, IInv, OwnInv, Script
  PROVE  OwnInv'
<1>0. queue \in Seq(Symbols) /\ ps \in Symbols /\ pc = "idle" /\ tested = FALSE
  BY SymbolKinds DEF IInv, TypeOK, Untested, Script, command, send_line, Called, expect_prompt,
     send_ctrl_c, __exit__, Expecting
<1>1. CASE command \/ send_line
  <2>1. /\ pc' \in {"send_command", "resync", "send_line"}
        /\ pc' = "send_command" => EndsInPrompt(current_line)
        /\ call' = call + 1 /\ call' \in 1..MaxCalls /\ result' = "none"
        /\ UNCHANGED <<closed, queue, line, before, tested, current_line>>
    BY <1>1, Codes DEF command, send_line, Called, otherVars, expectVars, IInv, TypeOK
  <2>2. CleanInv'
    BY <1>0, <2>1 DEF OwnInv, CleanInv
  <2> QED BY <1>0, <2>1, <2>2
          DEF OwnInv, CallInv, LocalsInv, ClosedInv, PromptInv, StatusInv, RetInv, CodeInv, Expecting
<1>2. CASE expect_prompt
  <2>1. /\ pc' = "expect_prompt"
        /\ UNCHANGED <<shell, typed, printed, closed, queue, line, before, tested, current_line,
                       call, ret, code, result>>
    BY <1>2 DEF expect_prompt, otherVars, shellVars, expectVars, commandVars
  <2> QED BY <1>0, <2>1
          DEF OwnInv, CallInv, Calling, LocalsInv, ClosedInv, CleanInv, PromptInv, StatusInv,
              RetInv, CodeInv, OfCall, Number, Waits, Expecting
<1>3. CASE send_ctrl_c
  <2>1. /\ ~closed /\ pc' = "idle" /\ result' = "stopped" /\ Output(<<Newline, ps>>)
        /\ UNCHANGED <<closed, line, before, tested, current_line, call>>
    BY <1>0, <1>3 DEF send_ctrl_c, expectVars
  <2>2. ToSet(queue') = ToSet(queue) \cup {Newline, ps} /\ ps \in {Login, Prompt}
    BY <1>0, <2>1, PutsSet, SymbolKinds DEF IInv, TypeOK
  <2>3. CleanInv'
    BY <1>0, <2>1, <2>2, Kinds DEF OwnInv, CleanInv, Plain, EndsInPrompt
  <2> QED BY <1>0, <2>1, <2>3
          DEF OwnInv, CallInv, Calling, LocalsInv, ClosedInv, PromptInv, StatusInv, RetInv, CodeInv,
              Expecting
<1>4. CASE __exit__
  <2>1. /\ closed' = TRUE /\ pc' = "gone" /\ _populateQueue
        /\ UNCHANGED <<shell, typed, printed, line, before, tested, current_line, call, ret,
                       code, result>>
    BY <1>4 DEF __exit__, shellVars, expectVars, commandVars
  <2>2. queue' # <<>> /\ Last(queue') = Eof
    BY <1>0, <2>1, CloseSet
  <2> QED BY <1>0, <2>1, <2>2
          DEF OwnInv, CallInv, Calling, LocalsInv, ClosedInv, CleanInv, PromptInv, StatusInv,
              RetInv, CodeInv, OfCall, Number, Waits, Expecting
<1> QED BY <1>1, <1>2, <1>3, <1>4 DEF Script

LEMMA OwnNext == Careful /\ IInv /\ OwnInv /\ [Next]_vars => OwnInv'
<1>1. ASSUME OwnInv, UNCHANGED vars PROVE OwnInv'
  BY <1>1 DEF vars, shellVars, expectVars, commandVars, OwnInv, CallInv, LocalsInv, ClosedInv,
     CleanInv, PromptInv, StatusInv, RetInv, CodeInv, Calling, OfCall, Number, Waits, LineComing,
     Pending, Plain, EndsInPrompt
<1> QED
  BY <1>1, OwnShell, OwnByte, OwnLine, OwnPartial, OwnEnds, OwnSends, OwnScript DEF Next, Advance

\* What command returns is its own, for any number of calls, timeouts, stops,
\* broken connections and messages of others: the status and the line of the
\* command it has sent, and nothing of another (expect.py: command, expect).
THEOREM ReturnsOwn == Careful => (Spec => []OwnResult)
<1> SUFFICES ASSUME Careful PROVE Spec => []OwnResult
  OBVIOUS
<1>1. Init => IInv /\ OwnInv
  BY InitTypes, InitStep, InitOwn DEF IInv
<1>2. IInv /\ OwnInv /\ [Next]_vars => IInv' /\ OwnInv'
  BY NextTypes, StepNext, OwnNext DEF IInv
<1>3. OwnInv => OwnResult
  BY DEF OwnInv, RetInv, CodeInv, OwnResult, OfCall, Number, Texts
<1> QED BY <1>1, <1>2, <1>3, PTL DEF Spec
=============================================================================
