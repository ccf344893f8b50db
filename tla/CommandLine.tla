----------------------------- MODULE CommandLine -----------------------------
(***************************************************************************)
(* The command lines of projects/serial/main.c (automate430/main.c is the  *)
(* same file) and projects/rtcctl/main.c: cmdhandler() takes a byte from   *)
(* the software UART and edits or evaluates the line in cmdbuf.            *)
(*                                                                         *)
(* main() of serial switches the CPU off when no byte waits; the UART's    *)
(* end-of-frame interrupt switches it on again.  rtcctl polls, and has     *)
(* three modes: a line is a command (CMD_COMMAND), the answer to a         *)
(* question (CMD_INPUT), or a command that main() evaluates in every round *)
(* of its loop until Ctrl-C (CMD_NONE): gettemp, which measures.           *)
(*                                                                         *)
(* The line is kept twice: cmdbuf and cmdptr are the program's, shown is   *)
(* what the echoes and the "\b \b" of the program leave on the terminal.   *)
(***************************************************************************)
EXTENDS Adc, Integers, Sequences

CONSTANTS Key,            \* the bytes the terminal sends
          CMDBUF_SIZE,    \* slots of cmdbuf, and the values of cmdptr: 256
          Word,           \* the keys of each command's name
          MaxLine         \* bound: keys shown in one line

CR == 13
DEL == 127
KEY_CTRL_C == 3
Printable == {k \in Key : k >= 32 /\ k # DEL}
Command == [serial |-> {"help", "settime", "gettime"},
            rtcctl |-> {"help", "action", "settime", "gettime", "gettemp"}]

ASSUME KeyAssumption == Key \subseteq 1 .. 255
ASSUME BufferAssumption == CMDBUF_SIZE \in Nat /\ CMDBUF_SIZE > 1 /\ MaxLine \in Nat
ASSUME WordAssumption ==
  /\ \A c \in Command.rtcctl : Word[c] \in Seq(Printable) /\ Len(Word[c]) \in 2 .. CMDBUF_SIZE - 1
  /\ \A c, d \in Command.rtcctl : Word[c] = Word[d] => c = d

VARIABLES program,               \* which of the two runs
          cmdbuf, cmdptr, cmdmode,
          byte,                  \* local to cmdhandler(), 0 outside
          temp,                  \* local to cmdeval(), 0 outside: an age
          hasReceived, RXByte,   \* suart.c: a byte waits, and which
          CPUOFF,                \* the status register's bit: the CPU sleeps
          pc, caller,            \* where cmdeval() returns to
          shown,    \* history: the line on the terminal
          erased,   \* history: the last change of this line took a key back
          edited,   \* history: the line has changed since cmdmode was set
          reply,    \* history: what the last line evaluated was taken for
          late      \* history: the last byte came just before CPUOFF was set

line == <<cmdbuf, cmdptr>>
uart == <<hasReceived, RXByte, late>>
control == <<program, CPUOFF>>
meaning == <<cmdmode, edited, reply>>
typed == <<shown, erased>>
vars == <<line, uart, control, meaning, typed, byte, temp, adc, pc, caller>>

Index == 0 .. CMDBUF_SIZE - 1

Init == /\ program \in {"serial", "rtcctl"}
        /\ cmdbuf = [i \in Index |-> 0] /\ cmdptr = 0 /\ cmdmode = "COMMAND"
        /\ byte = 0 /\ temp = 0 /\ hasReceived = FALSE /\ RXByte = 0
        /\ CPUOFF = FALSE /\ pc = "cmdhandler" /\ caller = "cmdhandler"
        /\ AdcInit
        /\ shown = <<>> /\ erased = FALSE /\ edited = FALSE
        /\ reply = "none" /\ late = FALSE
------------------------------------------------------------------------------
(* The interrupts: the end of a frame on the receive line, or of a         *)
(* conversion.                                                             *)

\* __bic_SR_register_on_exit(CPUOFF).  (The other form does not wake the CPU.)
ExitAsleep == UNCHANGED CPUOFF
ExitAwake == CPUOFF' = FALSE

\* The terminal sends the next key only when the last one has been read.
ByteComplete(k) == /\ ~hasReceived /\ pc # "receive"
                   /\ k \in Printable => Len(shown) < MaxLine
                   /\ RXByte' = k /\ hasReceived' = TRUE
                   /\ ExitAwake
                   /\ late' = (pc = "sleep")
                   /\ UNCHANGED <<program, line, meaning, typed, byte, temp, adc, pc, caller>>

\* A frame that fails the check of its start and stop bits: nothing is
\* received, but the CPU is switched on all the same.
BadFrame == /\ ~hasReceived /\ CPUOFF
            /\ ExitAwake
            /\ UNCHANGED <<program, line, uart, meaning, typed, byte, temp, adc, pc, caller>>

ConversionEnds == /\ ADC10_ISR /\ ExitAwake
                  /\ UNCHANGED <<program, line, uart, meaning, typed, byte, temp, pc, caller>>
------------------------------------------------------------------------------
(* cmdeval(), and its counterpart in serial/main.c.                        *)

\* strncmp() with the word and its terminator.
Matches(w) == /\ \A i \in 1 .. Len(w) : cmdbuf[i - 1] = w[i]
              /\ cmdbuf[Len(w)] = 0

\* The chain of comparisons; "help" comes before the test for an empty line.
Evaluated == LET found == {c \in Command[program] : Matches(Word[c])}
             IN  CASE "help" \in found -> "help"
                   [] "help" \notin found /\ cmdptr = 0 -> "empty"
                   [] OTHER -> IF found = {} THEN "bad" ELSE CHOOSE c \in found : TRUE

\* The mode a command leaves behind.
ModeAfter(command) ==
  CASE program = "rtcctl" /\ command \in {"action", "settime"} -> "INPUT"
    [] command = "gettemp" -> "NONE"
    [] OTHER -> cmdmode

\* Evaluates the line and goes on at the statement next, at once or when
\* the temperature has been measured.
Evaluate(next) == /\ reply' = Evaluated /\ cmdmode' = ModeAfter(Evaluated)
                  /\ IF Evaluated = "gettemp"
                     THEN pc' = "measure" /\ caller' = next /\ StartMeasure
                     ELSE pc' = next /\ UNCHANGED <<caller, adc>>

\* (The other form takes an answer for a command.)
EvalAlways(next) == Evaluate(next) /\ edited' = (edited /\ cmdmode' = cmdmode)

cmdeval(next) ==
  /\ IF cmdmode = "INPUT"
     THEN reply' = "answer" /\ cmdmode' = "COMMAND" /\ pc' = next /\ UNCHANGED <<adc, caller>>
     ELSE Evaluate(next)
  /\ edited' = (edited /\ cmdmode' = cmdmode)

Goto(from, to) == ~CPUOFF /\ pc = from /\ pc' = to

\* The return of adc_single_measure(), after its fixed delay.
Measured == /\ Goto("measure", "print")
            /\ temp' = _adc10_value
            /\ UNCHANGED <<line, uart, control, meaning, typed, byte, adc, caller>>

\* A line at 9600 baud takes longer than any conversion.
PrintTemperature == /\ Goto("print", caller) /\ ~converting
                    /\ temp' = 0
                    /\ UNCHANGED <<line, uart, control, meaning, typed, byte, adc, caller>>
------------------------------------------------------------------------------
(* cmdhandler().                                                           *)

Return == IF program = "serial" THEN "main_test" ELSE "loop"

CallReceive == /\ Goto("cmdhandler", IF hasReceived THEN "receive" ELSE Return)
               /\ hasReceived' = FALSE
               /\ UNCHANGED <<line, RXByte, late, control, meaning, typed, byte, temp, adc, caller>>

ReturnByte == /\ Goto("receive", "handle")
              /\ byte' = RXByte
              /\ UNCHANGED <<line, uart, control, meaning, typed, temp, adc, caller>>

\* cmdbuf[0] = 0; cmdptr = 0.
EmptyBuffer == cmdbuf' = [cmdbuf EXCEPT ![0] = 0] /\ shown' = <<>> /\ erased' = FALSE
ClearLine == EmptyBuffer /\ cmdptr' = 0

\* The line stays when its command is to be repeated.  (The other form clears
\* it in any case.)
EnterClears == byte = CR /\ cmdeval(Return) /\ ClearLine

Enter == /\ byte = CR
         /\ cmdeval(Return)
         /\ IF cmdmode' = "NONE" THEN UNCHANGED <<line, typed>> ELSE ClearLine

\* What every key but return leaves alone.
KeepsMode == pc' = Return /\ UNCHANGED <<cmdmode, reply, caller, adc>>

\* (The other form leaves the mode alone.)
AbortOnlyClears == /\ byte = KEY_CTRL_C /\ cmdmode = "NONE" /\ ClearLine
                   /\ KeepsMode /\ UNCHANGED edited

Abort == /\ byte = KEY_CTRL_C /\ cmdmode = "NONE"
         /\ cmdmode' = "COMMAND" /\ edited' = FALSE
         /\ ClearLine
         /\ pc' = Return /\ UNCHANGED <<reply, caller, adc>>

\* cmdbuf[cmdptr--] = 0.  (The other form does not look whether the line is
\* empty.)
TakeBack == /\ cmdbuf' = [cmdbuf EXCEPT ![cmdptr] = 0]
            /\ cmdptr' = (cmdptr - 1) % CMDBUF_SIZE
            /\ shown' = SubSeq(shown, 1, Len(shown) - 1)
            /\ erased' = TRUE /\ edited' = TRUE

EraseAlways == byte = DEL /\ TakeBack /\ KeepsMode

Erase == /\ byte = DEL
         /\ IF cmdptr > 0 THEN TakeBack ELSE UNCHANGED <<line, typed, edited>>
         /\ KeepsMode

\* The index of an unsigned char wraps with the 256 slots.
NextPtr == (cmdptr + 1) % CMDBUF_SIZE

AppendEcho == /\ byte \in Printable
              /\ cmdbuf' = [cmdbuf EXCEPT ![cmdptr] = byte, ![NextPtr] = 0]
              /\ cmdptr' = NextPtr
              /\ shown' = Append(shown, byte)
              /\ erased' = FALSE /\ edited' = TRUE
              /\ KeepsMode

Ignored == /\ byte < 32 /\ byte # CR /\ ~(byte = KEY_CTRL_C /\ cmdmode = "NONE")
           /\ KeepsMode /\ UNCHANGED <<line, typed, edited>>

HandleByte == /\ ~CPUOFF /\ pc = "handle"
              /\ Enter \/ Abort \/ Erase \/ AppendEcho \/ Ignored
              /\ byte' = 0
              /\ UNCHANGED <<uart, control, temp>>
------------------------------------------------------------------------------
(* main().                                                                 *)

\* rtcctl: in the mode that repeats a command, wait and evaluate the line.
Repeat == /\ pc = "loop" /\ cmdmode = "NONE"
          /\ cmdeval("cmdhandler")
          /\ UNCHANGED <<line, uart, control, typed, byte, temp>>

NoRepeat == /\ Goto("loop", "cmdhandler") /\ cmdmode # "NONE"
            /\ UNCHANGED <<line, uart, control, meaning, typed, byte, temp, adc, caller>>

\* serial: "Loop again if another value has been received" (line 23)
TestWaiting == /\ Goto("main_test", IF hasReceived THEN "cmdhandler" ELSE "sleep")
               /\ UNCHANGED <<line, uart, control, meaning, typed, byte, temp, adc, caller>>

\* __bis_SR_register(CPUOFF + GIE)
Sleep == /\ Goto("sleep", "cmdhandler")
         /\ CPUOFF' = TRUE
         /\ UNCHANGED <<program, line, uart, meaning, typed, byte, temp, adc, caller>>

Main == \/ Repeat \/ NoRepeat \/ TestWaiting \/ Sleep
        \/ CallReceive \/ ReturnByte \/ HandleByte \/ Measured \/ PrintTemperature

Next == (\E k \in Key : ByteComplete(k)) \/ BadFrame \/ ConversionEnds \/ Main

Spec == Init /\ [][Next]_vars
FairSpec == Spec /\ WF_vars(Main) /\ WF_vars(ConversionEnds)
------------------------------------------------------------------------------
(* Correctness.                                                            *)

\* cmdptr counts the characters shown, and the slots below it hold the last
\* of them, whatever was typed and erased before and however often the index
\* has wrapped; the terminator is behind them unless the last change took a
\* key back.
LineIsShown == /\ cmdptr = Len(shown) % CMDBUF_SIZE
               /\ \A i \in 1 .. cmdptr : cmdbuf[i - 1] = shown[Len(shown) - cmdptr + i]
               /\ ~erased => cmdbuf[cmdptr] = 0

Meaning(l) == IF l = <<>> THEN "empty"
              ELSE IF \E c \in Command[program] : l = Word[c]
              THEN CHOOSE c \in Command[program] : l = Word[c] ELSE "bad"

\* A step that evaluates the line.
Evaluates == \/ pc = "handle" /\ pc' # pc /\ byte = CR
             \/ pc = "loop" /\ pc' # pc /\ cmdmode = "NONE"

\* Every line that fits and does not end in an erasure is taken for what the
\* terminal shows, through changes of mode and while main() goes on evaluating
\* it: nothing of an earlier line or of an answer is left in it.
EvaluatesCompletedLine ==
  [][Evaluates
       => CASE cmdmode = "INPUT" -> reply' = "answer"
            [] cmdmode # "INPUT" /\ ~erased /\ Len(shown) < CMDBUF_SIZE -> reply' = Meaning(shown)
            [] OTHER -> TRUE]_vars

\* As long as nobody edits the line, main() repeats the temperature, and only
\* Ctrl-C ends that.
RepeatsUntilAbort ==
  [][cmdmode = "NONE" /\ ~edited
       => /\ Evaluates /\ pc = "loop" => reply' = "gettemp"
          /\ cmdmode' # "NONE" => (pc = "handle" /\ byte = KEY_CTRL_C)]_vars

\* Ctrl-C is heard while main() repeats a command: neither the loop nor the
\* measuring keeps the handler from the byte.
AbortIsHeard == hasReceived /\ RXByte = KEY_CTRL_C /\ cmdmode = "NONE" ~> cmdmode # "NONE"

\* The temperature printed is that of this measurement or of the last one, and
\* never older, although nothing waits for the end of a conversion.
StaleByOneAtMost == pc = "print" => temp <= 1

\* A byte is read if it comes while the CPU sleeps, or while it is awake and has
\* not yet found that no byte waits: the interrupt wakes it, and the test sees it.
ByteInTimeIsRead == hasReceived /\ ~late ~> ~hasReceived

\* "Loop again if another value has been received" (line 23): every byte that
\* has been received is read.
EveryByteIsRead == hasReceived ~> ~hasReceived
==============================================================================
