# A TLA+ model of mspdev

mspdev is a kit of C code for Texas Instruments' MSP430 microcontrollers:
libraries (`lib430/src`), drivers that projects copy (`shared`) and some
twenty firmware projects (`projects`). Nothing in it runs under an operating
system. A program is a `main()` that never returns and a few interrupt
handlers that share its variables, and what is hard to get right is what the
two do to each other. The modules here model the parts of the kit that have
such a handler and compile: the receivers (serial, MIDI, infrared), what is
built on them, the counters of time, and the small programs that are one
handler and one loop.

## The system

### Components, their state and their operations

| Component | State | Operations | Hard about it | Modules |
|---|---|---|---|---|
| Receive ring, `libcomm/ringbuffer.h` | `head`, `tail`, `buffer` | `push_back` (handler), `empty`, `pop_front` (main) | stale decisions, full against empty | `RingBuffer`, `BoundedFifo` |
| USCI monitor, `libcomm/usci.cpp`, `usci.h` | the ring, the USCI's registers | `init`, `USCI0RX_ISR`, `recv`, `xmit`, the echo loop | the answer of `empty()` outlives its protection; bytes before the loop starts | `UsciMonitor` |
| Half-duplex software UART, `shared/suart.c` | `BitCnt`, `RXByte`, `TXByte`, two flags, `CCTL0`, `CCR0` | `PORT1_ISR`, `TIMERA0_ISR`, `suart_transmit`, `suart_receive` | both directions share one timer and one counter; sampling times | `SoftUart` |
| Hardware UART, `shared/huart.c` | ring of 32 bytes, two indices, a count | `USCI0RX_ISR`, `huart_receive`, `huart_transmit` | nothing is protected; overrun | `Huart` |
| Byte queue, `libcomm/fifo.c` | memory, two indices, a count of laps | `fifo_push`, `fifo_pop`, `fifo_peek` | the count changes only at a wrap | `Fifo` |
| Buffered software UART, `libcomm/suart.c` | two queues | `putchar`, `suart_flush`, `suart_receive` | bytes held back; push in the handler | `LibSuart` |
| Command lines, `projects/serial/main.c` (= `automate430/main.c`) and `projects/rtcctl/main.c` | `cmdbuf`, `cmdptr`, `cmdmode`, the `CPUOFF` bit | `cmdhandler`, `cmdeval`, the loops of `main` | editing, wrap of the index, falling asleep on a byte, a line that is evaluated while it is edited | `CommandLine` |
| Converter, `shared/adc.c` | `_adc10_value`, `_adc10_done` | `adc_single_measure`, `ADC10_ISR` | the wait for the result is commented out | `Adc` |
| Infrared receiver, `projects/irrcv/main.c` | `irCommand`, `irBitCount`, `prev`, `irReceivedCommand` | `Port_1`, the loop of `main` | wrap of the timer, lost and false bursts | `IrReceiver` |
| Time base, `projects/irrcv/main.c` | `TAR`, `timeCountH` | `timerA`, `getTimeUs` | a time in two halves, read while it goes on | `TimeUs` |
| Uptime, `libarduino/uptime.c` | `mcu_ms`, 32 bits | `clockctl_isr`, `millis`, `micros` | the same without a second look | `Uptime` |
| MIDI synthesizer, `libmidi/midi-main.c` (= `midipad/midi-main.c`) | bit and byte assembly, `newByte`, `notes`, `noteIndex` | `USI`, `getNextByte`, `noteOn`, `noteOff`, `controlChange`, `updateState` | two clocks, running status, order of releases, a full array | `MidiReceiver`, `MidiSynth` |
| Power box, `projects/powerbox` | `power_state`, `P1IFG` | `port1_isr`, `toggle_power` | flags set while they are looked at and cleared | `PowerBox` |
| Modem resetter, `projects/dmsreset` | `alert_cycles`, `is_alert`, `resetting`, the relay | `TIMERA0_ISR`, the loop of `main` | both work the relay and the count | `DmsReset` |
| Persistence of vision display, `projects/mspov` | `step`, `position`, `blank` | `TIMERA0_ISR` | two indices, reset at different places | `PovDisplay` |
| Bit angle modulation, `projects/bcmtest`, `pwmtest` | `slice`, `delay`, the level | `timer0_isr`, the loop of `main` | the level changes in the middle of a round | `BitAngle` |
| Display driver, `projects/lcdtest-3310/pcd8544.c` | `cx`, `cy`, the controller's address | `lcd_send`, `lcd_cursor`, `lcd_clear`, drawing | two cursors with different ranges | `Pcd8544` |
| Mood light, `projects/moodlight` | | | does not compile | not modelled |
| Other displays, `liblcd`; LED demonstrations; flash, clock and `libarduino` helpers; `printf` | | | sequences of port writes, formatting | not modelled |
| `libfat`, `reference/`, `contrib/` | | | third-party code | not modelled |
| `libair`, `libgpio`, `libhal`, `libcore`, `libsound`, `spi.c`, `i2c.c`, `libmidi/buffer.c`, unfinished programs | | | empty or incomplete | not modelled |

`PROJECT.json` lists the same with the files, and under `hazards` every line
where one of these difficulties bites.

### How they interact

A handler and the main program interact through variables, the enable bits of
interrupts and the `CPUOFF` bit of the status register, which a handler can
clear in the saved copy so that a sleeping `main()` continues. The command line
calls the software UART; the USCI monitor calls the ring, and its handler too.
`libcomm/suart.c` puts the bit engine of `shared/suart.c` between two queues.
The command line of `rtcctl` calls the converter, whose interrupt comes after
the call has returned. The synthesizer's handler passes bytes to its main
program in a mailbox of one byte, the infrared receiver's passes commands in
one of one command. The time base and the uptime counter are variables that a
handler counts and a function reads in two halves. The small programs share
nothing with each other. The rest of the world is the peripheral (timer, USCI, USI) and whoever is at the other
end of the line.

## The modules

Every module is an interleaving of the main program with the handlers. A
handler is one step, since interrupts do not nest in this code. The main
program is cut at every point where a handler that touches the same variables
can come in between and be seen: `pc` names its next statement. (`MidiSynth` and
`IrReceiver` take longer steps of the main program, for the reasons given with
them: a byte and a command are long in coming.) A section with
interrupts disabled is not made one step: the enable bit `GIE` is a variable,
and the handler's guard tests it.

### BoundedFifo, RingBuffer, MCRingBuffer

`BoundedFifo` is what a receive buffer promises: a queue of at most `Capacity`
items, from which `Take` returns the oldest, and that may `Refuse` an item only
when it is full.

`RingBuffer` is `ringbuffer.h`. `RX_ISR` is `push_back()` as the handler of
`usci.cpp` calls it; `EmptyDisable`, `EmptyCompare`, `EmptyEnable` and
`PopDisable`, `PopCompare`, `PopLoad`, `PopAdvance`, `PopEnable` are the
statements of `empty()` and `pop_front()`. `accepted`, `delivered` and
`refused` are history variables. Run `ring`: four slots, two values of which
one is the 255 that `pop_front()` also returns for "nothing", seven pushes, so
the indices wrap nearly twice and the ring fills, overruns and empties.

* `FifoOrder`: what was accepted is what was delivered plus what lies between
  `tail` and `head`, at every statement.
* `DecisionHolds`: what a protected section has read of the indices is still
  true when it acts on it.
* `ImplementsFifo`: the ring implements `BoundedFifo` with capacity
  `MAX_ITEMS - 1` under the mapping `queue <- Contents`.

### UsciMonitor, UsciMonitorProofs, MCUsciMonitor

`usci_main()` over the ring: `InitSerial`, `CallEnableInterrupts`, the banner, then
`CallEmpty`, `CallRecv` and `XmitEcho` for ever. The module extends
`RingBuffer`: its specification is `MonitorSpec`, and it steps the ring through
the ring's own actions, so what is proved of the ring holds of it here. The receiver (`ByteArrives`) does not overwrite a byte
whose interrupt is pending, since a byte takes some 16000 CPU cycles and a
protected section a handful. Run `usci`: a ring for two bytes, a banner of two
characters, five bytes that may arrive from the release of the USCI on.
`EchoOrder` relates all four places a byte can be in, and fails if the loop
ever acts on an answer of `empty()` that is no longer true; `EveryByteEchoed`
is the loop's liveness. `UsciMonitorProofs` proves the first for every ring.

### SoftUart, MCSoftUart

`shared/suart.c` in ticks of time, `Bit_time` ticks to a bit. `Tick` moves the
line, the edge detector and the timer with its output unit; the two handlers
and the statements of `suart_transmit()` take no ticks of their own. What the
cycles of the handlers do to sampling is in one parameter, `Latency`: by how
many ticks the first sample is late (entry of `PORT1_ISR` up to the read of
`TAR`, and entry of `TIMERA0_ISR` up to the read of `P1IN`). `PeerMay` says
which liberties the other end takes: a frame while the kit transmits
("overlap"), while it still clocks in the last frame ("crowd") or before the last
byte was read ("hurry"), or a spike on the line. `polite` remembers that it has
taken none, `legible` that it has at most hurried. Time may pass between the two
statements of `suart_receive()`, so a frame can start or end there.

The length of `Latency` matters. The code takes nine samples and expects the
last to be the stop bit, so the first has to be `d0`; the header's half bit
after the edge would be the middle of the start bit. With the some fifty
cycles the handlers take at 1 MHz, against a bit of 104 cycles, the first
sample falls just behind the start bit. In the model the delays 2 to 5 with
4 ticks to a bit are those for which the code receives, and run `softuart` has
both ends of that range. With delay 0, the header's half bit, the same module
refutes `ReceivesWhatWasSent`: the ninth sample is `d7`, the check at line 160
takes it for the stop bit, and bytes are dropped or come out shifted.

* `ReceivesWhatWasSent`: with a polite sender, bytes returned and waiting are
  the bytes sent.
* `NewestByteIsRead`: with one that hurries, a byte may be overwritten before it
  is read, but whole: whenever nothing is clocked in, the newest byte waits, or is
  what `suart_receive()` returned last. The condition is needed. Called while the
  next frame comes in, which `suart_datawaiting()` does not tell, `suart_receive()`
  returns 0 or the bits of it so far, and the byte itself when it is complete.
* `PoliteTransmitIsComplete`: with a polite sender, the whole frame is on the
  line when `suart_transmit()` returns; a reception that was running has been
  waited for.
* `NeverDeaf`: with any sender, the edge interrupt is off only while a reception
  runs whose end turns it on again.
* `TransmitReturns`, `ReceptionEnds`: with any sender, both end.

A sender that crowds is one that sends frames back to back: the last compare
comes a bit after the sample of the stop bit, just behind the next start bit, and
line 157 clears the flag of its edge. Of such frames nothing is promised but
that the receiver gets out of them (`NeverDeaf`, `ReceptionEnds`).

Completeness needs the polite sender. A start bit after line 91 takes the timer
away from the transmission; the wait of line 103 then ends with the reception,
and the call returns with its frame cut short.

### Huart, MCHuart

`huart_receive()` statement by statement. The variable `atomic` says how the
build compiles `huart_rcvbuflen--` on a `volatile` byte; run `huart` checks both.
Bytes arrive whether or not there is room: with three slots, a count of two bits
(`LEN_MODULUS`) and five bytes, the ring overruns and the count wraps. (That the
indices stay in the ring even then is proved, `TypeCorrect`.) `LenIsBalance` and `EveryByteDelivered`
are about a build with an atomic decrement, `FifoOrder` about both: until the
ring overruns, what came is what was taken plus what lies between the indices,
and what was written is what was shifted out plus what the transmit register
holds.

### Fifo, LibSuart, MCLibSuart

`Fifo` has the functions of `fifo.c`; its indices wrap at `size - 1` and its
`len` counts wraps. `LibSuart` puts two of them around a line on which a frame
is one step. Run `libsuart`: queues of four, so a lap is three bytes, and six
bytes in each direction. `LenCountsLaps` is what `len` means at every statement
of `fifo_pop()`; `WholeLapsAreSent` says exactly which characters `putchar()`
holds back; `LapsAreDelivered` which bytes a polling program gets.

### CommandLine, Adc, MCCommandLine

Both command lines: the variable `program` says whether the chip runs `serial`
or `rtcctl`, which have the same editor. The line is kept twice: `cmdbuf` and
`cmdptr` are the program's, `shown` is what the echoes leave on the terminal.
`ByteComplete` is the end of a frame in `SoftUart`, which also wakes the CPU, as
`BadFrame` and `ConversionEnds` do. `serial` switches the CPU off when no byte
waits (`TestWaiting`, `Sleep`). `rtcctl` polls and has three modes: a line is a
command (`COMMAND`), the answer to a question (`INPUT`), or a command that
`main()` evaluates in every round of its loop (`NONE`, `Repeat`): `gettemp`, which
measures. What else a command prints is left out; it is the mode it leaves
behind. `reply` records what the last line was taken for.

`Adc` is the converter as `gettemp` uses it. A measured value is represented by
its age in measurements, which is all a property can ask of it.

Keys are two letters, return, DEL and Ctrl-C; the buffer has four slots, the
commands two or three letters (shorter than the buffer and longer than one
letter, as in the code), and lines have up to five keys, so that the index
wraps.

* `LineIsShown` relates buffer and terminal through erasing and the wrap.
* `EvaluatesCompletedLine`: a line that fits and does not end in an erasure is
  taken for what the terminal shows, through all modes (a line in mode `INPUT`
  is an answer). The exception is the
  code's: `cmdbuf[cmdptr--] = 0` writes the terminator that is already there and
  leaves the erased character in place, so a command that is completed by
  erasing its last, wrong character is not recognised.
* `RepeatsUntilAbort`: until somebody edits the line, the repetition is one of
  the temperature, and only Ctrl-C ends it. If the line is edited, `main()`
  evaluates the edited line, and a return may change the mode.
* `AbortIsHeard`: Ctrl-C does end it.
* `StaleByOneAtMost`: what is printed is the temperature of this measurement or
  of the one before. The code has commented out the wait for the end of the
  conversion (`adc.c:18`), which takes longer than the fixed delay in its place;
  the first temperature printed may be the 0 of the initialisation. An older
  one is not printed only because printing takes longer than converting, which
  is `~converting` in `PrintTemperature`.
* `ByteInTimeIsRead` holds for every byte that does not come just between the
  test and the switching off of the CPU (`late`); `EveryByteIsRead` has no such
  condition and fails (`cmdline_sleep`).

### MidiReceiver, MidiSynth, MidiSynthProofs, MCMidiSynth

`MidiReceiver` is the body of the USI handler's loop as functions of a record:
`Sampled` is what one of the sixteen samples does. `MidiSynth` puts the main
program behind it and a keyboard in front. The keyboard sends whole messages
(note on, note off, a controller, another channel's), may leave out a status
that has not changed, and may put an active sensing byte anywhere. `SendBit` is
a bit of the line. Sender and receiver have their own clocks, so an edge comes
some samples early or late: `Samples` is how many samples the first bit after
an edge has, which stands for the whole run up to the next edge. The receiver
tolerates a run one sample short to two samples long (3 to 6 instead of 4),
and the run checks both ends; with 2 or 7 `FrameIsReceived` fails.

A step of the main program runs from one `getNextByte()` to the next. A byte
takes 320 us and such a step some tens, so no byte is overwritten; but the
handler looks for the next start bit only while no byte waits, so `Late` lets
the main program be up to three bits behind. The line idles first, and the
handler starts with a `rawMidiByte` of 0, which looks like a start bit: the first
byte it hands over is a 128 that nobody sent. To the main program that is the
status of a note off whose data never come, and does nothing.

* `FrameIsReceived`: each frame hands over its byte, before its stop bit ends,
  and an idle line hands over none.
* `NoHangingNote`: a note in the array is one whose key is down, and the output
  is on only if there is one.
* `NotForgotten`, `NewestSounds`: with a keyboard that releases by note on with
  velocity 0, the array holds the newest keys, and all of them unless too many
  were held; the pitch is the newest key's.
* `FirstNotForgotten` is the same of every keyboard and fails (`midi_note_off`).

System real-time bytes other than 254 and 255 would end a message in the code;
the modelled keyboard does not send them.

### IrReceiver, IrReceiverProofs, MCIrReceiver

`Port_1` is the handler: the time since the last edge, its classification, and
what each symbol does. The remote sends a burst, the start symbol and the bits,
pauses, and sends the next command; its clock may lag (`Drift`). At power-up it
is anywhere in a command. `LoseBurst` and `AddBurst` are interference, and `calm`
keeps disturbances a whole command apart. `irCommand` is the shift register that
the code makes of a 32-bit integer: a function from bit numbers to 0 and 1, as
long as a command. Times are in units of 1/15 ms and the timer wraps at 6.4 ms
instead of 65.5, so that it wraps within a command and several times in the
pause, which is 170 ms in the code and 15.3 ms here. The loop of `main()` takes a
command in one step: it prints one in some 57 ms and is back at its test long
before the next is complete.

* `CleanCommandIsReceived`: a command that is not disturbed is handed over with
  its last edge, whatever came before and wherever the timer wraps. The comment
  at `irrcv/main.c:100-103` expects the command after a bad one to be lost as
  well; the code is better than that, since a start symbol always begins anew.
* `NothingInvented`: one burst lost makes the receiver miss a command, never
  change it. A burst added may change it in two ways, and in no other. In the
  last interval, if that is long, it leaves a short one, and nothing follows
  that could give it away (`OwnCommand` says nothing of the last bit). In the
  middle of any long interval it may make two short ones of it: 601 us already
  are a short symbol, so 2 us of lag are enough. The receiver is then a bit ahead
  and takes the command for complete an edge too early (`HalvedCommand`).
  Excepted are the bits collected from power-up on (`irBitCount` starts at 0, as
  if a start had been seen).

The bounds matter: with a long and a short interval joined the receiver sees a
start symbol (18 + 12 = 30), and only the missing bits keep the rest from being a
command. And the unit must be fine enough: with times in units of 100 us the
halves of a long interval cannot both be short symbols, and `HalvedCommand`
never happens. Commands have three bits here, and of any length in the proofs.

### Halves, TimeUs, Uptime, PowerBox, DmsReset, PovDisplay, BitAngle, Pcd8544, Programs, ProgramsProofs

Seven small systems, a module each, that share nothing. `Programs` composes them
the way the kit does, one of them on the chip (`program`), and run `programs`
checks all seven. The module extends `TimeUs`; the others are instances.
`ProgramsProofs` proves the property of each.

* `TimeUs`: `getTimeUs()` instruction by instruction. The timer may go on, and
  wrap, within an instruction, and the interrupt that counts the wrap comes
  before the next one. `TimeIsOfTheCall`: what the function puts together is a
  time between its call and its return. The second look at `timeCountH` is what
  this rests on. (The joined time wraps after 71 minutes, which is left out, and
  the handler `Port_1` reads `TAR` itself.)
* `Uptime`: `millis()` takes no second look. `OffByACarryAtMost` says what that
  costs: the value is one of the call, or one carry (65536) too much or too
  little, depending on which half the compiler reads first, and the latter only
  if the low half overflows between the two reads.
* `PowerBox`: `PressesAreCounted` relates the state to the parity of the presses.
  A press between the look at the flags and the clearing of both is lost, one
  before or after it counts once. And the power LED is dark whenever the
  handler does not run: it switches it off at its end, though the comment at
  `powerbox/main.c:142` has it show the power.
* `DmsReset`: `RelayFollowsTheClock`. The README of the project has the switch
  wait for a device that no longer blinks; `is_alert`, by which the loop would
  notice a blink, is tested and never set, so the relay cuts the power five
  seconds out of every sixteen.
* `PovDisplay`: `ShowsMessage`. From the second round on the first letter is
  missing, because `position` is not reset at the end of the message.
* `BitAngle`: `LevelIsShown`: a level that stays for a round is lit for its weight.
  The weights of the bits are 1, 2, 3, 5 and 9, since a slice lasts one
  interrupt more than its delay.
* `Pcd8544`: `BytesLandAtCursor` relates the driver's cursor and the controller's.
  The screen's cells are a set, a character or text is a run of bytes, and the
  controller is larger than the screen in both directions, as the real one is.
  A cursor that has run off the last row does not return to the first, against
  `pcd8544.h` ("mimic the behavior of the original controller"); the property
  speaks of cursors on the screen, and of finding back to them. One more
  observation: `lcd_draw_text_block()` with a length above five columns per
  character draws the length and the text, not "including the text".

## The runs

| Run | Expect | Bounds |
|---|---|---|
| `ring` | pass | 4 slots, 7 pushes, 2 values |
| `usci` | pass | 3 slots, banner of 2, 5 bytes |
| `softuart` | pass | 2 frames or spikes, 1 transmission, 2 bytes, 4 ticks to a bit, delays 2 and 5 |
| `huart` | pass | 3 slots, count of 2 bits, 5 bytes in and 2 out |
| `huart_lost_count` | violation | 3 bytes |
| `libsuart` | pass | 4 slots, 6 bytes each way |
| `cmdline` | pass | 4 slots, lines of 5 keys, 5 keys, ages up to 2 |
| `cmdline_sleep` | violation | lines of 1 key |
| `midi` | pass | 3 keys on an array of 2, bits of 3 and 6 samples, main program up to 3 bits late |
| `midi_note_off` | violation | 2 keys on an array of 2, bits of 4 samples |
| `ir` | pass | 3 bits, lag 0 and 133 us, wrap at 6.4 ms |
| `programs` | pass | halves of two bits, 14 us, 9 interrupts, a message of 3 letters, a screen of 3 by 2 on a controller of 5 by 4, `cy` modulo 5; `dmsreset` and `bcmtest` with the numbers of the code |

The bounds are enough in the sense that every index wraps, every buffer fills
and, where the code allows it, overruns, and that a handler can come between
any two statements. Values of bytes matter only where the code looks at them:
0 and 255 in the ring, the bits of a frame in `SoftUart`, the keys of the
command line. The notes are 0, 1 and 2: 0 is also what an unused slot of
`notes` holds and what a velocity may be. `Byte = {65, 170}` has two values with
many changes of level, the last bit of one being 0 and of the other 1.

`CHECK_DEADLOCK FALSE` stands in four runs. Those of `SoftUart` and
`CommandLine` may rest: nobody sends any more, with the timer stopped or the CPU
asleep. In `programs` the time of `irrcv` and the interrupts of `libarduino` end
with their bounds. All other systems run for ever.

Type invariants: those of `RingBuffer`, `MidiSynth` and `IrReceiver` are checked
by TLC; those of `RingBuffer` (and with it the monitor's ring), `Huart`, `LibSuart`,
`MidiSynth`, `IrReceiver` and `TimeUs` are proved. For the others the invariants of the
proofs contain the types that matter to them.

### Fairness

`FairSpec` (`MonitorFairSpec` for the monitor) is weakly fair to the main program,
to handlers whose interrupt is pending and enabled, to time and to the
transmitter: the CPU executes, serves interrupts between instructions, and the
clock runs. Nobody is obliged to send.
`LibSuart` is strongly fair to the poll of the input queue: its main
program may call `putchar()` again and again, and is assumed to look at the
input again and again as well. `CommandLine` is weakly fair to `main()` and to the end of a
conversion. `MidiSynth`, `IrReceiver` and the modules of `Programs` have safety
properties only and no fairness.

## The proofs

The assumptions are those of the modules' `ASSUME`s, which TLC evaluates in the
runs, and where a theorem needs more it says so (`ASSUME ... PROVE`).

`UsciMonitorProofs` begins with the ring by itself (`Spec` is that of `RingBuffer`): for
every `MAX_ITEMS` from 1 on, every `Item` and every `MaxPush`,

* `RingTypeCorrect`, `FifoOrderHolds`, `DecisionHoldsAlways`: `Spec => []P`;
* `RingRefinesFifo`: `Spec => Fifo!Spec`.

All rest on one inductive invariant, `RingInv`: the types, `FifoOrder`,
`DecisionHolds`, and that interrupts are off at the statements of a protected
section. Neither `FifoOrder` nor `DecisionHolds` is inductive alone: `PopLoad`
and `PopAdvance` keep the order only when the ring is not empty, which is the
decision, and the decision survives only because the handler cannot run,
which is the third part. `Contents` maps two indices and an array to a
sequence; the lemmas `SlotsShape`, `PushSlots` and `PopSlots` say what a push
and a pop do to that sequence, as facts about constants, and rest on
`NextIndexValue` and `ModValues` for the arithmetic of `%`. `PushEffect` and
`PopEffect` carry them over to the two actions that change the ring, for the
invariant and for the refinement alike. The assumptions used are those of
`RingBuffer`: `MAX_ITEMS` is a number above 0, and the sentinels belong to
`Item`.

The second part is the monitor, `MonitorSpec`. Each step of it is a step of the
ring or leaves the ring alone (`IsRingStep`), so that `RingInv` holds here; `EchoOrderHolds` adds to it `Position` (which statement of the ring the
monitor's call is at, and that the ring is not empty when `recv()` is called,
although the section that found it out is over) and `Delivered`.

`HuartProofs` has an invariant that is stronger than any of its three theorems.
For a build that splits the decrement `FifoOrder` alone does not go through: a
lost update makes the count wrong. What saves the order is that the count only
ever errs to one side: `CountIsLow`, a byte that has come is counted at most
once, so `huart_receive()` never reads a slot that is not filled; `RingIsQueue`
then relates the indices and the slots to the bytes that came. Both hold until
the ring overruns. `LenIsBalanceHolds` is for the atomic build and holds after
overruns too.

`LibSuartProofs` relates every index and count to the number of bytes pushed and
popped: remainders by the lap and quotients (`InQueue`, `OutQueue`), and says
that the bytes not yet popped lie in the memory at their remainder (`Holds`).
`LapEffect` and `Counts` say what one more byte does to quotient and remainder.
It assumes that `len` has more than two values, 256 in the code: with two laps in
a queue it would otherwise wrap.

`CommandLineProofs` needs for `LineIsShown` only the types of the line
(`EditorInv`), and for the temperature that a conversion runs only while the
program measures (`AgeInv`). For `EvaluatesCompletedLine` it adds that no character
shown is a terminator (`Readable`): then `strncmp()` finds exactly the word that
is shown (`MatchesShown`), and since no two commands have the same name
(`WordAssumption`) the chain of comparisons finds that command
(`EvaluatedIsMeaning`). `RepeatsUntilAbort` rests on `RepeatInv`: a line that is
repeated and not edited asks for the temperature.

`ProgramsProofs` starts with `EachProgramRuns`: a step of the composition is a step
of one program and leaves the other six alone, so each of the seven
specifications holds, whichever program runs. Then each has its own invariant.

* `TimeUs`: `Clock` says that the timer, its pending interrupt and the count of
  wraps make up the time; `InTime` that at the comparison the two halves read
  are outdated, and will be found to be, or are a time of the call.
* `Uptime` (`UpInv`): the half that has been read is that of the moment of the
  call. `JoinedHalves` is the rest, a fact about two numbers: with equal high
  halves what is joined lies between them, otherwise it is off by a carry.
* `PowerBox` (`BoxInv`): `PressesAreCounted` is inductive with its types, since it
  says for each statement what becomes of a flag.
* `DmsReset` (`DmsInv`): `is_alert` is never set, without which `main()` could
  reset the count.
* `PovDisplay` (`PovInv`): the number of columns shown is that of the letters
  before `step` and `position`, and the i-th column shown is the i-th of the
  message. The position that is left over from the message before stands where
  the first letter's columns would, and is past the last of them.
* `BitAngle` (`BcmInv`): a round that has shown one level so far has lit the LED
  for the weights of the bits before this slice (`Before`) and for what of this one
  is over (`Within`). The weights are those of the code's five slices.
* `Pcd8544` (`LcdInv`): the two cursors agree from the first `lcd_cursor()` on,
  whenever the driver's is on the screen (`Agree`), and what `lcd_clear()` has gone
  over is blank (`Clearing`). That the controller is as wide as the screen or
  wider is used where a byte does not end a row (`ScreenAssumption`).

`MidiSynthProofs` has two parts. The receiver: after k bits of a frame it has
shifted in k of them, or has the last one still to shift in (`At`, `Within`); a run
of three to six samples after an edge, or of four, leads from each such state
to the next (`FrameIsReceivedHolds`). The notes: at rest the array mirrors the
keys, but between two rests bytes are on the line and in the mailbox. The
invariant therefore speaks of the state the main program will be in when it
has taken all unread bytes, `Replay(Now, Unread)`. A bit of the line does not
change that state, a `getNextByte()` of the main program is one step of the
replay, and only a new message changes it, which is sent when all bytes but one
have been handed over; so at most four bytes are unread, beside active sensing,
which changes nothing. `NoHangingNoteHolds`, `NotForgottenHolds` and
`NewestSoundsHolds` are what that state says when there is nothing to replay. For a
keyboard that releases by note off the invariant is weaker, since a velocity
may release a note.

`SoftUartProofs`: `NeverDeaf` is inductive as it stands, for every timing and
every sender. `ReceivesWhatWasSentHolds` and `PoliteTransmitIsCompleteHolds` are
about whole frames, and `NewestByteIsReadHolds` about those of a hurried sender.
They assume `Timely`, a handler neither so fast nor so slow that the first
sample falls outside the first data bit, which holds of the delays in
`softuart`. While the sender's frames are legible the receiver is in one of
three situations (`Orderly`): the line is `Silent`; a start bit has come
(`Started`); or a byte is `Clocked`, and then the next compare finds the sender
in the bit that is to be sampled (`InTime`), and `RXByte` holds the bits before
it (`Sampled`). What the other end has sent last is known in each (`Known`);
`Books` adds, for a polite one, that all before it has been read. For the
transmitter, `TXByte` holds what is still to be sent (`Shifted`), and the
compare's output unit has put the rest on the line (`Out`, `Line`). The bits are
arithmetic, one lemma for each.

`IrReceiverProofs` is for commands of any length, any lag within the tolerance, and
symbols of any times that stay apart: `ApartAssumption` has the inequalities,
which hold of 2000, 1200, 800 and 200 us, and `PauseAssumption` says that the
pause is no symbol to the timer. `DeltaValue` and `PortActs` show that the time
measured is right or one short however often the timer wraps; with them, a
symbol seen whole is that symbol (`StartOnTime`, `BitOnTime`), and `CutBit`,
`RestOfBit`, `CutStart` and `RestOfStart` say what the two parts of one can
be taken for. The invariant says at each edge what the receiver has collected.
In a command that is not disturbed: all bits so far (`Collected`). In one that
is, there are five cases (`AtBit`): nothing; too few bits, and they stay too few;
all bits after all, since the disturbance came before the start symbol;
`CutShort`, a burst added within the present interval has passed for a bit; and
`TwoForOne`, the rest of that interval has as well. Neither action property is
inductive without these, as each is about the last of many steps.

Only model-checked is the liveness: the provers have no `ENABLED`.

## Findings

A run with `expect` "violation" checks what a comment says, and TLC shows the
code do otherwise. `PROJECT.json` quotes the lines.

* `huart_lost_count`: a count lost between load and store of the decrement.
* `cmdline_sleep`: a byte received between the test and `CPUOFF` is slept on.
* `midi_note_off`: `noteOff()` reads one data byte where the message has two,
  and takes the velocity for the number of another note to release.

Three more disagreements are visible in the modules and described there: the
half bit of `suart.h` (`SoftUart`), the transmission cut short by a reception
(`SoftUart`), and DEL (`CommandLine`). A fourth, that `putchar()` of
`libcomm/suart.c` returns before its character has been sent, is what
`WholeLapsAreSent` says exactly. The properties of `PowerBox`, `DmsReset`,
`PovDisplay`, `BitAngle`, `Uptime` and `Pcd8544` each name one more, see there.

## Not modelled

Register setup (clocks, pins, baud rates) is a fact about the peripheral and
appears as the initial state. Electrical behaviour, oscillator tolerance and
the exact cycle counts of handlers are in `Latency`. `printf()` is the reply it
prints. The unused ring variables of `shared/suart.c` and the empty libraries
have no behaviour.

* `moodlight` does not compile: `moodlight.h:4` declares `override_color()` with
  other parameters than `main.c:113` defines, so what it does is not known.
* `hd44780.c`, the LED demonstrations, `flash.c` and `utils.c` are sequences of
  port or register writes with delays; `ili9163.c` includes headers of another
  processor. `noccyone` reads behind its tables, and what it reads there is the
  linker's choice.
* `libarduino/arduino.c` is two expressions. (`map()` divides integers and assigns
  the quotient to a float, so its result is coarser than the type suggests.)
* `libmidi/buffer.c` has two buffers that nothing fills or empties; `irdecoder`,
  `logicprobe`, `smartcard` and `matrixclock` have empty or missing handlers.
* `simple_printf` and `printf` format, and keep no state between calls.
* The torn hand-over of an infrared command (`irrcv/main.c:257`) cannot happen at
  the speeds of remote and printing; `hazards` has the numbers.
* `reference/` and `contrib/`, by far the largest part of the repository, and
  `libfat/pff.c` are third-party code.

## Plan

Modelled: every component of the kit that compiles, has state of its own and
more than one party that changes it. What could follow:

* `moodlight`, once its declarations agree.
