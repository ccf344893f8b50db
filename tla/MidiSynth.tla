------------------------------ MODULE MidiSynth ------------------------------
(***************************************************************************)
(* The synthesizer of libmidi/midi-main.c: a player's keyboard sends MIDI  *)
(* messages bit by bit, the handler of MidiReceiver collects bytes, and    *)
(* the main program takes them, keeps the notes that are held in an array, *)
(* and sounds the newest.  A step of the main program runs from one        *)
(* getNextByte() to the next.                                              *)
(*                                                                         *)
(* The period of the square wave is a table's value for the note; here it  *)
(* is the note.  Velocities are stored but never read again, and           *)
(* updateControls() is empty, so neither has any state.                    *)
(***************************************************************************)
EXTENDS MidiReceiver

CONSTANTS MAX_POLYPHONY,
          Note,        \* the keys of the keyboard
          OffVelocity, \* velocities that "note off" messages carry
          Samples,     \* samples in the first bit after an edge; four in the others
          Late         \* the main program takes a byte before this many
                       \* bits of the next one have been sampled

NoteOn == 144          \* 0x90 | MIDI_CHANNEL
NoteOff == 128         \* 0x80 | MIDI_CHANNEL
Control == 176         \* 0xB0 | MIDI_CHANNEL
OtherChannel == 145    \* a message for somebody else
ActiveSensing == 254
Reset == 255
IsStatus(byte) == byte >= 128

ASSUME PolyphonyAssumption == MAX_POLYPHONY \in Nat \ {0}
ASSUME DataAssumption == Note \subseteq 0 .. 127 /\ OffVelocity \subseteq 0 .. 127
ASSUME TimingAssumption == Samples \subseteq 3 .. 6 /\ Late \in 1 .. 7

VARIABLES rx,                            \* the receiver and its mailbox
          pc,                            \* the getNextByte() that waits
          newNote, notes, noteIndex,     \* midi-main.c's own
          sounding, period,              \* the output and its pitch
          todo, at,                      \* bytes to send; bit of the first
          status,                        \* the sender's running status
          releases,                      \* how its keyboard releases a key
          pressed,                       \* history: keys held, oldest first
          crowded                        \* history: too many are, or were
                                         \* since a key was last the only one

synth == <<pc, newNote, notes, noteIndex, sounding, period>>
line == <<todo, at, status>>
player == <<releases, pressed, crowded>>
vars == <<rx, synth, line, player>>

Slot == 0 .. MAX_POLYPHONY - 1

\* The line is idle while the first sixteen samples are collected.
Init == /\ rx = Four(Four(Four(Four(PowerUp, 1), 1), 1), 1)
        /\ pc = "opcode" /\ newNote = 0
        /\ notes = [i \in Slot |-> 0] /\ noteIndex = 0
        /\ sounding = FALSE /\ period = 0
        /\ todo = <<>> /\ at = 0 /\ status = 0
        /\ releases \in {"by_note_on", "by_note_off"}
        /\ pressed = <<>> /\ crowded = FALSE
------------------------------------------------------------------------------
\* The sender may leave out a status that is that of the last message.
Message(first, data) ==
  /\ todo = <<>>
  /\ \/ todo' = <<first>> \o data
     \/ status = first /\ todo' = data
  /\ status' = first
  /\ UNCHANGED <<rx, synth, at>>

Press(key) == /\ key \notin Range(pressed)
              /\ Message(NoteOn, <<key, 1>>)
              /\ pressed' = Append(pressed, key)
              /\ crowded' = (crowded \/ Len(pressed) = MAX_POLYPHONY)
              /\ UNCHANGED releases

\* The i-th of the keys that are down.
Lift(i) == /\ \/ releases = "by_note_on" /\ Message(NoteOn, <<pressed[i], 0>>)
              \/ /\ releases = "by_note_off"
                 /\ \E v \in OffVelocity : Message(NoteOff, <<pressed[i], v>>)
           /\ pressed' = RemoveAt(pressed, i)
           /\ crowded' = (crowded /\ Len(pressed) > 1)
           /\ UNCHANGED releases

OtherMessage == /\ \E s \in {Control, OtherChannel} : Message(s, <<0, 1>>)
                /\ UNCHANGED player

\* Allowed between any two bytes.
Sense == /\ at = 0 /\ (todo # <<>> => Head(todo) # ActiveSensing)
         /\ todo' = <<ActiveSensing>> \o todo
         /\ UNCHANGED <<rx, synth, at, status, player>>

\* Sender and receiver do not share a clock: a run of k equal bits is some
\* samples shorter or longer than 4 * k, which the first bit stands for.
SendBit ==
  /\ todo # <<>>
  /\ rx.newByte => at \notin Late .. 7
  /\ LET level == FrameBit(Head(todo), at)
     IN  \E n \in IF level = rx.currentState THEN {4} ELSE Samples :
           rx' = USI(IF at = 0 THEN [rx EXCEPT !.handed = <<>>] ELSE rx,
                     level, n)
  /\ at' = (at + 1) % 10
  /\ todo' = IF at = 9 THEN Tail(todo) ELSE todo
  /\ UNCHANGED <<synth, status, player>>

Idle == /\ at = 0
        /\ rx' = Sampled(rx, 1)
        /\ UNCHANGED <<synth, line, player>>
------------------------------------------------------------------------------
\* getNextByte() returns b and clears the flag.
Gets(b) == rx.newByte /\ rx.midiByte = b /\ rx' = [rx EXCEPT !.newByte = FALSE]

IsSilent(b) == b \in {ActiveSensing, Reset}

\* The two bytes getNextByte() passes over.
PassOver == /\ \E b \in {ActiveSensing, Reset} : Gets(b)
            /\ UNCHANGED <<synth, line, player>>

\* The main loop.
Opcode == /\ pc = "opcode"
          /\ \E b \in 0 .. 255 :
               /\ Gets(b) /\ ~ IsSilent(b)
               /\ pc' = CASE b = NoteOn -> "note_on"
                          [] b = NoteOff -> "note_off"
                          [] b = Control -> "number"
                          [] OTHER -> "opcode"
          /\ UNCHANGED <<newNote, notes, noteIndex, sounding, period>>
          /\ UNCHANGED <<line, player>>

\* A status byte ends the message: it is left in the mailbox for the main loop.
GiveBack == /\ pc # "opcode"
            /\ rx.newByte /\ IsStatus(rx.midiByte) /\ ~ IsSilent(rx.midiByte)
            /\ pc' = "opcode"
            /\ newNote' = IF pc \in {"note_on", "note_off"}
                          THEN rx.midiByte ELSE newNote
            /\ UNCHANGED <<rx, notes, noteIndex, sounding, period>>
            /\ UNCHANGED <<line, player>>

\* updateSynth(): the output, and the pitch of the note at index, if any.
UpdateSynth(on, index, array) ==
  /\ sounding' = on
  /\ period' = IF index \in Slot THEN array[index] ELSE period

\* shiftLeft().  (The other form stops one slot early.)
ShiftLeftShort(index) == [i \in Slot |-> IF i \in index .. MAX_POLYPHONY - 3
                                         THEN notes[i + 1] ELSE notes[i]]

ShiftLeft(index) == [i \in Slot |-> IF i \in index .. MAX_POLYPHONY - 2
                                    THEN notes[i + 1] ELSE notes[i]]

\* The first slot that holds the note, among all of them.
GetNoteIndex(note) == {i \in Slot : /\ notes[i] = note
                                    /\ \A j \in 0 .. i - 1 : notes[j] # note}

\* updateState() with a velocity that is not zero.  (The other form does not
\* tell a full array from one with room.)
AddAnyway(note) == /\ notes' = [notes EXCEPT ![noteIndex] = note]
                   /\ UpdateSynth(TRUE, noteIndex, notes')
                   /\ noteIndex' = noteIndex + 1

Add(note) ==
  IF noteIndex = MAX_POLYPHONY
  THEN /\ notes' = [ShiftLeft(0) EXCEPT ![MAX_POLYPHONY - 1] = note]
       /\ UpdateSynth(TRUE, noteIndex, notes')
       /\ UNCHANGED noteIndex
  ELSE /\ notes' = [notes EXCEPT ![noteIndex] = note]
       /\ UpdateSynth(TRUE, noteIndex, notes')
       /\ noteIndex' = noteIndex + 1

\* updateState() with velocity zero, of a note that is in the array.  (The
\* other forms leave the output on with the last note, and pick the pitch
\* before the index has been taken back twice.)
DropAndSound(i) == /\ notes' = ShiftLeft(i)
                   /\ UpdateSynth(TRUE, noteIndex - 2, notes')
                   /\ noteIndex' = IF noteIndex >= 2 THEN noteIndex - 1 ELSE 0

DropOneShort(i) == /\ notes' = ShiftLeft(i)
                   /\ UpdateSynth(noteIndex >= 2, noteIndex - 1, notes')
                   /\ noteIndex' = IF noteIndex >= 2 THEN noteIndex - 1 ELSE 0

Drop(i) == /\ notes' = ShiftLeft(i)
           /\ UpdateSynth(noteIndex >= 2, noteIndex - 2, notes')
           /\ noteIndex' = IF noteIndex >= 2 THEN noteIndex - 1 ELSE 0

Release(note) == \/ \E i \in GetNoteIndex(note) : Drop(i)
                 \/ /\ GetNoteIndex(note) = {}
                    /\ UNCHANGED <<notes, noteIndex, sounding, period>>

noteOn == \E b \in 0 .. 127 :
            /\ Gets(b)
            /\ \/ /\ pc = "note_on" /\ pc' = "velocity" /\ newNote' = b
                  /\ UNCHANGED <<notes, noteIndex, sounding, period>>
               \/ /\ pc = "velocity" /\ pc' = "note_on"
                  /\ IF b # 0 THEN Add(newNote) ELSE Release(newNote)
                  /\ UNCHANGED newNote
            /\ UNCHANGED <<line, player>>

\* Every data byte of a "note off" is taken for a note.
noteOff == \E b \in 0 .. 127 :
             /\ Gets(b)
             /\ pc = "note_off" /\ UNCHANGED pc
             /\ newNote' = b
             /\ Release(b)
             /\ UNCHANGED <<line, player>>

controlChange == \E b \in 0 .. 127 :
                   /\ Gets(b)
                   /\ \/ pc = "number" /\ pc' = "value"
                      \/ pc = "value" /\ pc' = "number"
                   /\ UNCHANGED <<newNote, notes, noteIndex, sounding, period>>
                   /\ UNCHANGED <<line, player>>

Main == PassOver \/ Opcode \/ GiveBack \/ noteOn \/ noteOff \/ controlChange
Sender == \/ \E key \in Note : Press(key)
          \/ \E i \in DOMAIN pressed : Lift(i)
          \/ OtherMessage \/ Sense \/ SendBit \/ Idle
Next == Main \/ Sender
Spec == Init /\ [][Next]_vars
------------------------------------------------------------------------------
\* The sender has finished its message and the main program has taken it.
AtRest == todo = <<>> /\ ~ rx.newByte

\* The notes in the array, oldest first.
Held == [i \in 1 .. noteIndex |-> notes[i - 1]]

\* The variables keep their types, the index stays within the array or one
\* past its end (notes[], noteIndex and the byte arithmetic of the receiver).
TypeOK == /\ rx \in Receiver
          /\ pc \in {"opcode", "note_on", "velocity", "note_off",
                     "number", "value"}
          /\ newNote \in 0 .. 255
          /\ notes \in [Slot -> 0 .. 127] /\ noteIndex \in 0 .. MAX_POLYPHONY
          /\ sounding \in BOOLEAN /\ period \in 0 .. 127
          /\ todo \in Seq(0 .. 255) /\ at \in 0 .. 9

\* Whatever the phase of the samples and the drift between the two clocks,
\* a frame hands over one byte, the one that was sent, and does so before
\* its stop bit has ended; an idle line hands over none.
FrameIsReceived == [][/\ at = 9 /\ at' = 0 => rx'.handed = <<Head(todo)>>
                      /\ at = 0 /\ at' = 0 => rx'.handed = rx.handed]_vars

\* Nothing sounds when every key is up, and every note in the array is one
\* whose key is down, however the keyboard words the release.
NoHangingNote == AtRest => /\ Range(Held) \subseteq Range(pressed)
                           /\ sounding <=> (noteIndex > 0)

\* A keyboard that releases with "note on": the array holds the newest of
\* the keys that are down, and all of them when there were never more than
\* fit ("how many notes can be hit at the same time without forgetting the
\* first", midi-main.c:10).
NotForgotten ==
  AtRest /\ releases = "by_note_on" => /\ IsSuffix(Held, pressed)
                                       /\ crowded \/ Held = pressed

\* The pitch is that of the newest key, unless too many were held: the array
\* being full, updateSynth() leaves the pitch alone.
NewestSounds ==
  AtRest /\ releases = "by_note_on" /\ ~ crowded /\ pressed # <<>>
     => sounding /\ period = Last(pressed)

\* The same of every keyboard: "how many notes can be hit at the same time
\* without forgetting the first" (midi-main.c:10).
FirstNotForgotten == AtRest => crowded \/ Held = pressed
==============================================================================
