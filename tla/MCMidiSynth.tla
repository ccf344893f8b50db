----------------------------- MODULE MCMidiSynth -----------------------------
(* Three keys on an array of two; key 0 is also what an unused slot holds. *)
EXTENDS MidiSynth
==============================================================================
