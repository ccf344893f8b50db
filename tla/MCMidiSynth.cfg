SPECIFICATION Spec
CONSTANTS
  MAX_POLYPHONY = 2
  Note = {0, 1, 2}
  OffVelocity = {0}
  Samples = {3, 6}
  Late = 3
INVARIANTS
  TypeOK
  NoHangingNote
  NotForgotten
  NewestSounds
PROPERTIES
  FrameIsReceived
