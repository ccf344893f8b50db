SPECIFICATION Spec
CONSTANTS
  MAX_POLYPHONY = 2
  Note = {0, 1}
  OffVelocity = {0}
  Samples = {4}
  Late = 3
INVARIANT FirstNotForgotten
