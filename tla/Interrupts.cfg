SPECIFICATION Spec
CONSTANTS
  RING = 24
  Slack = 8
  Word = 24
  Lengths = {5}
  Keys = {"rshift", "caps"}
  KeyQueue = 1
INVARIANTS
   MouseInPhase  NoFrameStranded
PROPERTIES RequestsServed
