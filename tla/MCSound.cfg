SPECIFICATION Spec
CONSTANTS
  Voices = {0, 4}
  Left = 0
  Right = 4
  Notes <- MCNotes
  Dur <- MCDur
  Silence = Silence
  Bad = Bad
  QueueLen = 2
  EnvOne = 2
  SustainMax = 15
  Block = 2
  TimeMod = 65536
  InitTimbre <- MCTimbre
  Commands <- MCCommands
INVARIANTS TypeOK TootWaits
PROPERTIES ImplementsScore Ends
