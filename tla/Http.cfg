SPECIFICATION FairSpec
CONSTANTS
  Word = 2
  Buffer = 3
  Slack = 3
  Answers <- SomeAnswers
  Bytes <- SomeBytes
  MaxLen = 4
  Behind = {0, 1}
  Modes <- AllModes
INVARIANTS TypeOK NothingHeld AcceptedIsWhole WholeIsAccepted DecodesBack KindSurvives
PROPERTIES CallEnds
