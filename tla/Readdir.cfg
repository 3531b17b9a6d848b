SPECIFICATION FairSpec
CONSTANTS
  Entries = {e1, e2, e3, e4}
INVARIANTS ShownOnce NothingMissed
PROPERTIES PassEnds
