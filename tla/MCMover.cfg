CONSTANTS
  Low = 0
  High = 2
  Library <- MCLibrary
  Ids = {"stow", "up", "unknown"}
  Amp = 1
  Nowhere = Nowhere
SPECIFICATION FairSpec
INVARIANTS
  TypeOK
  PublishesWhereItStands
  HeadsWhereSent
  StreamIsContinuous
PROPERTIES
  ArrivesInTheEnd
