SPECIFICATION Spec
CONSTANTS
  s1 = s1  s2 = s2
  Slots = {s1, s2}
  TTL = 2
  MaxLoad = 1
  MaxWrites = 1
  Audiences = {{"member"}, {"visitor"}}
  NoEntry = NoEntry
INVARIANTS DropsCoverOwnWrites
PROPERTIES StaleIsBounded AnswersCatchUp
