SPECIFICATION SentenceSpec
CONSTANTS
  de = de
  en = en
  Languages <- TwoLanguages
  Limit = 1
  MaxBar = 2
  MaxAtoms = 5
INVARIANTS
  SentenceTypeOK
  NothingLost
  SentencesInOrder
  SplitsAreRight
  ParagraphsAreBounded
CHECK_DEADLOCK FALSE
