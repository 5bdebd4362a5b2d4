SPECIFICATION PageSpec
CONSTANTS
  Messages = {1, 2}
  Folders = {"inbox", "archive", "trash"}
  ReadBefore = {2}
  Slots = {1}
  MaxEvents = 1
  RuleBooks <- MCRuleBooks
  Facts <- MCFacts
CHECK_DEADLOCK FALSE
INVARIANTS  SelectionIsListed AskedFirst ReadIsRecorded
PROPERTIES PassIsCurrent
