SPECIFICATION FairSpec
CONSTANTS
  c1 = c1
  c2 = c2
  d1 = d1
  d2 = d2
  Chats = {c1, c2}
  Docs = {d1, d2}
  Characters <- Written
  Found <- Retrieved
  Openings <- Starts
  MaxDeleted = 1
INVARIANTS TypeOK StreamMatchesText MarksMatch TagsFollowText
PROPERTIES AnswersEnd
CHECK_DEADLOCK FALSE
