CONSTANTS
  Shape = {s1, s2}
  Text = {t1, t2}
  HISTORY_LIMIT = 3
SPECIFICATION UndoSpec
INVARIANT HistoryIsBounded
PROPERTY UndoAndRedoKeepTheTimeline
