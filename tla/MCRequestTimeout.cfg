SPECIFICATION RTFairSpec
INVARIANTS RTTypeOK TimeoutResponseClean DeadlineWins
PROPERTIES QuietAfterEnd AnsweredAtDeadline
CHECK_DEADLOCK FALSE
