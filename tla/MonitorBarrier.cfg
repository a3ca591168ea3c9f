SPECIFICATION FairSpec
CONSTANTS
  Thread = {1, 2, 3, 4, 5}
  ROUND = 5
INVARIANTS VacanciesAgree TypeOK
PROPERTIES SeparatesRounds AllRoundsLeft
\* The threads end after their rounds.
CHECK_DEADLOCK FALSE
