SPECIFICATION Spec
CONSTANTS
  a1 = a1
  a2 = a2
  t1 = t1
  t2 = t2
  NoEntity = NoEntity
  EndOfSchedule = EndOfSchedule
  Entities = {a1, t1}
  Allies = {a1}
  Opponents = {t1}
  DeathKeys = {1, 2}
  Forever = 99
  Roster <- DuelRoster
  Actions <- SurvivalActions
  Windows = {}
  Duration = 3
  Horizon = 1
  MaxEvents = 4
INVARIANTS HealthBounded MaxHealthAccounted DeathsRecorded NothingOverdue
PROPERTIES OnlyReviveRestores NoDeathUnderFloor
