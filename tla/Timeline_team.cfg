SPECIFICATION Spec
CONSTANTS
  a1 = a1
  a2 = a2
  t1 = t1
  t2 = t2
  NoEntity = NoEntity
  EndOfSchedule = EndOfSchedule
  Entities = {a1, a2, t1, t2}
  Allies = {a1, a2}
  Opponents = {t1, t2}
  DeathKeys = {1, 2}
  Forever = 99
  Roster <- TeamRoster
  Actions <- TeamActions
  Windows = {}
  Duration = 3
  Horizon = 1
  MaxEvents = 4
INVARIANTS HealthAccounted PreventionCredited DamageAttributed HorizonDeathsAgree
PROPERTIES GrievousOnlyStrengthens
