SPECIFICATION Spec
CONSTANTS
  a1 = a1
  a2 = a2
  t1 = t1
  t2 = t2
  NoEntity = NoEntity
  EndOfSchedule = EndOfSchedule
  Entities = {a1, t1, t2}
  Allies = {a1}
  Opponents = {t1, t2}
  DeathKeys = {1, 2}
  Forever = 99
  Roster <- FragileRoster
  Actions <- SpellShieldHealActions
  Windows = {}
  Duration = 2
  Horizon = 1
  MaxEvents = 3
PROPERTIES OnlyReviveRestores
