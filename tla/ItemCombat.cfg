SPECIFICATION Spec
CONSTANTS
  Never = 99
  Portfolio <- MCPortfolio
  OwnActions <- MCOwnActions
  OpponentActions <- MCOpponentActions
  ActiveTime = 1
  Duration = 4
  FirstSequence = 40
  MaxActions = 5
INVARIANTS TypeOK CooldownKept StacksEarned SequencesOrdered EveryRepetition
PROPERTIES ActsOnTheNth
