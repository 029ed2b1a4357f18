SPECIFICATION VisitSpec
CONSTANTS
  Starts <- MCStarts
  SequenceLimit = 20
  NoCard <- MCNoCard
  Scenes <- MCRooms
  Arenas <- MCArenas
  AfterFights <- MCAfterFights
  CardRewards <- MCCardRewards
  Selections <- MCSelections
  GameOvers <- MCGameOvers
  Maps <- MCMaps
  Routes <- MCRoutes
  Askers <- MCAskers
  Asked <- MCAsked
  MaxLost = 1
INVARIANTS
  VisitTypeOK
  AcceptedUnlessChanged
  DefendsWhenWarned
  DiesOnlyWhenItMust
  NoDeadEnd
  TravelsBest
  TakesNoBurden
  RepeatsLast
PROPERTIES
  TurnShrinks
  TurnEnds
  RoomIsLeft
