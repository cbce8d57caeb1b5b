SPECIFICATION SearchSpec
CONSTANTS
  a = a
  Node <- MCNode
  Component <- MCComponent
  Path <- MCPath
  Folder <- MCFolder
  NoAccess <- MCNoAccess
  NONE = NONE
  Choice <- MCChoice
  Order <- MCOrder
  Match <- MCMatch
  VisitBudget = 3
  MaxVisits = 6
  MaxResults = 3
  Scenes <- MCScenes
INVARIANTS
  SearchOK
  HiddenStaysHidden
  ListingMatchesReading
  SearchInScope
  SearchFindsAll
PROPERTIES
  UnshareNeverWidens
  UnshareKeepsTheRest
