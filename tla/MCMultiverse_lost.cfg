SPECIFICATION FairSpec
CONSTANTS
  Multiverses <- OneMultiverse
  Specs <- SpecsOne
  Events <- OneEvent
  Universes <- MCUniverses
  NoRoute = NoRoute
  None = None
  RoutedCap = 2
  MaxCreations = 1
  MaxEdits = 0
  MaxReruns = 0
  MaxFaults = 0
PROPERTY EventsRouted
