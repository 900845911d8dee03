SPECIFICATION Spec
CONSTANTS
    Namespaces = {1, 2}
    Names = {1, 2}
    SourcePlace <- FirstPlace
    PlaceOrder <- OrderedPlaces
    MaxEntries = 2
    MaxEdits = 1
    MaxFaults = 1
INVARIANTS DestinationsTypeOK CopiesListed VersionsTrue CopiesAsSpecified StrategyFollowed RepeatIsQuiet
CHECK_DEADLOCK FALSE
