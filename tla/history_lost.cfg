SPECIFICATION SkuSpec
CONSTANTS
    Styles <- MCStyles
    Sizes <- MCSizes
    Colours <- MCColours
    CartonLists <- MCCartonLists
    MaxSaves = 2
    MaxChosen = 1
    MaxMoves = 1
PROPERTY HistoryStays
