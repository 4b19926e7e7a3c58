CONSTANTS
    T = 2
    ScreenCols = 2
    ScreenRows = 2
    MapCols = 3
    MapRows = 3
    ParallaxUnit = 2
    TileIds = {0, 1}
    Colours = {0, 1}
    TileDefs <- MCTileDefs
    Rects <- MCRects
    FlagSets <- MCFlagSets
    Puts <- MCPuts
    Scrolls <- MCScrolls
    Moves <- MCMoves
    Steps <- MCSteps
    DeadZones = {1, 5}
    Levels <- MCLevels
    MaxCalls = 6
SPECIFICATION Spec
INVARIANTS DirtyCellsSuffice PlayfieldRepeats ActorsCollide CameraShowsActor
CHECK_DEADLOCK FALSE
