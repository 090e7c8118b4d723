SPECIFICATION Spec
CONSTANTS
    login = login
    home = home
    field = field
    other = other
    button = button
    window = window
    FirstScreen = login
    NoElement = NoElement
    NoScreen = NoScreen
    NoLag = NoLag
    NoPoint <- MCNoPoint
    Screens <- MCScreens
    Elements <- MCElements
    ElementAt <- MCElementAt
    Width <- MCWidth
    Viewport <- MCViewport
    WeakElements <- MCWeak
    InputElements <- MCInputs
    Points <- MCPoints
    Gaps <- MCGaps
    Devices <- MCDevices
    MaxActions = 3
    MaxShots = 2
INVARIANTS TypeOK FlowInOrder NothingLostSilently TypedWhereTapped TapsTheElement
ACTION_CONSTRAINT InScope
CHECK_DEADLOCK FALSE
