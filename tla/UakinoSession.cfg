SPECIFICATION FairSpec
CONSTANTS
    play = play
    poster = poster
    Requests <- MCRequests
    Gated <- MCGated
    Drivers <- MCDrivers
    Window = 2
    MinSamples = 2
INVARIANTS ReadyWasLoaded BrowsersInReach
PROPERTIES EveryFetchEnds LaneRecovers
