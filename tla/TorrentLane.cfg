SPECIFICATION TorrentSpec
CONSTANTS
    dune = dune
    heat = heat
    solo = solo
    void = void
    Film <- MCFilm
    Guide <- MCGuide
    Episodes <- MCEpisodes
    Files <- MCFiles
    EntriesLimit = 2
    ShowMax = 1
    TTL = 1
    MaxCandidates = 3
    MaxTries = 2
INVARIANTS BestSpeakingPlays BlameIsFair PlaysTheRequested WarmSurvivesOutage
