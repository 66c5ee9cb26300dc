CONSTANTS
    Sites <- MCSites
    HopsOf <- MCHopsOf
    MaxFailing <- MCMaxFailing
SPECIFICATION ScrapersSpec
INVARIANTS PlaysWhatWasListed AddressesSurviveChange NoListedDeadEnd OutageIsReported CardsOpen
