SPECIFICATION FairSpec
CONSTANTS
    Registry <- MCRegistry
    Edition = {"first", "second"}
    Digest <- MCDigest
    Listing <- MCListing
    Refusing = {"kino"}
    Validated <- MCValidated
    BlockAfter = 2
    Cooldown = 2
    RetryPasses = 1
    PageLimit = 2
    Hits <- MCHits
    InQuery <- MCInQuery
    Gated = {"dune84"}
    Uakino = "uakino"
    LocalMin = 2
INVARIANTS GroupsAreWorks WarmSearchAsksAll
PROPERTIES BlockIsEarned WritesWhatIsListed WalkedAgain
