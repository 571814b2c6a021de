SPECIFICATION Spec
CONSTANTS
    OperatingMIC <- McOperatingMIC
    MICCountry <- McMICCountry
    OccStrike <- McOccStrike
    Squeezed <- McSqueezed
    Worlds <- McWorlds
    MaxResolveDepth = 2
INVARIANT IdentitiesAreTrue
INVARIANT PostingOnItsSecurity
INVARIANT ProposalsOnlyBreakTies
INVARIANT PostingsFollow
CHECK_DEADLOCK FALSE
