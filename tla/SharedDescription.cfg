SPECIFICATION Spec
CONSTANTS
    OperatingMIC <- McOperatingMIC
    MICCountry <- McMICCountry
    OccStrike <- McOccStrike
    Squeezed <- McSqueezed
    Worlds <- SharedWorlds
    MaxResolveDepth = 2
INVARIANT PostingOnItsSecurity
CHECK_DEADLOCK FALSE
