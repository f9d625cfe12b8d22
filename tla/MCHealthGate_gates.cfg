\* Two servers and two stores; either server, both or none wait.
SPECIFICATION FairSpec
CONSTANTS
    Components <- TwoServersAndStores
    Servers <- TwoServers
INVARIANT GatedOpensLast
INVARIANT VerdictFitsRound
PROPERTY WaitEnds
PROPERTY HealthyGateOpens
