SPECIFICATION FairSpec
CONSTANTS
    Daemons = {"d1", "d2"}
    Configured <- MCConfigured
    Clients = {"c1", "c2"}
    Commands <- MCCommands

    
PROPERTIES
    EveryRequestEnds
