SPECIFICATION FairSpec
CONSTANTS
    MAX_RETRIES = 2
    MAX_COMMANDS = 3
    MAX_CHANGES = 3
INVARIANTS TypeOK NeverBlocks
PROPERTIES CommandsDelivered DataDelivered AcceptedIsApplied LastDataPublished NodeServed
