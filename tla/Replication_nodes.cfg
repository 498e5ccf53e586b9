CONSTANTS
    Nodes = {1, 2}
    Keys = {k1}
    None = None
    Deletes = {2}
    Persistent = {1}
    MaxTime = 2
    MaxWrites = 2
    MaxRestarts = 1
SPECIFICATION FairSpec
INVARIANTS ReceiptsAreHonest 
PROPERTIES DeletionSticks Converges 
