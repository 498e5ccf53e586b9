CONSTANTS
    Keys = {k1, k2}
    Peers = {p1}
    Live = {v1}
    Tombs = {t1}
    None = None
    Same = Same
    CollectionProof = TRUE
    Threshold = 1
    LateErrors = TRUE
    MaxChanges = 3
SPECIFICATION FairSpec
INVARIANTS
    JournalComplete
    CommitLosesNothing
    ChangeCountMatchesJournal
PROPERTIES
    EntriesBecomeDurable
