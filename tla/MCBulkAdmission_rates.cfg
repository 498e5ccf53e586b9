CONSTANTS
    Peers = {p1, p2, p3}
    Channels = {Dated}
    Fingerprints = {f1, f2}
    None = None
    Second = 2
    Burst = 2
    GlobalRate = 2
    RetryMax = 3
    Retention = 4
    MaxTime = 5
SPECIFICATION AdmissionSpec
INVARIANTS PeerIsPaced AllArePaced RepetitionSlowsDown QuietIsAdmitted
SYMMETRY Symmetry
