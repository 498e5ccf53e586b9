------------------------------- MODULE Snapshot -------------------------------
(***************************************************************************)
(* What the two sides of a snapshot share: SnapshotJournal, which decides  *)
(* what is saved, and FileSnapshot, the backend that saves it.             *)
(***************************************************************************)
CONSTANTS
    None,   \* a missing item, receipt or file, a backend never saved to
    Keys    \* the keys of what is persisted
==============================================================================
