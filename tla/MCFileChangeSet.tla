-------------------------- MODULE MCFileChangeSet --------------------------
(* Small instances of FileChangeSet for TLC. *)
EXTENDS FileChangeSet, TLC

CONSTANTS run1, run2, run3, file1, file2, text1, text2

\* Runs are alike, and so are targets and contents.
Alike == Permutations(Run) \cup Permutations(Target) \cup Permutations(Content)
=============================================================================
