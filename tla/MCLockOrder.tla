---------------------------- MODULE MCLockOrder ----------------------------
(***************************************************************************)
(* LockOrder with every script of LockScripts. Two sections break the      *)
(* order: the submission of a document looks at the printer and adds an    *)
(* event with the job's lock held, and a copy that fails takes the         *)
(* system's lock for writing under the printer's and the job's.            *)
(***************************************************************************)
EXTENDS LockOrder, TLC

AllScripts   == JobScripts \cup PrinterScripts \cup WebScripts \cup SystemScripts
KnownInverted == {SubmitSection, AbortCopy}

\* The hypothesis of PairHasCause holds of the scripts. (That of the other
\* theorems, SectionsInOrder, is what AcquiresInOrder says of every section.)
ASSUME ScriptsWriteSystemLast == SystemWrittenLast

ThreadSymmetry == Permutations(Threads)
=============================================================================
