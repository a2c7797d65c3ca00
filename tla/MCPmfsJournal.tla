---------------------------- MODULE MCPmfsJournal ----------------------------
(* Small instances of PmfsJournal for TLC. *)
EXTENDS PmfsJournal

CONSTANTS t1, t2, cl, c1, c2

MCCPUs == Threads \cup {Cleaner}
MCSymmetry == Permutations(Threads) \cup Permutations(Cells)

\* A fresh journal, one about to wrap around, and one about to wrap around into the
\* first generation again.
MCStarts == {[pos |-> 0, gen |-> 1], [pos |-> JSize - 3, gen |-> 2],
             [pos |-> JSize - 3, gen |-> MaxGen]}
==============================================================================
