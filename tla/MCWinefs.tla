------------------------------- MODULE MCWinefs -------------------------------
(* Small instances of Winefs for TLC. *)
EXTENDS Winefs

CONSTANTS nameA, nameB, v1, v2
MCSymmetry == Permutations(Names) \cup Permutations(Values)
MCInodes == 0..8
MCCPUs == {0}
MCExtents == {<<0, 3>>, <<3, 6>>, <<1, 2>>}

\* The history of calls tells states apart only while the power is off: no step that the
\* mounted file system takes looks at it.
MCView == <<fs, tree, pins, mode, ops, crashes, mountCrashes, broken,
            IF mode = "down" THEN call ELSE Idle>>
==============================================================================
