-------------------------------- MODULE Mutex --------------------------------
(***************************************************************************)
(* What a lock promises: it has at most one holder, only a process that    *)
(* finds it free becomes the holder, and only the holder gives it back.    *)
(***************************************************************************)
CONSTANTS Procs, Nobody

VARIABLE holder

Init == holder = Nobody

Take(p) == holder = Nobody /\ holder' = p

GiveBack(p) == holder = p /\ holder' = Nobody

Next == \E p \in Procs : Take(p) \/ GiveBack(p)

Spec == Init /\ [][Next]_holder
=============================================================================
