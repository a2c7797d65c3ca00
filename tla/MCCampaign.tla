----------------------------- MODULE MCCampaign -----------------------------
(* Small instances of Campaign for TLC. *)
EXTENDS Campaign, TLC

CONSTANTS v1, v2, h1, h2

OneVM == {v1}
TwoVMs == {v1, v2}
TwoHashes == {h1, h2}

\* Two cases that share an operation hash; case 1 has an operation of its own.
SharedOps == (0 :> <<h1>>) @@ (1 :> <<h1, h2>>)
\* Three cases that share operations pairwise.
ThreeCases == (0 :> <<h1>>) @@ (1 :> <<h1, h2>>) @@ (2 :> <<h2>>)
\* Case 0 fails, the next three share operations, case 4 upsets the kernel log.
FiveCases == (0 :> <<h1>>) @@ (1 :> <<h1>>) @@ (2 :> <<h1, h2>>)
                 @@ (3 :> <<h2>>) @@ (4 :> <<>>)
Minus1 == -1

VMSym == Permutations({v1, v2})
Everywhere == GuestPcs
\* A guest that raises an exception while it is still "initing" and then crashes
\* is as mute as one that crashes there.
OnceBeating == GuestPcs \ {"initing", "exc"}
=============================================================================
