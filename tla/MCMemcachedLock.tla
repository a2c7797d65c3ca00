--------------------------- MODULE MCMemcachedLock ---------------------------
(* Small instances of MemcachedLock for TLC. *)
EXTENDS MemcachedLock, TLC

CONSTANTS a, b, c

ThreeProcs == {a, b, c}
OnlyA == {a}
=============================================================================
