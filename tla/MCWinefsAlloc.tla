---------------------------- MODULE MCWinefsAlloc ----------------------------
(* A small instance of WinefsAlloc for TLC. *)
EXTENDS WinefsAlloc

CONSTANTS t1, t2
==============================================================================
