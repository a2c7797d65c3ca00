----------------------------- MODULE Sequencing -----------------------------
(* How the functions of the file systems are put together.                     *)

\* One statement after another: x, and what is done with its value. (LET would do; but
\* TLC's action statistics unfold a LET at each of its uses.)
Then(x, F(_)) == F(x)
=============================================================================
