------------------------------ MODULE MCConsole -----------------------------
(* A small instance of Console for TLC: a buffer of four characters and a  *)
(* NUL, at most one complete word and a second one, words of two letters,  *)
(* and a timer whose low half wraps around during the run.                 *)
EXTENDS Console
=============================================================================
