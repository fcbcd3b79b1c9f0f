----------------------------- MODULE MCAsioPool -----------------------------
(***************************************************************************)
(* AsioPool with the two coroutines of the program and up to two threads:  *)
(* one in the reactor and one at the queue, or asleep.                     *)
(***************************************************************************)
EXTENDS AsioPool

MCThreads == 1 .. 2
MCCoroutines == 1 .. 2
=============================================================================
