----------------------------- MODULE MCAsyncLog -----------------------------
(***************************************************************************)
(* Instances of AsyncLog for TLC.                                          *)
(***************************************************************************)
EXTENDS AsyncLog

CONSTANTS gui, t1

MCThreads == {gui, t1}
=============================================================================
