------------------------- MODULE MCAsyncLogHistory -------------------------
(***************************************************************************)
(* Instances of AsyncLogHistory for TLC.                                   *)
(***************************************************************************)
EXTENDS AsyncLogHistory

CONSTANTS gui, t1

MCThreads == {gui, t1}
=============================================================================
