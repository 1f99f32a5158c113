--------------------------- MODULE MCConsolePath ---------------------------
(* ConsolePath for TLC.                                                     *)
EXTENDS ConsolePath
=============================================================================
