------------------------------ MODULE MCRawLog ------------------------------
(* Instances of RawLog for TLC.                                            *)
EXTENDS RawLog

AllErrors == {"logCreate", "logWrite", "logSync"}
NamesFaults == {"logCreate", "logWrite", "clockBack"}
=============================================================================
