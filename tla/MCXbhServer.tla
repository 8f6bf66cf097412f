----------------------------- MODULE MCXbhServer -----------------------------
(* Small instances of XbhServer for TLC; the constants are in the .cfg's.    *)
EXTENDS XbhServer
=============================================================================
