--------------------------- MODULE MCRatioPolicy ---------------------------
(* Small instances of RatioPolicy for TLC.                                 *)
EXTENDS RatioPolicy, TLC

CONSTANT e1
=============================================================================
