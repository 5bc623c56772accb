---------------------------- MODULE MCConversion ----------------------------
(* Conversion on small instances: one good and one unusable link.          *)
EXTENDS Conversion, TLC

CONSTANTS good, bad

MCLinks     == {good, bad}
MCSafeLinks == {good}
=============================================================================
