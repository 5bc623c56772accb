--------------------------- MODULE MCCouponClaims ---------------------------
(* CouponClaims with one usable and one unusable receipt.                  *)
EXTENDS CouponClaims, TLC

CONSTANTS good, bad

MCReceipts == {good, bad}
MCUsable   == {good}
=============================================================================
