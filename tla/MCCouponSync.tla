---------------------------- MODULE MCCouponSync ----------------------------
(* One coupon, two synchronising calls and one reader.                     *)
EXTENDS CouponSync, TLC

\* Scope, expiry of the coupon, and expiry of its product where it has one.
MCOffers ==
  LET Of(scope, expires, product) ==
        [scope |-> scope, expires |-> expires, products |-> [p \in Products |-> product]]
  IN {Of("PRODUCT", 3, 2), Of("ACTIVITY", 2, None)}

Symmetry == Permutations(Sessions) \cup Permutations(Evidence)
=============================================================================
