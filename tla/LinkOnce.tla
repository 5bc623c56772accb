------------------------------ MODULE LinkOnce ------------------------------
(***************************************************************************)
(* What a channel request promises whatever happens to the processes that  *)
(* serve it: the channel is asked at most once, and the result stored, once*)
(* there is one, is the channel's own answer or a withdrawal made before   *)
(* the channel was asked.  Conversion keeps it for promotion links and     *)
(* CouponClaims for coupon receipts; a link stands for either here.        *)
(***************************************************************************)
CONSTANTS Requests, Links, SafeLinks, None

VARIABLES
  asked,    \* per request: has the channel been asked, and what it answered
  result    \* per request: the final result stored for it

vars == <<asked, result>>

Answer == {"no", "yes", "refused"} \cup Links
Result == {"open", "withdrawn", "refused"} \cup SafeLinks

Init ==
  /\ asked  = [r \in Requests |-> "no"]
  /\ result = [r \in Requests |-> "open"]

Ask(r) ==
  /\ asked[r] = "no" /\ result[r] = "open"
  /\ asked' = [asked EXCEPT ![r] = "yes"]
  /\ UNCHANGED result

Withdraw(r) ==
  /\ asked[r] = "no" /\ result[r] = "open"
  /\ result' = [result EXCEPT ![r] = "withdrawn"]
  /\ UNCHANGED asked

Answered(r) ==
  /\ asked[r] = "yes"
  /\ \E a \in {"refused"} \cup Links : asked' = [asked EXCEPT ![r] = a]
  /\ UNCHANGED result

Settle(r) ==
  /\ result[r] = "open"
  /\ asked[r] \in {"refused"} \cup SafeLinks
  /\ result' = [result EXCEPT ![r] = asked[r]]
  /\ UNCHANGED asked

Next == \E r \in Requests : Ask(r) \/ Withdraw(r) \/ Answered(r) \/ Settle(r)

Spec == Init /\ [][Next]_vars
=============================================================================
