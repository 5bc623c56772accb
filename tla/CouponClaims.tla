---------------------------- MODULE CouponClaims ----------------------------
(***************************************************************************)
(* Claiming a coupon in the app for one owner: ClaimService.Create and Get *)
(* over ClaimStore (internal/coupon), and the channel adapter.             *)
(*                                                                         *)
(* A session is one call being served.  There are no transactions here:    *)
(* each statement commits on its own and anything may happen between two,  *)
(* so a retry under the same key runs beside the call it repeats.  A claim *)
(* is known by its idempotency key, which is unique per owner, and the     *)
(* coupon stands for the whole request fingerprint.                        *)
(***************************************************************************)
EXTENDS Naturals

CONSTANTS
  Sessions,   \* calls being served
  Keys,       \* idempotency keys of the owner
  Coupons,    \* coupons, with the context they are asked for in
  Receipts,   \* evidence references the channel may return
  Usable,     \* those apply accepts
  None

VARIABLES
  claims,    \* coupon_claims, by key
  listed,    \* coupons the catalogue shows as IN_SITE_VERIFIED and live
  channel,   \* what the channel knows of each claim
  call       \* the local state of each session

vars == <<claims, listed, channel, call>>

-----------------------------------------------------------------------------
Open  == {"PENDING", "QUERY_REQUIRED"}
Final == {"CLAIMED", "FAILED"}

Claim == [coupon : Coupons, status : Open \cup Final, receipt : Receipts \cup {None}]

ASSUME CouponClaimsAssumption ==
  /\ Usable \subseteq Receipts
  /\ None \notin Receipts \cup Coupons \cup Keys \cup Claim

Channel == [asked : Nat, answer : {"none", "undecided", "claimed", "failed"},
            receipt : Receipts \cup {None}]

Call == [pc      : {"idle", "find", "stored", "check", "reserve", "recheck",
                    "claim", "await", "query", "store", "read"},
         key     : Keys \cup {None},
         coupon  : Coupons \cup {None},
         outcome : {"none", "QUERY_REQUIRED"} \cup Final,
         receipt : Receipts \cup {None},
         answer  : {"none"} \cup Open \cup Final]

IdleCall == [pc |-> "idle", key |-> None, coupon |-> None, outcome |-> "none",
             receipt |-> None, answer |-> "none"]

Init ==
  /\ claims  = [k \in Keys |-> None]
  /\ listed  = Coupons
  /\ channel = [k \in Keys |-> [asked |-> 0, answer |-> "none", receipt |-> None]]
  /\ call    = [s \in Sessions |-> IdleCall]

-----------------------------------------------------------------------------
(* Local steps of a call.                                                  *)

At(s, pc) == call' = [call EXCEPT ![s].pc = pc]

\* The call is over; the session remembers what it told the client.
Return(s, answer) ==
  call' = [call EXCEPT ![s] = [IdleCall EXCEPT !.answer = answer, !.key = call[s].key]]

Conclude(s, outcome, receipt) ==
  call' = [call EXCEPT ![s].pc = "store", ![s].outcome = outcome, ![s].receipt = receipt]

Create(s, k, c) ==
  /\ call[s].pc = "idle"
  /\ call' = [call EXCEPT ![s] = [IdleCall EXCEPT !.pc = "find", !.key = k, !.coupon = c]]
  /\ UNCHANGED <<claims, listed, channel>>

\* Get by id: the stored claim is resolved as it is by a replayed Create.
Get(s, k) ==
  /\ call[s].pc = "idle"
  /\ claims[k] # None
  /\ call' = [call EXCEPT ![s] =
                [IdleCall EXCEPT !.pc = "stored", !.key = k, !.coupon = claims[k].coupon]]
  /\ UNCHANGED <<claims, listed, channel>>

\* Mutant: an open claim found stored is sent to the channel again.
FindClaimResends(s) ==
  LET claim == claims[call[s].key] IN
  /\ call[s].pc \in {"find", "stored"}
  /\ claim # None /\ claim.coupon = call[s].coupon
  /\ IF claim.status \in Final THEN Return(s, claim.status) ELSE At(s, "claim")
  /\ UNCHANGED <<claims, listed, channel>>

\* The key is in use: a final claim is the answer, an open one is queried.
FindClaim(s) ==
  LET claim == claims[call[s].key] IN
  /\ call[s].pc \in {"find", "stored"}
  /\ claim # None
  /\ \/ claim.coupon # call[s].coupon /\ Return(s, "none")
     \/ claim.coupon = call[s].coupon /\ claim.status \in Final /\ Return(s, claim.status)
     \/ claim.coupon = call[s].coupon /\ claim.status \in Open /\ At(s, "query")
  /\ UNCHANGED <<claims, listed, channel>>

FindNothing(s) ==
  /\ call[s].pc = "find"
  /\ claims[call[s].key] = None
  /\ At(s, "check")
  /\ UNCHANGED <<claims, listed, channel>>

CheckCatalog(s) ==
  /\ call[s].pc = "check"
  /\ IF call[s].coupon \in listed THEN At(s, "reserve") ELSE Return(s, "none")
  /\ UNCHANGED <<claims, listed, channel>>

NewClaim(c) == [coupon |-> c, status |-> "PENDING", receipt |-> None]

\* Mutant: the insert overwrites what another call stored under the key.
ReserveOverwrites(s) ==
  LET k == call[s].key IN
  /\ call[s].pc = "reserve"
  /\ claims' = [claims EXCEPT ![k] = NewClaim(call[s].coupon)]
  /\ At(s, "recheck")
  /\ UNCHANGED <<listed, channel>>

\* INSERT ... ON CONFLICT DO NOTHING; the loser goes on with the stored claim.
Reserve(s) ==
  LET k == call[s].key IN
  /\ call[s].pc = "reserve"
  /\ IF claims[k] = None
     THEN claims' = [claims EXCEPT ![k] = NewClaim(call[s].coupon)] /\ At(s, "recheck")
     ELSE At(s, "stored") /\ UNCHANGED claims
  /\ UNCHANGED <<listed, channel>>

\* The coupon may have been revoked meanwhile; the channel is then not asked.
\* Only the session that inserted the claim gets here, so its FAILED meets an
\* open claim and the conflict the code would report here never arises.
Recheck(s) ==
  /\ call[s].pc = "recheck"
  /\ IF call[s].coupon \in listed THEN At(s, "claim") ELSE Conclude(s, "FAILED", None)
  /\ UNCHANGED <<claims, listed, channel>>

\* Adapter.Claim reaches the channel, under the claim's own id.
SendClaim(s) ==
  LET k == call[s].key IN
  /\ call[s].pc = "claim"
  /\ channel' = [channel EXCEPT ![k].asked = @ + 1,
                                ![k].answer = IF @ = "none" THEN "undecided" ELSE @]
  /\ At(s, "await")
  /\ UNCHANGED <<claims, listed>>

\* A decided claim as apply takes it: a receipt it cannot use is no success.
Hear(s) ==
  LET known == channel[call[s].key] IN
  \/ known.answer = "failed" /\ Conclude(s, "FAILED", None)
  \/ known.answer = "claimed" /\ known.receipt \in Usable
       /\ Conclude(s, "CLAIMED", known.receipt)
  \/ known.answer = "claimed" /\ known.receipt \notin Usable
       /\ Conclude(s, "QUERY_REQUIRED", None)

ClaimReturns(s) ==
  /\ call[s].pc = "await"
  /\ Hear(s)
  /\ UNCHANGED <<claims, listed, channel>>

QueryReturns(s) ==
  /\ call[s].pc = "query"
  /\ Hear(s)
  /\ UNCHANGED <<claims, listed, channel>>

\* Mutant: an error is taken for a failure.
AdapterFailsFinally(s) ==
  /\ call[s].pc \in {"await", "query"}
  /\ Conclude(s, "FAILED", None)
  /\ UNCHANGED <<claims, listed, channel>>

\* Claim or Query fails, times out, or says anything but CLAIMED and FAILED.
AdapterFails(s) ==
  /\ call[s].pc \in {"await", "query"}
  /\ Conclude(s, "QUERY_REQUIRED", None)
  /\ UNCHANGED <<claims, listed, channel>>

\* Mutants: any outcome is stored over any other; a doubt is never resolved.
SetOutcomeAnyway(s) ==
  LET me == call[s] IN
  /\ me.pc = "store"
  /\ claims' = [claims EXCEPT ![me.key].status = me.outcome, ![me.key].receipt = me.receipt]
  /\ At(s, "read")
  /\ UNCHANGED <<listed, channel>>
SetOutcomeOnce(s) ==
  LET me == call[s] IN
  /\ me.pc = "store"
  /\ claims' = IF claims[me.key].status = "PENDING"
               THEN [claims EXCEPT ![me.key].status = me.outcome, ![me.key].receipt = me.receipt]
               ELSE claims
  /\ At(s, "read")
  /\ UNCHANGED <<listed, channel>>

\* The UPDATE of SetOutcome leaves a final claim alone.
SetOutcome(s) ==
  LET me == call[s] IN
  /\ me.pc = "store"
  /\ claims' = IF claims[me.key].status \in Open
               THEN [claims EXCEPT ![me.key].status = me.outcome, ![me.key].receipt = me.receipt]
               ELSE claims
  /\ At(s, "read")
  /\ UNCHANGED <<listed, channel>>

\* The caller is told what is stored, if its own outcome lost a race as well.
ReadBack(s) ==
  /\ call[s].pc = "read"
  /\ Return(s, claims[call[s].key].status)
  /\ UNCHANGED <<claims, listed, channel>>

\* A database error, a cancelled request or a crash ends the call anywhere.
Stop(s) ==
  /\ call[s].pc # "idle"
  /\ Return(s, "none")
  /\ UNCHANGED <<claims, listed, channel>>

-----------------------------------------------------------------------------
(* The catalogue and the channel.                                          *)

\* Synchronisation publishes or revokes a coupon, or it expires.
SwitchListed(c) ==
  /\ listed' = IF c \in listed THEN listed \ {c} ELSE listed \cup {c}
  /\ UNCHANGED <<claims, channel, call>>

\* The channel decides a claim it received, once.
ChannelDecides(k) ==
  /\ channel[k].answer = "undecided"
  /\ \/ channel' = [channel EXCEPT ![k].answer = "failed"]
     \/ \E e \in Receipts : channel' = [channel EXCEPT ![k].answer = "claimed", ![k].receipt = e]
  /\ UNCHANGED <<claims, listed, call>>

Advance(s) ==
  \/ FindClaim(s) \/ FindNothing(s) \/ CheckCatalog(s) \/ Reserve(s) \/ Recheck(s)
  \/ SendClaim(s) \/ ClaimReturns(s) \/ QueryReturns(s) \/ AdapterFails(s)
  \/ SetOutcome(s) \/ ReadBack(s) \/ Stop(s)

Next ==
  \/ \E s \in Sessions :
       \/ \E k \in Keys : Get(s, k) \/ \E c \in Coupons : Create(s, k, c)
       \/ Advance(s)
  \/ \E c \in Coupons : SwitchListed(c)
  \/ \E k \in Keys : ChannelDecides(k)

Spec == Init /\ [][Next]_vars

\* The owner keeps asking about a claim, calls end, and now and then one that asks
\* is not broken off before its query is answered and the answer stored.
Fairness ==
  \A s \in Sessions :
    /\ WF_vars(Advance(s))
    /\ \A k \in Keys :
         /\ SF_vars(Get(s, k))
         /\ SF_vars(call[s].key = k /\ call[s].pc = "stored" /\ FindClaim(s))
         /\ SF_vars(call[s].key = k /\ QueryReturns(s))
         /\ SF_vars(call[s].key = k /\ call[s].outcome \in Final /\ SetOutcome(s))

FairSpec == Spec /\ Fairness

-----------------------------------------------------------------------------
(* Properties.                                                             *)

\* Types of the variables.
TypeOK ==
  /\ claims  \in [Keys -> Claim \cup {None}]
  /\ listed  \subseteq Coupons
  /\ channel \in [Keys -> Channel]
  /\ call    \in [Sessions -> Call]

\* The channel is asked for a coupon at most once per key, however often the
\* call is repeated, raced and broken off (claim_service.go:30-31).
AskedOnce == \A k \in Keys : channel[k].asked <= 1

\* A final claim is the channel's own: a receipt it gave, or its failure; or it
\* failed before the channel was asked, and then it never will be.
OutcomeIsChannels ==
  \A k \in Keys : claims[k] # None =>
    /\ claims[k].status = "CLAIMED" =>
         channel[k].answer = "claimed" /\ claims[k].receipt = channel[k].receipt
    /\ claims[k].status = "FAILED" =>
         \/ channel[k].answer = "failed"
         \/ channel[k].asked = 0 /\ \A s \in Sessions :
              call[s].key = k => call[s].pc # "claim"

\* Whoever was told a final result was told the one that is stored, and it still
\* is: a call that was in doubt meanwhile has not taken it back.
ToldIsStored ==
  \A s \in Sessions :
    call[s].pc = "idle" /\ call[s].answer \in Final =>
      claims[call[s].key].status = call[s].answer

\* A usable decision of the channel reaches the claim as long as its owner
\* keeps asking, whatever happened to the call that made the claim.
DecidedIsSettled ==
  \A k \in Keys :
    \/ channel[k].answer = "failed"
    \/ channel[k].answer = "claimed" /\ channel[k].receipt \in Usable
    ~> claims[k] # None /\ claims[k].status \in Final

\* The promise of LinkOnce, read off the claims and the channel.
Asked(k) ==
  CASE channel[k].asked = 0            -> "no"
    [] channel[k].answer = "failed"    -> "refused"
    [] channel[k].answer = "claimed"   -> channel[k].receipt
    [] OTHER                           -> "yes"

Result(k) ==
  IF claims[k] = None \/ claims[k].status \in Open THEN "open"
  ELSE IF claims[k].status = "CLAIMED" THEN claims[k].receipt
  ELSE IF channel[k].asked = 0 THEN "withdrawn" ELSE "refused"

Promise == INSTANCE LinkOnce WITH
  Requests <- Keys, Links <- Receipts, SafeLinks <- Usable,
  asked  <- [k \in Keys |-> Asked(k)],
  result <- [k \in Keys |-> Result(k)]

\* Coupon claims keep the promise conversions keep.
KeepsPromise == Promise!Spec

=============================================================================
