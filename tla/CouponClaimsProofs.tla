------------------------- MODULE CouponClaimsProofs -------------------------
(***************************************************************************)
(* The safety of coupon claims for any number of sessions, keys, coupons   *)
(* and receipts.  The argument: the session whose insert made the claim    *)
(* owns it until it has asked the channel, so the channel is asked once;   *)
(* every final outcome a session carries is the channel's decision, or was *)
(* taken by the owner before asking, after which nobody is left to ask;    *)
(* and the guarded update stores at most one of them.                      *)
(***************************************************************************)
EXTENDS CouponClaims, TLAPS

\* Session s made the claim of k and has not asked the channel for it.
Owns(s, k) == call[s].key = k /\ call[s].pc \in {"recheck", "claim"}

\* FAILED is the truth about k.
Fails(k) ==
  \/ channel[k].answer = "failed"
  \/ channel[k].asked = 0 /\ \A s \in Sessions : ~Owns(s, k)

KeyInv(k) ==
  /\ channel[k].asked \in {0, 1}
  /\ channel[k].asked = 0 <=> channel[k].answer = "none"
  /\ channel[k].asked = 1 => claims[k] # None
  /\ claims[k] # None /\ claims[k].status = "CLAIMED" =>
       channel[k].answer = "claimed" /\ claims[k].receipt = channel[k].receipt
  /\ claims[k] # None /\ claims[k].status = "FAILED" => Fails(k)

SessionInv(s) ==
  LET me == call[s]  k == call[s].key IN
  /\ me.pc # "idle" => k \in Keys /\ me.coupon \in Coupons
  /\ me.pc \in {"recheck", "claim"} =>
       /\ claims[k] # None /\ claims[k].status \in Open /\ channel[k].asked = 0
       /\ \A t \in Sessions : Owns(t, k) => t = s
  /\ me.pc \in {"await", "query", "store", "read"} => claims[k] # None
  /\ me.pc = "store" =>
       /\ me.outcome \in {"QUERY_REQUIRED"} \cup Final
       /\ me.outcome = "FAILED" => Fails(k)
       /\ me.outcome = "CLAIMED" =>
            channel[k].answer = "claimed" /\ me.receipt = channel[k].receipt /\ me.receipt \in Usable
  /\ me.pc = "idle" /\ me.answer \in Final =>
       k \in Keys /\ claims[k] # None /\ claims[k].status = me.answer

IInv ==
  /\ TypeOK
  /\ \A k \in Keys : KeyInv(k)
  /\ \A s \in Sessions : SessionInv(s)

-----------------------------------------------------------------------------
LEMMA InitInv == Init => IInv
<1> SUFFICES ASSUME Init PROVE IInv
  OBVIOUS
<1>1. TypeOK
  BY DEF Init, TypeOK, Channel, Call, IdleCall
<1>2. \A s \in Sessions : SessionInv(s)
  BY DEF Init, IdleCall, SessionInv, Final
<1>3. \A k \in Keys : KeyInv(k)
  BY DEF Init, KeyInv
<1> QED
  BY <1>1, <1>2, <1>3 DEF IInv

\* Steps that leave claims and channel alone and make no owner.
LEMMA LocalStep ==
  ASSUME IInv, NEW s \in Sessions, NEW u \in Call, call' = [call EXCEPT ![s] = u],
         u.pc \in {"recheck", "claim"} => Owns(s, u.key),
         SessionInv(s)', listed' \subseteq Coupons, UNCHANGED <<claims, channel>>
  PROVE  IInv'
<1>1. call'[s] = u /\ \A t \in Sessions : t # s => call'[t] = call[t]
  BY DEF IInv, TypeOK
<1>2. TypeOK'
  BY DEF IInv, TypeOK
<1>3. \A t \in Sessions, k \in Keys : Owns(t, k)' => Owns(t, k)
  BY <1>1 DEF Owns
<1>4. \A k \in Keys : Fails(k) => Fails(k)'
  BY <1>3 DEF Fails
<1>5. \A k \in Keys : KeyInv(k)'
  BY <1>4 DEF KeyInv, IInv
<1>6. ASSUME NEW t \in Sessions, t # s PROVE SessionInv(t)'
  <2>1. call'[t] = call[t] /\ SessionInv(t)
    BY <1>1, <1>6 DEF IInv
  <2>2. call[t].pc # "idle" => call[t].key \in Keys
    BY <2>1 DEF SessionInv
  <2> QED
    BY <1>3, <1>4, <2>1, <2>2 DEF SessionInv
<1> QED
  BY <1>2, <1>5, <1>6 DEF IInv

\* A running session is about a key.
LEMMA Running ==
  ASSUME IInv, NEW s \in Sessions
  PROVE  /\ call[s] \in Call /\ claims \in [Keys -> Claim \cup {None}]
         /\ channel \in [Keys -> Channel] /\ SessionInv(s)
         /\ call[s].pc # "idle" => call[s].key \in Keys /\ call[s].coupon \in Coupons /\ KeyInv(call[s].key)
BY DEF IInv, TypeOK, SessionInv

-----------------------------------------------------------------------------
(* The local steps.                                                        *)

LEMMA PcUpdated ==
  ASSUME NEW m \in Call,
         NEW pc \in {"idle", "find", "stored", "check", "reserve", "recheck",
                     "claim", "await", "query", "store", "read"}
  PROVE  [m EXCEPT !.pc = pc] \in Call
BY DEF Call

LEMMA KeyUpdated ==
  ASSUME NEW m \in Call, NEW k \in Keys PROVE [m EXCEPT !.key = k] \in Call
BY DEF Call

LEMMA CouponUpdated ==
  ASSUME NEW m \in Call, NEW c \in Coupons PROVE [m EXCEPT !.coupon = c] \in Call
BY DEF Call

LEMMA OutcomeUpdated ==
  ASSUME NEW m \in Call, NEW o \in {"QUERY_REQUIRED"} \cup Final PROVE [m EXCEPT !.outcome = o] \in Call
BY DEF Call

LEMMA ReceiptUpdated ==
  ASSUME NEW m \in Call, NEW r \in Receipts \cup {None} PROVE [m EXCEPT !.receipt = r] \in Call
BY DEF Call

LEMMA AnswerUpdated ==
  ASSUME NEW m \in Call, NEW a \in {"none"} \cup Open \cup Final PROVE [m EXCEPT !.answer = a] \in Call
BY DEF Call

LEMMA IdleIsCall == IdleCall \in Call /\ IdleCall.pc = "idle" /\ IdleCall.answer = "none"
BY DEF IdleCall, Call

\* A step to a place where nothing needs to be known but, at some, that the claim is there.
LEMMA AtStep ==
  ASSUME IInv, NEW s \in Sessions, call[s].pc # "idle",
         NEW pc \in {"find", "stored", "check", "reserve", "query", "read"}, At(s, pc),
         pc \in {"query", "read"} => claims[call[s].key] # None,
         UNCHANGED <<claims, listed, channel>>
  PROVE  IInv'
<1> DEFINE u == [call[s] EXCEPT !.pc = pc]
<1>1. u \in Call /\ u.pc = pc /\ u.key = call[s].key /\ u.coupon = call[s].coupon
  BY Running DEF Call
<1>2. call' = [call EXCEPT ![s] = u] /\ call'[s] = u
  BY DEF At, IInv, TypeOK
<1> HIDE DEF u
<1>3. SessionInv(s)'
  BY <1>1, <1>2, Running DEF SessionInv
<1> QED
  BY <1>1, <1>2, <1>3, LocalStep DEF IInv, TypeOK

LEMMA ReturnStep ==
  ASSUME IInv, NEW s \in Sessions, call[s].pc # "idle",
         NEW answer \in {"none"} \cup Open \cup Final, Return(s, answer),
         answer \in Final => claims[call[s].key] # None /\ claims[call[s].key].status = answer,
         UNCHANGED <<claims, listed, channel>>
  PROVE  IInv'
<1> DEFINE a == [IdleCall EXCEPT !.answer = answer]
           u == [a EXCEPT !.key = call[s].key]
<1>1. a \in Call /\ a.pc = "idle" /\ a.answer = answer
  BY IdleIsCall DEF Call
<1>2. u \in Call /\ u.pc = "idle" /\ u.answer = answer /\ u.key = call[s].key
  <2> HIDE DEF a
  <2> QED
    BY <1>1, Running DEF Call
<1>3. call' = [call EXCEPT ![s] = u] /\ call'[s] = u
  BY DEF Return, IInv, TypeOK
<1> HIDE DEF u
<1>4. SessionInv(s)'
  BY <1>2, <1>3, Running DEF SessionInv
<1> QED
  BY <1>2, <1>3, <1>4, LocalStep DEF IInv, TypeOK

\* A session that knows an outcome goes to store it.
LEMMA ConcludeStep ==
  ASSUME IInv, NEW s \in Sessions, call[s].pc # "idle",
         NEW o \in {"QUERY_REQUIRED"} \cup Final, NEW r \in Receipts \cup {None}, Conclude(s, o, r),
         claims[call[s].key] # None,
         o = "FAILED" => \/ channel[call[s].key].answer = "failed"
                         \/ call[s].pc \in {"recheck", "claim"},
         o = "CLAIMED" => /\ channel[call[s].key].answer = "claimed"
                          /\ r = channel[call[s].key].receipt /\ r \in Usable,
         UNCHANGED <<claims, listed, channel>>
  PROVE  IInv'
<1> DEFINE a == [call[s] EXCEPT !.pc = "store"]
           b == [a EXCEPT !.outcome = o]
           u == [b EXCEPT !.receipt = r]
<1>0. PICK k \in Keys : k = call[s].key
  BY Running
<1>1. a \in Call /\ a.pc = "store" /\ a.key = k /\ a.coupon = call[s].coupon
  BY <1>0, Running DEF Call
<1>2. b \in Call /\ b.pc = "store" /\ b.key = k /\ b.coupon = call[s].coupon /\ b.outcome = o
  <2> HIDE DEF a
  <2> QED
    BY <1>1 DEF Call
<1>3. u \in Call /\ u.pc = "store" /\ u.key = k /\ u.coupon = call[s].coupon /\ u.outcome = o
      /\ u.receipt = r
  <2> HIDE DEF b
  <2> QED
    BY <1>2 DEF Call
<1>4. call' = [call EXCEPT ![s] = u] /\ call'[s] = u /\ \A t \in Sessions : t # s => call'[t] = call[t]
  BY DEF Conclude, IInv, TypeOK
<1> HIDE DEF u
<1>5. \A t \in Sessions : Owns(t, k)' => t # s /\ Owns(t, k)
  BY <1>3, <1>4 DEF Owns
<1>6. o = "FAILED" => Fails(k)'
  <2>1. CASE channel[k].answer = "failed"
    BY <1>0, <2>1 DEF Fails
  <2>2. CASE call[s].pc \in {"recheck", "claim"}
    <3>1. channel[k].asked = 0 /\ \A t \in Sessions : Owns(t, k) => t = s
      BY <1>0, <2>2, Running DEF SessionInv
    <3> QED
      BY <1>5, <3>1 DEF Fails
  <2> QED
    BY <1>0, <2>1, <2>2
<1>7. SessionInv(s)'
  BY <1>0, <1>3, <1>4, <1>6, Running DEF SessionInv
<1> QED
  BY <1>3, <1>4, <1>7, LocalStep DEF IInv, TypeOK

LEMMA CreateInv ==
  ASSUME IInv, NEW s \in Sessions, NEW k \in Keys, NEW c \in Coupons, Create(s, k, c) PROVE IInv'
<1> DEFINE a == [IdleCall EXCEPT !.pc = "find"]
           b == [a EXCEPT !.key = k]
           u == [b EXCEPT !.coupon = c]
<1>1. a \in Call /\ a.pc = "find"
  BY IdleIsCall DEF Call
<1>2. b \in Call /\ b.pc = "find" /\ b.key = k
  <2> HIDE DEF a
  <2> QED
    BY <1>1 DEF Call
<1>3. u \in Call /\ u.pc = "find" /\ u.key = k /\ u.coupon = c
  <2> HIDE DEF b
  <2> QED
    BY <1>2 DEF Call
<1>4. call' = [call EXCEPT ![s] = u] /\ call'[s] = u
  BY DEF Create, IInv, TypeOK
<1> HIDE DEF u
<1>5. SessionInv(s)'
  BY <1>3, <1>4 DEF SessionInv
<1> QED
  BY <1>3, <1>4, <1>5, LocalStep DEF IInv, TypeOK, Create

LEMMA GetInv ==
  ASSUME IInv, NEW s \in Sessions, NEW k \in Keys, Get(s, k) PROVE IInv'
<1> DEFINE c == claims[k].coupon
           a == [IdleCall EXCEPT !.pc = "stored"]
           b == [a EXCEPT !.key = k]
           u == [b EXCEPT !.coupon = c]
<1>0. c \in Coupons
  BY Running DEF Get, Claim
<1>1. a \in Call /\ a.pc = "stored"
  BY IdleIsCall DEF Call
<1>2. b \in Call /\ b.pc = "stored" /\ b.key = k
  <2> HIDE DEF a
  <2> QED
    BY <1>1 DEF Call
<1>3. u \in Call /\ u.pc = "stored" /\ u.key = k /\ u.coupon = c
  <2> HIDE DEF b, c
  <2> QED
    BY <1>0, <1>2 DEF Call
<1>4. call' = [call EXCEPT ![s] = u] /\ call'[s] = u
  BY DEF Get, IInv, TypeOK
<1> HIDE DEF u
<1>5. SessionInv(s)'
  BY <1>0, <1>3, <1>4 DEF SessionInv
<1> QED
  BY <1>3, <1>4, <1>5, LocalStep DEF IInv, TypeOK, Get

-----------------------------------------------------------------------------
LEMMA FindClaimInv == ASSUME IInv, NEW s \in Sessions, FindClaim(s) PROVE IInv'
<1> DEFINE claim == claims[call[s].key]
<1>0. call[s].pc # "idle" /\ claim # None /\ UNCHANGED <<claims, listed, channel>>
  BY DEF FindClaim
<1>1. CASE Return(s, "none")
  BY <1>0, <1>1, ReturnStep DEF Final
<1>2. CASE claim.status \in Final /\ Return(s, claim.status)
  BY <1>0, <1>2, ReturnStep
<1>3. CASE At(s, "query")
  BY <1>0, <1>3, AtStep
<1> QED
  BY <1>1, <1>2, <1>3 DEF FindClaim

LEMMA FindNothingInv == ASSUME IInv, NEW s \in Sessions, FindNothing(s) PROVE IInv'
BY AtStep DEF FindNothing

LEMMA CheckCatalogInv == ASSUME IInv, NEW s \in Sessions, CheckCatalog(s) PROVE IInv'
<1>1. CASE At(s, "reserve")
  BY <1>1, AtStep DEF CheckCatalog
<1>2. CASE Return(s, "none")
  BY <1>2, ReturnStep DEF CheckCatalog, Final
<1> QED
  BY <1>1, <1>2 DEF CheckCatalog

LEMMA RecheckInv == ASSUME IInv, NEW s \in Sessions, Recheck(s) PROVE IInv'
<1>1. call[s].pc = "recheck" /\ claims[call[s].key] # None /\ UNCHANGED <<claims, listed, channel>>
  BY Running DEF Recheck, SessionInv
<1>2. CASE At(s, "claim")
  <2> DEFINE u == [call[s] EXCEPT !.pc = "claim"]
  <2>1. u \in Call /\ u.pc = "claim" /\ u.key = call[s].key /\ u.coupon = call[s].coupon
    BY Running DEF Call
  <2>2. call' = [call EXCEPT ![s] = u] /\ call'[s] = u /\ \A t \in Sessions : t # s => call'[t] = call[t]
    BY <1>2 DEF At, IInv, TypeOK
  <2> HIDE DEF u
  <2>3. SessionInv(s)'
    BY <1>1, <2>1, <2>2, Running DEF SessionInv, Owns
  <2> QED
    BY <1>1, <2>1, <2>2, <2>3, LocalStep DEF Owns, IInv, TypeOK
<1>3. CASE Conclude(s, "FAILED", None)
  BY <1>1, <1>3, ConcludeStep DEF Final
<1> QED
  BY <1>2, <1>3 DEF Recheck

LEMMA HearInv ==
  ASSUME IInv, NEW s \in Sessions, call[s].pc \in {"await", "query"}, Hear(s),
         UNCHANGED <<claims, listed, channel>>
  PROVE  IInv'
<1> DEFINE known == channel[call[s].key]
<1>1. call[s].pc # "idle" /\ claims[call[s].key] # None /\ known \in Channel
  BY Running DEF SessionInv
<1>2. CASE known.answer = "failed" /\ Conclude(s, "FAILED", None)
  BY <1>1, <1>2, ConcludeStep DEF Final
<1>3. CASE known.answer = "claimed" /\ known.receipt \in Usable /\ Conclude(s, "CLAIMED", known.receipt)
  <2>1. known.receipt \in Receipts \cup {None}
    BY <1>1 DEF Channel
  <2> QED
    BY <1>1, <1>3, <2>1, ConcludeStep DEF Final
<1>4. CASE Conclude(s, "QUERY_REQUIRED", None)
  BY <1>1, <1>4, ConcludeStep
<1> QED
  BY <1>2, <1>3, <1>4 DEF Hear

LEMMA AdapterFailsInv == ASSUME IInv, NEW s \in Sessions, AdapterFails(s) PROVE IInv'
<1>1. call[s].pc # "idle" /\ claims[call[s].key] # None
  BY Running DEF AdapterFails, SessionInv
<1> QED
  BY <1>1, ConcludeStep DEF AdapterFails

LEMMA ReadBackInv == ASSUME IInv, NEW s \in Sessions, ReadBack(s) PROVE IInv'
<1>1. claims[call[s].key] # None /\ claims[call[s].key].status \in Open \cup Final
  BY Running DEF ReadBack, SessionInv, Claim
<1> QED
  BY <1>1, ReturnStep DEF ReadBack

LEMMA StopInv == ASSUME IInv, NEW s \in Sessions, Stop(s) PROVE IInv'
BY ReturnStep DEF Stop, Final

LEMMA SwitchListedInv == ASSUME IInv, NEW c \in Coupons, SwitchListed(c) PROVE IInv'
<1>1. TypeOK'
  BY DEF SwitchListed, IInv, TypeOK
<1> QED
  BY <1>1 DEF SwitchListed, IInv, KeyInv, SessionInv, Fails, Owns

-----------------------------------------------------------------------------
(* The steps that write.                                                   *)

\* What a step of s about k leaves alone: the other keys and the sessions about them.
LEMMA Elsewhere ==
  ASSUME IInv, NEW s \in Sessions, NEW k \in Keys, NEW u \in Call, call[s].key = k, u.key = k,
         call' = [call EXCEPT ![s] = u],
         \A j \in Keys : j # k => claims'[j] = claims[j] /\ channel'[j] = channel[j]
  PROVE  /\ call'[s] = u /\ \A t \in Sessions : t # s => call'[t] = call[t]
         /\ call' \in [Sessions -> Call]
         /\ \A j \in Keys : j # k => KeyInv(j)'
         /\ \A t \in Sessions : t # s /\ call[t].key # k => SessionInv(t)'
<1>1. /\ call'[s] = u /\ \A t \in Sessions : t # s => call'[t] = call[t]
      /\ call' \in [Sessions -> Call]
  BY DEF IInv, TypeOK
<1>2. \A j \in Keys, t \in Sessions : j # k => (Owns(t, j)' <=> Owns(t, j))
  BY <1>1 DEF Owns
<1>3. \A j \in Keys : j # k => (Fails(j)' <=> Fails(j))
  BY <1>2 DEF Fails
<1>4. ASSUME NEW j \in Keys, j # k PROVE KeyInv(j)'
  <2>1. KeyInv(j) /\ claims'[j] = claims[j] /\ channel'[j] = channel[j] /\ (Fails(j)' <=> Fails(j))
    BY <1>3, <1>4 DEF IInv
  <2> QED
    BY <2>1 DEF KeyInv
<1>5. ASSUME NEW t \in Sessions, t # s, call[t].key # k PROVE SessionInv(t)'
  <2>1. call'[t] = call[t] /\ SessionInv(t)
    BY <1>1, <1>5 DEF IInv
  <2>2. call[t].key \in Keys => claims'[call[t].key] = claims[call[t].key]
                               /\ channel'[call[t].key] = channel[call[t].key]
    BY <1>5
  <2> QED
    BY <1>2, <1>3, <1>5, <2>1, <2>2 DEF SessionInv
<1> QED
  BY <1>1, <1>4, <1>5

LEMMA ReserveInv == ASSUME IInv, NEW s \in Sessions, Reserve(s) PROVE IInv'
<1>0. call[s].pc = "reserve" /\ UNCHANGED <<listed, channel>>
  BY DEF Reserve
<1>1. PICK k \in Keys : k = call[s].key
  BY <1>0, Running
<1>2. CASE claims[k] # None
  BY <1>0, <1>1, <1>2, AtStep DEF Reserve
<1>3. CASE claims[k] = None
  <2> DEFINE u == [call[s] EXCEPT !.pc = "recheck"]
             new == NewClaim(call[s].coupon)
  <2>1. u \in Call /\ u.pc = "recheck" /\ u.key = k /\ u.coupon = call[s].coupon
    BY <1>1, Running DEF Call
  <2>2. /\ call' = [call EXCEPT ![s] = u] /\ claims' = [claims EXCEPT ![k] = new]
        /\ claims \in [Keys -> Claim \cup {None}]
    BY <1>1, <1>3, Running DEF Reserve, At
  <2>3. new \in Claim /\ new # None /\ new.status = "PENDING"
    BY <1>0, Running, CouponClaimsAssumption DEF CouponClaimsAssumption, Claim, NewClaim, Open
  <2> HIDE DEF u, new
  <2>4. claims'[k] = new /\ \A j \in Keys : j # k => claims'[j] = claims[j]
    BY <2>2
  <2>5. /\ call'[s] = u /\ \A t \in Sessions : t # s => call'[t] = call[t]
        /\ call' \in [Sessions -> Call]
        /\ \A j \in Keys : j # k => KeyInv(j)'
        /\ \A t \in Sessions : t # s /\ call[t].key # k => SessionInv(t)'
    <3>1. \A j \in Keys : j # k => claims'[j] = claims[j] /\ channel'[j] = channel[j]
      BY <1>0, <2>4
    <3>2. call[s].key = k
      BY <1>1
    <3> QED
      BY <2>1, <2>2, <3>1, <3>2, Elsewhere, Zenon
  <2>6. TypeOK'
    BY <1>0, <2>2, <2>3, <2>5 DEF IInv, TypeOK
  <2>7. KeyInv(k) /\ channel'[k] = channel[k] /\ channel[k].asked = 0
    BY <1>0, <1>3 DEF IInv, KeyInv
  <2>8. KeyInv(k)'
    BY <2>3, <2>4, <2>7 DEF KeyInv
  <2>9. \A t \in Sessions : call[t].key = k =>
          /\ call[t].pc \notin {"recheck", "claim", "await", "query", "store", "read"}
          /\ ~(call[t].pc = "idle" /\ call[t].answer \in Final)
    BY <1>3 DEF IInv, SessionInv
  <2>10. SessionInv(s)'
    <3>1. \A t \in Sessions : Owns(t, k)' => t = s
      BY <2>5, <2>9 DEF Owns
    <3> QED
      BY <1>0, <2>1, <2>3, <2>4, <2>5, <2>7, <3>1, Running DEF SessionInv, Open
  <2>11. ASSUME NEW t \in Sessions, t # s, call[t].key = k PROVE SessionInv(t)'
    BY <2>5, <2>9, <2>11, Running DEF SessionInv
  <2> QED
    BY <2>5, <2>6, <2>8, <2>10, <2>11 DEF IInv
<1> QED
  BY <1>2, <1>3

LEMMA SendClaimInv == ASSUME IInv, NEW s \in Sessions, SendClaim(s) PROVE IInv'
<1>0. call[s].pc = "claim" /\ UNCHANGED <<claims, listed>>
  BY DEF SendClaim
<1>1. PICK k \in Keys : k = call[s].key
  BY <1>0, Running
<1>2. /\ claims[k] # None /\ claims[k].status \in Open /\ channel[k].asked = 0
      /\ \A t \in Sessions : Owns(t, k) => t = s
      /\ Owns(s, k) /\ channel[k].answer = "none" /\ channel[k] \in Channel
  BY <1>0, <1>1, Running DEF SessionInv, KeyInv, Owns
<1> DEFINE u == [call[s] EXCEPT !.pc = "await"]
           a == [channel[k] EXCEPT !.asked = @ + 1]
           ch == [a EXCEPT !.answer = IF @ = "none" THEN "undecided" ELSE @]
<1>3. u \in Call /\ u.pc = "await" /\ u.key = k /\ u.coupon = call[s].coupon
  BY <1>1, Running DEF Call
<1>4. a \in Channel /\ a.asked = 1 /\ a.answer = "none"
  BY <1>2 DEF Channel
<1>5. ch \in Channel /\ ch.asked = 1 /\ ch.answer = "undecided"
  <2> HIDE DEF a
  <2> QED
    BY <1>4 DEF Channel
<1>6. call' = [call EXCEPT ![s] = u] /\ channel' = [channel EXCEPT ![k] = ch]
  BY <1>1, Running DEF SendClaim, At
<1> HIDE DEF u, ch
<1>7. channel'[k] = ch /\ (\A j \in Keys : j # k => channel'[j] = channel[j])
      /\ channel' \in [Keys -> Channel]
  BY <1>5, <1>6, Running
<1>8. /\ call'[s] = u /\ \A t \in Sessions : t # s => call'[t] = call[t]
      /\ call' \in [Sessions -> Call]
      /\ \A j \in Keys : j # k => KeyInv(j)'
      /\ \A t \in Sessions : t # s /\ call[t].key # k => SessionInv(t)'
  <2>1. \A j \in Keys : j # k => claims'[j] = claims[j] /\ channel'[j] = channel[j]
    BY <1>0, <1>7
  <2>2. call[s].key = k
    BY <1>1
  <2> QED
    BY <1>3, <1>6, <2>1, <2>2, Elsewhere, Zenon
<1>9. TypeOK'
  BY <1>0, <1>7, <1>8 DEF IInv, TypeOK
<1>10. ~Fails(k)
  BY <1>2 DEF Fails
<1>11. KeyInv(k)'
  BY <1>0, <1>2, <1>5, <1>7 DEF KeyInv, Open
<1>12. SessionInv(s)'
  BY <1>0, <1>1, <1>2, <1>3, <1>8, Running DEF SessionInv
<1>13. ASSUME NEW t \in Sessions, t # s, call[t].key = k PROVE SessionInv(t)'
  <2>1. call'[t] = call[t] /\ SessionInv(t) /\ call[t].pc \notin {"recheck", "claim"}
    BY <1>2, <1>8, <1>13 DEF IInv, Owns
  <2>2. call[t].pc = "store" => call[t].outcome = "QUERY_REQUIRED"
    BY <1>2, <1>10, <1>13, <2>1 DEF SessionInv, Final
  <2> QED
    BY <1>0, <1>13, <2>1, <2>2 DEF SessionInv
<1> QED
  BY <1>8, <1>9, <1>11, <1>12, <1>13 DEF IInv

LEMMA SetOutcomeInv == ASSUME IInv, NEW s \in Sessions, SetOutcome(s) PROVE IInv'
<1>0. call[s].pc = "store" /\ UNCHANGED <<listed, channel>>
  BY DEF SetOutcome
<1>1. PICK k \in Keys : k = call[s].key
  BY <1>0, Running
<1>2. /\ claims[k] # None /\ claims[k] \in Claim
      /\ call[s].outcome \in {"QUERY_REQUIRED"} \cup Final /\ call[s].receipt \in Receipts \cup {None}
      /\ call[s].outcome = "FAILED" => Fails(k)
      /\ call[s].outcome = "CLAIMED" =>
           channel[k].answer = "claimed" /\ call[s].receipt = channel[k].receipt
           /\ call[s].receipt \in Usable
  BY <1>0, <1>1, Running DEF SessionInv, Call
<1>3. CASE claims[k].status \notin Open
  BY <1>0, <1>1, <1>2, <1>3, AtStep DEF SetOutcome
<1>4. CASE claims[k].status \in Open
  <2> DEFINE u == [call[s] EXCEPT !.pc = "read"]
             a == [claims[k] EXCEPT !.status = call[s].outcome]
             new == [a EXCEPT !.receipt = call[s].receipt]
  <2>1. u \in Call /\ u.pc = "read" /\ u.key = k /\ u.coupon = call[s].coupon
    BY <1>1, Running DEF Call
  <2>2. a \in Claim /\ a.status = call[s].outcome
    BY <1>2 DEF Claim, Open
  <2>3. new \in Claim /\ new.status = call[s].outcome /\ new.receipt = call[s].receipt
    <3> HIDE DEF a
    <3> QED
      BY <1>2, <2>2 DEF Claim
  <2>4. new # None
    BY <2>3, CouponClaimsAssumption DEF CouponClaimsAssumption
  <2>5. call' = [call EXCEPT ![s] = u] /\ claims' = [claims EXCEPT ![k] = new]
    BY <1>1, <1>4, Running DEF SetOutcome, At
  <2> HIDE DEF u, new
  <2>6. claims'[k] = new /\ (\A j \in Keys : j # k => claims'[j] = claims[j])
        /\ claims' \in [Keys -> Claim \cup {None}]
    BY <2>3, <2>5, Running
  <2>7. /\ call'[s] = u /\ \A t \in Sessions : t # s => call'[t] = call[t]
        /\ call' \in [Sessions -> Call]
        /\ \A j \in Keys : j # k => KeyInv(j)'
        /\ \A t \in Sessions : t # s /\ call[t].key # k => SessionInv(t)'
    <3>1. \A j \in Keys : j # k => claims'[j] = claims[j] /\ channel'[j] = channel[j]
      BY <1>0, <2>6
    <3>2. call[s].key = k
      BY <1>1
    <3> QED
      BY <2>1, <2>5, <3>1, <3>2, Elsewhere, Zenon
  <2>8. TypeOK'
    BY <1>0, <2>6, <2>7 DEF IInv, TypeOK
  <2>9. Fails(k) => Fails(k)'
    <3>1. \A t \in Sessions : Owns(t, k)' => Owns(t, k)
      BY <2>1, <2>7 DEF Owns
    <3> QED
      BY <1>0, <3>1 DEF Fails
  <2>10. KeyInv(k)'
    BY <1>0, <1>2, <2>3, <2>4, <2>6, <2>9 DEF KeyInv, IInv, Final
  <2>11. SessionInv(s)'
    BY <1>0, <1>1, <2>1, <2>4, <2>6, <2>7, Running DEF SessionInv
  <2>12. ASSUME NEW t \in Sessions, t # s, call[t].key = k PROVE SessionInv(t)'
    <3>1. call'[t] = call[t] /\ SessionInv(t) /\ KeyInv(k) /\ channel' = channel
      BY <1>0, <2>7, <2>12 DEF IInv
    <3>2. ~(call[t].pc = "idle" /\ call[t].answer \in Final)
      BY <1>4, <2>12, <3>1 DEF SessionInv, Open, Final
    <3>3. \A x \in Sessions : Owns(x, k)' => Owns(x, k)
      BY <2>1, <2>7 DEF Owns
    <3>4. Owns(t, k) => call[s].outcome \notin Final
      BY <1>2, <2>12, <3>1 DEF Owns, SessionInv, Fails, Final, KeyInv
    <3>5. Owns(t, k) => new.status \in Open
      BY <1>2, <2>3, <3>4 DEF Open
    <3> QED
      BY <2>4, <2>6, <2>9, <2>12, <3>1, <3>2, <3>3, <3>5 DEF SessionInv, Owns
  <2> QED
    BY <2>7, <2>8, <2>10, <2>11, <2>12 DEF IInv
<1> QED
  BY <1>3, <1>4

LEMMA ChannelDecidesInv == ASSUME IInv, NEW k \in Keys, ChannelDecides(k) PROVE IInv'
<1>1. /\ channel[k].answer = "undecided" /\ channel[k].asked = 1 /\ channel[k] \in Channel
      /\ UNCHANGED <<claims, listed, call>> /\ KeyInv(k) /\ ~Fails(k)
  BY DEF ChannelDecides, IInv, TypeOK, KeyInv, Fails
<1>2. \E ch \in Channel : channel' = [channel EXCEPT ![k] = ch] /\ ch.asked = 1 /\ ch.answer # "none"
  <2> DEFINE f == [channel[k] EXCEPT !.answer = "failed"]
             d == [channel[k] EXCEPT !.answer = "claimed"]
  <2>1. f \in Channel /\ f.asked = 1 /\ f.answer = "failed"
    BY <1>1 DEF Channel
  <2>2. d \in Channel /\ d.asked = 1 /\ d.answer = "claimed"
    BY <1>1 DEF Channel
  <2>3. CASE channel' = [channel EXCEPT ![k].answer = "failed"]
    BY <2>1, <2>3, Running
  <2>4. ASSUME NEW e \in Receipts,
               channel' = [channel EXCEPT ![k].answer = "claimed", ![k].receipt = e]
        PROVE  \E ch \in Channel :
                 channel' = [channel EXCEPT ![k] = ch] /\ ch.asked = 1 /\ ch.answer # "none"
    <3> DEFINE ch == [d EXCEPT !.receipt = e]
    <3>1. channel' = [channel EXCEPT ![k] = ch]
      BY <2>4 DEF IInv, TypeOK
    <3>2. ch \in Channel /\ ch.asked = 1 /\ ch.answer = "claimed"
      <4> HIDE DEF d
      <4> QED
        BY <2>2 DEF Channel
    <3> HIDE DEF ch
    <3> QED
      BY <3>1, <3>2
  <2> QED
    BY <2>3, <2>4 DEF ChannelDecides
<1>3. PICK ch \in Channel :
        channel' = [channel EXCEPT ![k] = ch] /\ ch.asked = 1 /\ ch.answer # "none"
  BY <1>2
<1>4. channel'[k] = ch /\ (\A j \in Keys : j # k => channel'[j] = channel[j])
      /\ channel' \in [Keys -> Channel]
  BY <1>3 DEF IInv, TypeOK
<1>5. TypeOK'
  BY <1>1, <1>4 DEF IInv, TypeOK
<1>6. \A j \in Keys, t \in Sessions : Owns(t, j)' <=> Owns(t, j)
  BY <1>1 DEF Owns
<1>7. \A j \in Keys : j # k => (Fails(j)' <=> Fails(j))
  BY <1>4, <1>6 DEF Fails
<1>8. ASSUME NEW j \in Keys PROVE KeyInv(j)'
  <2>1. CASE j # k
    <3>1. KeyInv(j) /\ channel'[j] = channel[j] /\ (Fails(j)' <=> Fails(j))
      BY <1>4, <1>7, <2>1 DEF IInv
    <3> QED
      BY <1>1, <3>1 DEF KeyInv
  <2>2. CASE j = k
    BY <1>1, <1>3, <1>4, <2>2 DEF KeyInv
  <2> QED
    BY <2>1, <2>2
<1>9. ASSUME NEW t \in Sessions PROVE SessionInv(t)'
  <2>1. SessionInv(t) /\ call' = call /\ claims' = claims
    BY <1>1 DEF IInv
  <2>2. CASE call[t].key = k
    <3>1. call[t].pc \notin {"recheck", "claim"}
      BY <1>1, <2>1, <2>2 DEF SessionInv
    <3>2. call[t].pc = "store" => call[t].outcome = "QUERY_REQUIRED"
      BY <1>1, <2>1, <2>2 DEF SessionInv, Final
    <3> QED
      BY <2>1, <2>2, <3>1, <3>2 DEF SessionInv
  <2>3. CASE call[t].key # k
    <3>1. call[t].key \in Keys => channel'[call[t].key] = channel[call[t].key]
      BY <1>4, <2>3
    <3> QED
      BY <1>6, <1>7, <2>1, <2>3, <3>1 DEF SessionInv
  <2> QED
    BY <2>2, <2>3
<1> QED
  BY <1>5, <1>8, <1>9 DEF IInv

-----------------------------------------------------------------------------
LEMMA NextInv == ASSUME IInv, [Next]_vars PROVE IInv'
<1>1. ASSUME NEW s \in Sessions, Advance(s) PROVE IInv'
  <2>1. CASE ClaimReturns(s) \/ QueryReturns(s)
    BY <2>1, HearInv DEF ClaimReturns, QueryReturns
  <2> QED
    BY <1>1, <2>1, FindClaimInv, FindNothingInv, CheckCatalogInv, ReserveInv, RecheckInv,
       SendClaimInv, AdapterFailsInv, SetOutcomeInv, ReadBackInv, StopInv DEF Advance
<1>2. CASE UNCHANGED vars
  BY <1>2 DEF vars, IInv, TypeOK, KeyInv, SessionInv, Fails, Owns
<1> QED
  BY <1>1, <1>2, CreateInv, GetInv, SwitchListedInv, ChannelDecidesInv DEF Next

\* The invariant holds in every behaviour of Spec, and so of FairSpec.
THEOREM Inductive == Spec => []IInv
<1>1. Init => IInv
  BY InitInv
<1>2. IInv /\ [Next]_vars => IInv'
  BY NextInv
<1> QED
  BY <1>1, <1>2, PTL DEF Spec

\* The adapter's Claim is called at most once for a key (claim_service.go:30-31).
THEOREM ClaimedOnce == Spec => []AskedOnce
<1>1. IInv => AskedOnce
  BY DEF IInv, KeyInv, AskedOnce
<1> QED
  BY <1>1, Inductive, PTL

\* A final claim holds the channel's decision, or was given up before the channel was
\* asked, and then it never is.
THEOREM OutcomesTrue == Spec => []OutcomeIsChannels
<1>1. IInv => OutcomeIsChannels
  BY DEF IInv, KeyInv, Fails, Owns, OutcomeIsChannels
<1> QED
  BY <1>1, Inductive, PTL

\* A final answer of Create or Get stays the stored one.
THEOREM ToldStays == Spec => []ToldIsStored
<1>1. IInv => ToldIsStored
  BY DEF IInv, SessionInv, ToldIsStored
<1> QED
  BY <1>1, Inductive, PTL

-----------------------------------------------------------------------------
(* The promise of LinkOnce.                                                *)

LEMMA PromiseInit == Init => Promise!Init
<1> SUFFICES ASSUME Init PROVE Promise!Init
  OBVIOUS
<1>1. \A k \in Keys : Asked(k) = "no" /\ Result(k) = "open"
  BY DEF Init, Asked, Result
<1> QED
  BY <1>1 DEF Promise!Init

\* A step about one key, as LinkOnce sees it.
LEMMA OneKeyMoves ==
  ASSUME IInv, NEW k \in Keys,
         \A j \in Keys : j # k => claims'[j] = claims[j] /\ channel'[j] = channel[j],
         \/ Asked(k)' = Asked(k) /\ Result(k)' = Result(k)
         \/ Asked(k) = "no" /\ Result(k) = "open" /\ Asked(k)' = "yes" /\ Result(k)' = Result(k)
         \/ Asked(k) = "no" /\ Result(k) = "open" /\ Asked(k)' = Asked(k) /\ Result(k)' = "withdrawn"
         \/ Asked(k) = "yes" /\ Asked(k)' \in {"refused"} \cup Receipts /\ Result(k)' = Result(k)
         \/ /\ Result(k) = "open" /\ Asked(k) \in {"refused"} \cup Usable
            /\ Asked(k)' = Asked(k) /\ Result(k)' = Asked(k)
  PROVE  [Promise!Next]_Promise!vars
<1> DEFINE asked == [j \in Keys |-> Asked(j)]
           result == [j \in Keys |-> Result(j)]
           asked2 == [j \in Keys |-> Asked(j)']
           result2 == [j \in Keys |-> Result(j)']
<1>1. ASSUME NEW j \in Keys, j # k PROVE Asked(j)' = Asked(j) /\ Result(j)' = Result(j)
  <2>1. claims'[j] = claims[j] /\ channel'[j] = channel[j]
    BY <1>1
  <2> QED
    BY <2>1 DEF Asked, Result
<1>2. /\ asked2 = [asked EXCEPT ![k] = Asked(k)']
      /\ result2 = [result EXCEPT ![k] = Result(k)']
      /\ Asked(k)' = Asked(k) => asked2 = asked
      /\ Result(k)' = Result(k) => result2 = result
  BY <1>1
<1>3. asked[k] = Asked(k) /\ result[k] = Result(k)
  OBVIOUS
<1>4. CASE Asked(k)' = Asked(k) /\ Result(k)' = Result(k)
  BY <1>2, <1>4 DEF Promise!vars
<1>5. CASE Asked(k) = "no" /\ Result(k) = "open" /\ Asked(k)' = "yes" /\ Result(k)' = Result(k)
  <2>1. Promise!Ask(k)
    BY <1>2, <1>3, <1>5 DEF Promise!Ask
  <2> QED
    BY <2>1 DEF Promise!Next
<1>6. CASE Asked(k) = "no" /\ Result(k) = "open" /\ Asked(k)' = Asked(k) /\ Result(k)' = "withdrawn"
  <2>1. Promise!Withdraw(k)
    BY <1>2, <1>3, <1>6 DEF Promise!Withdraw
  <2> QED
    BY <2>1 DEF Promise!Next
<1>7. CASE Asked(k) = "yes" /\ Asked(k)' \in {"refused"} \cup Receipts /\ Result(k)' = Result(k)
  <2>1. Promise!Answered(k)
    BY <1>2, <1>3, <1>7 DEF Promise!Answered
  <2> QED
    BY <2>1 DEF Promise!Next
<1>8. CASE /\ Result(k) = "open" /\ Asked(k) \in {"refused"} \cup Usable
           /\ Asked(k)' = Asked(k) /\ Result(k)' = Asked(k)
  <2>1. Promise!Settle(k)
    BY <1>2, <1>3, <1>8 DEF Promise!Settle
  <2> QED
    BY <2>1 DEF Promise!Next
<1> QED
  BY <1>4, <1>5, <1>6, <1>7, <1>8

\* Most steps are none of LinkOnce's business.
LEMMA Stutters ==
  ASSUME UNCHANGED <<claims, channel>>
  PROVE  [Promise!Next]_Promise!vars
<1>1. \A k \in Keys : Asked(k)' = Asked(k) /\ Result(k)' = Result(k)
  BY DEF Asked, Result
<1> QED
  BY <1>1 DEF Promise!vars

LEMMA SentIsAsked == ASSUME IInv, NEW s \in Sessions, SendClaim(s) PROVE [Promise!Next]_Promise!vars
<1>0. call[s].pc = "claim" /\ claims' = claims
  BY DEF SendClaim
<1>1. PICK k \in Keys : k = call[s].key
  BY <1>0, Running
<1>2. /\ claims[k] # None /\ claims[k].status \in Open /\ channel[k].asked = 0
      /\ channel[k].answer = "none" /\ channel[k] \in Channel
  BY <1>0, <1>1, Running DEF SessionInv, KeyInv
<1> DEFINE a == [channel[k] EXCEPT !.asked = @ + 1]
           ch == [a EXCEPT !.answer = IF @ = "none" THEN "undecided" ELSE @]
<1>3. a \in Channel /\ a.asked = 1 /\ a.answer = "none"
  BY <1>2 DEF Channel
<1>4. ch.asked = 1 /\ ch.answer = "undecided"
  <2> HIDE DEF a
  <2> QED
    BY <1>3 DEF Channel
<1>5. channel' = [channel EXCEPT ![k] = ch]
  BY <1>1, Running DEF SendClaim
<1> HIDE DEF ch
<1>6. channel'[k] = ch /\ \A j \in Keys : j # k => channel'[j] = channel[j]
  BY <1>5, Running
<1>7. Asked(k) = "no" /\ Asked(k)' = "yes"
  BY <1>2, <1>4, <1>6 DEF Asked
<1>8. Result(k) = "open" /\ Result(k)' = "open"
  BY <1>0, <1>2 DEF Result
<1> QED
  BY <1>0, <1>6, <1>7, <1>8, OneKeyMoves

LEMMA DecidedIsAnswered ==
  ASSUME IInv, NEW k \in Keys, ChannelDecides(k) PROVE [Promise!Next]_Promise!vars
<1>1. /\ channel[k].answer = "undecided" /\ channel[k].asked = 1 /\ channel[k] \in Channel
      /\ claims' = claims /\ channel \in [Keys -> Channel]
  BY DEF ChannelDecides, IInv, TypeOK, KeyInv
<1>2. channel'[k].asked = 1 /\ \A j \in Keys : j # k => channel'[j] = channel[j]
  BY <1>1 DEF ChannelDecides, Channel
<1>3. \/ channel'[k].answer = "failed"
      \/ channel'[k].answer = "claimed" /\ channel'[k].receipt \in Receipts
  <2>1. CASE channel' = [channel EXCEPT ![k].answer = "failed"]
    BY <1>1, <2>1 DEF Channel
  <2>2. ASSUME NEW e \in Receipts,
               channel' = [channel EXCEPT ![k].answer = "claimed", ![k].receipt = e]
        PROVE  channel'[k].answer = "claimed" /\ channel'[k].receipt = e
    <3> DEFINE d == [channel[k] EXCEPT !.answer = "claimed"]
               ch == [d EXCEPT !.receipt = e]
    <3>1. channel'[k] = ch
      BY <1>1, <2>2
    <3>2. d \in Channel /\ d.answer = "claimed"
      BY <1>1 DEF Channel
    <3>3. ch.answer = "claimed" /\ ch.receipt = e
      <4> HIDE DEF d
      <4> QED
        BY <3>2 DEF Channel
    <3> HIDE DEF ch
    <3> QED
      BY <3>1, <3>3
  <2> QED
    BY <2>1, <2>2 DEF ChannelDecides
<1>4. Asked(k) = "yes" /\ Asked(k)' \in {"refused"} \cup Receipts
  BY <1>1, <1>2, <1>3 DEF Asked
<1>5. Result(k)' = Result(k)
  BY <1>1, <1>2 DEF Result
<1> QED
  BY <1>1, <1>2, <1>4, <1>5, OneKeyMoves

LEMMA StoredIsSettled ==
  ASSUME IInv, NEW s \in Sessions, SetOutcome(s) PROVE [Promise!Next]_Promise!vars
<1>0. call[s].pc = "store" /\ channel' = channel
  BY DEF SetOutcome
<1>1. PICK k \in Keys : k = call[s].key
  BY <1>0, Running
<1>2. /\ claims[k] # None /\ claims[k] \in Claim /\ KeyInv(k) /\ SessionInv(s)
      /\ call[s].outcome \in {"QUERY_REQUIRED"} \cup Final /\ call[s].receipt \in Receipts \cup {None}
  BY <1>0, <1>1, Running DEF SessionInv, Call
<1>3. CASE claims[k].status \notin Open
  BY <1>0, <1>1, <1>3, Stutters DEF SetOutcome
<1>4. CASE claims[k].status \in Open
  <2> DEFINE a == [claims[k] EXCEPT !.status = call[s].outcome]
             new == [a EXCEPT !.receipt = call[s].receipt]
  <2>1. a \in Claim /\ a.status = call[s].outcome
    BY <1>2 DEF Claim, Open
  <2>2. new \in Claim /\ new.status = call[s].outcome /\ new.receipt = call[s].receipt
    <3> HIDE DEF a
    <3> QED
      BY <1>2, <2>1 DEF Claim
  <2>3. new # None
    BY <2>2, CouponClaimsAssumption DEF CouponClaimsAssumption
  <2>4. claims' = [claims EXCEPT ![k] = new]
    BY <1>1, <1>4, Running DEF SetOutcome
  <2> HIDE DEF new
  <2>5. claims'[k] = new /\ \A j \in Keys : j # k => claims'[j] = claims[j]
    BY <2>4, Running
  <2>6. Result(k) = "open" /\ Asked(k)' = Asked(k)
    BY <1>0, <1>4 DEF Result, Asked
  <2>7. CASE call[s].outcome = "QUERY_REQUIRED"
    <3>1. Result(k)' = "open"
      BY <2>2, <2>5, <2>7 DEF Result, Open
    <3> QED
      BY <1>0, <2>5, <2>6, <3>1, OneKeyMoves
  <2>8. CASE call[s].outcome = "CLAIMED"
    <3>1. /\ channel[k].answer = "claimed" /\ call[s].receipt = channel[k].receipt
          /\ call[s].receipt \in Usable /\ channel[k].asked # 0
      BY <1>0, <1>1, <1>2, <2>8 DEF SessionInv, KeyInv
    <3>2. Asked(k) = call[s].receipt
      BY <3>1 DEF Asked
    <3>3. Result(k)' = call[s].receipt
      BY <2>2, <2>3, <2>5, <2>8 DEF Result, Open
    <3> QED
      BY <1>0, <2>5, <2>6, <3>1, <3>2, <3>3, OneKeyMoves
  <2>9. CASE call[s].outcome = "FAILED"
    <3>1. Fails(k)
      BY <1>0, <1>1, <1>2, <2>9 DEF SessionInv
    <3>2. Result(k)' = IF channel[k].asked = 0 THEN "withdrawn" ELSE "refused"
      BY <1>0, <2>2, <2>3, <2>5, <2>9 DEF Result, Open
    <3>3. CASE channel[k].asked = 0
      <4>1. Asked(k) = "no" /\ Result(k)' = "withdrawn"
        BY <1>2, <3>2, <3>3 DEF Asked, KeyInv
      <4> QED
        BY <1>0, <2>5, <2>6, <4>1, OneKeyMoves
    <3>4. CASE channel[k].asked # 0
      <4>1. Asked(k) = "refused" /\ Result(k)' = "refused"
        BY <3>1, <3>2, <3>4 DEF Asked, Fails
      <4> QED
        BY <1>0, <2>5, <2>6, <4>1, OneKeyMoves
    <3> QED
      BY <3>3, <3>4
  <2> QED
    BY <1>2, <2>7, <2>8, <2>9 DEF Final
<1> QED
  BY <1>3, <1>4

\* A claim that was just made is open as one that is not there.
LEMMA ReservedIsOpen ==
  ASSUME IInv, NEW s \in Sessions, Reserve(s) PROVE [Promise!Next]_Promise!vars
<1>0. call[s].pc = "reserve" /\ channel' = channel
  BY DEF Reserve
<1>1. PICK k \in Keys : k = call[s].key
  BY <1>0, Running
<1>2. CASE claims[k] # None
  BY <1>0, <1>1, <1>2, Stutters DEF Reserve
<1>3. CASE claims[k] = None
  <2>1. /\ claims'[k] = NewClaim(call[s].coupon)
        /\ \A j \in Keys : j # k => claims'[j] = claims[j]
    BY <1>1, <1>3, Running DEF Reserve
  <2>2. Result(k) = "open" /\ Result(k)' = "open" /\ Asked(k)' = Asked(k)
    BY <1>0, <1>3, <2>1 DEF Result, Asked, NewClaim, Open
  <2> QED
    BY <1>0, <2>1, <2>2, OneKeyMoves
<1> QED
  BY <1>2, <1>3

LEMMA PromiseStep == ASSUME IInv, [Next]_vars PROVE [Promise!Next]_Promise!vars
<1>1. ASSUME NEW s \in Sessions, Advance(s) PROVE [Promise!Next]_Promise!vars
  <2>1. CASE \/ FindClaim(s) \/ FindNothing(s) \/ CheckCatalog(s) \/ Recheck(s) \/ ClaimReturns(s)
             \/ QueryReturns(s) \/ AdapterFails(s) \/ ReadBack(s) \/ Stop(s)
    BY <2>1, Stutters DEF FindClaim, FindNothing, CheckCatalog, Recheck, ClaimReturns, QueryReturns,
                          AdapterFails, ReadBack, Stop
  <2> QED
    BY <1>1, <2>1, SentIsAsked, StoredIsSettled, ReservedIsOpen DEF Advance
<1>2. ASSUME NEW s \in Sessions, NEW k \in Keys, Get(s, k) \/ \E c \in Coupons : Create(s, k, c)
      PROVE  [Promise!Next]_Promise!vars
  BY <1>2, Stutters DEF Get, Create
<1>3. ASSUME NEW c \in Coupons, SwitchListed(c) PROVE [Promise!Next]_Promise!vars
  BY <1>3, Stutters DEF SwitchListed
<1>4. CASE UNCHANGED vars
  BY <1>4, Stutters DEF vars
<1> QED
  BY <1>1, <1>2, <1>3, <1>4, DecidedIsAnswered DEF Next

\* Sessions, claims and channel together keep the promise of LinkOnce.
THEOREM PromiseKept == Spec => KeepsPromise
<1>1. Init => Promise!Init
  BY PromiseInit
<1>2. IInv /\ [Next]_vars => [Promise!Next]_Promise!vars
  BY PromiseStep
<1> QED
  BY <1>1, <1>2, Inductive, PTL DEF Spec, Promise!Spec, KeepsPromise

=============================================================================
