---------------------------- MODULE Reservation ----------------------------
(***************************************************************************)
(* Reserving and claiming a conversion request while its promoter, its     *)
(* position and its channel mapping are being changed: Service.Convert,    *)
(* Repository.Reserve and Repository.Claim (internal/conversion) against   *)
(* ChangePosition, ConfigureChannelPosition and ExecuteAdmin               *)
(* (internal/promoter), at the granularity of PostgreSQL row locks.        *)
(*                                                                         *)
(* Transactions run at READ COMMITTED: a locking SELECT waits for the row  *)
(* and then reads its latest committed version, a plain one reads it at    *)
(* once.  What a transaction writes becomes visible when it commits, so    *)
(* its writes are part of its last step.  The rows belong to one promoter. *)
(***************************************************************************)
EXTENDS Naturals, Sequences

CONSTANTS
  Sessions,         \* goroutines serving calls, each with its own connection
  Positions,        \* promotion positions of the promoter
  Previews,         \* stored previews
  PreviewPosition,  \* the position each preview was made for
  Keys,             \* idempotency keys
  Accounts,         \* JD account and external position pairs
  None

ASSUME ReservationAssumption ==
  /\ PreviewPosition \in [Previews -> Positions]
  /\ None \notin Positions \cup Accounts

VARIABLES
  profile,    \* status of the promoter profile
  position,   \* status of each promotion position
  mapping,    \* the JD channel_positions row of each position
  expired,    \* previews past their expires_at
  requests,   \* promotion_conversion_requests, in insertion order
  held,       \* row locks held by open transactions
  tx          \* what each session is doing

vars == <<profile, position, mapping, expired, requests, held, tx>>

-----------------------------------------------------------------------------
Mapping == [status : {"ABSENT", "PENDING_VERIFICATION", "READY"},
            account : Accounts \cup {None}]

Request == [key : Keys, position : Positions, preview : Previews,
            account : Accounts, status : {"PENDING", "PROCESSING"}]

ScriptOf(reserve, claim, configure) ==
  [reserve         |-> reserve,
   claim           |-> claim,
   changePosition  |-> << <<"profile", "update">>, <<"position", "update">> >>,
   configure       |-> configure,
   disableProfile  |-> << <<"profile", "update">> >>]

ReserveLocks   == << <<"profile", "update">>, <<"position", "update">>, <<"mapping", "share">> >>
ClaimLocks     == << <<"profile", "share">>, <<"position", "share">>, <<"request", "update">> >>
ConfigureLocks == << <<"profile", "update">>, <<"position", "update">>, <<"mapping", "update">> >>

\* Mutants: a lock left out, or taken out of order.
ScriptUnlockedProfile == ScriptOf(ReserveLocks, Tail(ClaimLocks), ConfigureLocks)
ScriptMappingFirst ==
  ScriptOf(ReserveLocks, ClaimLocks, <<ConfigureLocks[3], ConfigureLocks[1], ConfigureLocks[2]>>)

\* The row locks a transaction takes, in order, up to its first write.
Script == ScriptOf(ReserveLocks, ClaimLocks, ConfigureLocks)

\* answer is the request a call returned, 0 if it returned none.
Session == [op       : DOMAIN Script \cup {"none"},
            pc       : {"idle", "find", "replay", "check", "preview", "requote",
                        "recheck", "lock", "commit"},
            step     : 1..4,
            key      : Keys \cup {None},
            position : Positions \cup {None},
            preview  : Previews \cup {None},
            account  : Accounts \cup {None},
            answer   : Nat]

IdleSession == [op |-> "none", pc |-> "idle", step |-> 1, key |-> None, position |-> None,
                preview |-> None, account |-> None, answer |-> 0]

Init ==
  /\ profile  = "ENABLED"
  /\ position = [p \in Positions |-> "ENABLED"]
  /\ mapping  = [p \in Positions |-> [status |-> "ABSENT", account |-> None]]
  /\ expired  = {}
  /\ requests = <<>>
  /\ held     = {}
  /\ tx       = [s \in Sessions |-> IdleSession]

-----------------------------------------------------------------------------
(* Calls, locks and the ends of transactions.                              *)

Enter(s, call) ==
  /\ tx[s].pc = "idle"
  /\ tx' = [tx EXCEPT ![s] = call]
  /\ UNCHANGED <<profile, position, mapping, expired, requests, held>>

Advance(s, pc) == tx' = [tx EXCEPT ![s].pc = pc]

\* Commit and rollback both release every lock; the session may then be reused.
Release(s) == held' = {h \in held : h.by # s}

\* What is left of a call that returned a request is what it asked for.
Returned(me, answer) ==
  IF answer = 0 THEN IdleSession
  ELSE [me EXCEPT !.pc = "idle", !.step = 1, !.account = None, !.answer = answer]

Finish(s, answer) ==
  /\ Release(s)
  /\ tx' = [tx EXCEPT ![s] = Returned(tx[s], answer)]

Rollback(s) ==
  /\ Finish(s, 0)
  /\ UNCHANGED <<profile, position, mapping, expired, requests>>

RowOf(me, table) ==
  CASE table = "profile" -> <<"profile", None>>
    [] table = "request" -> <<"request", me.answer>>
    [] OTHER             -> <<table, me.position>>

\* FOR SHARE is compatible with FOR SHARE only.
Free(s, row, mode) ==
  \A h \in held : h.row = row /\ h.by # s => h.mode = "share" /\ mode = "share"

NextLock(s) == Script[tx[s].op][tx[s].step]

CanLock(s) == Free(s, RowOf(tx[s], NextLock(s)[1]), NextLock(s)[2])

WithKey(key) == {i \in DOMAIN requests : requests[i].key = key}

\* The request fingerprint covers position, preview and scene; a preview has
\* one scene, so position and preview tell two fingerprints apart.
SameFingerprint(me, q) == q.position = me.position /\ q.preview = me.preview

Eligible(p) ==
  profile = "ENABLED" /\ position[p] = "ENABLED" /\ mapping[p].status = "READY"

\* Mutant: the mapping locked need not be the one that was quoted.
AcceptableAnyAccount(me, table) ==
  CASE table = "profile"  -> profile = "ENABLED"
    [] table = "position" -> position[me.position] = "ENABLED"
    [] table = "mapping"  -> me.op = "reserve" => mapping[me.position].status = "READY"
    [] table = "request"  -> requests[me.answer].status = "PENDING"

\* What the transaction requires of the row it has just locked.
Acceptable(me, table) ==
  CASE table = "profile"  -> profile = "ENABLED"
    [] table = "position" -> /\ position[me.position] = "ENABLED"
                             /\ me.op = "reserve" => /\ PreviewPosition[me.preview] = me.position
                                                     /\ me.preview \notin expired
    [] table = "mapping"  -> me.op = "reserve" =>
                               mapping[me.position] = [status |-> "READY", account |-> me.account]
    [] table = "request"  -> requests[me.answer].status = "PENDING"

\* Take the next lock and go on, or roll back because of what the row says.
Lock(s) ==
  LET table == NextLock(s)[1]
      prior == IF tx[s].op = "reserve" /\ tx[s].step = 1 THEN WithKey(tx[s].key) ELSE {}
  IN
  /\ tx[s].pc = "lock"
  /\ CanLock(s)
  /\ Acceptable(tx[s], table) /\ prior = {}
  /\ held' = held \cup {[by |-> s, row |-> RowOf(tx[s], table), mode |-> NextLock(s)[2]]}
  /\ tx' = [tx EXCEPT ![s].step = @ + 1,
                      ![s].pc = IF tx[s].step = Len(Script[tx[s].op]) THEN "commit" ELSE "lock"]
  /\ UNCHANGED <<profile, position, mapping, expired, requests>>

Refuse(s) ==
  /\ tx[s].pc = "lock"
  /\ CanLock(s)
  /\ ~Acceptable(tx[s], NextLock(s)[1])
  /\ Rollback(s)

-----------------------------------------------------------------------------
(* Service.Convert and Repository.Reserve.                                 *)

Convert(s) ==
  \E k \in Keys, p \in Positions, v \in Previews :
    Enter(s, [IdleSession EXCEPT !.op = "reserve", !.pc = "find", !.key = k,
                                 !.position = p, !.preview = v])

FindByKey(s) ==
  /\ tx[s].pc = "find"
  /\ \/ /\ WithKey(tx[s].key) = {}
        /\ Advance(s, "check")
        /\ UNCHANGED <<profile, position, mapping, expired, requests, held>>
     \/ \E i \in WithKey(tx[s].key) :
          IF SameFingerprint(tx[s], requests[i])
          THEN /\ tx' = [tx EXCEPT ![s].pc = "replay", ![s].answer = i]
               /\ UNCHANGED <<profile, position, mapping, expired, requests, held>>
          ELSE Rollback(s)

\* A replay before Reserve still requires the promoter to be eligible.
Replay(s) ==
  /\ tx[s].pc = "replay"
  /\ Finish(s, IF Eligible(tx[s].position) THEN tx[s].answer ELSE 0)
  /\ UNCHANGED <<profile, position, mapping, expired, requests>>

\* The mapping read here is the one quoted for and compared in Reserve.
CheckEligibility(s) ==
  /\ tx[s].pc = "check"
  /\ IF Eligible(tx[s].position)
     THEN /\ tx' = [tx EXCEPT ![s].pc = "preview", ![s].account = mapping[tx[s].position].account]
          /\ UNCHANGED <<profile, position, mapping, expired, requests, held>>
     ELSE Rollback(s)

ReadPreview(s) ==
  /\ tx[s].pc = "preview"
  /\ IF PreviewPosition[tx[s].preview] = tx[s].position /\ tx[s].preview \notin expired
     THEN /\ Advance(s, "requote")
          /\ UNCHANGED <<profile, position, mapping, expired, requests, held>>
     ELSE Rollback(s)

\* A changed or expired quote ends the call as an error does (Abort).
Requote(s) ==
  /\ tx[s].pc = "requote"
  /\ Advance(s, "recheck")
  /\ UNCHANGED <<profile, position, mapping, expired, requests, held>>

Recheck(s) ==
  /\ tx[s].pc = "recheck"
  /\ IF Eligible(tx[s].position)
     THEN /\ Advance(s, "lock")
          /\ UNCHANGED <<profile, position, mapping, expired, requests, held>>
     ELSE Rollback(s)

\* Mutant: the request found under the lock is returned unread.
FindPriorUnread(s) ==
  /\ tx[s].pc = "lock" /\ tx[s].op = "reserve" /\ tx[s].step = 1
  /\ CanLock(s) /\ profile = "ENABLED"
  /\ \E i \in WithKey(tx[s].key) : Finish(s, i)
  /\ UNCHANGED <<profile, position, mapping, expired, requests>>

\* Under the profile lock the key may turn out to have been used meanwhile.
FindPrior(s) ==
  /\ tx[s].pc = "lock" /\ tx[s].op = "reserve" /\ tx[s].step = 1
  /\ CanLock(s) /\ profile = "ENABLED"
  /\ \E i \in WithKey(tx[s].key) :
       Finish(s, IF SameFingerprint(tx[s], requests[i]) THEN i ELSE 0)
  /\ UNCHANGED <<profile, position, mapping, expired, requests>>

\* The preview may have expired while the call waited for the mapping.
Insert(s) ==
  LET me == tx[s] IN
  /\ me.pc = "commit" /\ me.op = "reserve"
  /\ IF me.preview \in expired
     THEN Rollback(s)
     ELSE /\ requests' = Append(requests,
                [key |-> me.key, position |-> me.position, preview |-> me.preview,
                 account |-> me.account, status |-> "PENDING"])
          /\ Finish(s, Len(requests) + 1)
          /\ UNCHANGED <<profile, position, mapping, expired>>

-----------------------------------------------------------------------------
(* Repository.Claim, the configuration calls, and time.                    *)

\* The request is found PENDING without a lock.
StartClaim(s) ==
  \E i \in DOMAIN requests :
    /\ requests[i].status = "PENDING"
    /\ Enter(s, [IdleSession EXCEPT !.op = "claim", !.pc = "lock", !.answer = i,
                                    !.position = requests[i].position])

Claim(s) ==
  /\ tx[s].pc = "commit" /\ tx[s].op = "claim"
  /\ requests' = [requests EXCEPT ![tx[s].answer].status = "PROCESSING"]
  /\ Finish(s, 0)
  /\ UNCHANGED <<profile, position, mapping, expired>>

StartChange(s) ==
  \/ \E p \in Positions, op \in {"changePosition", "configure"}, a \in Accounts :
       Enter(s, [IdleSession EXCEPT !.op = op, !.pc = "lock", !.position = p,
                                    !.account = IF op = "configure" THEN a ELSE None])
  \/ Enter(s, [IdleSession EXCEPT !.op = "disableProfile", !.pc = "lock"])

DisablePosition(s) ==
  /\ tx[s].pc = "commit" /\ tx[s].op = "changePosition"
  /\ position' = [position EXCEPT ![tx[s].position] = "DISABLED"]
  /\ Finish(s, 0)
  /\ UNCHANGED <<profile, mapping, expired, requests>>

\* Another position's external position is refused by the unique constraint.
ConfigureChannelPosition(s) ==
  LET me == tx[s] IN
  /\ me.pc = "commit" /\ me.op = "configure"
  /\ IF \E p \in Positions \ {me.position} : mapping[p].account = me.account
     THEN Rollback(s)
     ELSE /\ mapping' = [mapping EXCEPT ![me.position] =
                           [status |-> "PENDING_VERIFICATION", account |-> me.account]]
          /\ Finish(s, 0)
          /\ UNCHANGED <<profile, position, expired, requests>>

DisableProfile(s) ==
  /\ tx[s].pc = "commit" /\ tx[s].op = "disableProfile"
  /\ profile' = "DISABLED"
  /\ Finish(s, 0)
  /\ UNCHANGED <<position, mapping, expired, requests>>

\* The channel integration marks a configured mapping READY, in one UPDATE.  It is yet to
\* come: the CHECK of migration 000005 admits PENDING_VERIFICATION only, so that at this
\* commit no mapping is READY and every reservation is refused.
MarkReady(p) ==
  /\ mapping[p].status = "PENDING_VERIFICATION"
  /\ \A h \in held : h.row # <<"mapping", p>>
  /\ mapping' = [mapping EXCEPT ![p].status = "READY"]
  /\ UNCHANGED <<profile, position, expired, requests, held, tx>>

Expire(v) ==
  /\ expired' = expired \cup {v}
  /\ UNCHANGED <<profile, position, mapping, requests, held, tx>>

\* Any call may fail, be cancelled or die; PostgreSQL then rolls it back.
Abort(s) == tx[s].pc # "idle" /\ Rollback(s)

Step(s) ==
  \/ FindByKey(s) \/ Replay(s) \/ CheckEligibility(s) \/ ReadPreview(s) \/ Requote(s)
  \/ Recheck(s) \/ FindPrior(s) \/ Lock(s) \/ Refuse(s)
  \/ Insert(s) \/ Claim(s) \/ DisablePosition(s) \/ ConfigureChannelPosition(s)
  \/ DisableProfile(s)

Next ==
  \/ \E s \in Sessions : Convert(s) \/ StartClaim(s) \/ StartChange(s) \/ Step(s) \/ Abort(s)
  \/ \E p \in Positions : MarkReady(p)
  \/ \E v \in Previews : Expire(v)

Spec == Init /\ [][Next]_vars

\* Running transactions go on, and a session that finds its lock free again and again
\* is granted it once.  Nothing is promised to one that never finds it free: in PostgreSQL,
\* too, a FOR SHARE joins others past a FOR UPDATE that waits for them.
FairSpec == Spec /\ \A s \in Sessions : SF_vars(Step(s))

-----------------------------------------------------------------------------
(* Properties.                                                             *)

\* Types of the variables.
TypeOK ==
  /\ profile  \in {"ENABLED", "DISABLED"}
  /\ position \in [Positions -> {"ENABLED", "DISABLED"}]
  /\ mapping  \in [Positions -> Mapping]
  /\ expired  \subseteq Previews
  /\ requests \in Seq(Request)
  /\ \A h \in held : h.by \in Sessions /\ h.mode \in {"share", "update"}
  /\ tx       \in [Sessions -> Session]

\* Two calls with one key, however they interleave, leave one request, the profile lock
\* making the second find the first before the unique index would have to refuse it; and
\* a finished call returns the request of its own key, position and preview, never one a
\* concurrent call with the same key stored (repository.go:108-126).
AnswersItsCall ==
  /\ \A i, j \in DOMAIN requests : requests[i].key = requests[j].key => i = j
  /\ \A s \in Sessions :
       tx[s].op = "reserve" /\ tx[s].answer # 0 =>
         /\ requests[tx[s].answer].key = tx[s].key
         /\ SameFingerprint(tx[s], requests[tx[s].answer])

\* docs/21:160: at the instant a request is stored, promoter and position are
\* enabled, the preview is live, and the mapping is ready and still the one
\* that was quoted, whatever was reconfigured or disabled during the call.
StoredWhileEligible ==
  [][\A i \in DOMAIN requests' \ DOMAIN requests :
       LET q == requests'[i] IN
       /\ profile = "ENABLED" /\ position[q.position] = "ENABLED"
       /\ mapping[q.position] = [status |-> "READY", account |-> q.account]
       /\ q.preview \notin expired]_vars

\* docs/21:172: disabling cannot pass between the claim's eligibility check and
\* its state change, and of several claims one takes the request.
ClaimedWhileEligible ==
  [][\A i \in DOMAIN requests : requests'[i] # requests[i] =>
       /\ requests[i].status = "PENDING"
       /\ profile = "ENABLED" /\ position[requests[i].position] = "ENABLED"]_vars

\* s is waiting for a lock that t holds.
WaitsFor(s, t) ==
  /\ tx[s].pc = "lock"
  /\ \E h \in held :
       /\ h.by = t /\ t # s /\ h.row = RowOf(tx[s], NextLock(s)[1])
       /\ ~(h.mode = "share" /\ NextLock(s)[2] = "share")

\* No set of transactions waits for each other: every path takes profile,
\* position, then mapping or request (repository.go:153, state_repository.go:34).
NoDeadlock ==
  \A S \in (SUBSET Sessions) \ {{}} : \E s \in S : \A t \in S : ~WaitsFor(s, t)

\* s waits for the only use of a row that claims hold shared.
Crowded(s) ==
  /\ tx[s].pc = "lock" /\ NextLock(s)[2] = "update"
  /\ \E h \in held :
       /\ h.by # s /\ h.row = RowOf(tx[s], NextLock(s)[1])
       /\ h.mode = "share" /\ tx[h.by].op = "claim"

\* A call returns, however others lock the rows it needs, unless claims overlap on one of
\* them for ever: there is no deadlock, a reservation or a change never keeps another call
\* waiting for good, and a claim (FOR SHARE, state_repository.go:34-36) is never kept
\* waiting for good itself.
CallReturns ==
  \A s \in Sessions : []<>(tx[s].pc = "idle") \/ <>[]Crowded(s)

=============================================================================
