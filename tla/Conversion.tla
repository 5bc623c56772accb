----------------------------- MODULE Conversion -----------------------------
(***************************************************************************)
(* The execution lifecycle of a promotion conversion request: the row of   *)
(* promotion_conversion_requests, the private worker entry points          *)
(* Executor.RunPending and Executor.Recover, and the channel that creates  *)
(* the promotion link (internal/conversion).                               *)
(*                                                                         *)
(* A worker is a goroutine running one of the two entry points; between    *)
(* two of its database or gateway calls any other worker may run, time may *)
(* pass, and the worker itself may stop.  Wall-clock instants are reduced  *)
(* to what the code asks of them: has this lease, preview or quote expired.*)
(***************************************************************************)
EXTENDS Integers

CONSTANTS
  Requests,   \* conversion request ids
  Workers,    \* goroutines that run RunPending or Recover
  Links,      \* links a channel may hand out
  SafeLinks,  \* those ValidateLinkURL and safeHTTPSLink both accept
  None        \* SQL NULL, and the absence of a value

ASSUME ConversionAssumption ==
  /\ SafeLinks \subseteq Links
  /\ None \notin Links
  /\ None \notin Requests
  /\ None \notin {"QUERY_REQUIRED", "CHANNEL_REJECTED", "INVALID_RESULT"}

VARIABLES
  db,        \* the stored request rows
  enabled,   \* promoter profile and promotion position are both ENABLED
  ready,     \* the JD channel position mapping is READY
  fresh,     \* the preview behind the request has not expired
  channel,   \* what the channel knows of each request id
  run        \* the local state of each worker

vars == <<db, enabled, ready, fresh, channel, run>>

-----------------------------------------------------------------------------
(* Rows, the channel's knowledge and the workers' local variables.         *)

Terminal == {"SUCCEEDED", "FAILED_FINAL"}
Status   == {"ABSENT", "PENDING", "PROCESSING", "FAILED_RETRYABLE"} \cup Terminal
Failure  == {"QUERY_REQUIRED", "CHANNEL_REJECTED", "INVALID_RESULT", None}

Record == [status   : Status,
           version  : Nat,
           attempts : Nat,
           assigned : BOOLEAN,                   \* channel_request_id = id
           lease    : {"none", "live", "expired"},
           failure  : Failure,
           link     : Links \cup {None}]

\* sent counts the Create calls made with this request id.
Channel == [sent   : Nat,
            answer : {"none", "undecided", "accepted", "rejected"},
            link   : Links \cup {None}]

PreClaim  == {"check", "preview", "requote", "recheck", "claim", "withdraw"}
PreCreate == {"expiry", "invalid", "create"}
Querying  == {"lookup"}
Step      == {"idle", "await", "persist"} \cup PreClaim \cup PreCreate \cup Querying

Local == [pc     : Step,
          req    : Requests \cup {None},
          ver    : Nat,                          \* record.Version as loaded
          seen   : Status,                       \* record.Status as loaded
          quote  : BOOLEAN,                      \* the re-quote is unexpired
          result : {"uncertain", "rejected", "succeeded"},
          link   : Links \cup {None}]

AbsentRow == [status |-> "ABSENT", version |-> 0, attempts |-> 0, assigned |-> FALSE,
              lease |-> "none", failure |-> None, link |-> None]
Unheard   == [sent |-> 0, answer |-> "none", link |-> None]
Idle      == [pc |-> "idle", req |-> None, ver |-> 0, seen |-> "ABSENT",
              quote |-> FALSE, result |-> "uncertain", link |-> None]

Init ==
  /\ db      = [r \in Requests |-> AbsentRow]
  /\ enabled = [r \in Requests |-> TRUE]
  /\ ready   = [r \in Requests |-> TRUE]
  /\ fresh   = [r \in Requests |-> TRUE]
  /\ channel = [r \in Requests |-> Unheard]
  /\ run     = [w \in Workers |-> Idle]

-----------------------------------------------------------------------------
(* The compare-and-set statements of Repository.  Each is one UPDATE; when *)
(* its WHERE clause matches no row the caller gets ErrStateConflict.       *)

Claimed(row) ==
  [row EXCEPT !.status = "PROCESSING", !.assigned = TRUE, !.lease = "live",
              !.attempts = @ + 1, !.version = @ + 1]

Uncertain(row) ==
  [row EXCEPT !.status = "FAILED_RETRYABLE", !.lease = "none",
              !.failure = "QUERY_REQUIRED", !.version = @ + 1]

Final(row, code) ==
  [row EXCEPT !.status = "FAILED_FINAL", !.lease = "none",
              !.failure = code, !.version = @ + 1]

Succeeded(row, link) ==
  [row EXCEPT !.status = "SUCCEEDED", !.lease = "none",
              !.failure = None, !.link = link, !.version = @ + 1]

Withdrawn(row) ==
  [row EXCEPT !.status = "FAILED_FINAL", !.assigned = TRUE,
              !.failure = "INVALID_RESULT", !.version = @ + 1]

Matches(r, v, from) == db[r].version = v /\ db[r].status \in from

CompareAndSet(matches, r, row) ==
  db' = IF matches THEN [db EXCEPT ![r] = row] ELSE db

MarkUncertain(r, v) ==
  CompareAndSet(db[r].assigned /\ Matches(r, v, {"PROCESSING"}), r, Uncertain(db[r]))

MarkFinal(r, v, code) ==
  CompareAndSet(db[r].assigned /\ Matches(r, v, {"PROCESSING", "FAILED_RETRYABLE"}),
                r, Final(db[r], code))

\* Mutant: recovery cannot store a link.
MarkSucceededInTime(r, v, link) ==
  CompareAndSet(db[r].assigned /\ Matches(r, v, {"PROCESSING"}), r, Succeeded(db[r], link))

MarkSucceeded(r, v, link) ==
  CompareAndSet(db[r].assigned /\ Matches(r, v, {"PROCESSING", "FAILED_RETRYABLE"}),
                r, Succeeded(db[r], link))

\* Mutant: the stored version is not compared, and a claimed row is withdrawn.
RejectUnfinished(r, v) ==
  CompareAndSet(db[r].status \in {"PENDING", "PROCESSING"}, r, Withdrawn(db[r]))

RejectPending(r, v) ==
  CompareAndSet(Matches(r, v, {"PENDING"}), r, Withdrawn(db[r]))

-----------------------------------------------------------------------------
(* The rest of the system: reservation, configuration, time, the channel.  *)

\* Repository.Reserve, whose locks and replays module Reservation models.
Reserve(r) ==
  /\ db[r].status = "ABSENT"
  /\ enabled[r] /\ ready[r] /\ fresh[r]
  /\ db' = [db EXCEPT ![r] = [@ EXCEPT !.status = "PENDING", !.version = 1]]
  /\ UNCHANGED <<enabled, ready, fresh, channel, run>>

\* An administrator disables the profile, or the promoter the position, for good.
Disable(r) ==
  /\ enabled[r]
  /\ enabled' = [enabled EXCEPT ![r] = FALSE]
  /\ UNCHANGED <<db, ready, fresh, channel, run>>

\* The mapping is reconfigured, or verified by the channel integration.
SwitchReady(r) ==
  /\ ready' = [ready EXCEPT ![r] = ~@]
  /\ UNCHANGED <<db, enabled, fresh, channel, run>>

PreviewExpires(r) ==
  /\ fresh[r]
  /\ fresh' = [fresh EXCEPT ![r] = FALSE]
  /\ UNCHANGED <<db, enabled, ready, channel, run>>

LeaseExpires(r) ==
  /\ db[r].lease = "live"
  /\ db' = [db EXCEPT ![r] = [@ EXCEPT !.lease = "expired"]]
  /\ UNCHANGED <<enabled, ready, fresh, channel, run>>

Stale(me) == [me EXCEPT !.quote = FALSE]

QuoteExpires(w) ==
  /\ run[w].quote
  /\ run' = [run EXCEPT ![w] = Stale(run[w])]
  /\ UNCHANGED <<db, enabled, ready, fresh, channel>>

Decided(known, answer, link) == [known EXCEPT !.answer = answer, !.link = link]

\* The channel decides a Create it received, once per stable request id.
ChannelDecides(r) ==
  /\ channel[r].answer = "undecided"
  /\ \/ channel' = [channel EXCEPT ![r] = Decided(channel[r], "rejected", None)]
     \/ \E l \in Links :
          channel' = [channel EXCEPT ![r] = Decided(channel[r], "accepted", l)]
  /\ UNCHANGED <<db, enabled, ready, fresh, run>>

-----------------------------------------------------------------------------
(* Executor.RunPending.                                                    *)

At(me, pc) == [me EXCEPT !.pc = pc]

Goto(w, pc) == run' = [run EXCEPT ![w] = At(run[w], pc)]
Return(w)   == run' = [run EXCEPT ![w] = Idle]

\* FindByIDInternal leaves the worker with a copy of the row.
Loaded(pc, r) ==
  [Idle EXCEPT !.pc = pc, !.req = r, !.ver = db[r].version, !.seen = db[r].status]

LoadPending(w, r) ==
  /\ run[w].pc = "idle"
  /\ db[r].status = "PENDING"
  /\ run' = [run EXCEPT ![w] = Loaded("check", r)]
  /\ UNCHANGED <<db, enabled, ready, fresh, channel>>

Eligible(r) == enabled[r] /\ ready[r]

CheckEligibility(w) ==
  /\ run[w].pc = "check"
  /\ Eligible(run[w].req)
  /\ Goto(w, "preview")
  /\ UNCHANGED <<db, enabled, ready, fresh, channel>>

\* The stored preview never changes, so only its expiry can differ here.
ReadPreview(w) ==
  /\ run[w].pc = "preview"
  /\ Goto(w, IF fresh[run[w].req] THEN "requote" ELSE "withdraw")
  /\ UNCHANGED <<db, enabled, ready, fresh, channel>>

Quoted(me) == [me EXCEPT !.pc = "recheck", !.quote = TRUE]

\* The channel re-quotes; a different or expired quote withdraws the request.
Requote(w) ==
  /\ run[w].pc = "requote"
  /\ \/ /\ fresh[run[w].req]
        /\ run' = [run EXCEPT ![w] = Quoted(run[w])]
     \/ Goto(w, "withdraw")
  /\ UNCHANGED <<db, enabled, ready, fresh, channel>>

Withdraw(w) ==
  /\ run[w].pc = "withdraw"
  /\ RejectPending(run[w].req, run[w].ver)
  /\ Return(w)
  /\ UNCHANGED <<enabled, ready, fresh, channel>>

RecheckEligibility(w) ==
  /\ run[w].pc = "recheck"
  /\ Eligible(run[w].req)
  /\ Goto(w, "claim")
  /\ UNCHANGED <<db, enabled, ready, fresh, channel>>

\* RETURNING gives the worker the version it has just written.
Holding(me) == [me EXCEPT !.pc = "expiry", !.ver = @ + 1]

\* Repository.Claim: profile and position are re-read under shared locks.
Claim(w) ==
  LET r == run[w].req IN
  /\ run[w].pc = "claim"
  /\ IF enabled[r] /\ Matches(r, run[w].ver, {"PENDING"})
     THEN /\ db' = [db EXCEPT ![r] = Claimed(db[r])]
          /\ run' = [run EXCEPT ![w] = Holding(run[w])]
     ELSE Return(w) /\ UNCHANGED db
  /\ UNCHANGED <<enabled, ready, fresh, channel>>

CheckExpiry(w) ==
  /\ run[w].pc = "expiry"
  /\ Goto(w, IF fresh[run[w].req] /\ run[w].quote THEN "create" ELSE "invalid")
  /\ UNCHANGED <<db, enabled, ready, fresh, channel>>

FinishExpired(w) ==
  /\ run[w].pc = "invalid"
  /\ MarkFinal(run[w].req, run[w].ver, "INVALID_RESULT")
  /\ Return(w)
  /\ UNCHANGED <<enabled, ready, fresh, channel>>

Heard(known) ==
  [known EXCEPT !.sent = @ + 1, !.answer = IF @ = "none" THEN "undecided" ELSE @]

\* Gateway.Create leaves the process: from here on the channel may act on it.
SendCreate(w) ==
  /\ run[w].pc = "create"
  /\ channel' = [channel EXCEPT ![run[w].req] = Heard(channel[run[w].req])]
  /\ Goto(w, "await")
  /\ UNCHANGED <<db, enabled, ready, fresh>>

Concluded(me, result, link) ==
  [me EXCEPT !.pc = "persist", !.result = result, !.link = link]

Conclude(w, result, link) == run' = [run EXCEPT ![w] = Concluded(run[w], result, link)]

\* Create returns the channel's answer; an unusable link is an uncertain one.
CreateReturns(w) ==
  LET answer == channel[run[w].req] IN
  /\ run[w].pc = "await"
  /\ \/ answer.answer = "rejected" /\ Conclude(w, "rejected", None)
     \/ answer.answer = "accepted" /\ answer.link \in SafeLinks
          /\ Conclude(w, "succeeded", answer.link)
     \/ answer.answer = "accepted" /\ answer.link \notin SafeLinks
          /\ Conclude(w, "uncertain", None)
  /\ UNCHANGED <<db, enabled, ready, fresh, channel>>

\* Mutant: a timeout is taken for a rejection.
CreateFailsFinally(w) ==
  /\ run[w].pc = "await"
  /\ Conclude(w, "rejected", None)
  /\ UNCHANGED <<db, enabled, ready, fresh, channel>>

\* Create times out, is cancelled, or fails on the way, whatever the channel did.
CreateFails(w) ==
  /\ run[w].pc = "await"
  /\ Conclude(w, "uncertain", None)
  /\ UNCHANGED <<db, enabled, ready, fresh, channel>>

-----------------------------------------------------------------------------
(* Executor.Recover.                                                       *)

\* Mutant: recovery does not wait for the lease to run out.
LoadProcessing(w, r) ==
  /\ run[w].pc = "idle"
  /\ db[r].status \in {"FAILED_RETRYABLE", "PROCESSING"}
  /\ db[r].assigned
  /\ run' = [run EXCEPT ![w] = Loaded("lookup", r)]
  /\ UNCHANGED <<db, enabled, ready, fresh, channel>>

LoadUncertain(w, r) ==
  /\ run[w].pc = "idle"
  /\ \/ db[r].status = "FAILED_RETRYABLE"
     \/ db[r].status = "PROCESSING" /\ db[r].lease = "expired"
  /\ db[r].assigned
  /\ run' = [run EXCEPT ![w] = Loaded("lookup", r)]
  /\ UNCHANGED <<db, enabled, ready, fresh, channel>>

\* Lookup resolves the stable request id; a succeeded one with an unusable
\* link is reported as ErrUnavailable and leaves the row as it is.
LookupAnswers(w) ==
  LET answer == channel[run[w].req] IN
  /\ run[w].pc = "lookup"
  /\ \/ answer.answer = "rejected" /\ Conclude(w, "rejected", None)
     \/ answer.answer = "accepted" /\ answer.link \in SafeLinks
          /\ Conclude(w, "succeeded", answer.link)
     \/ answer.answer = "accepted" /\ answer.link \notin SafeLinks /\ Return(w)
  /\ UNCHANGED <<db, enabled, ready, fresh, channel>>

\* Mutant: a request the channel does not know is sent again.
LookupUnknownResends(w) ==
  /\ run[w].pc = "lookup"
  /\ Goto(w, "create")
  /\ UNCHANGED <<db, enabled, ready, fresh, channel>>

\* Lookup fails or reports UNKNOWN: only a PROCESSING row has news to record.
LookupUnknown(w) ==
  /\ run[w].pc = "lookup"
  /\ IF run[w].seen = "PROCESSING" THEN Conclude(w, "uncertain", None) ELSE Return(w)
  /\ UNCHANGED <<db, enabled, ready, fresh, channel>>

-----------------------------------------------------------------------------
(* Both entry points end by storing their result; any call may fail.       *)

Persist(w) ==
  LET r == run[w].req
      v == run[w].ver
  IN
  /\ run[w].pc = "persist"
  /\ \/ run[w].result = "rejected" /\ MarkFinal(r, v, "CHANNEL_REJECTED")
     \/ run[w].result = "uncertain" /\ MarkUncertain(r, v)
     \/ run[w].result = "succeeded" /\ MarkSucceeded(r, v, run[w].link)
  /\ Return(w)
  /\ UNCHANGED <<enabled, ready, fresh, channel>>

\* An eligibility or database error makes the entry point return, and a crash
\* ends it anywhere: in each case what it held in memory is gone.
Stop(w) ==
  /\ run[w].pc # "idle"
  /\ Return(w)
  /\ UNCHANGED <<db, enabled, ready, fresh, channel>>

Environment ==
  \E r \in Requests :
    \/ Reserve(r) \/ Disable(r) \/ SwitchReady(r)
    \/ PreviewExpires(r) \/ LeaseExpires(r) \/ ChannelDecides(r)

RunPending(w) ==
  \/ \E r \in Requests : LoadPending(w, r)
  \/ CheckEligibility(w) \/ ReadPreview(w) \/ Requote(w) \/ Withdraw(w)
  \/ RecheckEligibility(w) \/ Claim(w) \/ CheckExpiry(w) \/ FinishExpired(w)
  \/ SendCreate(w) \/ CreateReturns(w) \/ CreateFails(w)

Recover(w) ==
  \/ \E r \in Requests : LoadUncertain(w, r)
  \/ LookupAnswers(w) \/ LookupUnknown(w)

Next ==
  \/ Environment
  \/ \E w \in Workers : RunPending(w) \/ Recover(w) \/ Persist(w) \/ Stop(w) \/ QuoteExpires(w)

Spec == Init /\ [][Next]_vars

\* The recovery worker keeps offering every candidate of RecoveryCandidates to
\* Recover, an entry point that was started ends, and the channel sooner or
\* later answers a Lookup for a request it has decided.
Fairness ==
  /\ \A r \in Requests : WF_vars(LeaseExpires(r))
  /\ \A w \in Workers :
       /\ WF_vars(RunPending(w) \/ Recover(w) \/ Persist(w) \/ Stop(w))
       /\ \A r \in Requests :
            /\ SF_vars(LoadUncertain(w, r))
            /\ SF_vars(run[w].req = r /\ LookupAnswers(w))
            /\ SF_vars(run[w].req = r /\ Persist(w))

FairSpec == Spec /\ Fairness

-----------------------------------------------------------------------------
(* Properties.                                                             *)

\* Types of the variables.
TypeOK ==
  /\ db      \in [Requests -> Record]
  /\ enabled \in [Requests -> BOOLEAN]
  /\ ready   \in [Requests -> BOOLEAN]
  /\ fresh   \in [Requests -> BOOLEAN]
  /\ channel \in [Requests -> Channel]
  /\ run     \in [Workers -> Local]

\* The channel is called at most once per request, and only under a claim,
\* whatever workers crash, time out or race with recovery (executor.go:34-41).
AtMostOneCreate ==
  \A r \in Requests : channel[r].sent <= db[r].attempts /\ db[r].attempts <= 1

OutcomeOf(r) ==
  /\ db[r].status = "SUCCEEDED" =>
       /\ channel[r].answer = "accepted"
       /\ db[r].link = channel[r].link
       /\ db[r].link \in SafeLinks
  /\ db[r].failure = "CHANNEL_REJECTED" => channel[r].answer = "rejected"
  /\ db[r].failure = "INVALID_RESULT" => channel[r].sent = 0

\* The stored outcome is the channel's: a link it handed out, a rejection it
\* made, and an invalid result only when it was never called.
OutcomeIsChannels ==
  \A r \in Requests : OutcomeOf(r)

\* Worker w has claimed r and has not yet stored what came of it.
Holds(w, r) ==
  /\ run[w].req = r
  /\ run[w].seen = "PENDING"
  /\ run[w].pc \in PreCreate \cup {"await", "persist"}

\* However many workers are started on a request, one of them gets past Claim
\* (state_repository.go:49-57 rechecks the version under the row lock).
OneHolder ==
  \A r \in Requests : \A u, w \in Workers : Holds(u, r) /\ Holds(w, r) => u = w

\* While its lease runs, a claimed row is moved only by the worker holding the
\* claim: recovery keeps its hands off (executor.go:132-135).
LeaseProtectsClaim ==
  [][\A r \in Requests :
       db[r].lease = "live" /\ db'[r].status # db[r].status
         => \E w \in Workers : Holds(w, r) /\ run'[w] = Idle]_vars

\* Every row meets the CHECK constraints of migrations 000008 and 000009, so
\* no transition the code makes is refused by the database.
RowMeetsSchema ==
  \A r \in Requests :
    /\ (db[r].status = "SUCCEEDED") <=> (db[r].link # None)
    /\ (db[r].status = "PROCESSING") <=> (db[r].lease # "none")
    /\ db[r].status \notin {"ABSENT", "PENDING"} => db[r].assigned

\* A settled request never changes again, however late an answer arrives.
TerminalIsFinal ==
  [][\A r \in Requests : db[r].status \in Terminal => db'[r] = db[r]]_vars

\* An answer the channel has given and the code can use reaches the row, even
\* if every worker that heard it so far failed to store it.
Usable(r) ==
  \/ channel[r].answer = "rejected"
  \/ channel[r].answer = "accepted" /\ channel[r].link \in SafeLinks

DecidedIsSettled ==
  \A r \in Requests : Usable(r) ~> db[r].status \in Terminal

\* The promise of LinkOnce, read off the rows and the channel.
Asked(r) ==
  CASE channel[r].sent = 0             -> "no"
    [] channel[r].answer = "rejected"  -> "refused"
    [] channel[r].answer = "accepted"  -> channel[r].link
    [] OTHER                           -> "yes"

StoredResult(r) ==
  CASE db[r].status = "SUCCEEDED"            -> db[r].link
    [] db[r].failure = "CHANNEL_REJECTED"    -> "refused"
    [] db[r].failure = "INVALID_RESULT"      -> "withdrawn"
    [] OTHER                                 -> "open"

Promise == INSTANCE LinkOnce WITH
  asked  <- [r \in Requests |-> Asked(r)],
  result <- [r \in Requests |-> StoredResult(r)]

\* The workers, the row and the channel together keep that promise.
KeepsPromise == Promise!Spec

\* docs/21-promotion-center-detailed-design.md:174: a claim found expired
\* before the call is filed FAILED_FINAL and never enters query recovery.
ExpiredNeverRecovered ==
  \A w \in Workers :
    run[w].pc = "invalid" => db[run[w].req].status # "FAILED_RETRYABLE"

-----------------------------------------------------------------------------
(* The inductive strengthening of the invariants above.                    *)

\* How far a row has come fixes its version, its claims and the calls made.
RowInv(r) ==
  LET row == db[r] IN
  /\ row.status = "ABSENT"  => row.version = 0
  /\ row.status = "PENDING" => row.version = 1
  /\ row.status \in {"ABSENT", "PENDING"} =>
       row.attempts = 0 /\ row.lease = "none" /\ row.failure = None
  /\ row.status = "PROCESSING" =>
       row.version = 2 /\ row.attempts = 1 /\ row.lease # "none" /\ row.failure = None
  /\ row.status = "FAILED_RETRYABLE" =>
       /\ row.version = 3 /\ row.attempts = 1
       /\ row.lease = "none" /\ row.failure = "QUERY_REQUIRED"
  /\ row.status = "SUCCEEDED" =>
       row.attempts = 1 /\ row.lease = "none" /\ row.failure = None
  /\ row.status = "FAILED_FINAL" =>
       /\ row.attempts <= 1 /\ row.lease = "none"
       /\ row.failure \in {"CHANNEL_REJECTED", "INVALID_RESULT"}
  /\ row.status \in Terminal => row.version >= 2
  /\ row.link # None <=> row.status = "SUCCEEDED"
  /\ row.assigned <=> row.status \notin {"ABSENT", "PENDING"}
  /\ channel[r].sent <= row.attempts
  /\ channel[r].answer = "none" <=> channel[r].sent = 0

\* What a worker's local variables say about the row and the channel.
LocalInv(me) ==
  LET row == db[me.req]
      known == channel[me.req]
  IN
  /\ me.pc # "idle" => me.req \in Requests
  /\ me.pc \in PreClaim =>
       me.ver = 1 /\ me.seen = "PENDING" /\ row.status # "ABSENT"
  /\ me.pc \in PreCreate =>
       /\ me.ver = 2 /\ me.seen = "PENDING" /\ known.sent = 0
       /\ row.status \in {"PROCESSING", "FAILED_RETRYABLE"}
  /\ me.pc = "await" => me.seen = "PENDING"
  /\ me.pc \in {"await", "persist"} /\ me.seen = "PENDING" =>
       me.ver = 2 /\ known.sent = 1
  /\ me.pc = "lookup" => me.seen \in {"PROCESSING", "FAILED_RETRYABLE"}
  /\ me.pc \in {"lookup", "persist"} /\ me.seen # "PENDING" =>
       row.attempts = 1 /\ row.lease # "live"
  /\ me.pc = "persist" /\ me.result = "succeeded" =>
       known.answer = "accepted" /\ me.link = known.link /\ me.link \in SafeLinks
  /\ me.pc = "persist" /\ me.result = "rejected" => known.answer = "rejected"

IInv ==
  /\ TypeOK
  /\ \A r \in Requests : RowInv(r)
  /\ \A w \in Workers : LocalInv(run[w])
  /\ OneHolder
  /\ OutcomeIsChannels

=============================================================================
