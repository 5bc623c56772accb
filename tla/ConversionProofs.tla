-------------------------- MODULE ConversionProofs --------------------------
(***************************************************************************)
(* Theorems about Conversion for any sets of requests, workers and links.  *)
(* IInv is inductive; the safety properties follow from it, and so does    *)
(* that the lifecycle implements LinkOnce.                                 *)
(***************************************************************************)
EXTENDS Conversion, TLAPS

-----------------------------------------------------------------------------
(* Values and the operators that build rows and local states.              *)

LEMMA Values ==
  /\ {"ABSENT", "PENDING", "PROCESSING", "FAILED_RETRYABLE", "SUCCEEDED", "FAILED_FINAL"}
       \subseteq Status
  /\ {None, "QUERY_REQUIRED", "CHANNEL_REJECTED", "INVALID_RESULT"} \subseteq Failure
  /\ {"idle", "check", "preview", "requote", "recheck", "claim", "withdraw", "expiry",
      "invalid", "create", "await", "lookup", "persist"} \subseteq Step
BY DEF Status, Terminal, Failure, Step, PreClaim, PreCreate, Querying

LEMMA RowOperators ==
  ASSUME NEW row \in Record
  PROVE  /\ Claimed(row) \in Record
         /\ Uncertain(row) \in Record
         /\ Withdrawn(row) \in Record
         /\ \A code \in Failure : Final(row, code) \in Record
         /\ \A link \in Links : Succeeded(row, link) \in Record
<1>1. row.version + 1 \in Nat /\ row.attempts + 1 \in Nat
  BY DEF Record
<1>2. Claimed(row) \in Record
  BY <1>1, Values DEF Claimed, Record
<1>3. Uncertain(row) \in Record
  BY <1>1, Values DEF Uncertain, Record
<1>4. Withdrawn(row) \in Record
  BY <1>1, Values DEF Withdrawn, Record
<1>5. ASSUME NEW code \in Failure PROVE Final(row, code) \in Record
  BY <1>1, Values DEF Final, Record
<1>6. ASSUME NEW link \in Links PROVE Succeeded(row, link) \in Record
  BY <1>1, Values DEF Succeeded, Record
<1>7. QED
  BY <1>2, <1>3, <1>4, <1>5, <1>6

LEMMA ChannelOperators ==
  ASSUME NEW known \in Channel
  PROVE  /\ Heard(known) \in Channel
         /\ Decided(known, "rejected", None) \in Channel
         /\ \A l \in Links : Decided(known, "accepted", l) \in Channel
<1>1. known.sent + 1 \in Nat
  BY DEF Channel
<1>2. QED
  BY <1>1 DEF Channel, Heard, Decided

LEMMA LocalOperators ==
  ASSUME NEW me \in Local
  PROVE  /\ Idle \in Local
         /\ \A pc \in Step : At(me, pc) \in Local
         /\ Stale(me) \in Local
         /\ Quoted(me) \in Local
         /\ Holding(me) \in Local
         /\ \A result \in {"uncertain", "rejected", "succeeded"}, link \in Links \cup {None} :
              Concluded(me, result, link) \in Local
<1>1. Idle \in Local
  BY Values DEF Idle, Local
<1>2. ASSUME NEW pc \in Step PROVE At(me, pc) \in Local
  BY DEF At, Local
<1>3. Stale(me) \in Local /\ Quoted(me) \in Local
  BY Values DEF Stale, Quoted, Local
<1>4. me.ver + 1 \in Nat
  BY DEF Local
<1>5. Holding(me) \in Local
  BY <1>4, Values DEF Holding, Local
<1>6. ASSUME NEW result \in {"uncertain", "rejected", "succeeded"},
             NEW link \in Links \cup {None}
      PROVE  Concluded(me, result, link) \in Local
  BY Values DEF Concluded, Local
<1>7. QED
  BY <1>1, <1>2, <1>3, <1>5, <1>6

LEMMA LoadedIsLocal ==
  ASSUME TypeOK, NEW r \in Requests, NEW pc \in {"check", "lookup"}
  PROVE  Loaded(pc, r) \in Local
<1>1. db[r] \in Record
  BY DEF TypeOK
<1>2. db[r].version \in Nat /\ db[r].status \in Status
  BY <1>1 DEF Record
<1>3. QED
  BY <1>2, Values DEF Loaded, Idle, Local

-----------------------------------------------------------------------------
(* Types are preserved by every step.                                      *)

LEMMA TypeEstablished == Init => TypeOK
<1>1. AbsentRow \in Record
  BY Values DEF AbsentRow, Record
<1>2. Unheard \in Channel /\ Idle \in Local
  BY Values DEF Unheard, Channel, Idle, Local
<1>3. QED
  BY <1>1, <1>2 DEF Init, TypeOK

\* A busy worker works on a request.
LEMMA BusyHasRequest ==
  ASSUME IInv, NEW w \in Workers, run[w].pc # "idle"
  PROVE  run[w].req \in Requests
BY DEF IInv, LocalInv

LEMMA MarkTypes ==
  ASSUME TypeOK, NEW r \in Requests, NEW v
  PROVE  /\ MarkUncertain(r, v) => db' \in [Requests -> Record]
         /\ \A code \in Failure : MarkFinal(r, v, code) => db' \in [Requests -> Record]
         /\ \A link \in Links : MarkSucceeded(r, v, link) => db' \in [Requests -> Record]
         /\ RejectPending(r, v) => db' \in [Requests -> Record]
<1>1. db \in [Requests -> Record] /\ db[r] \in Record
  BY DEF TypeOK
<1>2. QED
  BY <1>1, RowOperators
  DEF MarkUncertain, MarkFinal, MarkSucceeded, RejectPending, CompareAndSet

LEMMA TypeStep == IInv /\ [Next]_vars => TypeOK'
<1> SUFFICES ASSUME IInv, [Next]_vars PROVE TypeOK'
  OBVIOUS
<1>0. TypeOK
  BY DEF IInv
<1>1. CASE Environment
  <2>1. ASSUME NEW r \in Requests, Reserve(r) PROVE TypeOK'
    <3>1. [db[r] EXCEPT !.status = "PENDING", !.version = 1] \in Record
      BY <1>0, Values DEF TypeOK, Record
    <3>2. QED
      BY <1>0, <2>1, <3>1 DEF TypeOK, Reserve
  <2>2. ASSUME NEW r \in Requests, Disable(r) \/ SwitchReady(r) \/ PreviewExpires(r)
        PROVE  TypeOK'
    BY <1>0, <2>2 DEF TypeOK, Disable, SwitchReady, PreviewExpires
  <2>3. ASSUME NEW r \in Requests, LeaseExpires(r) PROVE TypeOK'
    <3>1. [db[r] EXCEPT !.lease = "expired"] \in Record
      BY <1>0 DEF TypeOK, Record
    <3>2. QED
      BY <1>0, <2>3, <3>1 DEF TypeOK, LeaseExpires
  <2>4. ASSUME NEW r \in Requests, ChannelDecides(r) PROVE TypeOK'
    <3>1. /\ Decided(channel[r], "rejected", None) \in Channel
          /\ \A l \in Links : Decided(channel[r], "accepted", l) \in Channel
      BY <1>0, ChannelOperators DEF TypeOK
    <3>2. channel' \in [Requests -> Channel]
      BY <1>0, <2>4, <3>1 DEF TypeOK, ChannelDecides
    <3>3. QED
      BY <1>0, <2>4, <3>2 DEF TypeOK, ChannelDecides
  <2>5. QED
    BY <1>1, <2>1, <2>2, <2>3, <2>4 DEF Environment
<1>2. ASSUME NEW w \in Workers, RunPending(w) PROVE TypeOK'
  <2>0. run[w] \in Local /\ (run[w].pc # "idle" => run[w].req \in Requests)
    BY <1>0, BusyHasRequest DEF TypeOK
  <2>1. ASSUME NEW r \in Requests, LoadPending(w, r) PROVE TypeOK'
    BY <1>0, <2>1, LoadedIsLocal DEF TypeOK, LoadPending
  <2>2. CASE CheckEligibility(w) \/ ReadPreview(w) \/ Requote(w)
             \/ RecheckEligibility(w) \/ CheckExpiry(w)
    <3>1. \A pc \in Step : At(run[w], pc) \in Local
      BY <2>0, LocalOperators
    <3>2. Quoted(run[w]) \in Local
      BY <2>0, LocalOperators
    <3>3. run' \in [Workers -> Local]
      BY <1>0, <2>2, <3>1, <3>2, Values
      DEF TypeOK, CheckEligibility, ReadPreview, Requote, RecheckEligibility, CheckExpiry, Goto
    <3>4. QED
      BY <1>0, <2>2, <3>3
      DEF TypeOK, CheckEligibility, ReadPreview, Requote, RecheckEligibility, CheckExpiry
  <2>3. CASE Withdraw(w)
    BY <1>0, <2>0, <2>3, LocalOperators, MarkTypes DEF TypeOK, Withdraw, Return
  <2>4. CASE Claim(w)
    BY <1>0, <2>0, <2>4, LocalOperators, RowOperators DEF TypeOK, Claim, Return
  <2>5. CASE FinishExpired(w)
    BY <1>0, <2>0, <2>5, LocalOperators, MarkTypes, Values DEF TypeOK, FinishExpired, Return
  <2>6. CASE SendCreate(w)
    BY <1>0, <2>0, <2>6, LocalOperators, ChannelOperators, Values DEF TypeOK, SendCreate, Goto
  <2>7. CASE CreateReturns(w) \/ CreateFails(w)
    <3>1. \A l \in SafeLinks : l \in Links
      BY ConversionAssumption
    <3>2. run' \in [Workers -> Local]
      BY <1>0, <2>0, <2>7, <3>1, LocalOperators
      DEF TypeOK, CreateReturns, CreateFails, Conclude
    <3>3. QED
      BY <1>0, <2>7, <3>2 DEF TypeOK, CreateReturns, CreateFails
  <2>8. QED
    BY <1>2, <2>1, <2>2, <2>3, <2>4, <2>5, <2>6, <2>7 DEF RunPending
<1>3. ASSUME NEW w \in Workers, Recover(w) PROVE TypeOK'
  <2>0. run[w] \in Local
    BY <1>0 DEF TypeOK
  <2>1. ASSUME NEW r \in Requests, LoadUncertain(w, r) PROVE TypeOK'
    BY <1>0, <2>1, LoadedIsLocal DEF TypeOK, LoadUncertain
  <2>2. CASE LookupAnswers(w) \/ LookupUnknown(w)
    <3>1. /\ Idle \in Local
          /\ \A link \in Links \cup {None} :
               Concluded(run[w], "succeeded", link) \in Local
          /\ Concluded(run[w], "rejected", None) \in Local
          /\ Concluded(run[w], "uncertain", None) \in Local
      BY <2>0, LocalOperators
    <3>2. run' \in [Workers -> Local]
      BY <1>0, <2>2, <3>1, ConversionAssumption
      DEF TypeOK, LookupAnswers, LookupUnknown, Conclude, Return
    <3>3. QED
      BY <1>0, <2>2, <3>2 DEF TypeOK, LookupAnswers, LookupUnknown
  <2>3. QED
    BY <1>3, <2>1, <2>2 DEF Recover
<1>4. ASSUME NEW w \in Workers, Persist(w) PROVE TypeOK'
  <2>1. run[w] \in Local /\ run[w].req \in Requests
    BY <1>0, <1>4, BusyHasRequest DEF TypeOK, Persist
  <2>2. run[w].result = "succeeded" => run[w].link \in Links
    BY <1>4, ConversionAssumption DEF IInv, LocalInv, Persist
  <2>3. QED
    BY <1>0, <1>4, <2>1, <2>2, LocalOperators, MarkTypes, Values DEF TypeOK, Persist, Return
<1>5. ASSUME NEW w \in Workers, Stop(w) \/ QuoteExpires(w) PROVE TypeOK'
  BY <1>0, <1>5, LocalOperators DEF TypeOK, Stop, QuoteExpires, Return
<1>6. CASE UNCHANGED vars
  BY <1>0, <1>6 DEF TypeOK, vars
<1>7. QED
  BY <1>1, <1>2, <1>3, <1>4, <1>5, <1>6 DEF Next

-----------------------------------------------------------------------------
(* The rest of IInv, first for the steps that leave row and channel alone. *)

Unstored == <<db, channel>>

StepInv ==
  /\ \A r \in Requests : RowInv(r)
  /\ \A w \in Workers : LocalInv(run[w])
  /\ OneHolder
  /\ OutcomeIsChannels

LEMMA LocalStep ==
  ASSUME IInv, NEW w \in Workers, NEW me \in Local,
         run' = [run EXCEPT ![w] = me],
         UNCHANGED Unstored,
         LocalInv(me),
         me.seen = "PENDING" /\ me.pc \in PreCreate \cup {"await", "persist"}
           => Holds(w, me.req)
  PROVE  StepInv'
<1>1. TypeOK /\ run \in [Workers -> Local]
  BY DEF IInv, TypeOK
<1>2. (\A r \in Requests : RowInv(r))' /\ OutcomeIsChannels'
  BY DEF IInv, RowInv, OutcomeIsChannels, OutcomeOf, Unstored
<1>3. ASSUME NEW u \in Workers PROVE LocalInv(run[u])'
  BY <1>1 DEF IInv, LocalInv, Unstored
<1>4. OneHolder'
  BY <1>1 DEF IInv, OneHolder, Holds
<1>5. QED
  BY <1>2, <1>3, <1>4 DEF StepInv

LEMMA IdleStep ==
  ASSUME IInv, NEW w \in Workers, run' = [run EXCEPT ![w] = Idle], UNCHANGED Unstored
  PROVE  StepInv'
<1>1. Idle \in Local
  BY Values DEF Idle, Local
<1>2. LocalInv(Idle)
  BY DEF Idle, LocalInv, PreClaim, PreCreate
<1>3. Idle.pc \notin PreCreate \cup {"await", "persist"}
  BY DEF Idle, PreCreate
<1>4. QED
  BY <1>1, <1>2, <1>3, LocalStep

LEMMA LocalFields ==
  ASSUME NEW me \in Local
  PROVE  /\ \A pc \in Step :
              /\ At(me, pc).pc = pc /\ At(me, pc).req = me.req /\ At(me, pc).ver = me.ver
              /\ At(me, pc).seen = me.seen /\ At(me, pc).result = me.result
              /\ At(me, pc).link = me.link
         /\ Stale(me).pc = me.pc /\ Stale(me).req = me.req /\ Stale(me).ver = me.ver
         /\ Stale(me).seen = me.seen /\ Stale(me).result = me.result
         /\ Stale(me).link = me.link
         /\ Quoted(me).pc = "recheck" /\ Quoted(me).req = me.req /\ Quoted(me).ver = me.ver
         /\ Quoted(me).seen = me.seen
         /\ \A result, link :
              LET new == Concluded(me, result, link) IN
              /\ new.pc = "persist" /\ new.req = me.req /\ new.ver = me.ver
              /\ new.seen = me.seen /\ new.result = result /\ new.link = link
BY DEF At, Stale, Quoted, Concluded, Local

LEMMA LoadStep ==
  ASSUME IInv, NEW w \in Workers, NEW r \in Requests, LoadPending(w, r) \/ LoadUncertain(w, r)
  PROVE  StepInv'
<1>1. TypeOK /\ RowInv(r) /\ db[r] \in Record
  BY DEF IInv, TypeOK
<1>2. PICK pc \in {"check", "lookup"} :
        /\ run' = [run EXCEPT ![w] = Loaded(pc, r)]
        /\ pc = "check" => db[r].status = "PENDING"
        /\ pc = "lookup" => \/ db[r].status = "FAILED_RETRYABLE"
                            \/ db[r].status = "PROCESSING" /\ db[r].lease = "expired"
  BY DEF LoadPending, LoadUncertain
<1>3. Loaded(pc, r) \in Local
  BY <1>1, LoadedIsLocal
<1>4. /\ Loaded(pc, r).pc = pc /\ Loaded(pc, r).req = r
      /\ Loaded(pc, r).ver = db[r].version /\ Loaded(pc, r).seen = db[r].status
  BY DEF Loaded, Idle
<1>5. LocalInv(Loaded(pc, r))
  BY <1>1, <1>2, <1>4 DEF LocalInv, RowInv, PreClaim, PreCreate
<1>6. Loaded(pc, r).pc \notin PreCreate \cup {"await", "persist"}
  BY <1>4 DEF PreCreate
<1>7. UNCHANGED Unstored
  BY DEF LoadPending, LoadUncertain, Unstored
<1>8. QED
  BY <1>2, <1>3, <1>5, <1>6, <1>7, LocalStep

LEMMA GotoStep ==
  ASSUME IInv, NEW w \in Workers,
         \/ CheckEligibility(w) \/ ReadPreview(w) \/ Requote(w)
         \/ RecheckEligibility(w) \/ CheckExpiry(w)
  PROVE  StepInv'
<1>1. run[w] \in Local /\ LocalInv(run[w]) /\ run[w].pc # "idle"
  BY DEF IInv, TypeOK, CheckEligibility, ReadPreview, Requote, RecheckEligibility, CheckExpiry
<1>2. UNCHANGED Unstored
  BY DEF Unstored, CheckEligibility, ReadPreview, Requote, RecheckEligibility, CheckExpiry
<1>3. CASE run' = [run EXCEPT ![w] = Quoted(run[w])] /\ run[w].pc = "requote"
  <2>1. LocalInv(Quoted(run[w]))
    BY <1>1, <1>3, LocalFields DEF LocalInv, PreClaim, PreCreate
  <2>2. Quoted(run[w]) \in Local /\ Quoted(run[w]).pc \notin PreCreate \cup {"await", "persist"}
    BY <1>1, LocalOperators, LocalFields DEF PreCreate
  <2>3. QED
    BY <1>2, <1>3, <2>1, <2>2, LocalStep
<1>4. ASSUME NEW pc \in PreClaim, run[w].pc \in PreClaim,
             run' = [run EXCEPT ![w] = At(run[w], pc)]
      PROVE  StepInv'
  <2>0. pc \in Step /\ pc \notin PreCreate \cup {"await", "persist"} /\ pc # "lookup"
    BY DEF Step, PreClaim, PreCreate
  <2>1. LocalInv(At(run[w], pc))
    BY <1>1, <1>4, <2>0, LocalFields DEF LocalInv, PreClaim, PreCreate
  <2>2. At(run[w], pc) \in Local /\ At(run[w], pc).pc = pc
    BY <1>1, <2>0, LocalOperators, LocalFields
  <2>3. QED
    BY <1>2, <1>4, <2>0, <2>1, <2>2, LocalStep
<1>5. ASSUME NEW pc \in {"create", "invalid"}, run[w].pc = "expiry",
             run' = [run EXCEPT ![w] = At(run[w], pc)]
      PROVE  StepInv'
  <2>0. pc \in Step
    BY Values
  <2>1. LocalInv(At(run[w], pc))
    BY <1>1, <1>5, <2>0, LocalFields DEF LocalInv, PreClaim, PreCreate
  <2>2. At(run[w], pc) \in Local /\ At(run[w], pc).req = run[w].req
    BY <1>1, <2>0, LocalOperators, LocalFields
  <2>3. Holds(w, run[w].req)
    BY <1>1, <1>5 DEF Holds, LocalInv, PreCreate
  <2>4. QED
    BY <1>2, <1>5, <2>1, <2>2, <2>3, LocalStep
<1>6. QED
  BY <1>3, <1>4, <1>5
  DEF CheckEligibility, ReadPreview, Requote, RecheckEligibility, CheckExpiry, Goto, PreClaim

LEMMA ConcludeStep ==
  ASSUME IInv, NEW w \in Workers,
         CreateReturns(w) \/ CreateFails(w) \/ LookupAnswers(w) \/ LookupUnknown(w)
  PROVE  StepInv'
<1>1. run[w] \in Local /\ LocalInv(run[w]) /\ run[w].pc \in {"await", "lookup"}
  BY DEF IInv, TypeOK, CreateReturns, CreateFails, LookupAnswers, LookupUnknown
<1>2. UNCHANGED Unstored
  BY DEF Unstored, CreateReturns, CreateFails, LookupAnswers, LookupUnknown
<1>3. ASSUME NEW result \in {"uncertain", "rejected", "succeeded"}, NEW link \in Links \cup {None},
             run' = [run EXCEPT ![w] = Concluded(run[w], result, link)],
             result = "succeeded" =>
               /\ channel[run[w].req].answer = "accepted"
               /\ link = channel[run[w].req].link /\ link \in SafeLinks,
             result = "rejected" => channel[run[w].req].answer = "rejected"
      PROVE  StepInv'
  <2>1. LocalInv(Concluded(run[w], result, link))
    BY <1>1, <1>3, LocalFields DEF LocalInv, PreClaim, PreCreate
  <2>2. Concluded(run[w], result, link) \in Local
    BY <1>1, LocalOperators
  <2>3. Concluded(run[w], result, link).seen = "PENDING" => Holds(w, run[w].req)
    BY <1>1, LocalFields DEF Holds, LocalInv
  <2>4. Concluded(run[w], result, link).req = run[w].req
    BY <1>1, LocalFields
  <2>5. QED
    BY <1>2, <1>3, <2>1, <2>2, <2>3, <2>4, LocalStep
<1>4. ASSUME NEW a \in {"await", "lookup"},
             \/ Conclude(w, "uncertain", None)
             \/ channel[run[w].req].answer = "rejected" /\ Conclude(w, "rejected", None)
             \/ /\ channel[run[w].req].answer = "accepted"
                /\ channel[run[w].req].link \in SafeLinks
                /\ Conclude(w, "succeeded", channel[run[w].req].link)
      PROVE  StepInv'
  BY <1>3, <1>4, ConversionAssumption DEF Conclude
<1>5. CASE Return(w)
  BY <1>2, <1>5, IdleStep DEF Return
<1>6. QED
  BY <1>4, <1>5 DEF CreateReturns, CreateFails, LookupAnswers, LookupUnknown

LEMMA StopStep ==
  ASSUME IInv, NEW w \in Workers, Stop(w) \/ QuoteExpires(w)
  PROVE  StepInv'
<1>1. run[w] \in Local /\ LocalInv(run[w])
  BY DEF IInv, TypeOK
<1>2. UNCHANGED Unstored
  BY DEF Unstored, Stop, QuoteExpires
<1>3. CASE Stop(w)
  BY <1>2, <1>3, IdleStep DEF Stop, Return
<1>4. CASE QuoteExpires(w)
  <2>1. LocalInv(Stale(run[w]))
    BY <1>1, LocalFields DEF LocalInv
  <2>2. Stale(run[w]) \in Local
    BY <1>1, LocalOperators
  <2>3. Stale(run[w]).seen = "PENDING" /\ Stale(run[w]).pc \in PreCreate \cup {"await", "persist"}
          => Holds(w, Stale(run[w]).req)
    BY <1>1, LocalFields DEF Holds
  <2>4. QED
    BY <1>2, <1>4, <2>1, <2>2, <2>3, LocalStep DEF QuoteExpires
<1>5. QED
  BY <1>3, <1>4

-----------------------------------------------------------------------------
(* Steps that change one row, or what the channel knows of one request.    *)

LEMMA RowFields ==
  ASSUME NEW row \in Record
  PROVE  /\ Claimed(row).status = "PROCESSING" /\ Claimed(row).lease = "live"
         /\ Claimed(row).version = row.version + 1 /\ Claimed(row).attempts = row.attempts + 1
         /\ Claimed(row).assigned /\ Claimed(row).failure = row.failure
         /\ Claimed(row).link = row.link
         /\ Uncertain(row).status = "FAILED_RETRYABLE" /\ Uncertain(row).lease = "none"
         /\ Uncertain(row).version = row.version + 1 /\ Uncertain(row).attempts = row.attempts
         /\ Uncertain(row).assigned = row.assigned /\ Uncertain(row).failure = "QUERY_REQUIRED"
         /\ Uncertain(row).link = row.link
         /\ Withdrawn(row).status = "FAILED_FINAL" /\ Withdrawn(row).lease = row.lease
         /\ Withdrawn(row).version = row.version + 1 /\ Withdrawn(row).attempts = row.attempts
         /\ Withdrawn(row).assigned /\ Withdrawn(row).failure = "INVALID_RESULT"
         /\ Withdrawn(row).link = row.link
         /\ \A code \in Failure :
              LET new == Final(row, code) IN
              /\ new.status = "FAILED_FINAL" /\ new.lease = "none"
              /\ new.version = row.version + 1 /\ new.attempts = row.attempts
              /\ new.assigned = row.assigned /\ new.failure = code /\ new.link = row.link
         /\ \A link \in Links :
              LET new == Succeeded(row, link) IN
              /\ new.status = "SUCCEEDED" /\ new.lease = "none"
              /\ new.version = row.version + 1 /\ new.attempts = row.attempts
              /\ new.assigned = row.assigned /\ new.failure = None /\ new.link = link
BY DEF Claimed, Uncertain, Withdrawn, Final, Succeeded, Record

LEMMA StoreStep ==
  ASSUME IInv, NEW r \in Requests, NEW row \in Record, NEW known \in Channel,
         db' = [db EXCEPT ![r] = row],
         channel' = [channel EXCEPT ![r] = known],
         run' \in [Workers -> Local],
         RowInv(r)', OutcomeOf(r)', OneHolder',
         \A u \in Workers :
           run'[u] # run[u] \/ (run[u].pc # "idle" /\ run[u].req = r) => LocalInv(run[u])'
  PROVE  StepInv'
<1>1. db \in [Requests -> Record] /\ channel \in [Requests -> Channel]
  BY DEF IInv, TypeOK
<1>2. (\A q \in Requests : RowInv(q))'
  BY <1>1 DEF IInv, RowInv
<1>3. OutcomeIsChannels'
  BY <1>1 DEF IInv, OutcomeIsChannels, OutcomeOf
<1>4. ASSUME NEW u \in Workers, run'[u] = run[u], run[u].req # r PROVE LocalInv(run[u])'
  BY <1>1, <1>4 DEF IInv, LocalInv
<1>5. ASSUME NEW u \in Workers, run[u].pc = "idle", run'[u] = run[u] PROVE LocalInv(run[u])'
  BY <1>5 DEF LocalInv, PreClaim, PreCreate
<1>6. QED
  BY <1>2, <1>3, <1>4, <1>5 DEF StepInv

LEMMA QuietStep ==
  ASSUME IInv, UNCHANGED <<db, channel, run>>
  PROVE  StepInv'
BY DEF IInv, StepInv, RowInv, LocalInv, OneHolder, Holds, OutcomeIsChannels, OutcomeOf

LEMMA EnvironmentStep ==
  ASSUME IInv, Environment
  PROVE  StepInv'
<1>1. PICK r \in Requests :
        \/ Reserve(r) \/ Disable(r) \/ SwitchReady(r)
        \/ PreviewExpires(r) \/ LeaseExpires(r) \/ ChannelDecides(r)
  BY DEF Environment
<1>2. /\ db[r] \in Record /\ channel[r] \in Channel /\ run \in [Workers -> Local]
      /\ db \in [Requests -> Record] /\ channel \in [Requests -> Channel]
      /\ RowInv(r) /\ OutcomeOf(r) /\ OneHolder
      /\ \A u \in Workers : LocalInv(run[u])
  BY DEF IInv, TypeOK, OutcomeIsChannels
<1>3. run' = run => OneHolder'
  BY <1>2 DEF OneHolder, Holds
<1>4. CASE Reserve(r)
  <2> DEFINE row == [db[r] EXCEPT !.status = "PENDING", !.version = 1]
  <2>1. /\ row.status = "PENDING" /\ row.version = 1 /\ row.attempts = db[r].attempts
        /\ row.lease = db[r].lease /\ row.failure = db[r].failure /\ row.link = db[r].link
        /\ row.assigned = db[r].assigned
    BY <1>2 DEF Record
  <2>2. row \in Record
    BY <1>2, Values DEF Record
  <2>3. db' = [db EXCEPT ![r] = row] /\ channel' = [channel EXCEPT ![r] = channel[r]] /\ run' = run
    BY <1>2, <1>4 DEF Reserve
  <2> HIDE DEF row
  <2>4. db'[r] = row /\ channel'[r] = channel[r]
    BY <1>2, <2>3
  <2>5. RowInv(r)' /\ OutcomeOf(r)'
    BY <1>2, <1>4, <2>1, <2>4 DEF Reserve, RowInv, OutcomeOf, Terminal
  <2>6. ASSUME NEW u \in Workers, run[u].pc # "idle", run[u].req = r PROVE LocalInv(run[u])'
    BY <1>2, <1>4, <2>1, <2>3, <2>4, <2>6 DEF Reserve, RowInv, LocalInv
  <2>7. QED
    BY <1>2, <1>3, <2>2, <2>3, <2>5, <2>6, StoreStep
<1>5. CASE Disable(r) \/ SwitchReady(r) \/ PreviewExpires(r)
  BY <1>5, QuietStep DEF Disable, SwitchReady, PreviewExpires
<1>6. CASE LeaseExpires(r)
  <2> DEFINE row == [db[r] EXCEPT !.lease = "expired"]
  <2>1. /\ row.status = db[r].status /\ row.version = db[r].version
        /\ row.attempts = db[r].attempts /\ row.lease = "expired"
        /\ row.failure = db[r].failure /\ row.link = db[r].link /\ row.assigned = db[r].assigned
    BY <1>2 DEF Record
  <2>2. row \in Record
    BY <1>2 DEF Record
  <2>3. db' = [db EXCEPT ![r] = row] /\ channel' = [channel EXCEPT ![r] = channel[r]] /\ run' = run
    BY <1>2, <1>6 DEF LeaseExpires
  <2> HIDE DEF row
  <2>4. db'[r] = row /\ channel'[r] = channel[r]
    BY <1>2, <2>3
  <2>5. RowInv(r)' /\ OutcomeOf(r)'
    BY <1>2, <1>6, <2>1, <2>4 DEF LeaseExpires, RowInv, OutcomeOf
  <2>6. ASSUME NEW u \in Workers, run[u].pc # "idle", run[u].req = r PROVE LocalInv(run[u])'
    BY <1>2, <2>1, <2>3, <2>4, <2>6 DEF LocalInv
  <2>7. QED
    BY <1>2, <1>3, <2>2, <2>3, <2>5, <2>6, StoreStep
<1>7. CASE ChannelDecides(r)
  <2>1. PICK answer \in {"rejected", "accepted"}, link \in Links \cup {None} :
          /\ answer = "accepted" => link \in Links
          /\ answer = "rejected" => link = None
          /\ channel' = [channel EXCEPT ![r] = Decided(channel[r], answer, link)]
    BY <1>7 DEF ChannelDecides
  <2> DEFINE known == Decided(channel[r], answer, link)
  <2>2. known \in Channel
    BY <1>2, <2>1, ChannelOperators
  <2>3. known.sent = channel[r].sent /\ known.answer = answer /\ known.link = link
    BY <1>2 DEF Decided, Channel
  <2>4. db' = [db EXCEPT ![r] = db[r]] /\ run' = run /\ channel' = [channel EXCEPT ![r] = known]
    BY <1>2, <1>7, <2>1 DEF ChannelDecides
  <2> HIDE DEF known
  <2>5. db'[r] = db[r] /\ channel'[r] = known
    BY <1>2, <2>4
  <2>6. RowInv(r)' /\ OutcomeOf(r)'
    BY <1>2, <1>7, <2>1, <2>3, <2>5 DEF ChannelDecides, RowInv, OutcomeOf
  <2>7. ASSUME NEW u \in Workers, run[u].pc # "idle", run[u].req = r PROVE LocalInv(run[u])'
    BY <1>2, <1>7, <2>1, <2>3, <2>4, <2>5, <2>7 DEF ChannelDecides, LocalInv
  <2>8. QED
    BY <1>2, <1>3, <2>2, <2>4, <2>6, <2>7, StoreStep
<1>8. QED
  BY <1>1, <1>4, <1>5, <1>6, <1>7

\* A worker stores a new row and returns; what remains is to see that the row
\* is sound and that the other workers on the same request can live with it.
LEMMA ReturnStep ==
  ASSUME IInv, NEW w \in Workers, NEW r \in Requests, NEW row \in Record,
         db' = [db EXCEPT ![r] = row],
         run' = [run EXCEPT ![w] = Idle],
         UNCHANGED channel,
         RowInv(r)', OutcomeOf(r)',
         \A u \in Workers : u # w /\ run[u].pc # "idle" /\ run[u].req = r => LocalInv(run[u])'
  PROVE  StepInv'
<1>1. /\ run \in [Workers -> Local] /\ Idle \in Local /\ OneHolder
      /\ channel \in [Requests -> Channel]
  BY Values DEF IInv, TypeOK, Idle, Local
<1>2. OneHolder'
  BY <1>1 DEF OneHolder, Holds, Idle, PreCreate
<1>3. LocalInv(Idle)'
  BY DEF LocalInv, Idle, PreClaim, PreCreate
<1>4. channel' = [channel EXCEPT ![r] = channel[r]] /\ channel[r] \in Channel
  BY <1>1
<1>5. QED
  BY <1>1, <1>2, <1>3, <1>4, StoreStep

LEMMA WithdrawStep ==
  ASSUME IInv, NEW w \in Workers, Withdraw(w)
  PROVE  StepInv'
<1>0. PICK r \in Requests : r = run[w].req
  BY BusyHasRequest DEF Withdraw
<1> DEFINE row == Withdrawn(db[r])
<1>1. /\ db[r] \in Record /\ RowInv(r) /\ OutcomeOf(r)
      /\ db \in [Requests -> Record]
      /\ \A u \in Workers : LocalInv(run[u])
  BY DEF IInv, TypeOK, OutcomeIsChannels
<1>2. run' = [run EXCEPT ![w] = Idle] /\ UNCHANGED channel
  BY DEF Withdraw, Return
<1>3. CASE db' = db
  BY <1>2, <1>3, IdleStep DEF Unstored
<1>4. CASE db' # db
  <2>1. db[r].status = "PENDING" /\ db' = [db EXCEPT ![r] = row]
    BY <1>0, <1>4 DEF Withdraw, RejectPending, CompareAndSet, Matches
  <2>2. row \in Record
    BY <1>1, RowOperators
  <2>3. /\ row.status = "FAILED_FINAL" /\ row.lease = db[r].lease
        /\ row.version = db[r].version + 1 /\ row.attempts = db[r].attempts
        /\ row.assigned /\ row.failure = "INVALID_RESULT" /\ row.link = db[r].link
    BY <1>1, RowFields
  <2> HIDE DEF row
  <2>4. db'[r] = row
    BY <1>1, <2>1
  <2>5. channel[r].sent = 0 /\ channel[r].answer = "none"
    BY <1>1, <2>1 DEF RowInv, IInv, TypeOK, Channel
  <2>6. /\ row.version = 2 /\ row.attempts = 0 /\ row.lease = "none" /\ row.link = None
    BY <1>1, <2>1, <2>3 DEF RowInv
  <2>7. RowInv(r)'
    BY <1>2, <2>3, <2>4, <2>5, <2>6 DEF RowInv, Terminal
  <2>8. OutcomeOf(r)'
    BY <1>2, <2>3, <2>4, <2>5 DEF OutcomeOf
  <2>9. ASSUME NEW u \in Workers, u # w, run[u].pc # "idle", run[u].req = r
        PROVE  LocalInv(run[u])'
    BY <1>1, <1>2, <2>1, <2>3, <2>4, <2>5, <2>9 DEF LocalInv, RowInv
  <2>10. QED
    BY <1>1, <1>2, <2>1, <2>2, <2>7, <2>8, <2>9, ReturnStep
<1>5. QED
  BY <1>3, <1>4

LEMMA FinishExpiredStep ==
  ASSUME IInv, NEW w \in Workers, FinishExpired(w)
  PROVE  StepInv'
<1>0. PICK r \in Requests : r = run[w].req
  BY BusyHasRequest DEF FinishExpired
<1> DEFINE row == Final(db[r], "INVALID_RESULT")
<1>1. /\ db[r] \in Record /\ RowInv(r) /\ OutcomeOf(r)
      /\ db \in [Requests -> Record] /\ channel[r] \in Channel /\ OneHolder
      /\ \A u \in Workers : LocalInv(run[u])
  BY DEF IInv, TypeOK, OutcomeIsChannels
<1>2. run' = [run EXCEPT ![w] = Idle] /\ UNCHANGED channel
  BY DEF FinishExpired, Return
<1>3. CASE db' = db
  BY <1>2, <1>3, IdleStep DEF Unstored
<1>4. CASE db' # db
  <2>1. db[r].status \in {"PROCESSING", "FAILED_RETRYABLE"} /\ db' = [db EXCEPT ![r] = row]
    BY <1>0, <1>4 DEF FinishExpired, MarkFinal, CompareAndSet, Matches
  <2>2. row \in Record
    BY <1>1, RowOperators, Values
  <2>3. /\ row.status = "FAILED_FINAL" /\ row.lease = "none"
        /\ row.version = db[r].version + 1 /\ row.attempts = db[r].attempts
        /\ row.assigned = db[r].assigned /\ row.failure = "INVALID_RESULT"
        /\ row.link = db[r].link
    BY <1>1, RowFields, Values
  <2> HIDE DEF row
  <2>4. db'[r] = row
    BY <1>1, <2>1
  <2>5. channel[r].sent = 0 /\ Holds(w, r)
    BY <1>0, <1>1 DEF FinishExpired, LocalInv, PreCreate, Holds
  <2>6. RowInv(r)' /\ OutcomeOf(r)'
    BY <1>1, <1>2, <2>1, <2>3, <2>4, <2>5 DEF RowInv, OutcomeOf, Terminal
  <2>7. ASSUME NEW u \in Workers, u # w, run[u].pc # "idle", run[u].req = r
        PROVE  LocalInv(run[u])'
    <3>1. ~Holds(u, r)
      BY <1>1, <2>5, <2>7 DEF OneHolder
    <3>2. QED
      BY <1>1, <1>2, <2>1, <2>3, <2>4, <2>7, <3>1 DEF LocalInv, Holds, PreCreate
  <2>8. QED
    BY <1>1, <1>2, <2>1, <2>2, <2>6, <2>7, ReturnStep
<1>5. QED
  BY <1>3, <1>4

\* Before the channel has heard of a request, no worker has a result for it.
LEMMA OtherHolder ==
  ASSUME IInv, NEW u \in Workers, NEW w \in Workers, u # w, run[u].pc \in PreCreate,
         run[w].req = run[u].req, run[w].pc = "persist"
  PROVE  run[w].seen # "PENDING" /\ run[w].result = "uncertain"
<1>1. /\ LocalInv(run[u]) /\ LocalInv(run[w]) /\ OneHolder
      /\ run[w] \in Local /\ run[u].req \in Requests
  BY BusyHasRequest DEF IInv, TypeOK, PreCreate
<1>2. run[w].seen # "PENDING"
  BY <1>1 DEF OneHolder, Holds, LocalInv, PreCreate
<1>3. channel[run[u].req].answer = "none"
  BY <1>1 DEF IInv, RowInv, LocalInv
<1>4. QED
  BY <1>1, <1>2, <1>3 DEF LocalInv, Local

\* Storing the channel's rejection, an uncertain outcome, or its link.
LEMMA PersistStep ==
  ASSUME IInv, NEW w \in Workers, Persist(w)
  PROVE  StepInv'
<1>0. PICK r \in Requests : r = run[w].req
  BY BusyHasRequest DEF Persist
<1>1. /\ db[r] \in Record /\ RowInv(r) /\ OutcomeOf(r)
      /\ db \in [Requests -> Record] /\ channel[r] \in Channel /\ OneHolder
      /\ \A u \in Workers : LocalInv(run[u])
      /\ run[w].pc = "persist"
  BY DEF IInv, TypeOK, OutcomeIsChannels, Persist
<1>2. run' = [run EXCEPT ![w] = Idle] /\ UNCHANGED channel
  BY DEF Persist, Return
<1>3. CASE db' = db
  BY <1>2, <1>3, IdleStep DEF Unstored
<1>4. CASE db' # db
  <2>1. PICK row : /\ db' = [db EXCEPT ![r] = row]
                   /\ db[r].status \in {"PROCESSING", "FAILED_RETRYABLE"}
                   /\ db[r].version = run[w].ver
                   /\ \/ run[w].result = "rejected" /\ row = Final(db[r], "CHANNEL_REJECTED")
                      \/ /\ run[w].result = "uncertain" /\ row = Uncertain(db[r])
                         /\ db[r].status = "PROCESSING"
                      \/ run[w].result = "succeeded" /\ row = Succeeded(db[r], run[w].link)
    BY <1>0, <1>4
    DEF Persist, MarkFinal, MarkUncertain, MarkSucceeded, CompareAndSet, Matches
  <2>2. run[w].result = "succeeded" =>
          /\ run[w].link \in SafeLinks /\ run[w].link \in Links
          /\ channel[r].answer = "accepted" /\ channel[r].link = run[w].link
    BY <1>0, <1>1, ConversionAssumption DEF LocalInv
  <2>3. run[w].result = "rejected" => channel[r].answer = "rejected"
    BY <1>0, <1>1 DEF LocalInv
  <2>4. row \in Record
    BY <1>1, <2>1, <2>2, RowOperators, Values
  <2>5. /\ row.version = db[r].version + 1 /\ row.attempts = db[r].attempts
        /\ row.assigned = db[r].assigned /\ row.lease = "none"
        /\ \/ /\ row.status = "FAILED_FINAL" /\ row.failure = "CHANNEL_REJECTED"
              /\ row.link = db[r].link /\ run[w].result = "rejected"
           \/ /\ row.status = "FAILED_RETRYABLE" /\ row.failure = "QUERY_REQUIRED"
              /\ row.link = db[r].link /\ db[r].status = "PROCESSING"
           \/ /\ row.status = "SUCCEEDED" /\ row.failure = None
              /\ row.link = run[w].link /\ run[w].result = "succeeded"
    BY <1>1, <2>1, <2>2, RowFields, Values
  <2>6. db'[r] = row
    BY <1>1, <2>1
  <2>7. db[r].version \in {2, 3} /\ db[r].attempts = 1
    BY <1>1, <2>1 DEF RowInv
  <2>8. RowInv(r)'
    BY <1>1, <1>2, <2>1, <2>2, <2>5, <2>6, <2>7, ConversionAssumption DEF RowInv, Terminal
  <2>9. OutcomeOf(r)'
    BY <1>1, <1>2, <2>2, <2>3, <2>5, <2>6, ConversionAssumption DEF OutcomeOf
  <2>10. ASSUME NEW u \in Workers, u # w, run[u].pc # "idle", run[u].req = r
         PROVE  LocalInv(run[u])'
    <3>1. run'[u] = run[u]
      BY <1>2, <2>10
    <3>2. run[u].pc \in PreCreate => row.status \in {"PROCESSING", "FAILED_RETRYABLE"}
      BY <1>0, <1>1, <2>5, <2>10, OtherHolder
    <3>3. LocalInv(run[u]) /\ db'[r].attempts = db[r].attempts /\ db'[r].lease # "live"
      BY <1>1, <2>5, <2>6
    <3>4. QED
      BY <1>2, <2>1, <2>6, <2>7, <2>10, <3>1, <3>2, <3>3, <2>5 DEF LocalInv
  <2>11. QED
    BY <1>1, <1>2, <2>1, <2>4, <2>8, <2>9, <2>10, ReturnStep
<1>5. QED
  BY <1>3, <1>4

LEMMA HoldingFields ==
  ASSUME NEW me \in Local
  PROVE  /\ Holding(me).pc = "expiry" /\ Holding(me).req = me.req
         /\ Holding(me).ver = me.ver + 1 /\ Holding(me).seen = me.seen
BY DEF Holding, Local

LEMMA ClaimStep ==
  ASSUME IInv, NEW w \in Workers, Claim(w)
  PROVE  StepInv'
<1>0. PICK r \in Requests : r = run[w].req
  BY BusyHasRequest DEF Claim
<1> DEFINE row == Claimed(db[r])
           me  == Holding(run[w])
<1>1. /\ db[r] \in Record /\ RowInv(r) /\ OutcomeOf(r)
      /\ db \in [Requests -> Record] /\ channel \in [Requests -> Channel]
      /\ run \in [Workers -> Local] /\ run[w] \in Local
      /\ \A u \in Workers : LocalInv(run[u])
      /\ run[w].pc = "claim"
  BY DEF IInv, TypeOK, OutcomeIsChannels, Claim
<1>2. UNCHANGED channel
  BY DEF Claim
<1>3. CASE db' = db /\ Return(w)
  BY <1>2, <1>3, IdleStep DEF Unstored, Return
<1>4. CASE /\ db[r].version = run[w].ver /\ db[r].status = "PENDING"
           /\ db' = [db EXCEPT ![r] = row] /\ run' = [run EXCEPT ![w] = me]
  <2>1. row \in Record /\ me \in Local
    BY <1>1, RowOperators, LocalOperators
  <2>2. /\ row.status = "PROCESSING" /\ row.lease = "live" /\ row.assigned
        /\ row.version = db[r].version + 1 /\ row.attempts = db[r].attempts + 1
        /\ row.failure = db[r].failure /\ row.link = db[r].link
    BY <1>1, RowFields
  <2>3. me.pc = "expiry" /\ me.req = r /\ me.ver = run[w].ver + 1 /\ me.seen = run[w].seen
    BY <1>0, <1>1, HoldingFields
  <2> HIDE DEF row, me
  <2>4. /\ db'[r] = row /\ run'[w] = me
        /\ \A u \in Workers : u # w => run'[u] = run[u]
    BY <1>1, <1>4
  <2>5. /\ db[r].version = 1 /\ db[r].attempts = 0 /\ db[r].failure = None
        /\ channel[r].sent = 0 /\ channel[r].answer = "none" /\ db[r].link = None
    BY <1>1, <1>4 DEF RowInv, Channel
  <2>6. RowInv(r)'
    BY <1>2, <2>2, <2>4, <2>5 DEF RowInv, Terminal
  <2>7. OutcomeOf(r)'
    BY <1>2, <2>2, <2>4, <2>5, ConversionAssumption DEF OutcomeOf
  <2>8. ASSUME NEW u \in Workers, u # w, run[u].req = r, run[u].pc # "idle"
        PROVE  LocalInv(run[u])' /\ ~Holds(u, r)
    <3>1. LocalInv(run[u]) /\ run'[u] = run[u]
      BY <1>1, <2>4, <2>8
    <3>2. run[u].pc \notin PreCreate
      BY <1>4, <2>8, <3>1 DEF LocalInv
    <3>3. run[u].pc \in {"await", "persist"} => run[u].seen # "PENDING"
      BY <2>5, <2>8, <3>1 DEF LocalInv
    <3>4. run[u].pc \in {"lookup", "persist"} => run[u].seen = "PENDING"
      BY <2>5, <2>8, <3>1 DEF LocalInv
    <3>5. LocalInv(run[u])'
      BY <1>2, <2>2, <2>4, <2>8, <3>1, <3>2, <3>3, <3>4 DEF LocalInv
    <3>6. QED
      BY <2>8, <3>2, <3>3, <3>5 DEF Holds
  <2>9. LocalInv(run[w])'
    BY <1>1, <1>2, <2>2, <2>3, <2>4, <2>5, <1>4 DEF LocalInv, PreClaim, PreCreate
  <2>10. OneHolder'
    <3>1. ASSUME NEW q \in Requests, NEW u \in Workers, NEW x \in Workers,
                 Holds(u, q)', Holds(x, q)', u # x
          PROVE  FALSE
      <4>1. CASE u = w \/ x = w
        BY <2>3, <2>4, <2>8, <3>1, <4>1 DEF Holds, PreCreate
      <4>2. CASE u # w /\ x # w
        BY <2>4, <3>1, <4>2 DEF Holds, IInv, OneHolder
      <4>3. QED
        BY <4>1, <4>2
    <3>2. QED
      BY <3>1 DEF OneHolder
  <2>11. ASSUME NEW u \in Workers,
                run'[u] # run[u] \/ (run[u].pc # "idle" /\ run[u].req = r)
         PROVE  LocalInv(run[u])'
    BY <2>4, <2>8, <2>9, <2>11
  <2>12. channel' = [channel EXCEPT ![r] = channel[r]] /\ channel[r] \in Channel
    BY <1>1, <1>2
  <2>13. run' \in [Workers -> Local]
    BY <1>1, <1>4, <2>1
  <2>14. QED
    BY <1>4, <2>1, <2>6, <2>7, <2>10, <2>11, <2>12, <2>13, StoreStep
<1>5. QED
  BY <1>0, <1>3, <1>4 DEF Claim, Matches

LEMMA SendCreateStep ==
  ASSUME IInv, NEW w \in Workers, SendCreate(w)
  PROVE  StepInv'
<1>0. PICK r \in Requests : r = run[w].req
  BY BusyHasRequest DEF SendCreate
<1> DEFINE known == Heard(channel[r])
           me    == At(run[w], "await")
<1>1. /\ db[r] \in Record /\ RowInv(r) /\ OutcomeOf(r) /\ channel[r] \in Channel
      /\ db \in [Requests -> Record] /\ channel \in [Requests -> Channel]
      /\ run \in [Workers -> Local] /\ run[w] \in Local
      /\ \A u \in Workers : LocalInv(run[u])
      /\ run[w].pc = "create"
  BY DEF IInv, TypeOK, OutcomeIsChannels, SendCreate
<1>2. /\ db' = db /\ channel' = [channel EXCEPT ![r] = known]
      /\ run' = [run EXCEPT ![w] = me]
  BY <1>0 DEF SendCreate, Goto
<1>3. known \in Channel /\ me \in Local
  BY <1>1, ChannelOperators, LocalOperators, Values
<1>4. /\ me.pc = "await" /\ me.req = r /\ me.ver = run[w].ver /\ me.seen = run[w].seen
  BY <1>0, <1>1, LocalFields, Values
<1>5. /\ run[w].ver = 2 /\ run[w].seen = "PENDING" /\ channel[r].sent = 0
      /\ db[r].status \in {"PROCESSING", "FAILED_RETRYABLE"} /\ Holds(w, r)
  BY <1>0, <1>1 DEF LocalInv, PreCreate, Holds
<1>6. db[r].attempts = 1 /\ channel[r].answer = "none"
  BY <1>1, <1>5 DEF RowInv
<1>7. known.sent = 1 /\ known.answer = "undecided" /\ known.link = channel[r].link
  BY <1>1, <1>5, <1>6 DEF Heard, Channel
<1> HIDE DEF known, me
<1>8. /\ channel'[r] = known /\ run'[w] = me
      /\ \A u \in Workers : u # w => run'[u] = run[u]
  BY <1>1, <1>2
<1>9. RowInv(r)'
  BY <1>1, <1>2, <1>5, <1>6, <1>7, <1>8 DEF RowInv, Terminal
<1>10. OutcomeOf(r)'
  BY <1>1, <1>2, <1>5, <1>6, <1>8, ConversionAssumption DEF OutcomeOf, RowInv
<1>11. ASSUME NEW u \in Workers, u # w, run[u].req = r, run[u].pc # "idle"
       PROVE  LocalInv(run[u])'
  <2>1. LocalInv(run[u]) /\ ~Holds(u, r)
    BY <1>1, <1>5, <1>11 DEF IInv, OneHolder
  <2>2. /\ run[u].pc \notin PreCreate
        /\ run[u].pc \in {"await", "persist"} => run[u].seen # "PENDING"
    BY <1>11, <2>1 DEF Holds, LocalInv, PreCreate
  <2>3. QED
    BY <1>2, <1>6, <1>8, <1>11, <2>1, <2>2 DEF LocalInv
<1>12. LocalInv(run[w])'
  BY <1>2, <1>4, <1>5, <1>7, <1>8 DEF LocalInv, PreClaim, PreCreate
<1>13. OneHolder'
  BY <1>4, <1>5, <1>8 DEF IInv, OneHolder, Holds
<1>14. ASSUME NEW u \in Workers,
              run'[u] # run[u] \/ (run[u].pc # "idle" /\ run[u].req = r)
       PROVE  LocalInv(run[u])'
  BY <1>8, <1>11, <1>12, <1>14
<1>15. db' = [db EXCEPT ![r] = db[r]] /\ run' \in [Workers -> Local]
  BY <1>1, <1>2, <1>3
<1>16. QED
  BY <1>1, <1>2, <1>3, <1>9, <1>10, <1>13, <1>14, <1>15, StoreStep

-----------------------------------------------------------------------------
(* IInv is inductive.                                                      *)

LEMMA InitEstablishesIInv == Init => IInv
<1> SUFFICES ASSUME Init PROVE IInv
  OBVIOUS
<1>1. ASSUME NEW r \in Requests PROVE RowInv(r) /\ OutcomeOf(r)
  <2>1. db[r] = AbsentRow /\ channel[r] = Unheard
    BY DEF Init
  <2>2. RowInv(r)
    BY <2>1 DEF RowInv, AbsentRow, Unheard, Terminal
  <2>3. OutcomeOf(r)
    BY <2>1, ConversionAssumption DEF OutcomeOf, AbsentRow, Unheard
  <2>4. QED
    BY <2>2, <2>3
<1>2. \A w \in Workers : LocalInv(run[w]) /\ run[w].pc = "idle"
  BY DEF Init, LocalInv, Idle, PreClaim, PreCreate
<1>3. OneHolder
  BY <1>2 DEF OneHolder, Holds, PreCreate
<1>4. QED
  BY <1>1, <1>2, <1>3, TypeEstablished DEF IInv, OutcomeIsChannels

LEMMA NextPreservesIInv == IInv /\ [Next]_vars => IInv'
<1> SUFFICES ASSUME IInv, [Next]_vars PROVE StepInv'
  BY TypeStep DEF IInv, StepInv
<1>1. CASE Environment
  BY <1>1, EnvironmentStep
<1>2. ASSUME NEW w \in Workers, RunPending(w) PROVE StepInv'
  BY <1>2, LoadStep, GotoStep, WithdrawStep, ClaimStep, FinishExpiredStep,
     SendCreateStep, ConcludeStep DEF RunPending
<1>3. ASSUME NEW w \in Workers, Recover(w) PROVE StepInv'
  BY <1>3, LoadStep, ConcludeStep DEF Recover
<1>4. ASSUME NEW w \in Workers, Persist(w) \/ Stop(w) \/ QuoteExpires(w) PROVE StepInv'
  BY <1>4, PersistStep, StopStep
<1>5. CASE UNCHANGED vars
  BY <1>5, QuietStep DEF vars
<1>6. QED
  BY <1>1, <1>2, <1>3, <1>4, <1>5 DEF Next

\* IInv holds in every reachable state; the invariants below are read off it.
THEOREM Inductive == Spec => []IInv
BY InitEstablishesIInv, NextPreservesIInv, PTL DEF Spec

\* The variables keep their types: no handler stores a value of another kind.
THEOREM Typed == Spec => []TypeOK
BY Inductive, PTL DEF IInv

LEMMA IInvImplies == IInv => AtMostOneCreate /\ RowMeetsSchema
<1> SUFFICES ASSUME IInv PROVE AtMostOneCreate /\ RowMeetsSchema
  OBVIOUS
<1>1. ASSUME NEW r \in Requests
      PROVE  /\ RowInv(r) /\ channel[r].sent \in Nat /\ db[r].attempts \in Nat
             /\ db[r].status \in Status
  BY DEF IInv, TypeOK, Channel, Record
<1>2. ASSUME NEW r \in Requests
      PROVE  channel[r].sent <= db[r].attempts /\ db[r].attempts <= 1
  <2>1. db[r].attempts <= 1
    BY <1>1 DEF RowInv, Status, Terminal
  <2>2. QED
    BY <1>1, <2>1 DEF RowInv
<1>3. RowMeetsSchema
  BY <1>1 DEF RowMeetsSchema, RowInv, Status, Terminal
<1>4. QED
  BY <1>2, <1>3 DEF AtMostOneCreate

\* The channel is called at most once per request, under a claim, for any
\* number of workers running RunPending and Recover (executor.go).
THEOREM ChannelCalledOnce == Spec => []AtMostOneCreate
BY Inductive, IInvImplies, PTL

\* No transition of the conversion repository is refused by a CHECK constraint.
THEOREM SchemaAccepted == Spec => []RowMeetsSchema
BY Inductive, IInvImplies, PTL

\* A stored outcome is always the channel's own.
THEOREM OutcomeTrue == Spec => []OutcomeIsChannels
BY Inductive, PTL DEF IInv

\* Claim admits one worker per request, whoever competes for it.
THEOREM ClaimExclusive == Spec => []OneHolder
BY Inductive, PTL DEF IInv

-----------------------------------------------------------------------------
(* What a step may do to a row, and the action properties.                 *)

Stored(r, status) ==
  \E w \in Workers :
    /\ run[w].req = r /\ run'[w] = Idle
    /\ \/ /\ run[w].pc = "invalid" /\ status = "FAILED_FINAL"
          /\ db'[r].failure = "INVALID_RESULT"
       \/ /\ run[w].pc = "persist" /\ run[w].result = "rejected" /\ status = "FAILED_FINAL"
          /\ db'[r].failure = "CHANNEL_REJECTED"
       \/ /\ run[w].pc = "persist" /\ status = "FAILED_RETRYABLE"
          /\ db'[r].failure = "QUERY_REQUIRED"
       \/ /\ run[w].pc = "persist" /\ run[w].result = "succeeded" /\ status = "SUCCEEDED"
          /\ db'[r].failure = None /\ db'[r].link = run[w].link

RowMove(r) ==
  \/ /\ db[r].status = "ABSENT" /\ db'[r].status = "PENDING"
     /\ db'[r].failure = db[r].failure
  \/ /\ db[r].status = "PROCESSING" /\ db'[r].status = "PROCESSING"
     /\ db'[r].failure = db[r].failure
  \/ /\ db[r].status = "PENDING" /\ db'[r].status = "PROCESSING"
     /\ db'[r].failure = db[r].failure
  \/ /\ db[r].status = "PENDING" /\ db'[r].status = "FAILED_FINAL"
     /\ db'[r].failure = "INVALID_RESULT"
  \/ /\ db[r].status \in {"PROCESSING", "FAILED_RETRYABLE"}
     /\ Stored(r, db'[r].status)

LEMMA RowMoves ==
  ASSUME IInv, [Next]_vars, NEW r \in Requests, db'[r] # db[r]
  PROVE  RowMove(r)
<1>0. /\ db \in [Requests -> Record] /\ run \in [Workers -> Local] /\ db[r] \in Record
      /\ RowInv(r) /\ \A w \in Workers : LocalInv(run[w])
  BY DEF IInv, TypeOK
<1>1. CASE Environment
  <2>1. PICK q \in Requests : Reserve(q) \/ LeaseExpires(q)
    BY <1>1 DEF Environment, Disable, SwitchReady, PreviewExpires, ChannelDecides
  <2>2. q = r
    BY <1>0, <2>1 DEF Reserve, LeaseExpires
  <2>3. CASE Reserve(r)
    <3>1. db'[r] = [db[r] EXCEPT !.status = "PENDING", !.version = 1]
      BY <1>0, <2>3 DEF Reserve
    <3>2. db'[r].status = "PENDING" /\ db'[r].failure = db[r].failure
      BY <1>0, <3>1 DEF Record
    <3>3. QED
      BY <2>3, <3>2 DEF Reserve, RowMove
  <2>4. CASE LeaseExpires(r)
    <3>1. db'[r] = [db[r] EXCEPT !.lease = "expired"] /\ db[r].lease = "live"
      BY <1>0, <2>4 DEF LeaseExpires
    <3>2. db'[r].status = db[r].status /\ db'[r].failure = db[r].failure
      BY <1>0, <3>1 DEF Record
    <3>3. db[r].status = "PROCESSING"
      BY <1>0, <3>1 DEF RowInv, Record, Status, Terminal
    <3>4. QED
      BY <3>2, <3>3 DEF RowMove
  <2>5. QED
    BY <2>1, <2>2, <2>3, <2>4
<1>2. ASSUME NEW w \in Workers, Withdraw(w) PROVE RowMove(r)
  <2>1. db[r].status = "PENDING" /\ db'[r] = Withdrawn(db[r])
    BY <1>0, <1>2 DEF Withdraw, RejectPending, CompareAndSet, Matches
  <2>2. QED
    BY <1>0, <2>1, RowFields DEF RowMove
<1>3. ASSUME NEW w \in Workers, Claim(w) PROVE RowMove(r)
  <2>1. db[r].status = "PENDING" /\ db'[r] = Claimed(db[r])
    BY <1>0, <1>3 DEF Claim, Matches
  <2>2. QED
    BY <1>0, <2>1, RowFields DEF RowMove
<1>4. ASSUME NEW w \in Workers, FinishExpired(w) PROVE RowMove(r)
  <2>1. /\ run[w].req = r /\ run'[w] = Idle /\ run[w].pc = "invalid"
        /\ db[r].status \in {"PROCESSING", "FAILED_RETRYABLE"}
        /\ db'[r] = Final(db[r], "INVALID_RESULT")
    BY <1>0, <1>4 DEF FinishExpired, MarkFinal, CompareAndSet, Matches, Return
  <2>2. db'[r].status = "FAILED_FINAL" /\ db'[r].failure = "INVALID_RESULT"
    BY <1>0, <2>1, RowFields, Values
  <2>3. QED
    BY <2>1, <2>2 DEF RowMove, Stored
<1>5. ASSUME NEW w \in Workers, Persist(w) PROVE RowMove(r)
  <2>1. /\ run[w].req = r /\ run'[w] = Idle /\ run[w].pc = "persist"
        /\ db[r].status \in {"PROCESSING", "FAILED_RETRYABLE"}
        /\ \/ run[w].result = "rejected" /\ db'[r] = Final(db[r], "CHANNEL_REJECTED")
           \/ run[w].result = "uncertain" /\ db'[r] = Uncertain(db[r])
           \/ run[w].result = "succeeded" /\ db'[r] = Succeeded(db[r], run[w].link)
    BY <1>0, <1>5
    DEF Persist, MarkFinal, MarkUncertain, MarkSucceeded, CompareAndSet, Matches, Return
  <2>2. run[w].result = "succeeded" => run[w].link \in Links
    BY <1>0, <2>1, ConversionAssumption DEF LocalInv
  <2>3. \/ /\ db'[r].status = "FAILED_FINAL" /\ db'[r].failure = "CHANNEL_REJECTED"
           /\ run[w].result = "rejected"
        \/ db'[r].status = "FAILED_RETRYABLE" /\ db'[r].failure = "QUERY_REQUIRED"
        \/ /\ db'[r].status = "SUCCEEDED" /\ db'[r].failure = None
           /\ db'[r].link = run[w].link /\ run[w].result = "succeeded"
    BY <1>0, <2>1, <2>2, RowFields, Values
  <2>4. QED
    BY <2>1, <2>3 DEF RowMove, Stored
<1>6. QED
  BY <1>1, <1>2, <1>3, <1>4, <1>5 DEF Next, vars, RunPending, Recover, LoadPending,
     CheckEligibility, ReadPreview, Requote, RecheckEligibility, CheckExpiry, SendCreate,
     CreateReturns, CreateFails, LoadUncertain, LookupAnswers, LookupUnknown, Stop, QuoteExpires

LEMMA TerminalStep ==
  IInv /\ [Next]_vars => [\A r \in Requests : db[r].status \in Terminal => db'[r] = db[r]]_vars
<1> SUFFICES ASSUME IInv, [Next]_vars, NEW r \in Requests, db[r].status \in Terminal
             PROVE  db'[r] = db[r]
  OBVIOUS
<1>1. QED
  BY RowMoves DEF RowMove, Terminal

\* Nothing, however late, overwrites a settled request.
THEOREM SettledForever == Spec => TerminalIsFinal
BY Inductive, TerminalStep, PTL DEF Spec, TerminalIsFinal

LEMMA LeaseStep ==
  ASSUME IInv, [Next]_vars, NEW r \in Requests,
         db[r].lease = "live", db'[r].status # db[r].status
  PROVE  \E w \in Workers : Holds(w, r) /\ run'[w] = Idle
<1>1. /\ RowInv(r) /\ db[r] \in Record
      /\ \A w \in Workers : LocalInv(run[w])
  BY DEF IInv, TypeOK
<1>2. RowMove(r)
  BY RowMoves
<1>3. db[r].status = "PROCESSING"
  BY <1>1 DEF RowInv, Record, Status, Terminal
<1>4. PICK w \in Workers :
        run[w].req = r /\ run'[w] = Idle /\ run[w].pc \in {"invalid", "persist"}
  BY <1>2, <1>3 DEF RowMove, Stored
<1>5. run[w].seen = "PENDING"
  BY <1>1, <1>4 DEF LocalInv, PreCreate
<1>6. QED
  BY <1>4, <1>5 DEF Holds, PreCreate

\* Recovery never takes a row away from a worker whose lease still runs.
THEOREM LeaseHonoured == Spec => LeaseProtectsClaim
<1>1. IInv /\ [Next]_vars
        => [\A r \in Requests : db[r].lease = "live" /\ db'[r].status # db[r].status
              => \E w \in Workers : Holds(w, r) /\ run'[w] = Idle]_vars
  BY LeaseStep
<1>2. QED
  BY <1>1, Inductive, PTL DEF Spec, LeaseProtectsClaim

-----------------------------------------------------------------------------
(* The lifecycle implements LinkOnce.                                      *)

LEMMA PromiseInit == Init => Promise!Init
<1> SUFFICES ASSUME Init, NEW r \in Requests
             PROVE  Asked(r) = "no" /\ StoredResult(r) = "open"
  BY DEF Promise!Init
<1>1. db[r] = AbsentRow /\ channel[r] = Unheard
  BY DEF Init
<1>2. QED
  BY <1>1, ConversionAssumption DEF Asked, StoredResult, AbsentRow, Unheard

\* What the channel hears and answers is not stored in the same step.
LEMMA ChannelMoves ==
  ASSUME IInv, [Next]_vars, channel' # channel
  PROVE  /\ db' = db
         /\ \E r \in Requests :
              \/ /\ channel' = [channel EXCEPT ![r] = Heard(channel[r])]
                 /\ channel[r].sent = 0 /\ channel[r].answer = "none"
                 /\ db[r].status \in {"PROCESSING", "FAILED_RETRYABLE"}
              \/ /\ channel[r].answer = "undecided"
                 /\ \/ channel' = [channel EXCEPT ![r] = Decided(channel[r], "rejected", None)]
                    \/ \E l \in Links :
                         channel' = [channel EXCEPT ![r] = Decided(channel[r], "accepted", l)]
<1>1. CASE \E r \in Requests : ChannelDecides(r)
  BY <1>1 DEF ChannelDecides
<1>2. ASSUME NEW w \in Workers, SendCreate(w)
      PROVE  /\ db' = db /\ run[w].req \in Requests
             /\ channel' = [channel EXCEPT ![run[w].req] = Heard(channel[run[w].req])]
             /\ channel[run[w].req].sent = 0 /\ channel[run[w].req].answer = "none"
             /\ db[run[w].req].status \in {"PROCESSING", "FAILED_RETRYABLE"}
  <2>1. LocalInv(run[w]) /\ run[w].pc = "create" /\ run[w].req \in Requests
    BY <1>2, BusyHasRequest DEF IInv, SendCreate
  <2>2. RowInv(run[w].req)
    BY <2>1 DEF IInv
  <2>3. QED
    BY <1>2, <2>1, <2>2 DEF SendCreate, LocalInv, RowInv, PreCreate
<1>3. (\E r \in Requests : ChannelDecides(r)) \/ (\E w \in Workers : SendCreate(w))
  BY DEF Next, vars, Environment, Reserve, Disable, SwitchReady, PreviewExpires,
     LeaseExpires, RunPending, Recover, LoadPending, CheckEligibility, ReadPreview, Requote,
     Withdraw, RecheckEligibility, Claim, CheckExpiry, FinishExpired, CreateReturns,
     CreateFails, LoadUncertain, LookupAnswers, LookupUnknown, Persist, Stop, QuoteExpires
<1>4. QED
  BY <1>1, <1>2, <1>3

LEMMA AskedStep ==
  ASSUME IInv, [Next]_vars, channel' # channel
  PROVE  [Promise!Next]_Promise!vars
<1>1. /\ channel \in [Requests -> Channel]
      /\ \A r \in Requests : RowInv(r) /\ OutcomeOf(r) /\ channel[r] \in Channel
  BY DEF IInv, TypeOK, OutcomeIsChannels
<1>2. [r \in Requests |-> StoredResult(r)]' = [r \in Requests |-> StoredResult(r)]
  BY ChannelMoves DEF StoredResult
<1>3. PICK r \in Requests :
        \/ /\ channel' = [channel EXCEPT ![r] = Heard(channel[r])]
           /\ channel[r].sent = 0 /\ channel[r].answer = "none"
           /\ db[r].status \in {"PROCESSING", "FAILED_RETRYABLE"}
        \/ /\ channel[r].answer = "undecided"
           /\ \/ channel' = [channel EXCEPT ![r] = Decided(channel[r], "rejected", None)]
              \/ \E l \in Links :
                   channel' = [channel EXCEPT ![r] = Decided(channel[r], "accepted", l)]
  BY ChannelMoves
<1>4. \A q \in Requests \ {r} : Asked(q)' = Asked(q)
  BY <1>1, <1>3 DEF Asked
<1>5. CASE /\ channel' = [channel EXCEPT ![r] = Heard(channel[r])]
           /\ channel[r].sent = 0 /\ channel[r].answer = "none"
           /\ db[r].status \in {"PROCESSING", "FAILED_RETRYABLE"}
  <2>1. channel'[r] = Heard(channel[r])
    BY <1>1, <1>5
  <2>2. channel'[r].sent = 1 /\ channel'[r].answer = "undecided"
    BY <1>1, <1>5, <2>1 DEF Heard, Channel
  <2>3. Asked(r) = "no" /\ Asked(r)' = "yes"
    BY <1>5, <2>2 DEF Asked
  <2>4. StoredResult(r) = "open"
    BY <1>1, <1>5, ConversionAssumption DEF StoredResult, RowInv
  <2>5. Promise!Ask(r)
    BY <1>2, <1>4, <2>3, <2>4 DEF Promise!Ask
  <2>6. QED
    BY <2>5 DEF Promise!Next
<1>6. ASSUME NEW answer \in {"rejected", "accepted"}, NEW l,
             answer = "accepted" => l \in Links,
             channel[r].answer = "undecided",
             channel' = [channel EXCEPT ![r] = Decided(channel[r], answer, l)]
      PROVE  [Promise!Next]_Promise!vars
  <2>1. channel'[r] = Decided(channel[r], answer, l) /\ channel[r].sent # 0
    BY <1>1, <1>6 DEF RowInv
  <2>2. /\ channel'[r].sent = channel[r].sent /\ channel'[r].answer = answer
        /\ channel'[r].link = l
    BY <1>1, <2>1 DEF Decided, Channel
  <2>3. Asked(r) = "yes" /\ Asked(r)' \in {"refused"} \cup Links
    BY <1>6, <2>1, <2>2 DEF Asked
  <2>4. Promise!Answered(r)
    BY <1>2, <1>4, <2>3 DEF Promise!Answered
  <2>5. QED
    BY <2>4 DEF Promise!Next
<1>7. QED
  BY <1>3, <1>5, <1>6

LEMMA ResultStep ==
  ASSUME IInv, [Next]_vars, channel' = channel, NEW r \in Requests, db'[r] # db[r]
  PROVE  \/ StoredResult(r)' = StoredResult(r)
         \/ StoredResult(r) = "open" /\ Asked(r) = "no" /\ StoredResult(r)' = "withdrawn"
         \/ /\ StoredResult(r) = "open" /\ Asked(r) \in {"refused"} \cup SafeLinks
            /\ StoredResult(r)' = Asked(r)
<1>1. /\ RowInv(r) /\ OutcomeOf(r) /\ RowInv(r)' /\ OutcomeOf(r)'
      /\ channel[r] \in Channel /\ db[r] \in Record
      /\ \A w \in Workers : LocalInv(run[w])
  BY NextPreservesIInv DEF IInv, TypeOK, OutcomeIsChannels
<1>2. RowMove(r)
  BY RowMoves
<1>3. db[r].status \notin Terminal /\ StoredResult(r) = "open"
  BY <1>1, <1>2, ConversionAssumption DEF RowMove, RowInv, Terminal, StoredResult
<1>4. CASE db'[r].status \notin Terminal
  BY <1>1, <1>2, <1>3, <1>4, ConversionAssumption
  DEF RowMove, Stored, RowInv, Terminal, StoredResult
<1>5. CASE db'[r].status = "FAILED_FINAL" /\ db'[r].failure = "INVALID_RESULT"
  <2>1. StoredResult(r)' = "withdrawn"
    BY <1>5 DEF StoredResult
  <2>2. Asked(r) = "no"
    BY <1>1, <1>5 DEF OutcomeOf, RowInv, Asked
  <2>3. QED
    BY <1>3, <2>1, <2>2
<1>6. CASE db'[r].status = "FAILED_FINAL" /\ db'[r].failure = "CHANNEL_REJECTED"
  <2>1. StoredResult(r)' = "refused" /\ channel[r].answer = "rejected"
    BY <1>1, <1>6 DEF StoredResult, OutcomeOf
  <2>2. Asked(r) = "refused"
    BY <1>1, <2>1 DEF Asked, RowInv
  <2>3. QED
    BY <1>3, <2>1, <2>2
<1>7. CASE db'[r].status = "SUCCEEDED"
  <2>1. /\ StoredResult(r)' = channel[r].link /\ channel[r].answer = "accepted"
        /\ channel[r].link \in SafeLinks
    BY <1>1, <1>7, ConversionAssumption DEF StoredResult, OutcomeOf, RowInv
  <2>2. Asked(r) = channel[r].link
    BY <1>1, <2>1 DEF Asked, RowInv
  <2>3. QED
    BY <1>3, <2>1, <2>2
<1>8. QED
  BY <1>1, <1>4, <1>5, <1>6, <1>7 DEF RowInv, Terminal

\* Only one row is written in a step.
LEMMA OneRowMoves ==
  ASSUME IInv, [Next]_vars, NEW r \in Requests, NEW q \in Requests,
         db'[r] # db[r], db'[q] # db[q]
  PROVE  q = r
<1>1. db \in [Requests -> Record]
  BY DEF IInv, TypeOK
<1>2. CASE Environment
  BY <1>1, <1>2 DEF Environment, Reserve, Disable, SwitchReady, PreviewExpires,
     LeaseExpires, ChannelDecides
<1>3. ASSUME NEW w \in Workers, Withdraw(w) \/ Claim(w) \/ FinishExpired(w) \/ Persist(w)
      PROVE  q = r
  BY <1>1, <1>3 DEF Withdraw, Claim, FinishExpired, Persist, RejectPending, MarkFinal,
     MarkUncertain, MarkSucceeded, CompareAndSet
<1>4. QED
  BY <1>2, <1>3 DEF Next, vars, RunPending, Recover, LoadPending,
     CheckEligibility, ReadPreview, Requote, RecheckEligibility, CheckExpiry, SendCreate,
     CreateReturns, CreateFails, LoadUncertain, LookupAnswers, LookupUnknown, Stop, QuoteExpires

LEMMA PromiseStep ==
  IInv /\ [Next]_vars => [Promise!Next]_Promise!vars
<1> SUFFICES ASSUME IInv, [Next]_vars, channel' = channel
             PROVE  [Promise!Next]_Promise!vars
  BY AskedStep
<1>1. [r \in Requests |-> Asked(r)]' = [r \in Requests |-> Asked(r)]
  BY DEF Asked
<1>2. ASSUME NEW q \in Requests, db'[q] = db[q] PROVE StoredResult(q)' = StoredResult(q)
  BY <1>2 DEF StoredResult
<1>3. CASE \A q \in Requests : StoredResult(q)' = StoredResult(q)
  BY <1>1, <1>3 DEF Promise!vars
<1>4. ASSUME NEW r \in Requests, StoredResult(r)' # StoredResult(r)
      PROVE  Promise!Next
  <2>1. db'[r] # db[r]
    BY <1>2, <1>4
  <2>2. \A q \in Requests \ {r} : StoredResult(q)' = StoredResult(q)
    BY <1>2, <2>1, OneRowMoves
  <2>3. CASE /\ StoredResult(r) = "open" /\ Asked(r) = "no"
             /\ StoredResult(r)' = "withdrawn"
    <3>1. Promise!Withdraw(r)
      BY <1>1, <2>2, <2>3 DEF Promise!Withdraw
    <3>2. QED
      BY <3>1 DEF Promise!Next
  <2>4. CASE /\ StoredResult(r) = "open" /\ Asked(r) \in {"refused"} \cup SafeLinks
             /\ StoredResult(r)' = Asked(r)
    <3>1. Promise!Settle(r)
      BY <1>1, <2>2, <2>4 DEF Promise!Settle
    <3>2. QED
      BY <3>1 DEF Promise!Next
  <2>5. QED
    BY <1>4, <2>1, <2>3, <2>4, ResultStep
<1>5. QED
  BY <1>3, <1>4

\* Workers, rows and channel together keep the promise of LinkOnce.
THEOREM PromiseKept == Spec => KeepsPromise
<1>1. Init => Promise!Init
  BY PromiseInit
<1>2. IInv /\ [Next]_vars => [Promise!Next]_Promise!vars
  BY PromiseStep
<1>3. QED
  BY <1>1, <1>2, Inductive, PTL DEF Spec, Promise!Spec, KeepsPromise

=============================================================================
