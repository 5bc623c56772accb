---------------------------- MODULE RecordsProofs ----------------------------
(***************************************************************************)
(* The properties of Records hold for any number of callers, keys and      *)
(* requests.  The argument: a row, once there, stays as it is, and every   *)
(* script reads only behind its own insert; so what a caller reads is what *)
(* is stored for good, and its own row if its insert won.  For shares, a   *)
(* caller past the gate asked about a conversion that has succeeded, which *)
(* no later step takes back.                                               *)
(***************************************************************************)
EXTENDS Records, TLAPS

Called == [native : BOOLEAN, step : 0..6, key : Keys \cup {None}, body : Bodies \cup {None},
           value : Values \cup {None}, won : BOOLEAN, answer : Answer \cup {None}]

Reading(c) == At(c, "read") \/ At(c, "readIfLost")

\* What is known of a call while it runs.
Running(c) ==
  LET me == call[c] IN
  /\ me.native => service = "share"
  /\ me.step \in 0..Len(Script(c))
  /\ me.step > 0 => me.key \in Keys /\ me.body \in Bodies /\ me.answer = None
  /\ me.step > 0 /\ me.won => Reading(c)
  /\ Reading(c) => rows[me.key] # None /\ (me.won => rows[me.key] = Mine(c))
  /\ service = "share" /\ me.step > 1 => open[me.body]

\* What its last answer says is so, and the key it is about is taken.
Truthful(c) ==
  LET told == call[c].answer  row == rows[call[c].key] IN
  told # None /\ told.status \in {"ok", "conflict"} =>
    /\ call[c].key \in Keys /\ row # None
    /\ told.status = "ok" => told.row = row /\ Same(c, row) /\ (told.created => row.by = c)
    /\ told.status = "conflict" => ~Same(c, row)

IInv ==
  /\ TypeOK
  /\ \A c \in Callers : Running(c) /\ Truthful(c)
  /\ SharesOnlyReady

-----------------------------------------------------------------------------
(* The scripts: only an insert comes before a read, and nothing is last    *)
(* that goes on.                                                           *)

LEMMA ScriptLength ==
  ASSUME service \in DOMAIN Scripts, NEW c \in Callers PROVE Len(Script(c)) \in 1..6
<1> USE DEF Script, Scripts
<1>1. CASE call[c].native
  BY <1>1 DEF NativeSteps
<1>2. CASE ~call[c].native /\ service \in {"tracking", "preview", "share"}
  BY <1>2 DEF TrackingSteps, PreviewSteps, ShareSteps
<1>3. CASE ~call[c].native /\ service \in {"outbound", "evidence", "attribution"}
  BY <1>3 DEF OutboundSteps, EvidenceSteps, AttributionSteps
<1> QED
  BY <1>1, <1>2, <1>3

LEMMA ScriptSteps ==
  ASSUME service \in DOMAIN Scripts, NEW c \in Callers, call[c].native => service = "share",
         NEW n \in 1..Len(Script(c))
  PROVE  /\ Script(c)[n] = "insert" =>
              n + 1 \in 1..Len(Script(c)) /\ Script(c)[n + 1] \in {"read", "readIfLost"}
         /\ Script(c)[n] \in {"gate", "lock", "find", "ask", "lookUp"} =>
              n + 1 \in 1..Len(Script(c)) /\ Script(c)[n + 1] \notin {"read", "readIfLost"}
         /\ service = "share" => Script(c)[n] \in {"gate", "insert", "readIfLost", "transact"}
         /\ service = "share" => (n > 1 => Script(c)[n] # "gate")
         /\ service = "share" /\ Script(c)[n] = "insert" => n > 1
         /\ Script(c)[n] = "attribute" => service = "attribution"
<1> USE DEF Script, Scripts
<1>1. CASE call[c].native
  BY <1>1 DEF NativeSteps
<1>2. CASE ~call[c].native /\ service = "tracking"
  BY <1>2 DEF TrackingSteps
<1>3. CASE ~call[c].native /\ service = "preview"
  BY <1>3 DEF PreviewSteps
<1>4. CASE ~call[c].native /\ service = "share"
  BY <1>4 DEF ShareSteps
<1>5. CASE ~call[c].native /\ service = "outbound"
  BY <1>5 DEF OutboundSteps
<1>6. CASE ~call[c].native /\ service = "evidence"
  BY <1>6 DEF EvidenceSteps
<1>7. CASE ~call[c].native /\ service = "attribution"
  BY <1>7 DEF AttributionSteps
<1> QED
  BY <1>1, <1>2, <1>3, <1>4, <1>5, <1>6, <1>7

-----------------------------------------------------------------------------
LEMMA InitInv == Init => IInv
<1> SUFFICES ASSUME Init PROVE IInv
  OBVIOUS
<1>1. \A c \in Callers : Len(Script(c)) \in 1..6
  BY ScriptLength DEF Init
<1>2. TypeOK
  BY DEF Init, TypeOK, IdleCall
<1>3. \A c \in Callers : Running(c) /\ Truthful(c)
  <2> SUFFICES ASSUME NEW c \in Callers PROVE Running(c) /\ Truthful(c)
    OBVIOUS
  <2>1. call[c].step = 0 /\ ~call[c].native /\ ~call[c].won /\ call[c].answer = None
    BY DEF Init, IdleCall
  <2> QED
    BY <1>1, <2>1 DEF Running, Truthful, Reading, At
<1>4. SharesOnlyReady
  BY DEF Init, SharesOnlyReady
<1> QED
  BY <1>2, <1>3, <1>4 DEF IInv

\* What no step may do: change a row that is there, or take back a success.
Kept ==
  /\ service' = service
  /\ \A k \in Keys : rows[k] # None => rows'[k] = rows[k]
  /\ service = "share" => \A b \in Bodies : open[b] => open'[b]

LEMMA OthersKept ==
  ASSUME IInv, Kept, NEW q \in Callers, call'[q] = call[q]
  PROVE  Running(q)' /\ Truthful(q)'
<1>1. Running(q) /\ Truthful(q)
  BY DEF IInv
<1>2. Script(q)' = Script(q) /\ (Reading(q)' <=> Reading(q))
  BY DEF Kept, Script, Reading, At
<1>3. Reading(q) => call[q].key \in Keys
  BY <1>1 DEF Running, Reading, At
<1>4. Running(q)'
  BY <1>1, <1>2, <1>3 DEF Running, Kept, Mine
<1>5. Truthful(q)'
  BY <1>1 DEF Truthful, Kept, Same
<1> QED
  BY <1>4, <1>5

\* A call stays a call.
LEMMA StepUpdated ==
  ASSUME NEW m \in Called, NEW n \in 0..6 PROVE [m EXCEPT !.step = n] \in Called
BY DEF Called

LEMMA NativeUpdated ==
  ASSUME NEW m \in Called, NEW n \in BOOLEAN PROVE [m EXCEPT !.native = n] \in Called
BY DEF Called

LEMMA KeyUpdated ==
  ASSUME NEW m \in Called, NEW k \in Keys PROVE [m EXCEPT !.key = k] \in Called
BY DEF Called

LEMMA BodyUpdated ==
  ASSUME NEW m \in Called, NEW b \in Bodies PROVE [m EXCEPT !.body = b] \in Called
BY DEF Called

LEMMA AnswerUpdated ==
  ASSUME NEW m \in Called, NEW a \in Answer PROVE [m EXCEPT !.answer = a] \in Called
BY DEF Called

\* A step of one caller.
LEMMA CallerStep ==
  ASSUME IInv, Kept, NEW c \in Callers, NEW t \in Called, call' = [call EXCEPT ![c] = t],
         Running(c)', Truthful(c)', SharesOnlyReady',
         rows' \in [Keys -> Row \cup {None}], locked' \subseteq Keys, UNCHANGED <<open, known>>
  PROVE  IInv'
<1>1. TypeOK'
  BY DEF IInv, TypeOK, Called, Kept
<1>2. \A q \in Callers : Running(q)' /\ Truthful(q)'
  <2> SUFFICES ASSUME NEW q \in Callers, q # c PROVE Running(q)' /\ Truthful(q)'
    OBVIOUS
  <2>1. call'[q] = call[q]
    BY DEF IInv, TypeOK
  <2> QED
    BY <2>1, OthersKept
<1> QED
  BY <1>1, <1>2 DEF IInv

\* The call goes on, knowing no more than a value.
LEMMA Proceeds ==
  ASSUME IInv, NEW c \in Callers, NEW now \in Called,
         now.step = call[c].step, now.key = call[c].key, now.body = call[c].body,
         now.won = call[c].won, now.answer = call[c].answer, now.native = call[c].native,
         At(c, "gate") \/ At(c, "lock") \/ At(c, "find") \/ At(c, "ask") \/ At(c, "lookUp"),
         service = "share" => open[call[c].body],
         call' = [call EXCEPT ![c] = [now EXCEPT !.step = @ + 1]], locked' \subseteq Keys,
         UNCHANGED <<service, open, known, rows>>
  PROVE  IInv'
<1> DEFINE n == call[c].step
           t == [now EXCEPT !.step = @ + 1]
<1>1. Running(c) /\ service \in DOMAIN Scripts /\ n \in 1..Len(Script(c))
  BY DEF IInv, TypeOK, Running, At, Called
<1>2. /\ Len(Script(c)) \in 1..6 /\ n + 1 \in 1..Len(Script(c))
      /\ Script(c)[n + 1] \notin {"read", "readIfLost"} /\ ~Reading(c)
  BY <1>1, ScriptLength, ScriptSteps DEF At, Reading, Running
<1>3. /\ t \in Called /\ t.step = n + 1 /\ t.key = now.key /\ t.body = now.body
      /\ t.won = now.won /\ t.answer = now.answer /\ t.native = now.native
  BY <1>1, <1>2 DEF Called
<1>4. call' = [call EXCEPT ![c] = t] /\ call'[c] = t
  BY DEF IInv, TypeOK
<1> HIDE DEF t, n
<1>5. ~Reading(c)' /\ Script(c)' = Script(c)
  <2>1. Script(c)' = Script(c)
    BY <1>3, <1>4 DEF Script
  <2> QED
    BY <1>2, <1>3, <1>4, <2>1 DEF Reading, At
<1>6. Running(c)'
  BY <1>1, <1>2, <1>3, <1>4, <1>5 DEF Running, n
<1>7. Truthful(c)'
  BY <1>1, <1>3, <1>4 DEF Truthful, Running, n
<1>8. Kept /\ SharesOnlyReady' /\ rows' \in [Keys -> Row \cup {None}] /\ UNCHANGED <<open, known>>
  BY DEF Kept, IInv, TypeOK, SharesOnlyReady
<1> QED
  BY <1>3, <1>4, <1>6, <1>7, <1>8, CallerStep

\* The call ends with an answer that is so.
LEMMA Tells ==
  ASSUME IInv, Kept, NEW c \in Callers, call[c].step > 0,
         NEW status \in {"ok", "conflict", "refused", "unavailable"},
         NEW row \in Row \cup {None}, NEW created \in BOOLEAN, Tell(c, status, row, created),
         status = "ok" => row # None /\ rows'[call[c].key] = row /\ Same(c, row)
                          /\ (created => row.by = c),
         status = "conflict" => rows'[call[c].key] # None /\ ~Same(c, rows'[call[c].key]),
         SharesOnlyReady', rows' \in [Keys -> Row \cup {None}], UNCHANGED <<open, known>>
  PROVE  IInv'
<1> DEFINE t == [call[c] EXCEPT !.step = 0,
                   !.answer = [status |-> status, row |-> row, created |-> created]]
<1>1. Running(c) /\ call[c] \in Called
  BY DEF IInv, TypeOK, Called
<1>2. /\ t \in Called /\ t.step = 0 /\ t.key = call[c].key
      /\ t.body = call[c].body /\ t.value = call[c].value /\ t.native = call[c].native
      /\ t.answer = [status |-> status, row |-> row, created |-> created]
  <2>1. [status |-> status, row |-> row, created |-> created] \in Answer
    BY DEF Answer
  <2> DEFINE a == [status |-> status, row |-> row, created |-> created]
  <2>2. t = [[call[c] EXCEPT !.step = 0] EXCEPT !.answer = a]
    OBVIOUS
  <2> HIDE DEF a, t
  <2>3. t \in Called
    <3>0. 0 \in 0..6
      OBVIOUS
    <3>1. [call[c] EXCEPT !.step = 0] \in Called
      BY <1>1, <3>0, StepUpdated, Zenon
    <3>2. a \in Answer
      BY <2>1 DEF a
    <3> HIDE DEF a
    <3> QED
      BY <2>2, <3>1, <3>2, AnswerUpdated, Zenon
  <2>4. /\ t.step = 0 /\ t.key = call[c].key /\ t.body = call[c].body
        /\ t.value = call[c].value /\ t.answer = a /\ t.native = call[c].native
    BY <1>1, <2>2 DEF Called
  <2> QED
    BY <2>3, <2>4 DEF a
<1>3. call' = [call EXCEPT ![c] = t] /\ call'[c] = t /\ locked' \subseteq Keys
  BY <1>1 DEF IInv, TypeOK, Tell
<1> HIDE DEF t
<1>4. ~Reading(c)' /\ Script(c)' = Script(c) /\ Len(Script(c)) \in Nat
  <2>1. Script(c)' = Script(c)
    BY <1>2, <1>3 DEF Kept, Script
  <2>2. Len(Script(c)) \in Nat
    BY ScriptLength DEF IInv, TypeOK
  <2> QED
    BY <1>2, <1>3, <2>1, <2>2 DEF Reading, At
<1>5. Running(c)'
  BY <1>1, <1>2, <1>3, <1>4 DEF Running, Kept
<1>6. Truthful(c)'
  BY <1>1, <1>2, <1>3 DEF Truthful, Running, Same, Kept
<1> QED
  BY <1>2, <1>3, <1>5, <1>6, CallerStep

LEMMA TellsStored ==
  ASSUME IInv, Kept, NEW c \in Callers, call[c].step > 0, NEW row \in Row,
         NEW created \in BOOLEAN, TellStored(c, row, created),
         rows'[call[c].key] = row, created => row.by = c,
         SharesOnlyReady', rows' \in [Keys -> Row \cup {None}], UNCHANGED <<open, known>>
  PROVE  IInv'
<1>1. row # None
  BY RecordsAssumption DEF RecordsAssumption
<1>2. CASE Same(c, row)
  BY <1>1, <1>2, Tells DEF TellStored
<1>3. CASE ~Same(c, row)
  BY <1>1, <1>3, Tells DEF TellStored
<1> QED
  BY <1>2, <1>3

\* What holds of a caller in the middle of its script.
LEMMA Busy ==
  ASSUME IInv, NEW c \in Callers, call[c].step > 0
  PROVE  /\ call[c].key \in Keys /\ call[c].body \in Bodies /\ call[c].answer = None
         /\ call[c].step \in 1..Len(Script(c)) /\ service \in DOMAIN Scripts
         /\ call[c] \in Called /\ rows \in [Keys -> Row \cup {None}] /\ locked \subseteq Keys
         /\ rows[call[c].key] \in Row \cup {None} /\ Mine(c) \in Row
<1>1. call[c] \in Called /\ Running(c) /\ service \in DOMAIN Scripts
      /\ rows \in [Keys -> Row \cup {None}] /\ locked \subseteq Keys
  BY DEF IInv, TypeOK, Called
<1>2. /\ call[c].key \in Keys /\ call[c].body \in Bodies /\ call[c].answer = None
      /\ call[c].step \in 0..Len(Script(c))
  BY <1>1 DEF Running
<1>3. call[c].step \in 1..Len(Script(c))
  BY <1>1, <1>2, ScriptLength
<1>4. call[c].value \in Values \cup {None}
  BY <1>1 DEF Called
<1>5. Mine(c) \in Row
  BY <1>2, <1>4 DEF Mine, Row
<1> QED
  BY <1>1, <1>2, <1>3, <1>5

LEMMA StillKept ==
  ASSUME IInv, UNCHANGED <<service, open, known, rows>>
  PROVE  Kept /\ SharesOnlyReady' /\ rows' \in [Keys -> Row \cup {None}]
BY DEF IInv, TypeOK, Kept, SharesOnlyReady

-----------------------------------------------------------------------------
(* The steps that write nothing.                                           *)

LEMMA ReceiveInv ==
  ASSUME IInv, NEW c \in Callers, NEW k \in Keys, NEW b \in Bodies, NEW native \in BOOLEAN,
         Receive(c, k, b, native)
  PROVE  IInv'
<1> DEFINE i == [IdleCall EXCEPT !.native = native]
           t == [i EXCEPT !.step = 1, !.key = k, !.body = b]
<1>1. /\ t \in Called /\ t.step = 1 /\ t.key = k /\ t.body = b /\ ~t.won /\ t.answer = None
      /\ t.native = native
  <2>0. IdleCall \in Called /\ ~IdleCall.won /\ IdleCall.answer = None
    BY DEF IdleCall, Called
  <2>1. i \in Called /\ i.won = IdleCall.won /\ i.answer = None /\ i.native = native
    <3>1. i \in Called
      BY <2>0, NativeUpdated, Zenon
    <3> QED
      BY <2>0, <3>1 DEF Called
  <2> HIDE DEF i
  <2>2. t \in Called
    <3>0. 1 \in 0..6
      OBVIOUS
    <3>1. [i EXCEPT !.step = 1] \in Called
      BY <2>1, <3>0, StepUpdated, Zenon
    <3>2. [[i EXCEPT !.step = 1] EXCEPT !.key = k] \in Called
      BY <3>1, KeyUpdated, Zenon
    <3>3. [[[i EXCEPT !.step = 1] EXCEPT !.key = k] EXCEPT !.body = b] \in Called
      BY <3>2, BodyUpdated, Zenon
    <3> QED
      BY <3>3
  <2>3. t.step = 1 /\ t.key = k /\ t.body = b /\ t.won = i.won /\ t.answer = i.answer
        /\ t.native = i.native
    BY <2>1 DEF Called
  <2> QED
    BY <2>0, <2>1, <2>2, <2>3
<1>2. call' = [call EXCEPT ![c] = t] /\ call'[c] = t /\ service' = service
      /\ (native => service = "share")
  BY DEF IInv, TypeOK, Receive
<1> HIDE DEF t, i
<1>3. Len(Script(c)') \in 1..6 /\ Script(c)'[1] \notin {"read", "readIfLost"}
  <2>1. service \in DOMAIN Scripts
    BY DEF IInv, TypeOK
  <2>2. Script(c)' = IF native THEN NativeSteps ELSE Scripts[service]
    BY <1>1, <1>2 DEF Script, Scripts
  <2> QED
    BY <2>1, <2>2 DEF Scripts, NativeSteps, TrackingSteps, PreviewSteps, ShareSteps,
       OutboundSteps, EvidenceSteps, AttributionSteps
<1>4. ~Reading(c)'
  BY <1>1, <1>2, <1>3 DEF Reading, At
<1>5. Running(c)' /\ Truthful(c)'
  BY <1>1, <1>2, <1>3, <1>4 DEF Running, Truthful
<1>6. Kept /\ SharesOnlyReady' /\ rows' \in [Keys -> Row \cup {None}]
  BY StillKept DEF Receive
<1>7. locked' \subseteq Keys
  BY DEF IInv, TypeOK, Receive
<1> QED
  BY <1>1, <1>2, <1>5, <1>6, <1>7, CallerStep DEF Receive

\* Which of the steps a share may be at, and what holds there.
LEMMA ShareOpen ==
  ASSUME IInv, NEW c \in Callers, call[c].step > 0, service = "share",
         ~At(c, "gate")
  PROVE  /\ At(c, "insert") => open[call[c].body]
         /\ ~At(c, "find") /\ ~At(c, "ask") /\ ~At(c, "lock") /\ ~At(c, "lookUp")
<1>1. call[c].step \in 1..Len(Script(c)) /\ Running(c)
  BY Busy DEF IInv
<1> QED
  BY <1>1, ScriptSteps DEF IInv, TypeOK, At, Running

LEMMA GateInv == ASSUME IInv, NEW c \in Callers, Gate(c) PROVE IInv'
<1>0. call[c].step > 0 /\ call[c] \in Called
  BY Busy DEF Gate, At
<1>1. CASE open[GateOf(c)]
  <2>1. service = "share" => open[call[c].body]
    BY <1>1 DEF GateOf
  <2>2. call' = [call EXCEPT ![c] = [call[c] EXCEPT !.step = @ + 1]] /\ locked' = locked
    BY <1>1 DEF Gate, Proceed
  <2> QED
    BY <1>0, <2>1, <2>2, Proceeds, Busy DEF Gate
<1>2. CASE ~open[GateOf(c)]
  <2>1. Tell(c, "refused", None, FALSE)
    BY <1>2 DEF Gate
  <2> QED
    BY <1>0, <2>1, Tells, StillKept DEF Gate
<1> QED
  BY <1>1, <1>2

LEMMA LockInv == ASSUME IInv, NEW c \in Callers, Lock(c) PROVE IInv'
<1>1. call[c].step > 0 /\ call[c] \in Called /\ call[c].key \in Keys /\ locked \subseteq Keys
  BY Busy DEF Lock, At
<1>2. call' = [call EXCEPT ![c] = [call[c] EXCEPT !.step = @ + 1]] /\ locked' \subseteq Keys
  BY <1>1 DEF Lock, IInv, TypeOK
<1>3. service # "share"
  BY <1>1, ShareOpen DEF Lock, At
<1> QED
  BY <1>1, <1>2, <1>3, Proceeds DEF Lock

LEMMA FindInv == ASSUME IInv, NEW c \in Callers, Find(c) PROVE IInv'
<1> DEFINE row == rows[call[c].key]
<1>1. call[c].step > 0 /\ call[c] \in Called /\ row \in Row \cup {None} /\ service # "share"
      /\ locked \subseteq Keys
  BY Busy, ShareOpen DEF Find, At
<1>2. CASE row = None
  BY <1>1, <1>2, Proceeds DEF Find, Proceed
<1>3. CASE row # None
  BY <1>1, <1>3, TellsStored, StillKept DEF Find
<1> QED
  BY <1>2, <1>3

LEMMA AskInv == ASSUME IInv, NEW c \in Callers, Ask(c) PROVE IInv'
<1>1. call[c].step > 0 /\ call[c] \in Called /\ service # "share" /\ locked \subseteq Keys
  BY Busy, ShareOpen DEF Ask, At
<1>2. ASSUME NEW v \in Values, Proceed(c, [call[c] EXCEPT !.value = v]) PROVE IInv'
  <2> DEFINE now == [call[c] EXCEPT !.value = v]
  <2>1. /\ now \in Called /\ now.step = call[c].step /\ now.key = call[c].key
        /\ now.body = call[c].body /\ now.won = call[c].won /\ now.answer = call[c].answer
        /\ now.native = call[c].native
    BY <1>1 DEF Called
  <2>2. call' = [call EXCEPT ![c] = [now EXCEPT !.step = @ + 1]] /\ locked' = locked
    BY <1>2 DEF Proceed
  <2> HIDE DEF now
  <2> QED
    BY <1>1, <2>1, <2>2, Proceeds DEF Ask
<1>3. CASE Tell(c, "unavailable", None, FALSE)
  BY <1>1, <1>3, Tells, StillKept DEF Ask
<1> QED
  BY <1>2, <1>3 DEF Ask

LEMMA LookUpInv == ASSUME IInv, NEW c \in Callers, LookUp(c) PROVE IInv'
<1> DEFINE now == [call[c] EXCEPT !.value = known[call[c].body]]
<1>1. /\ call[c].step > 0 /\ call[c] \in Called /\ service # "share"
      /\ locked \subseteq Keys /\ call[c].body \in Bodies
  BY Busy, ShareOpen DEF LookUp, At
<1>2. known[call[c].body] \in Values \cup {None}
  BY <1>1 DEF IInv, TypeOK
<1>3. /\ now \in Called /\ now.step = call[c].step /\ now.key = call[c].key
      /\ now.body = call[c].body /\ now.won = call[c].won /\ now.answer = call[c].answer
      /\ now.native = call[c].native
  BY <1>1, <1>2 DEF Called
<1>4. call' = [call EXCEPT ![c] = [now EXCEPT !.step = @ + 1]] /\ locked' = locked
  BY DEF LookUp, Proceed
<1> HIDE DEF now
<1> QED
  BY <1>1, <1>3, <1>4, Proceeds DEF LookUp

LEMMA ReadIfLostInv == ASSUME IInv, NEW c \in Callers, ReadIfLost(c) PROVE IInv'
<1>1. call[c].step > 0 /\ Reading(c) /\ Running(c)
  BY DEF ReadIfLost, Reading, At, IInv
<1>2. rows[call[c].key] \in Row /\ (call[c].won => rows[call[c].key] = Mine(c)) /\ Mine(c) \in Row
  BY <1>1, Busy DEF Running
<1>3. Same(c, Mine(c)) /\ Mine(c).by = c
  BY DEF Same, Mine
<1>4. CASE call[c].won
  BY <1>1, <1>2, <1>3, <1>4, Tells, StillKept, RecordsAssumption DEF ReadIfLost, RecordsAssumption
<1>5. CASE ~call[c].won
  BY <1>1, <1>2, <1>5, TellsStored, StillKept DEF ReadIfLost
<1> QED
  BY <1>4, <1>5

LEMMA ReadInv == ASSUME IInv, NEW c \in Callers, Read(c) PROVE IInv'
<1>1. call[c].step > 0 /\ Reading(c) /\ Running(c) /\ call[c].won \in BOOLEAN
  BY Busy DEF Read, Reading, At, IInv, Called
<1>2. rows[call[c].key] \in Row /\ (call[c].won => rows[call[c].key] = Mine(c))
  BY <1>1, Busy DEF Running
<1>3. Mine(c).by = c
  BY DEF Mine
<1> QED
  BY <1>1, <1>2, <1>3, TellsStored, StillKept DEF Read

LEMMA FailInv == ASSUME IInv, NEW c \in Callers, Fail(c) PROVE IInv'
BY Tells, StillKept DEF Fail

-----------------------------------------------------------------------------
(* The steps that write a row.                                             *)

LEMMA WonUpdated ==
  ASSUME NEW m \in Called, NEW w \in BOOLEAN PROVE [m EXCEPT !.won = w] \in Called
BY DEF Called

\* A row is stored where none was, of a conversion that has succeeded.
LEMMA Stored ==
  ASSUME IInv, NEW c \in Callers, call[c].step > 0,
         IF rows[call[c].key] = None THEN rows' = [rows EXCEPT ![call[c].key] = Mine(c)]
                                     ELSE rows' = rows,
         service = "share" => open[call[c].body],
         UNCHANGED <<service, open>>
  PROVE  /\ Kept /\ SharesOnlyReady' /\ rows' \in [Keys -> Row \cup {None}]
         /\ rows'[call[c].key] \in Row
         /\ rows[call[c].key] = None => rows'[call[c].key] = Mine(c)
         /\ rows[call[c].key] # None => rows'[call[c].key] = rows[call[c].key]
<1> DEFINE k == call[c].key
<1>1. k \in Keys /\ rows \in [Keys -> Row \cup {None}] /\ Mine(c) \in Row
  BY Busy
<1>2. /\ rows' \in [Keys -> Row \cup {None}]
      /\ rows[k] = None => rows'[k] = Mine(c)
      /\ \A j \in Keys : rows'[j] = rows[j] \/ (j = k /\ rows[k] = None)
  BY <1>1
<1>3. Kept
  BY <1>2 DEF Kept
<1>4. Mine(c).body = call[c].body
  BY DEF Mine
<1>5. SharesOnlyReady'
  BY <1>2, <1>4 DEF SharesOnlyReady, IInv
<1> QED
  BY <1>1, <1>2, <1>3, <1>5

LEMMA InsertInv == ASSUME IInv, NEW c \in Callers, Insert(c) PROVE IInv'
<1> DEFINE n == call[c].step
           w == rows[call[c].key] = None
           now == [call[c] EXCEPT !.won = w]
           t == [now EXCEPT !.step = @ + 1]
<1>1. n > 0 /\ n \in 1..Len(Script(c)) /\ Script(c)[n] = "insert" /\ service \in DOMAIN Scripts
      /\ call[c] \in Called /\ Len(Script(c)) \in 1..6 /\ Running(c)
  BY Busy, ScriptLength DEF Insert, At, IInv
<1>2. /\ n + 1 \in 1..Len(Script(c)) /\ Script(c)[n + 1] \in {"read", "readIfLost"}
      /\ service = "share" => n > 1
  BY <1>1, ScriptSteps DEF Running
<1>3. service = "share" => open[call[c].body]
  BY <1>1, <1>2 DEF Running
<1>4. /\ Kept /\ SharesOnlyReady' /\ rows' \in [Keys -> Row \cup {None}]
      /\ rows'[call[c].key] # None /\ (w => rows'[call[c].key] = Mine(c))
  BY <1>1, <1>3, Stored, RecordsAssumption DEF Insert, RecordsAssumption
<1>5. now \in Called /\ now.step = n
  <2>1. w \in BOOLEAN
    OBVIOUS
  <2> HIDE DEF w
  <2>2. now \in Called
    BY <1>1, <2>1, WonUpdated, Zenon
  <2> QED
    BY <1>1, <2>2 DEF Called
<1>6. t \in Called
  <2>1. n + 1 \in 0..6
    BY <1>1, <1>2
  <2> HIDE DEF now
  <2> QED
    BY <1>5, <2>1, StepUpdated, Zenon
<1>7. /\ t.step = n + 1 /\ t.key = call[c].key /\ t.body = call[c].body /\ t.value = call[c].value
      /\ t.answer = call[c].answer /\ t.native = call[c].native
  BY <1>1 DEF Called
<1>8. t.won = w
  BY <1>1, Zenon DEF Called
<1>9. call' = [call EXCEPT ![c] = t] /\ call'[c] = t
  BY DEF Insert, Proceed, IInv, TypeOK
<1> HIDE DEF t, now, w, n
<1>10. Script(c)' = Script(c)
  BY <1>7, <1>9 DEF Insert, Script
<1>11. Mine(c)' = Mine(c)
  BY <1>7, <1>9 DEF Mine
<1>12. Reading(c)'
  BY <1>2, <1>7, <1>9, <1>10 DEF Reading, At
<1>13. Running(c)'
  BY <1>1, <1>2, <1>3, <1>4, <1>7, <1>8, <1>9, <1>10, <1>11, <1>12 DEF Running, n, Insert
<1>14. Truthful(c)'
  BY <1>1, <1>7, <1>9 DEF Truthful, Running, n
<1>15. locked' \subseteq Keys
  BY DEF Insert, Proceed, IInv, TypeOK
<1> QED
  BY <1>4, <1>6, <1>9, <1>13, <1>14, <1>15, CallerStep DEF Insert

LEMMA OwnRow ==
  ASSUME NEW c \in Callers PROVE Same(c, Mine(c)) /\ Mine(c).by = c
BY DEF Same, Mine

LEMMA AttributeInv == ASSUME IInv, NEW c \in Callers, Attribute(c) PROVE IInv'
<1>1. call[c].step > 0 /\ Mine(c) \in Row /\ Mine(c) # None
  BY Busy, RecordsAssumption DEF RecordsAssumption, Attribute, At
<1>2. service = "attribution"
  BY <1>1, Busy, ScriptSteps DEF Attribute, At, IInv, Running
<1>3. CASE rows[call[c].key] = None
  <2>1. Kept /\ SharesOnlyReady' /\ rows' \in [Keys -> Row \cup {None}]
        /\ rows'[call[c].key] = Mine(c)
    BY <1>1, <1>2, <1>3, Stored DEF Attribute
  <2> QED
    BY <1>1, <1>3, <2>1, OwnRow, Tells DEF Attribute
<1>4. CASE rows[call[c].key] # None
  BY <1>1, <1>4, Tells, StillKept DEF Attribute
<1> QED
  BY <1>3, <1>4

LEMMA TransactInv == ASSUME IInv, NEW c \in Callers, Transact(c) PROVE IInv'
<1> DEFINE k == call[c].key
           row == IF rows[k] = None THEN Mine(c) ELSE rows[k]
<1>1. /\ call[c].step > 0 /\ k \in Keys /\ rows \in [Keys -> Row \cup {None}]
      /\ Mine(c) \in Row /\ row \in Row
  BY Busy DEF Transact, At
<1>2. CASE open[GateOf(c)]
  <2>1. rows' = [rows EXCEPT ![k] = row] /\ TellStored(c, row, rows[k] = None)
    BY <1>2 DEF Transact
  <2>2. service = "share" => open[call[c].body]
    BY <1>2 DEF GateOf
  <2>3. IF rows[k] = None THEN rows' = [rows EXCEPT ![k] = Mine(c)] ELSE rows' = rows
    BY <1>1, <2>1
  <2>4. Kept /\ SharesOnlyReady' /\ rows' \in [Keys -> Row \cup {None}] /\ rows'[k] = row
    BY <1>1, <2>2, <2>3, Stored DEF Transact
  <2>5. rows[k] = None => row.by = c
    BY OwnRow
  <2>6. (rows[k] = None) \in BOOLEAN /\ UNCHANGED <<open, known>>
    BY DEF Transact
  <2> HIDE DEF row
  <2> QED
    BY <1>1, <2>1, <2>4, <2>5, <2>6, TellsStored
<1>3. CASE ~open[GateOf(c)]
  BY <1>1, <1>3, Tells, StillKept DEF Transact
<1> QED
  BY <1>2, <1>3

-----------------------------------------------------------------------------
(* The world.                                                              *)

LEMMA ChangeInv == ASSUME IInv, NEW g \in Keys \cup Bodies, Change(g) PROVE IInv'
<1>1. Kept /\ call' = call
  BY DEF Change, Kept, Monotone, IInv, TypeOK
<1>2. TypeOK'
  BY DEF Change, IInv, TypeOK
<1>3. SharesOnlyReady'
  BY <1>1 DEF Change, Kept, IInv, SharesOnlyReady, TypeOK, Row
<1> QED
  BY <1>1, <1>2, <1>3, OthersKept DEF IInv

LEMMA LearnInv ==
  ASSUME IInv, NEW b \in Bodies, NEW v \in Values \cup {None}, Learn(b, v) PROVE IInv'
<1>1. Kept /\ call' = call
  BY DEF Learn, Kept
<1>2. TypeOK' /\ SharesOnlyReady'
  BY DEF Learn, IInv, TypeOK, SharesOnlyReady
<1> QED
  BY <1>1, <1>2, OthersKept DEF IInv

LEMMA NextInv == ASSUME IInv, [Next]_vars PROVE IInv'
<1>1. ASSUME NEW c \in Callers, Step(c) PROVE IInv'
  BY <1>1, GateInv, LockInv, FindInv, AskInv, InsertInv, ReadIfLostInv, ReadInv, LookUpInv,
     AttributeInv, TransactInv, FailInv DEF Step
<1>2. CASE UNCHANGED vars
  <2>1. Kept /\ call' = call /\ TypeOK' /\ SharesOnlyReady'
    BY <1>2 DEF vars, Kept, IInv, TypeOK, SharesOnlyReady
  <2> QED
    BY <2>1, OthersKept DEF IInv
<1> QED
  BY <1>1, <1>2, ReceiveInv, ChangeInv, LearnInv DEF Next

-----------------------------------------------------------------------------
\* The invariant holds in every behaviour of every one of the services.
THEOREM Inductive == Spec => []IInv
<1>1. Init => IInv
  BY InitInv
<1>2. IInv /\ [Next]_vars => IInv'
  BY NextInv
<1> QED
  BY <1>1, <1>2, PTL DEF Spec

\* What a caller was told of a record, by Create, Record, Prepare, Save or Apply, is
\* what is stored, then and ever after.
THEOREM AnswersStayTrue == Spec => []AnswersAreTrue
<1>1. IInv => AnswersAreTrue
  BY DEF IInv, Truthful, AnswersAreTrue
<1> QED
  BY <1>1, Inductive, PTL

\* A share event is stored only of a conversion that has succeeded.
THEOREM SharesReady == Spec => []SharesOnlyReady
<1>1. IInv => SharesOnlyReady
  BY DEF IInv
<1> QED
  BY <1>1, Inductive, PTL

=============================================================================
