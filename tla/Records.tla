------------------------------- MODULE Records -------------------------------
(***************************************************************************)
(* Records written once under an idempotency key.  Seven services store    *)
(* such a row, and each answers a repetition with the row that is there:   *)
(*                                                                         *)
(*   tracking     tracking.Service.Create                                  *)
(*   preview      preview.Service.Create                                   *)
(*   share        conversion.ShareEventStore.Record and, natively,         *)
(*                conversion.Repository.RecordShareEvent                   *)
(*   outbound     coupon.OutboundService.Prepare                           *)
(*   evidence     order.Store.Save                                         *)
(*   attribution  order.AttributionStore.Apply                             *)
(*                                                                         *)
(* Each is a script over the same few steps, every one a statement or a    *)
(* call of its own, so that callers of one key interleave between them.    *)
(* A behaviour is about one table.  Only share events are written by two   *)
(* services, the web's and the native clients', and the caller says which. *)
(* (Conversions add tracking records too, under keys nobody else draws.)   *)
(***************************************************************************)
EXTENDS Naturals, Sequences

CONSTANTS
  Callers,
  Keys,    \* idempotency keys, event ids; for attribution, orders
  Bodies,  \* what a request asks for, as its fingerprint or columns tell it
  Values,  \* quotes, hosts or owners: what a row gets from elsewhere
  None

VARIABLES
  service,  \* what this behaviour is about
  open,     \* the gate: position eligible, request SUCCEEDED, coupon listed, order projected
  known,    \* what a lookup for attribution finds now
  rows,     \* the service's table, by key
  locked,   \* keys under an advisory lock
  call      \* calls in progress, and the last answer

vars == <<service, open, known, rows, locked, call>>

-----------------------------------------------------------------------------
(* The scripts.                                                            *)

TrackingSteps == <<"find", "insert", "readIfLost">>

PreviewSteps == <<"gate", "find", "ask", "gate", "insert", "read">>

ShareSteps == <<"gate", "insert", "readIfLost">>

\* One transaction, which others see at once.
NativeSteps == <<"transact">>

OutboundSteps == <<"gate", "ask", "insert", "read">>

EvidenceSteps == <<"insert", "read">>

AttributionSteps == <<"gate", "lock", "find", "lookUp", "attribute">>

Scripts ==
  [tracking |-> TrackingSteps, preview |-> PreviewSteps, share |-> ShareSteps,
   outbound |-> OutboundSteps, evidence |-> EvidenceSteps, attribution |-> AttributionSteps]

Script(c) == IF call[c].native THEN NativeSteps ELSE Scripts[service]

\* by stands for the id and the time the inserting call drew.
Row == [body : Bodies, value : Values \cup {None}, by : Callers]

ASSUME RecordsAssumption == None \notin Values \cup Bodies \cup Row /\ Keys \cap Bodies = {}

Answer == [status : {"ok", "conflict", "refused", "unavailable"}, row : Row \cup {None},
           created : BOOLEAN]

IdleCall == [native |-> FALSE, step |-> 0, key |-> None, body |-> None, value |-> None,
             won |-> FALSE, answer |-> None]

\* Requests stay SUCCEEDED and orders projected; a position or a coupon comes and goes.
Monotone == service \in {"share", "attribution"}

Gates == IF service = "attribution" THEN Keys
         ELSE IF service \in {"preview", "share", "outbound"} THEN Bodies ELSE {}

GateOf(c) == IF service = "attribution" THEN call[c].key ELSE call[c].body

Init ==
  /\ service \in DOMAIN Scripts
  /\ open = [g \in Keys \cup Bodies |-> FALSE]
  /\ known = [b \in Bodies |-> None]
  /\ rows = [k \in Keys |-> None]
  /\ locked = {}
  /\ call = [c \in Callers |-> IdleCall]

-----------------------------------------------------------------------------
(* Steps.                                                                  *)

At(c, step) == call[c].step > 0 /\ Script(c)[call[c].step] = step

\* What a row stored by this call would be, and whether a stored one is what it asked for.
Mine(c) == [body |-> call[c].body, value |-> call[c].value, by |-> c]

\* An outbound link has to lead to the host of the stored one (outbound.go:100).
Same(c, row) ==
  /\ row.body = call[c].body
  /\ service = "outbound" => row.value = call[c].value

\* The answer, after which nothing of the call remains but what the client knows.
Tell(c, status, row, created) ==
  /\ call' = [call EXCEPT ![c].step = 0,
       ![c].answer = [status |-> status, row |-> row, created |-> created]]
  /\ locked' = IF service = "attribution" THEN locked \ {call[c].key} ELSE locked

\* The loser of the race for the key is told so without a look at the row.
TellStoredBlindly(c, row, created) ==
  IF created THEN Tell(c, "ok", row, TRUE) ELSE Tell(c, "conflict", None, FALSE)

TellStored(c, row, created) ==
  IF Same(c, row) THEN Tell(c, "ok", row, created) ELSE Tell(c, "conflict", None, FALSE)

Proceed(c, now) ==
  /\ call' = [call EXCEPT ![c] = [now EXCEPT !.step = @ + 1]]
  /\ UNCHANGED locked

Receive(c, key, body, native) ==
  /\ call[c].step = 0
  /\ native => service = "share"
  /\ call' = [call EXCEPT ![c] =
       [IdleCall EXCEPT !.native = native, !.step = 1, !.key = key, !.body = body]]
  /\ UNCHANGED <<service, open, known, rows, locked>>

\* Eligibility, the request's or the coupon's status, the order of the evidence.
Gate(c) ==
  /\ At(c, "gate")
  /\ IF open[GateOf(c)] THEN Proceed(c, call[c]) ELSE Tell(c, "refused", None, FALSE)
  /\ UNCHANGED <<service, open, known, rows>>

Lock(c) ==
  /\ At(c, "lock") /\ call[c].key \notin locked
  /\ locked' = locked \cup {call[c].key}
  /\ call' = [call EXCEPT ![c].step = @ + 1]
  /\ UNCHANGED <<service, open, known, rows>>

Find(c) ==
  LET row == rows[call[c].key] IN
  /\ At(c, "find")
  /\ IF row = None THEN Proceed(c, call[c]) ELSE TellStored(c, row, FALSE)
  /\ UNCHANGED <<service, open, known, rows>>

\* The resolver or the quoter answers, or it does not.
Ask(c) ==
  /\ At(c, "ask")
  /\ \/ \E v \in Values : Proceed(c, [call[c] EXCEPT !.value = v])
     \/ Tell(c, "unavailable", None, FALSE)
  /\ UNCHANGED <<service, open, known, rows>>

\* INSERT ... ON CONFLICT DO NOTHING.
Insert(c) ==
  LET key == call[c].key IN
  /\ At(c, "insert")
  /\ rows' = IF rows[key] = None THEN [rows EXCEPT ![key] = Mine(c)] ELSE rows
  /\ Proceed(c, [call[c] EXCEPT !.won = (rows[key] = None)])
  /\ UNCHANGED <<service, open, known>>

\* Whose link or position the order came by; nobody's is left for review.
LookUp(c) ==
  /\ At(c, "lookUp")
  /\ Proceed(c, [call[c] EXCEPT !.value = known[call[c].body]])
  /\ UNCHANGED <<service, open, known, rows>>

\* Has no ON CONFLICT clause: its lock keeps the key free.
Attribute(c) ==
  LET key == call[c].key IN
  /\ At(c, "attribute")
  /\ IF rows[key] = None
       THEN rows' = [rows EXCEPT ![key] = Mine(c)] /\ Tell(c, "ok", Mine(c), TRUE)
       ELSE Tell(c, "unavailable", None, FALSE) /\ UNCHANGED rows
  /\ UNCHANGED <<service, open, known>>

\* Tracking and share events answer what they inserted, and read only what they did not.
ReadIfLost(c) ==
  /\ At(c, "readIfLost")
  /\ IF call[c].won THEN Tell(c, "ok", Mine(c), TRUE)
                    ELSE TellStored(c, rows[call[c].key], FALSE)
  /\ UNCHANGED <<service, open, known, rows>>

Read(c) ==
  /\ At(c, "read")
  /\ TellStored(c, rows[call[c].key], call[c].won)
  /\ UNCHANGED <<service, open, known, rows>>

\* Status under a share lock, insert, and the stored row where one was there.
Transact(c) ==
  LET key == call[c].key  row == IF rows[key] = None THEN Mine(c) ELSE rows[key] IN
  /\ At(c, "transact")
  /\ IF open[GateOf(c)]
       THEN rows' = [rows EXCEPT ![key] = row] /\ TellStored(c, row, rows[key] = None)
       ELSE Tell(c, "refused", None, FALSE) /\ UNCHANGED rows
  /\ UNCHANGED <<service, open, known>>

\* The call ends with no answer; the client may send it again.
Fail(c) ==
  /\ call[c].step > 0
  /\ Tell(c, "unavailable", None, FALSE)
  /\ UNCHANGED <<service, open, known, rows>>

-----------------------------------------------------------------------------
(* The world the gates and lookups are about.                              *)

Change(g) ==
  /\ g \in Gates /\ ~(Monotone /\ open[g])
  /\ open' = [open EXCEPT ![g] = ~@]
  /\ UNCHANGED <<service, known, rows, locked, call>>

\* A link succeeds, a mapping becomes READY or is configured afresh.
Learn(b, v) ==
  /\ service = "attribution" /\ known[b] # v
  /\ known' = [known EXCEPT ![b] = v]
  /\ UNCHANGED <<service, open, rows, locked, call>>

Step(c) ==
  \/ Gate(c) \/ Lock(c) \/ Find(c) \/ Ask(c) \/ Insert(c) \/ ReadIfLost(c) \/ Read(c)
  \/ LookUp(c) \/ Attribute(c) \/ Transact(c) \/ Fail(c)

Next ==
  \/ \E c \in Callers, k \in Keys, b \in Bodies, native \in BOOLEAN : Receive(c, k, b, native)
  \/ \E c \in Callers : Step(c)
  \/ \E g \in Keys \cup Bodies : Change(g)
  \/ \E b \in Bodies, v \in Values \cup {None} : Learn(b, v)

Spec == Init /\ [][Next]_vars

-----------------------------------------------------------------------------
\* Types of the variables.
TypeOK ==
  /\ service \in DOMAIN Scripts
  /\ open \in [Keys \cup Bodies -> BOOLEAN]
  /\ known \in [Bodies -> Values \cup {None}]
  /\ rows \in [Keys -> Row \cup {None}]
  /\ locked \subseteq Keys
  /\ call \in [Callers -> [native : BOOLEAN, step : 0..6, key : Keys \cup {None}, body : Bodies \cup {None},
       value : Values \cup {None}, won : BOOLEAN, answer : Answer \cup {None}]]

\* Whoever wins the race for a key: all callers told of a record are told of the one
\* that is stored, then and ever after, it is what they asked for, and only its author
\* is told he made it; a caller is told of a conflict only if the row is another one
\* (share_event.go:52-63, service.go:52-62, evidence.go:121-125, outbound.go:100).
AnswersAreTrue ==
  \A c \in Callers :
    LET told == call[c].answer  row == rows[call[c].key] IN
    /\ told # None /\ told.status = "ok" =>
         told.row = row /\ Same(c, row) /\ (told.created => row.by = c)
    /\ told # None /\ told.status = "conflict" => row # None /\ ~Same(c, row)

\* A share is recorded only of a link that exists: its conversion has succeeded
\* (share_event.go:47, share_events.go:60).
SharesOnlyReady ==
  service = "share" =>
    \A k \in Keys : rows[k] # None => open[rows[k].body]

=============================================================================
