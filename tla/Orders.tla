------------------------------- MODULE Orders -------------------------------
(***************************************************************************)
(* Channel events turned into orders (internal/order): Store.Save keeps a  *)
(* channel event as evidence, ProjectionStore.Apply projects evidence onto *)
(* normalized_orders, and ReadStore.GetOwned shows an order to its owner.  *)
(*                                                                         *)
(* Events may be saved and applied in any order, again and again, and with *)
(* a mapping that changed in between.  Apply runs under an advisory lock   *)
(* per order and reads nothing mutable before it, so it is one action; the *)
(* reader runs three queries outside any transaction, so it is three.      *)
(***************************************************************************)
EXTENDS Integers, Sequences, FiniteSets

CONSTANTS
  Evidence,   \* channel events, by the id their evidence is stored under
  Orders,     \* (channel, external_order_id) pairs of one channel
  RefundIds,  \* refund ids of that channel
  Times,      \* occurred_at of events
  Reported,   \* the order statuses the channel adapter maps events to
  Readers,    \* goroutines serving GET /promoter/orders/{id}
  None

statusRank ==
  [CREATED |-> 1, PAID |-> 2, CONFIRMED |-> 3, COMMISSION_CONFIRMED |-> 4,
   SETTLEMENT_PENDING |-> 5, SETTLED |-> 6]

Closed == {"CANCELLED", "INVALID", "REFUNDED"}
Status == DOMAIN statusRank \cup Closed

VARIABLES
  raw,      \* order_raw_events
  orders,   \* normalized_orders
  refunds,  \* order_refund_events
  log,      \* order_projection_events of each order, as they were committed
  reader    \* what each reader has read so far

vars == <<raw, orders, refunds, log, reader>>

-----------------------------------------------------------------------------
Event == [order : Orders, type : {"ORDER", "REFUND"}, at : Times]
Order == [status : Status, at : Times, occurred : Times, latest : Evidence]

\* What the adapter makes of an event: a status, or a refund and its kind.
Input == [status : Reported, refund : {None}, kind : {None}]
           \cup [status : {None}, refund : RefundIds, kind : {"PARTIAL", "FULL"}]

Refund == [evidence : Evidence, order : Orders, refund : RefundIds, kind : {"PARTIAL", "FULL"}]

Entry == [evidence : Evidence, input : Input,
          previous : Status \cup {None}, resulting : Status,
          disposition : {"APPLIED", "STALE", "DUPLICATE", "INVALID_TRANSITION"}]

Reading == [pc : {"idle", "history", "refunds", "done"}, order : Orders \cup {None},
            status : Status \cup {None}, shown : SUBSET (Status \cup {None}), count : Nat]

NotReading == [pc |-> "idle", order |-> None, status |-> None, shown |-> {}, count |-> 0]

ASSUME OrdersAssumption ==
  /\ Times \subseteq Int
  /\ Reported \subseteq Status \ {"REFUNDED"}
  /\ None \notin Status \cup RefundIds
  /\ None \notin Order

Init ==
  /\ raw     = [e \in Evidence |-> None]
  /\ orders  = [o \in Orders |-> None]
  /\ refunds = {}
  /\ log     = [o \in Orders |-> <<>>]
  /\ reader  = [g \in Readers |-> NotReading]

-----------------------------------------------------------------------------
(* Store.Save and ProjectionStore.Apply.                                   *)

\* A channel event is stored once; a second Save of it changes nothing.
Save(e, event) ==
  /\ raw[e] = None
  /\ raw' = [raw EXCEPT ![e] = event]
  /\ UNCHANGED <<orders, refunds, log, reader>>

\* Mutant: any higher or lower rank will do.
transitionAnyRank(current, next) ==
  /\ current # next
  /\ current \notin Closed
  /\ next # "REFUNDED"

transition(current, next) ==
  /\ current # next
  /\ current \notin Closed
  /\ \/ next = "INVALID"
     \/ next = "CANCELLED" /\ current \in {"CREATED", "PAID"}
     \/ /\ next \in DOMAIN statusRank
        /\ statusRank[next] > statusRank[current]

EarlierOf(a, b) == IF a < b THEN a ELSE b
LaterOf(a, b)   == IF a < b THEN b ELSE a

Recorded(o) == {log[o][i].evidence : i \in DOMAIN log[o]}

EntryFor(e, input, resulting, disposition) ==
  [evidence |-> e, input |-> input, resulting |-> resulting, disposition |-> disposition,
   previous |-> IF orders[raw[e].order] = None THEN None ELSE orders[raw[e].order].status]

\* Append the projection event of evidence e to those of its order.
Logged(e, input, resulting, disposition) ==
  log' = [log EXCEPT ![raw[e].order] = Append(@, EntryFor(e, input, resulting, disposition))]

NewOrder(status, at, e) == [status |-> status, at |-> at, occurred |-> at, latest |-> e]

Moved(row, status, at, e) == [row EXCEPT !.status = status, !.at = at, !.latest = e]

\* Mutant: only an event that is not older is looked at.
BackdatedNever(row, at) == row

Backdated(row, at) == [row EXCEPT !.occurred = EarlierOf(@, at)]

\* The evidence is stored as an event of this type and not yet projected.  One
\* that is projected is answered from the log, or refused if mapped differently.
Projectable(e, type) ==
  /\ raw[e] # None /\ raw[e].type = type
  /\ e \notin Recorded(raw[e].order)

CreateOrder(e, input) ==
  LET o  == raw[e].order
      at == raw[e].at
  IN
  /\ Projectable(e, "ORDER")
  /\ input.status # None
  /\ orders[o] = None
  /\ orders' = [orders EXCEPT ![o] = NewOrder(input.status, at, e)]
  /\ Logged(e, input, input.status, "APPLIED")
  /\ UNCHANGED <<raw, refunds, reader>>

\* Mutant: an event as old as the status is taken for a stale one.
DispositionTieStale(row, next, at) ==
  IF next = row.status THEN "DUPLICATE"
  ELSE IF at <= row.at THEN "STALE"
  ELSE IF transition(row.status, next) THEN "APPLIED"
  ELSE "INVALID_TRANSITION"

Disposition(row, next, at) ==
  IF next = row.status THEN "DUPLICATE"
  ELSE IF at < row.at THEN "STALE"
  ELSE IF transition(row.status, next) THEN "APPLIED"
  ELSE "INVALID_TRANSITION"

\* A later duplicate moves the time of the status, and nothing else.
UpdateOrder(e, input) ==
  LET o    == raw[e].order
      at   == raw[e].at
      row  == Backdated(orders[o], at)
      disp == Disposition(row, input.status, at)
      moves == disp = "APPLIED" \/ (disp = "DUPLICATE" /\ at > row.at)
  IN
  /\ Projectable(e, "ORDER")
  /\ input.status # None
  /\ orders[o] # None
  /\ orders' = [orders EXCEPT ![o] = IF moves THEN Moved(row, input.status, at, e) ELSE row]
  /\ Logged(e, input, IF moves THEN input.status ELSE row.status, disp)
  /\ UNCHANGED <<raw, refunds, reader>>

\* Mutant: any refund counts as a full one.
RefundedByAny(row, kind, at, e) ==
  Moved(row, "REFUNDED", LaterOf(at, row.at), e)

\* Only a full refund changes the order, and never moves its time back.
Refunded(row, kind, at, e) ==
  IF kind = "FULL" THEN Moved(row, "REFUNDED", LaterOf(at, row.at), e) ELSE row

RefundRow(e, input) ==
  [evidence |-> e, order |-> raw[e].order, refund |-> input.refund, kind |-> input.kind]

\* Mutant: the projection event of a full refund keeps the status before it.
ApplyRefundUnlogged(e, input) ==
  LET o == raw[e].order IN
  /\ Projectable(e, "REFUND")
  /\ input.refund # None
  /\ orders[o] # None
  /\ orders[o].status \notin Closed \cup {"CREATED"}
  /\ \A r \in refunds : r.refund # input.refund
  /\ refunds' = refunds \cup {RefundRow(e, input)}
  /\ orders' = [orders EXCEPT ![o] = Refunded(@, input.kind, raw[e].at, e)]
  /\ Logged(e, input, orders[o].status, "APPLIED")
  /\ UNCHANGED <<raw, reader>>

\* A refund before its order, of an order that cannot be refunded, or under a
\* refund id already used is an error, and may be tried again later.
ApplyRefund(e, input) ==
  LET o   == raw[e].order
      row == Refunded(orders[o], input.kind, raw[e].at, e)
  IN
  /\ Projectable(e, "REFUND")
  /\ input.refund # None
  /\ orders[o] # None
  /\ orders[o].status \notin Closed \cup {"CREATED"}
  /\ \A r \in refunds : r.refund # input.refund
  /\ refunds' = refunds \cup {RefundRow(e, input)}
  /\ orders' = [orders EXCEPT ![o] = row]
  /\ Logged(e, input, row.status, "APPLIED")
  /\ UNCHANGED <<raw, reader>>

-----------------------------------------------------------------------------
(* ReadStore.GetOwned, for an order attributed to the caller.              *)

Read(g, reading) ==
  /\ reader' = [reader EXCEPT ![g] = reading]
  /\ UNCHANGED <<raw, orders, refunds, log>>

ReadOrder(g, o) ==
  /\ reader[g].pc \in {"idle", "done"}
  /\ orders[o] # None
  /\ Read(g, [NotReading EXCEPT !.pc = "history", !.order = o, !.status = orders[o].status])

\* The statuses in the history of applied projection events.
Shown(o) ==
  {log[o][i].resulting : i \in {i \in DOMAIN log[o] : log[o][i].disposition = "APPLIED"}}

ReadHistory(g) ==
  /\ reader[g].pc = "history"
  /\ Read(g, [reader[g] EXCEPT !.pc = "refunds", !.shown = Shown(reader[g].order)])

RefundCount(o) == Cardinality({r \in refunds : r.order = o})

\* Mutant: the order itself is read last.
ReadRefundsThenOrder(g) ==
  LET o == reader[g].order IN
  /\ reader[g].pc = "refunds"
  /\ Read(g, [reader[g] EXCEPT !.pc = "done", !.count = RefundCount(o),
                               !.status = orders[o].status])

ReadRefunds(g) ==
  /\ reader[g].pc = "refunds"
  /\ Read(g, [reader[g] EXCEPT !.pc = "done", !.count = RefundCount(reader[g].order)])

Next ==
  \/ \E e \in Evidence :
       \/ \E event \in Event : Save(e, event)
       \/ \E input \in Input : CreateOrder(e, input) \/ UpdateOrder(e, input) \/ ApplyRefund(e, input)
  \/ \E g \in Readers :
       \/ \E o \in Orders : ReadOrder(g, o)
       \/ ReadHistory(g) \/ ReadRefunds(g)

Spec == Init /\ [][Next]_vars

-----------------------------------------------------------------------------
(* Properties.                                                             *)

\* Types of the variables.
TypeOK ==
  /\ raw     \in [Evidence -> Event \cup {None}]
  /\ orders  \in [Orders -> Order \cup {None}]
  /\ refunds \subseteq Refund
  /\ log     \in [Orders -> Seq(Entry)]
  /\ reader  \in [Readers -> Reading]

\* The status events recorded for an order, and when each happened.
Reports(o) ==
  {[status |-> log[o][i].input.status, at |-> raw[log[o][i].evidence].at] :
     i \in {i \in DOMAIN log[o] : log[o][i].input.status # None}}

\* A story a channel could tell: whatever happened later, or was said to
\* happen at the same time, can be reached from what was before it.
Follows(b, a) == b.status = a.status \/ transition(a.status, b.status)

Coherent(reports) ==
  \A a, b \in reports :
    /\ a.at < b.at => Follows(b, a)
    /\ a.at = b.at => Follows(a, b) \/ Follows(b, a)

FullyRefunded(o) == \E r \in refunds : r.order = o /\ r.kind = "FULL"

\* Whatever order a coherent story is delivered in, the order ends where the
\* story does; the only other end is a full refund (docs/07: out-of-order
\* events are kept and do not take a confirmed status back).
Converges ==
  \A o \in Orders :
    orders[o] # None /\ Coherent(Reports(o)) /\ ~FullyRefunded(o) =>
      /\ \E a \in Reports(o) : a.status = orders[o].status
      /\ \A a \in Reports(o) : Follows([status |-> orders[o].status], a)

\* An order never goes back: not in its status, whatever closes it stays, and
\* not in the time of its status (projection.go:128-149, 172-175).
NeverBackwards ==
  [][\A o \in Orders : orders[o] # None =>
       LET old == orders[o]
           new == orders'[o]
       IN
       /\ new.at >= old.at /\ new.occurred <= old.occurred
       /\ old.status \in Closed => new.status = old.status
       /\ old.status \notin Closed =>
            new.status \in Closed \/ statusRank[new.status] >= statusRank[old.status]]_vars

\* The recorded projection events of an order link up, each starting from the
\* status the one before left, and lead to the status the order has.
HistoryChains ==
  \A o \in Orders :
    /\ log[o] = <<>> <=> orders[o] = None
    /\ log[o] # <<>> =>
         /\ log[o][1].previous = None
         /\ \A i \in 2..Len(log[o]) : log[o][i].previous = log[o][i - 1].resulting
         /\ log[o][Len(log[o])].resulting = orders[o].status

\* An order is REFUNDED exactly when a full refund of it is recorded, no refund
\* id counts twice in a channel, and each refund has its projection event.
RefundsAgree ==
  /\ \A o \in Orders : orders[o] # None =>
       (orders[o].status = "REFUNDED" <=> FullyRefunded(o))
  /\ \A r, s \in refunds : r.refund = s.refund \/ r.evidence = s.evidence => r = s
  /\ \A r \in refunds : \E i \in DOMAIN log[r.order] :
       log[r.order][i].evidence = r.evidence /\ log[r.order][i].input.kind = r.kind

\* order_occurred_at, by which orders are listed, filtered and paged, is the
\* earliest time any recorded status event gave, applied or not.  (Rows older than the
\* column have theirs from migration 000021, also from events never projected.)
OccurredIsEarliest ==
  \A o \in Orders : orders[o] # None =>
    /\ \E a \in Reports(o) : a.at = orders[o].occurred
    /\ \A a \in Reports(o) : orders[o].occurred <= a.at

\* The detail shown to the owner is torn by concurrent projections in one
\* direction only: the history explains the status, and so do the refunds.
DetailExplained ==
  \A g \in Readers : reader[g].pc = "done" =>
    /\ reader[g].status \in reader[g].shown
    /\ reader[g].status = "REFUNDED" => reader[g].count > 0

=============================================================================
