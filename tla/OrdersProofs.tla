---------------------------- MODULE OrdersProofs ----------------------------
(***************************************************************************)
(* Proofs about the orders and about paging through them.                  *)
(*                                                                         *)
(* Part I is about Orders, for any number of events, orders, refund ids    *)
(* and readers and any integer times.  Part II is about Pages, for every   *)
(* listing, any finite number of rows and any size of the pages.           *)
(***************************************************************************)
EXTENDS Orders, Pages, FiniteSetTheorems, WellFoundedInduction, TLAPS

\* Every refund row is of the order its evidence is about.
RefundsPlaced == \A r \in refunds : raw[r.evidence] # None /\ raw[r.evidence].order = r.order

\* The type of everything but the readers' memory.
Typed ==
  /\ raw     \in [Evidence -> Event \cup {None}]
  /\ orders  \in [Orders -> Order \cup {None}]
  /\ refunds \subseteq Refund
  /\ log     \in [Orders -> Seq(Entry)]

IInv == Typed /\ RefundsPlaced /\ RefundsAgree /\ HistoryChains

\* A projection is one of the three actions of ProjectionStore.Apply.
Project(e, input) == CreateOrder(e, input) \/ UpdateOrder(e, input) \/ ApplyRefund(e, input)

-----------------------------------------------------------------------------
(* The status order and the operators on rows.                             *)

\* The ranks are numbers, one for each status an order can move on from.
LEMMA Ranks ==
  /\ DOMAIN statusRank = {"CREATED", "PAID", "CONFIRMED", "COMMISSION_CONFIRMED",
                          "SETTLEMENT_PENDING", "SETTLED"}
  /\ \A s \in DOMAIN statusRank : statusRank[s] \in Nat
BY DEF statusRank

\* A transition leaves no closed status, and raises the rank unless it closes.
LEMMA TransitionRises ==
  ASSUME NEW s \in Status, NEW t, transition(s, t)
  PROVE  /\ s \notin Closed /\ t \in Status /\ t # "REFUNDED"
         /\ t \in Closed \/ statusRank[t] >= statusRank[s]
BY Ranks DEF transition, Status, Closed

\* The four ways an order row is written keep it an order row.
LEMMA RowTypes ==
  ASSUME NEW row \in Order, NEW s \in Status, NEW at \in Times, NEW e \in Evidence, NEW kind
  PROVE  /\ NewOrder(s, at, e) \in Order
         /\ Moved(row, s, at, e) \in Order
         /\ Backdated(row, at) \in Order
         /\ Refunded(row, kind, at, e) \in Order
<1>1. Moved(row, s, at, e) \in Order /\ NewOrder(s, at, e) \in Order
  BY DEF Moved, NewOrder, Order
<1>2. Backdated(row, at) \in Order
  BY DEF Backdated, EarlierOf, Order
<1>3. Refunded(row, kind, at, e) \in Order
  BY DEF Refunded, Moved, LaterOf, Order, Status, Closed
<1> QED BY <1>1, <1>2, <1>3

\* Inputs name a status that may be reported, or a refund.
LEMMA Inputs ==
  ASSUME NEW input \in Input
  PROVE  /\ input.status # None => input.status \in Status \ {"REFUNDED"}
         /\ input.refund # None => input.kind \in {"PARTIAL", "FULL"} /\ input.refund \in RefundIds
BY OrdersAssumption DEF Input

LEMMA EntryTyped ==
  ASSUME Typed, NEW e \in Evidence, raw[e] # None, NEW input \in Input, NEW s \in Status,
         NEW d \in {"APPLIED", "STALE", "DUPLICATE", "INVALID_TRANSITION"}
  PROVE  EntryFor(e, input, s, d) \in Entry
<1>1. raw[e].order \in Orders BY DEF Typed, Event
<1>2. orders[raw[e].order] # None => orders[raw[e].order].status \in Status
  BY <1>1 DEF Typed, Order
<1> QED BY <1>2 DEF EntryFor, Entry

-----------------------------------------------------------------------------
(* Each projection, seen from the order it is about.                       *)

Dispositions == {"APPLIED", "STALE", "DUPLICATE", "INVALID_TRANSITION"}

\* Without a refund an order neither becomes nor stops being REFUNDED.
NoRefund(input, o, row) ==
  /\ refunds' = refunds
  /\ input.status # None
  /\ row.status = "REFUNDED" <=> (orders[o] # None /\ orders[o].status = "REFUNDED")

OneRefund(e, input, o, row) ==
  /\ refunds' = refunds \cup {RefundRow(e, input)}
  /\ input.refund # None
  /\ \A r \in refunds : r.refund # input.refund
  /\ orders[o] # None /\ orders[o].status # "REFUNDED"
  /\ row.status = "REFUNDED" <=> input.kind = "FULL"

\* Evidence e is projected on order o, whose row becomes row.
Effect(e, input, o, row, d) ==
  /\ o = raw[e].order /\ raw[e] # None /\ e \notin Recorded(o)
  /\ raw' = raw
  /\ orders' = [orders EXCEPT ![o] = row]
  /\ log' = [log EXCEPT ![o] = Append(@, EntryFor(e, input, row.status, d))]
  /\ NoRefund(input, o, row) \/ OneRefund(e, input, o, row)
  /\ d = "APPLIED" \/ (orders[o] # None /\ row.status = orders[o].status)

\* A projection appends one entry to the log of its order and writes its row;
\* only a refund adds a refund row.
LEMMA Projection ==
  ASSUME Typed, NEW e \in Evidence, NEW input \in Input, Project(e, input)
  PROVE  \E o \in Orders, row \in Order, d \in Dispositions : Effect(e, input, o, row, d)
<1> DEFINE o == raw[e].order
           at == raw[e].at
<1>1. raw[e] # None /\ e \notin Recorded(o) /\ raw[e].type \in {"ORDER", "REFUND"}
  BY DEF Project, CreateOrder, UpdateOrder, ApplyRefund, Projectable
<1>2. o \in Orders /\ at \in Times
  BY <1>1 DEF Typed, Event
<1>3. orders[o] # None => orders[o] \in Order
  BY <1>2 DEF Typed
<1> HIDE DEF o, at
<1>4. CASE CreateOrder(e, input)
  <2> DEFINE row == NewOrder(input.status, at, e)
  <2>1. input.status \in Status \ {"REFUNDED"}
    BY <1>4, Inputs DEF CreateOrder
  <2>2. row \in Order /\ row.status = input.status
    BY <2>1, <1>2, RowTypes DEF NewOrder, Order
  <2>3. /\ raw' = raw /\ refunds' = refunds
        /\ orders[o] = None
        /\ orders' = [orders EXCEPT ![o] = row]
        /\ log' = [log EXCEPT ![o] = Append(@, EntryFor(e, input, input.status, "APPLIED"))]
    BY <1>4 DEF CreateOrder, Logged, o, at
  <2> HIDE DEF row
  <2>4. NoRefund(input, o, row)
    BY <2>1, <2>2, <2>3, <1>4 DEF NoRefund, CreateOrder
  <2>5. Effect(e, input, o, row, "APPLIED")
    BY <1>1, <2>2, <2>3, <2>4 DEF Effect, o
  <2> QED BY <1>2, <2>2, <2>5 DEF Dispositions
<1>5. CASE UpdateOrder(e, input)
  <2> DEFINE old   == Backdated(orders[o], at)
             disp  == Disposition(old, input.status, at)
             moves == disp = "APPLIED" \/ (disp = "DUPLICATE" /\ at > old.at)
             row   == IF moves THEN Moved(old, input.status, at, e) ELSE old
  <2>1. input.status \in Status \ {"REFUNDED"} /\ orders[o] # None
    BY <1>5, Inputs DEF UpdateOrder, o
  <2>2. old \in Order /\ old.status = orders[o].status
    BY <1>2, <1>3, <2>1, RowTypes DEF Backdated, Order
  <2>3. disp \in Dispositions
    BY DEF Disposition, Dispositions
  <2>4. row \in Order /\ row.status = IF moves THEN input.status ELSE old.status
    BY <2>1, <2>2, <1>2, RowTypes DEF Moved, Order
  <2>5. moves => (old.status = "REFUNDED" <=> input.status = "REFUNDED")
    BY <2>1, <2>2, TransitionRises DEF Disposition, Order, Closed
  <2>6. /\ raw' = raw /\ refunds' = refunds
        /\ orders' = [orders EXCEPT ![o] = row]
        /\ log' = [log EXCEPT ![o] = Append(@, EntryFor(e, input, row.status, disp))]
    BY <1>5, <2>4 DEF UpdateOrder, Logged, o, at
  <2>7. disp # "APPLIED" => row.status = old.status
    BY <2>4 DEF Disposition
  <2> HIDE DEF disp, moves, row, old
  <2>8. row.status = "REFUNDED" <=> orders[o].status = "REFUNDED"
    BY <2>2, <2>4, <2>5
  <2>9. NoRefund(input, o, row)
    BY <2>1, <2>6, <2>8, <1>5 DEF NoRefund, UpdateOrder
  <2>10. Effect(e, input, o, row, disp)
    BY <1>1, <2>1, <2>2, <2>6, <2>7, <2>9 DEF Effect, o
  <2> QED BY <1>2, <2>3, <2>4, <2>10
<1>6. CASE ApplyRefund(e, input)
  <2> DEFINE row == Refunded(orders[o], input.kind, at, e)
  <2>1. orders[o] # None /\ orders[o].status # "REFUNDED" /\ input.refund # None
    BY <1>6 DEF ApplyRefund, Closed, o
  <2>2. row \in Order
    BY <1>2, <1>3, <2>1, RowTypes DEF Order
  <2>3. row.status = "REFUNDED" <=> input.kind = "FULL"
    BY <2>1, <1>3 DEF Refunded, Moved, Order
  <2>4. /\ raw' = raw /\ refunds' = refunds \cup {RefundRow(e, input)}
        /\ \A r \in refunds : r.refund # input.refund
        /\ orders' = [orders EXCEPT ![o] = row]
        /\ log' = [log EXCEPT ![o] = Append(@, EntryFor(e, input, row.status, "APPLIED"))]
    BY <1>6 DEF ApplyRefund, Logged, o, at
  <2> HIDE DEF row
  <2>5. OneRefund(e, input, o, row)
    BY <2>1, <2>3, <2>4 DEF OneRefund
  <2>6. Effect(e, input, o, row, "APPLIED")
    BY <1>1, <2>4, <2>5 DEF Effect, o
  <2> QED BY <1>2, <2>2, <2>6 DEF Dispositions
<1> QED BY <1>4, <1>5, <1>6 DEF Project

-----------------------------------------------------------------------------
(* The invariant is inductive.                                             *)

\* Appending keeps the entries there are and adds the new one at the end.
LEMMA Appended ==
  ASSUME Typed, NEW o \in Orders, NEW x \in Entry, log' = [log EXCEPT ![o] = Append(@, x)]
  PROVE  /\ log' \in [Orders -> Seq(Entry)]
         /\ \A p \in Orders : p # o => log'[p] = log[p]
         /\ Len(log[o]) \in Nat /\ Len(log'[o]) = Len(log[o]) + 1
         /\ DOMAIN log[o] = 1..Len(log[o]) /\ DOMAIN log'[o] = 1..Len(log'[o])
         /\ \A i \in 1..Len(log[o]) : log'[o][i] = log[o][i]
         /\ log'[o][Len(log[o]) + 1] = x
<1>1. log[o] \in Seq(Entry) /\ log'[o] = Append(log[o], x)
  BY DEF Typed
<1>2. /\ Len(log[o]) \in Nat /\ Len(log'[o]) = Len(log[o]) + 1
      /\ DOMAIN log[o] = 1..Len(log[o]) /\ DOMAIN log'[o] = 1..Len(log'[o])
      /\ \A i \in 1..Len(log[o]) : log'[o][i] = log[o][i]
      /\ log'[o][Len(log[o]) + 1] = x
      /\ log'[o] \in Seq(Entry)
  BY <1>1
<1>3. /\ log' \in [Orders -> Seq(Entry)]
      /\ \A p \in Orders : p # o => log'[p] = log[p]
  BY <1>2 DEF Typed
<1> QED BY <1>2, <1>3

LEMMA TypedStep ==
  ASSUME Typed, NEW e \in Evidence, NEW input \in Input, NEW o \in Orders, NEW row \in Order,
         NEW d \in Dispositions, Effect(e, input, o, row, d)
  PROVE  Typed' /\ EntryFor(e, input, row.status, d) \in Entry
<1>1. EntryFor(e, input, row.status, d) \in Entry
  BY EntryTyped DEF Effect, Dispositions, Order
<1>2. log' \in [Orders -> Seq(Entry)]
  BY <1>1, Appended DEF Effect
<1>3. orders' \in [Orders -> Order \cup {None}] /\ raw' \in [Evidence -> Event \cup {None}]
  BY DEF Effect, Typed
<1>4. RefundRow(e, input) \in Refund \/ input.refund = None
  BY Inputs DEF Effect, RefundRow, Refund
<1>5. refunds' \subseteq Refund
  BY <1>4 DEF Effect, NoRefund, OneRefund, Typed
<1> QED BY <1>1, <1>2, <1>3, <1>5 DEF Typed

LEMMA RefundsStep ==
  ASSUME IInv, NEW e \in Evidence, NEW input \in Input, NEW o \in Orders, NEW row \in Order,
         NEW d \in Dispositions, Effect(e, input, o, row, d)
  PROVE  RefundsPlaced' /\ RefundsAgree'
<1> DEFINE x   == EntryFor(e, input, row.status, d)
           new == RefundRow(e, input)
<1>1. Typed' /\ x \in Entry /\ Typed
  BY TypedStep DEF IInv
<1>2. x.evidence = e /\ x.input = input /\ new.evidence = e /\ new.order = o
      /\ new.refund = input.refund /\ new.kind = input.kind
  BY DEF EntryFor, RefundRow, Effect
<1>3. refunds' = refunds \/ refunds' = refunds \cup {new}
  BY DEF Effect, NoRefund, OneRefund
<1>4. \A r \in refunds : r.order \in Orders /\ r.evidence # e
  <2> SUFFICES ASSUME NEW r \in refunds PROVE r.order \in Orders /\ r.evidence # e
    OBVIOUS
  <2>1. r.order \in Orders
    BY DEF IInv, Typed, Refund
  <2>2. r.evidence = e => e \in Recorded(o)
    BY DEF IInv, RefundsAgree, RefundsPlaced, Effect, Recorded
  <2> QED BY <2>1, <2>2 DEF Effect
<1>5. RefundsPlaced'
  BY <1>2, <1>3 DEF IInv, RefundsPlaced, Effect
<1>6. orders' = [orders EXCEPT ![o] = row] /\ orders \in [Orders -> Order \cup {None}]
  BY <1>1 DEF Effect, Typed
<1>7. ASSUME NEW p \in Orders, orders'[p] # None
      PROVE  orders'[p].status = "REFUNDED" <=> FullyRefunded(p)'
  <2>1. CASE p # o
    <3>1. orders'[p] = orders[p] /\ (FullyRefunded(p)' <=> FullyRefunded(p))
      BY <2>1, <1>2, <1>3, <1>6 DEF FullyRefunded
    <3> QED BY <3>1, <1>7 DEF IInv, RefundsAgree
  <2>2. CASE p = o
    <3>1. orders'[p] = row
      BY <2>2, <1>6
    <3>2. orders[o] = None => ~FullyRefunded(o)
      <4> SUFFICES ASSUME orders[o] = None, NEW r \in refunds, r.order = o PROVE FALSE
        BY DEF FullyRefunded
      <4>1. \E i \in DOMAIN log[o] : TRUE
        BY DEF IInv, RefundsAgree
      <4>2. log[o] # <<>>
        BY <4>1
      <4> QED BY <4>2 DEF IInv, HistoryChains
    <3>3. orders[o] # None => (orders[o].status = "REFUNDED" <=> FullyRefunded(o))
      BY DEF IInv, RefundsAgree
    <3>4. CASE NoRefund(input, o, row)
      BY <2>2, <3>1, <3>2, <3>3, <3>4 DEF NoRefund, FullyRefunded
    <3>5. CASE OneRefund(e, input, o, row)
      BY <2>2, <3>1, <3>3, <3>5, <1>2 DEF OneRefund, FullyRefunded
    <3> QED BY <3>4, <3>5 DEF Effect
  <2> QED BY <2>1, <2>2
<1>8. \A r, s \in refunds' : r.refund = s.refund \/ r.evidence = s.evidence => r = s
  <2>1. \A r, s \in refunds : r.refund = s.refund \/ r.evidence = s.evidence => r = s
    BY DEF IInv, RefundsAgree
  <2>2. refunds' # refunds => \A r \in refunds : r.refund # new.refund
    BY <1>2 DEF Effect, NoRefund, OneRefund
  <2> QED BY <1>2, <1>3, <1>4, <2>1, <2>2
<1>9. ASSUME NEW r \in refunds'
      PROVE  \E i \in DOMAIN log'[r.order] :
               log'[r.order][i].evidence = r.evidence /\ log'[r.order][i].input.kind = r.kind
  <2>0. /\ \A p \in Orders : p # o => log'[p] = log[p]
        /\ Len(log[o]) \in Nat /\ Len(log'[o]) = Len(log[o]) + 1
        /\ DOMAIN log[o] = 1..Len(log[o]) /\ DOMAIN log'[o] = 1..Len(log'[o])
        /\ \A i \in 1..Len(log[o]) : log'[o][i] = log[o][i]
        /\ log'[o][Len(log[o]) + 1] = x
    <3>1. log' = [log EXCEPT ![o] = Append(@, x)]
      BY DEF Effect
    <3> HIDE DEF x
    <3> QED BY <1>1, <3>1, Appended
  <2>1. CASE r \in refunds
    <3>1. PICK i \in DOMAIN log[r.order] :
            log[r.order][i].evidence = r.evidence /\ log[r.order][i].input.kind = r.kind
      BY <2>1 DEF IInv, RefundsAgree
    <3>2. i \in DOMAIN log'[r.order] /\ log'[r.order][i] = log[r.order][i]
      BY <2>0, <2>1, <3>1, <1>4
    <3> QED BY <3>1, <3>2
  <2>2. CASE r = new
    <3>1. Len(log[o]) + 1 \in DOMAIN log'[o]
      BY <2>0
    <3> QED BY <2>0, <2>2, <3>1, <1>2
  <2> QED BY <1>3, <1>9, <2>1, <2>2
<1> QED BY <1>5, <1>7, <1>8, <1>9 DEF RefundsAgree

\* The new entry starts from the status the order had, and leads to the one
\* it gets.
LEMMA ChainsStep ==
  ASSUME IInv, NEW e \in Evidence, NEW input \in Input, NEW o \in Orders, NEW row \in Order,
         NEW d \in Dispositions, Effect(e, input, o, row, d)
  PROVE  HistoryChains'
<1> DEFINE x == EntryFor(e, input, row.status, d)
           n == Len(log[o])
<1>1. Typed /\ x \in Entry /\ log' = [log EXCEPT ![o] = Append(@, x)]
  BY TypedStep DEF IInv, Effect
<1>2. /\ x.resulting = row.status
      /\ x.previous = IF orders[o] = None THEN None ELSE orders[o].status
  BY DEF EntryFor, Effect
<1>3. orders' = [orders EXCEPT ![o] = row] /\ orders \in [Orders -> Order \cup {None}] /\ row # None
  BY <1>1, OrdersAssumption DEF Effect, Typed, Order
<1> HIDE DEF x, n
<1>4. /\ \A p \in Orders : p # o => log'[p] = log[p]
      /\ n \in Nat /\ Len(log'[o]) = n + 1
      /\ DOMAIN log'[o] = 1..(n + 1)
      /\ \A i \in 1..n : log'[o][i] = log[o][i]
      /\ log'[o][n + 1] = x
  BY <1>1, Appended DEF n
<1>5. \A p \in Orders : p # o => orders'[p] = orders[p]
  BY <1>3
<1>6. /\ log[o] = <<>> <=> orders[o] = None
      /\ log[o] # <<>> => /\ log[o][1].previous = None
                          /\ \A i \in 2..n : log[o][i].previous = log[o][i - 1].resulting
                          /\ log[o][n].resulting = orders[o].status
  BY DEF IInv, HistoryChains, n
<1>7. log[o] = <<>> <=> n = 0
  BY <1>1 DEF Typed, n
<1>8. ASSUME NEW p \in Orders, p # o
      PROVE  /\ log'[p] = <<>> <=> orders'[p] = None
             /\ log'[p] # <<>> =>
                  /\ log'[p][1].previous = None
                  /\ \A i \in 2..Len(log'[p]) : log'[p][i].previous = log'[p][i - 1].resulting
                  /\ log'[p][Len(log'[p])].resulting = orders'[p].status
  BY <1>4, <1>5, <1>8 DEF IInv, HistoryChains
<1>9. log'[o] # <<>> /\ orders'[o] = row
  BY <1>3, <1>4
<1>10. log'[o][1].previous = None
  <2>1. CASE n = 0
    BY <2>1, <1>2, <1>4, <1>6, <1>7
  <2>2. CASE n # 0
    BY <2>2, <1>4, <1>6, <1>7
  <2> QED BY <2>1, <2>2
<1>11. ASSUME NEW i \in 2..(n + 1)
       PROVE  log'[o][i].previous = log'[o][i - 1].resulting
  <2>1. CASE i = n + 1
    BY <2>1, <1>2, <1>4, <1>6, <1>7
  <2>2. CASE i # n + 1
    <3>1. i \in 2..n /\ i \in 1..n /\ i - 1 \in 1..n /\ n # 0
      BY <2>2, <1>4
    <3>2. log'[o][i] = log[o][i] /\ log'[o][i - 1] = log[o][i - 1]
      BY <3>1, <1>4
    <3> QED BY <3>1, <3>2, <1>6, <1>7
  <2> QED BY <2>1, <2>2
<1>12. log'[o][n + 1].resulting = orders'[o].status
  BY <1>2, <1>4, <1>9
<1> QED BY <1>3, <1>4, <1>8, <1>9, <1>10, <1>11, <1>12 DEF HistoryChains

\* Every step of the system keeps the invariant.
LEMMA Preserved ==
  ASSUME IInv, [Next]_vars
  PROVE  IInv'
<1>1. ASSUME NEW e \in Evidence, NEW event \in Event, Save(e, event)
      PROVE  IInv'
  <2>1. raw[e] = None /\ raw' = [raw EXCEPT ![e] = event]
        /\ UNCHANGED <<orders, refunds, log>>
    BY <1>1 DEF Save
  <2>2. Typed'
    BY <2>1 DEF IInv, Typed
  <2>3. RefundsPlaced'
    BY <2>1 DEF IInv, Typed, RefundsPlaced, Refund
  <2>4. RefundsAgree' /\ HistoryChains'
    BY <2>1 DEF IInv, RefundsAgree, FullyRefunded, HistoryChains
  <2> QED BY <2>2, <2>3, <2>4 DEF IInv
<1>2. ASSUME NEW e \in Evidence, NEW input \in Input, Project(e, input)
      PROVE  IInv'
  <2>1. PICK o \in Orders, row \in Order, d \in Dispositions : Effect(e, input, o, row, d)
    BY <1>2, Projection DEF IInv
  <2> QED BY <2>1, TypedStep, RefundsStep, ChainsStep DEF IInv
<1>3. ASSUME UNCHANGED <<raw, orders, refunds, log>>
      PROVE  IInv'
  BY <1>3 DEF IInv, Typed, RefundsPlaced, RefundsAgree, FullyRefunded, HistoryChains
<1> QED BY <1>1, <1>2, <1>3
        DEF Next, vars, Project, ReadOrder, ReadHistory, ReadRefunds, Read

\* Orders, refunds and recorded projections stay well-formed and in agreement
\* in every behaviour of the order projection.
THEOREM OrdersInductive == Spec => []IInv
<1>1. Init => IInv
  BY DEF Init, IInv, Typed, RefundsPlaced, RefundsAgree, FullyRefunded, HistoryChains
<1>2. IInv /\ [Next]_vars => IInv'
  BY Preserved
<1> QED BY <1>1, <1>2, PTL DEF Spec

\* An order is REFUNDED exactly when a full refund of it is recorded, no refund
\* id counts twice, and every refund has its projection event.
THEOREM RefundsAlwaysAgree == Spec => []RefundsAgree
<1>1. IInv => RefundsAgree
  BY DEF IInv
<1> QED BY <1>1, OrdersInductive, PTL

\* The recorded projections of an order link up and lead to its status.
THEOREM HistoryAlwaysChains == Spec => []HistoryChains
<1>1. IInv => HistoryChains
  BY DEF IInv
<1> QED BY <1>1, OrdersInductive, PTL

-----------------------------------------------------------------------------
(* Orders never go back.                                                   *)

\* What NeverBackwards asks of one order.
Onward(old, new) ==
  /\ new.at >= old.at /\ new.occurred <= old.occurred
  /\ old.status \in Closed => new.status = old.status
  /\ old.status \notin Closed =>
       new.status \in Closed \/ statusRank[new.status] >= statusRank[old.status]

LEMMA Still ==
  ASSUME NEW row \in Order
  PROVE  Onward(row, row)
<1>1. row.at \in Int /\ row.occurred \in Int
  BY OrdersAssumption DEF Order
<1>2. row.status \notin Closed => statusRank[row.status] \in Nat
  BY Ranks DEF Order, Status
<1> QED BY <1>1, <1>2 DEF Onward

\* Backdating an order only moves when it occurred.
LEMMA BackdatedOnward ==
  ASSUME NEW row \in Order, NEW at \in Times
  PROVE  /\ Backdated(row, at).status = row.status
         /\ Backdated(row, at).at = row.at
         /\ Backdated(row, at).occurred <= row.occurred
<1>1. at \in Int /\ row.occurred \in Int
  BY OrdersAssumption DEF Order
<1> QED BY <1>1 DEF Backdated, EarlierOf, Order

LEMMA ProjectOnward ==
  ASSUME Typed, NEW e \in Evidence, NEW input \in Input, Project(e, input),
         NEW o \in Orders, orders[o] # None
  PROVE  Onward(orders[o], orders'[o])
<1>1. orders[o] \in Order
  BY DEF Typed
<1>2. CASE o # raw[e].order
  <2>1. orders'[o] = orders[o]
    BY <1>2 DEF Typed, Project, CreateOrder, UpdateOrder, ApplyRefund
  <2> QED BY <2>1, <1>1, Still
<1>3. CASE o = raw[e].order /\ UpdateOrder(e, input)
  <2> DEFINE at    == raw[e].at
             old   == Backdated(orders[o], at)
             disp  == Disposition(old, input.status, at)
             moves == disp = "APPLIED" \/ (disp = "DUPLICATE" /\ at > old.at)
  <2>1. at \in Times /\ at \in Int /\ input.status \in Status
    BY <1>3, Inputs, OrdersAssumption DEF UpdateOrder, Projectable, Typed, Event
  <2>2. old \in Order /\ old.at \in Int /\ old.occurred \in Int
    BY <1>1, <2>1, RowTypes, OrdersAssumption DEF Order
  <2>3. old.status = orders[o].status /\ old.at = orders[o].at
        /\ old.occurred <= orders[o].occurred
    BY <1>1, <2>1, BackdatedOnward
  <2>4. orders'[o] = IF moves THEN Moved(old, input.status, at, e) ELSE old
    BY <1>3 DEF UpdateOrder, Typed
  <2>5. moves => at >= old.at
    BY <2>1, <2>2 DEF Disposition
  <2>6. moves => input.status = old.status \/ transition(old.status, input.status)
    BY DEF Disposition
  <2>7. /\ orders'[o].at >= orders[o].at
        /\ orders'[o].occurred <= orders[o].occurred
        /\ orders'[o].status = IF moves THEN input.status ELSE old.status
    <3> HIDE DEF moves, old, at
    <3> QED BY <2>1, <2>2, <2>3, <2>4, <2>5 DEF Moved, Order
  <2>8. old.status \in Status
    BY <2>2 DEF Order
  <2> HIDE DEF moves, old, at
  <2>9. old.status \notin Closed => statusRank[old.status] \in Nat
    BY <2>8, Ranks DEF Status
  <2>10. transition(old.status, input.status) =>
           /\ old.status \notin Closed
           /\ input.status \in Closed \/ statusRank[input.status] >= statusRank[old.status]
    BY <2>8, TransitionRises
  <2> QED BY <2>3, <2>6, <2>7, <2>9, <2>10 DEF Onward
<1>4. CASE o = raw[e].order /\ ApplyRefund(e, input)
  <2> DEFINE at == raw[e].at
  <2>1. at \in Int
    BY <1>4, OrdersAssumption DEF ApplyRefund, Projectable, Typed, Event
  <2>2. orders[o].status \notin Closed /\ orders'[o] = Refunded(orders[o], input.kind, at, e)
    BY <1>4 DEF ApplyRefund, Typed
  <2>3. CASE input.kind = "FULL"
    <3>1. orders[o].at \in Int /\ orders[o].occurred \in Int
      BY <1>1, OrdersAssumption DEF Order
    <3>2. /\ orders'[o].status = "REFUNDED"
          /\ orders'[o].at = LaterOf(at, orders[o].at)
          /\ orders'[o].occurred = orders[o].occurred
      BY <1>1, <2>2, <2>3 DEF Refunded, Moved, Order
    <3>3. orders'[o].at >= orders[o].at
      BY <2>1, <3>1, <3>2 DEF LaterOf
    <3> QED BY <2>2, <3>1, <3>2, <3>3 DEF Onward, Closed
  <2>4. CASE input.kind # "FULL"
    BY <1>1, <2>2, <2>4, Still DEF Refunded
  <2> QED BY <2>3, <2>4
<1>5. CASE o = raw[e].order /\ CreateOrder(e, input)
  BY <1>5 DEF CreateOrder
<1> QED BY <1>2, <1>3, <1>4, <1>5 DEF Project

\* In every behaviour a closed order stays as it closed, an open one moves only
\* onwards, and neither the time of a status nor the day an order is listed
\* under goes the wrong way.
THEOREM OrdersOnward == Spec => NeverBackwards
<1>1. IInv /\ [Next]_vars =>
        [\A o \in Orders : orders[o] # None => Onward(orders[o], orders'[o])]_vars
  <2> SUFFICES ASSUME IInv, [Next]_vars, NEW o \in Orders, orders[o] # None
               PROVE  Onward(orders[o], orders'[o])
    OBVIOUS
  <2>1. CASE UNCHANGED orders
    BY <2>1, Still DEF IInv, Typed
  <2>2. ASSUME NEW e \in Evidence, NEW input \in Input, Project(e, input)
        PROVE  Onward(orders[o], orders'[o])
    BY <2>2, ProjectOnward DEF IInv
  <2> QED BY <2>1, <2>2
          DEF Next, vars, Save, Project, ReadOrder, ReadHistory, ReadRefunds, Read
<1> QED BY <1>1, OrdersInductive, PTL DEF Spec, NeverBackwards, Onward

-----------------------------------------------------------------------------
(* What was reported of an order.                                          *)

\* Recorded evidence is stored, as an event of the order it is recorded for.
RecordedStored ==
  \A o \in Orders : \A i \in DOMAIN log[o] :
    raw[log[o][i].evidence] # None /\ raw[log[o][i].evidence].order = o

\* What a status event with evidence e reports; a refund reports nothing.
ReportOf(e, input) ==
  IF input.status = None THEN {} ELSE {[status |-> input.status, at |-> raw[e].at]}

\* The reports of an order are those of its entries.
LEMMA ReportsByEntry ==
  ASSUME NEW o \in Orders, NEW a
  PROVE  a \in Reports(o) <=>
           \E i \in DOMAIN log[o] : a \in ReportOf(log[o][i].evidence, log[o][i].input)
BY DEF Reports, ReportOf

LEMMA ReportTypes ==
  ASSUME Typed, RecordedStored, NEW o \in Orders, NEW a \in Reports(o)
  PROVE  a.status \in Status /\ a.at \in Times /\ a.at \in Int
<1>1. PICK i \in DOMAIN log[o] : a \in ReportOf(log[o][i].evidence, log[o][i].input)
  BY ReportsByEntry
<1>2. log[o] \in Seq(Entry)
  BY DEF Typed
<1>3. log[o][i] \in Entry
  BY <1>1, <1>2
<1>4. log[o][i].input \in Input /\ log[o][i].evidence \in Evidence
  BY <1>3 DEF Entry
<1>5. raw[log[o][i].evidence] \in Event
  BY <1>1, <1>4 DEF Typed, RecordedStored
<1>6. log[o][i].input.status # None /\ a.status = log[o][i].input.status
      /\ a.at = raw[log[o][i].evidence].at
  BY <1>1 DEF ReportOf
<1> QED BY <1>4, <1>5, <1>6, Inputs, OrdersAssumption DEF Event

\* A projection adds its report to those of its order, and entries of stored evidence.
LEMMA ReportsGrow ==
  ASSUME Typed, RecordedStored, NEW e \in Evidence, NEW input \in Input, NEW o \in Orders,
         NEW row \in Order, NEW d \in Dispositions, Effect(e, input, o, row, d)
  PROVE  /\ RecordedStored'
         /\ Reports(o)' = Reports(o) \cup ReportOf(e, input)
         /\ \A p \in Orders : p # o => Reports(p)' = Reports(p)
<1> DEFINE x == EntryFor(e, input, row.status, d)
           n == Len(log[o])
<1>1. x \in Entry /\ log' = [log EXCEPT ![o] = Append(@, x)]
  BY TypedStep DEF Effect
<1>2. x.evidence = e /\ x.input = input /\ raw[e] # None /\ raw[e].order = o /\ raw' = raw
  BY DEF EntryFor, Effect
<1> HIDE DEF x, n
<1>3. /\ \A p \in Orders : p # o => log'[p] = log[p]
      /\ n \in Nat /\ DOMAIN log[o] = 1..n /\ DOMAIN log'[o] = 1..(n + 1)
      /\ \A i \in 1..n : log'[o][i] = log[o][i]
      /\ log'[o][n + 1] = x
  BY <1>1, Appended DEF n
<1>4. RecordedStored'
  <2> SUFFICES ASSUME NEW p \in Orders, NEW i \in DOMAIN log'[p]
               PROVE  raw[log'[p][i].evidence] # None /\ raw[log'[p][i].evidence].order = p
    BY <1>2 DEF RecordedStored
  <2>1. CASE p = o /\ i = n + 1
    BY <2>1, <1>2, <1>3
  <2>2. CASE ~(p = o /\ i = n + 1)
    <3>1. i \in DOMAIN log[p] /\ log'[p][i] = log[p][i]
      BY <2>2, <1>3
    <3> QED BY <3>1 DEF RecordedStored
  <2> QED BY <2>1, <2>2
<1>5. \A y, z : ReportOf(y, z)' = ReportOf(y, z)
  BY <1>2 DEF ReportOf
<1>6. \A p \in Orders : \A a : a \in Reports(p)' <=>
        \E i \in DOMAIN log'[p] : a \in ReportOf(log'[p][i].evidence, log'[p][i].input)
  BY <1>2 DEF Reports, ReportOf
<1>7. ASSUME NEW p \in Orders, p # o PROVE Reports(p)' = Reports(p)
  <2>1. log'[p] = log[p]
    BY <1>3, <1>7
  <2>2. \A a : a \in Reports(p)' <=> a \in Reports(p)
    BY <2>1, <1>6, ReportsByEntry
  <2> QED BY <2>2
<1>8. ASSUME NEW a PROVE a \in Reports(o)' <=> a \in Reports(o) \cup ReportOf(e, input)
  <2>1. a \in ReportOf(e, input) => a \in Reports(o)'
    BY <1>2, <1>3, <1>6
  <2>2. ASSUME a \in Reports(o) PROVE a \in Reports(o)'
    <3>1. PICK i \in DOMAIN log[o] : a \in ReportOf(log[o][i].evidence, log[o][i].input)
      BY <2>2, ReportsByEntry
    <3>2. i \in DOMAIN log'[o] /\ log'[o][i] = log[o][i]
      BY <1>3
    <3> QED BY <3>1, <3>2, <1>6
  <2>3. ASSUME NEW i \in 1..(n + 1), a \in ReportOf(log'[o][i].evidence, log'[o][i].input)
        PROVE  a \in Reports(o) \cup ReportOf(e, input)
    <3>1. CASE i = n + 1
      BY <2>3, <3>1, <1>2, <1>3
    <3>2. CASE i # n + 1
      BY <2>3, <3>2, <1>3, ReportsByEntry
    <3> QED BY <3>1, <3>2
  <2> QED BY <2>1, <2>2, <2>3, <1>3, <1>6
<1> QED BY <1>4, <1>7, <1>8

\* Saving evidence changes no report: what is recorded was stored before.
LEMMA ReportsKept ==
  ASSUME Typed, RecordedStored, UNCHANGED log,
         \/ UNCHANGED raw
         \/ \E e \in Evidence : \E event : raw[e] = None /\ raw' = [raw EXCEPT ![e] = event]
  PROVE  RecordedStored' /\ \A o \in Orders : Reports(o)' = Reports(o)
<1>1. \A o \in Orders : \A i \in DOMAIN log[o] :
        log[o][i].evidence \in Evidence /\ raw'[log[o][i].evidence] = raw[log[o][i].evidence]
  <2> SUFFICES ASSUME NEW o \in Orders, NEW i \in DOMAIN log[o]
               PROVE  /\ log[o][i].evidence \in Evidence
                      /\ raw'[log[o][i].evidence] = raw[log[o][i].evidence]
    OBVIOUS
  <2>1. log[o] \in Seq(Entry)
    BY DEF Typed
  <2>2. log[o][i] \in Entry
    BY <2>1
  <2>3. log[o][i].evidence \in Evidence /\ raw[log[o][i].evidence] # None
    BY <2>2 DEF Entry, RecordedStored
  <2> QED BY <2>3 DEF Typed
<1>2. RecordedStored'
  BY <1>1 DEF RecordedStored
<1>3. \A o \in Orders : \A a : a \in Reports(o)' <=>
        \E i \in DOMAIN log[o] : a \in ReportOf(log[o][i].evidence, log[o][i].input)
  BY <1>1 DEF Reports, ReportOf
<1>4. \A o \in Orders : \A a : a \in Reports(o)' <=> a \in Reports(o)
  BY <1>3, ReportsByEntry
<1> QED BY <1>2, <1>4

-----------------------------------------------------------------------------
(* Where an order ends, and when it is said to have occurred.              *)

\* A first status event, and a further one with status s at this time.
Starts(new, s, at) == new.status = s /\ new.at = at /\ new.occurred = at

Meets(old, new, s, at) ==
  \/ s = old.status /\ new.status = s /\ new.at = LaterOf(old.at, at)
  \/ s # old.status /\ at < old.at /\ new.status = old.status /\ new.at = old.at
  \/ s # old.status /\ at >= old.at /\ transition(old.status, s) /\ new.status = s /\ new.at = at
  \/ s # old.status /\ at >= old.at /\ ~transition(old.status, s)
       /\ new.status = old.status /\ new.at = old.at

\* What a projection does to the row of its order.
LEMMA RowStep ==
  ASSUME Typed, NEW e \in Evidence, NEW input \in Input, Project(e, input)
  PROVE  \E o \in Orders, at \in Int :
         /\ o = raw[e].order /\ at = raw[e].at
         /\ orders[o] # None => orders[o] \in Order
         /\ \/ /\ input.status \in Status /\ orders[o] = None
               /\ Starts(orders'[o], input.status, at)
            \/ /\ input.status \in Status /\ orders[o] # None
               /\ Meets(orders[o], orders'[o], input.status, at)
               /\ orders'[o].occurred = EarlierOf(orders[o].occurred, at)
            \/ /\ input.status = None /\ orders[o] # None
               /\ orders'[o].occurred = orders[o].occurred
               /\ FullyRefunded(o)' \/ orders'[o] = orders[o]
<1>1. raw[e] # None
  BY DEF Project, CreateOrder, UpdateOrder, ApplyRefund, Projectable
<1>2. PICK o \in Orders, at \in Times : o = raw[e].order /\ at = raw[e].at /\ at \in Int
  BY <1>1, OrdersAssumption DEF Typed, Event
<1>3. orders[o] # None => orders[o] \in Order
  BY <1>2 DEF Typed
<1>4. CASE CreateOrder(e, input)
  <2>1. orders[o] = None /\ orders' = [orders EXCEPT ![o] = NewOrder(input.status, at, e)]
    BY <1>2, <1>4 DEF CreateOrder
  <2>2. input.status \in Status
    BY <1>4, Inputs DEF CreateOrder
  <2>3. Starts(orders'[o], input.status, at)
    BY <2>1, <1>2 DEF Typed, Starts, NewOrder
  <2> QED BY <1>2, <2>1, <2>2, <2>3
<1>5. CASE UpdateOrder(e, input)
  <2> DEFINE old   == Backdated(orders[o], at)
             disp  == Disposition(old, input.status, at)
             moves == disp = "APPLIED" \/ (disp = "DUPLICATE" /\ at > old.at)
  <2>1. /\ orders[o] # None /\ input.status # None
        /\ orders' = [orders EXCEPT ![o] = IF moves THEN Moved(old, input.status, at, e) ELSE old]
    BY <1>2, <1>5 DEF UpdateOrder
  <2>2. /\ old \in Order /\ old.status = orders[o].status /\ old.at = orders[o].at
        /\ old.occurred = EarlierOf(orders[o].occurred, at)
    BY <1>2, <1>3, <2>1, RowTypes DEF Backdated, Order
  <2>3. old.at \in Int
    BY <2>2, OrdersAssumption DEF Order
  <2> HIDE DEF old
  <2>4. orders'[o] = IF moves THEN Moved(old, input.status, at, e) ELSE old
    BY <2>1, <1>2 DEF Typed
  <2>5. orders'[o].occurred = old.occurred
    BY <2>2, <2>4 DEF Moved, Order
  <2>6. /\ orders'[o].status = IF moves THEN input.status ELSE old.status
        /\ orders'[o].at = IF moves THEN at ELSE old.at
    BY <2>2, <2>4 DEF Moved, Order
  <2>7. CASE input.status = old.status
    <3>1. disp = "DUPLICATE"
      BY <2>7 DEF Disposition
    <3>2. orders'[o].at = LaterOf(old.at, at)
      BY <1>2, <2>3, <2>6, <3>1 DEF LaterOf
    <3> QED BY <1>2, <1>3, <2>1, <2>2, <2>5, <2>6, <2>7, <3>2, Inputs DEF Meets
  <2>8. CASE input.status # old.status /\ at < old.at
    <3>1. ~moves
      BY <2>8 DEF Disposition
    <3> QED BY <1>2, <1>3, <2>1, <2>2, <2>5, <2>6, <2>8, <3>1, Inputs DEF Meets
  <2>9. CASE input.status # old.status /\ at >= old.at
    <3>1. moves <=> transition(old.status, input.status)
      BY <1>2, <2>3, <2>9 DEF Disposition
    <3> QED BY <1>2, <1>3, <2>1, <2>2, <2>5, <2>6, <2>9, <3>1, Inputs DEF Meets
  <2> QED BY <1>2, <2>3, <2>7, <2>8, <2>9
<1>6. CASE ApplyRefund(e, input)
  <2>1. /\ orders[o] # None /\ input.refund # None
        /\ orders' = [orders EXCEPT ![o] = Refunded(@, input.kind, at, e)]
        /\ RefundRow(e, input) \in refunds'
    BY <1>2, <1>6 DEF ApplyRefund
  <2>2. orders'[o] = Refunded(orders[o], input.kind, at, e)
    BY <2>1, <1>2 DEF Typed
  <2>3. orders'[o].occurred = orders[o].occurred
    BY <2>1, <2>2, <1>3 DEF Refunded, Moved, Order
  <2>4. input.kind = "FULL" => FullyRefunded(o)'
    <3>1. RefundRow(e, input).order = o /\ RefundRow(e, input).kind = input.kind
      BY <1>2 DEF RefundRow
    <3> QED BY <2>1, <3>1 DEF FullyRefunded
  <2>5. input.kind # "FULL" => orders'[o] = orders[o]
    BY <2>2 DEF Refunded
  <2>6. input.status = None
    BY <2>1 DEF Input
  <2> QED BY <1>2, <1>3, <2>1, <2>3, <2>4, <2>5, <2>6
<1> QED BY <1>4, <1>5, <1>6 DEF Project

\* What can be reached from what can be reached from a status can be reached from it.
LEMMA TransitionsCompose ==
  ASSUME NEW a \in Status, NEW b \in Status, NEW c \in Status, transition(a, b), transition(b, c)
  PROVE  transition(a, c)
BY DEF transition, Status, Closed, statusRank

\* What is read off a row: the report it stands at.
At(row) == [status |-> row.status, at |-> row.at]

\* A row that is where the reports so far lead meets another report: if together they
\* are a coherent story, it is then where that story leads.
LEMMA StoryGoesOn ==
  ASSUME NEW R, \A a \in R : a.status \in Status /\ a.at \in Int,
         NEW old, At(old) \in R, \A a \in R : Follows(At(old), a),
         NEW s \in Status, NEW at \in Int, Coherent(R \cup {[status |-> s, at |-> at]}),
         NEW new, Meets(old, new, s, at)
  PROVE  \A a \in R \cup {[status |-> s, at |-> at]} : Follows(At(new), a)
<1> DEFINE x == [status |-> s, at |-> at]
<1>1. x.status = s /\ x.at = at /\ At(old).status = old.status /\ At(old).at = old.at
      /\ At(new).status = new.status
  BY DEF At
<1>2. old.status \in Status /\ old.at \in Int
  BY <1>1
<1>3. /\ old.at < at => Follows(x, At(old))
      /\ at < old.at => Follows(At(old), x)
      /\ at = old.at => Follows(x, At(old)) \/ Follows(At(old), x)
  BY <1>1 DEF Coherent
<1>4. \A a \in R : old.status = a.status \/ transition(a.status, old.status)
  BY <1>1 DEF Follows
<1> HIDE DEF x
<1>5. CASE new.status = old.status
  <2>1. old.status = s \/ transition(s, old.status)
    BY <1>1, <1>2, <1>3, <1>5 DEF Meets, Follows
  <2> QED BY <1>1, <1>4, <1>5, <2>1 DEF Follows, x
<1>6. CASE new.status # old.status
  <2>1. transition(old.status, s) /\ new.status = s
    BY <1>6 DEF Meets
  <2>2. \A a \in R : transition(a.status, s)
    BY <1>2, <1>4, <2>1, TransitionsCompose
  <2> QED BY <1>1, <2>1, <2>2 DEF Follows, x
<1> QED BY <1>5, <1>6

\* What the row of an order says of its reports.
RowExplained(o) ==
  orders[o] # None =>
    /\ \E a \in Reports(o) : a.at = orders[o].occurred
    /\ \A a \in Reports(o) : orders[o].occurred <= a.at
    /\ ~FullyRefunded(o) =>
         /\ At(orders[o]) \in Reports(o)
         /\ Coherent(Reports(o)) => \A a \in Reports(o) : Follows(At(orders[o]), a)

Explained == RecordedStored /\ \A o \in Orders : RowExplained(o)

LEMMA CoherentParts ==
  ASSUME NEW R, NEW S, R \subseteq S, Coherent(S) PROVE Coherent(R)
BY DEF Coherent

LEMMA RowExplainedStep ==
  ASSUME IInv, Explained, NEW e \in Evidence, NEW input \in Input, Project(e, input)
  PROVE  Explained'
<1>1. PICK o \in Orders, row \in Order, d \in Dispositions : Effect(e, input, o, row, d)
  BY Projection DEF IInv
<1>2. PICK at \in Int : at = raw[e].at
  BY RowStep DEF IInv
<1>3. o = raw[e].order /\ orders' = [orders EXCEPT ![o] = row] /\ orders'[o] = row
      /\ \A p \in Orders : p # o => orders'[p] = orders[p]
  BY <1>1 DEF Effect, IInv, Typed
<1>4. /\ RecordedStored'
      /\ Reports(o)' = Reports(o) \cup ReportOf(e, input)
      /\ \A p \in Orders : p # o => Reports(p)' = Reports(p)
  BY <1>1, ReportsGrow DEF IInv, Explained
<1>5. \A p \in Orders : FullyRefunded(p) => FullyRefunded(p)'
  BY <1>1 DEF Effect, NoRefund, OneRefund, FullyRefunded
<1>6. \A a \in Reports(o) : a.status \in Status /\ a.at \in Int
  BY ReportTypes DEF IInv, Explained
<1>7. RowExplained(o)
  BY DEF Explained
<1>8. \A R : Coherent(R)' <=> Coherent(R)
  BY DEF Coherent, Follows
<1>9. ASSUME NEW p \in Orders, p # o PROVE RowExplained(p)'
  <2>1. RowExplained(p) /\ orders'[p] = orders[p] /\ Reports(p)' = Reports(p)
    BY <1>3, <1>4, <1>9 DEF Explained
  <2> QED BY <2>1, <1>5, <1>8 DEF RowExplained, At, Follows
<1>10. CASE /\ input.status \in Status /\ orders[o] = None
            /\ Starts(orders'[o], input.status, at)
  <2> DEFINE x == [status |-> input.status, at |-> at]
  <2>1. Reports(o) = {}
    BY <1>10 DEF IInv, HistoryChains, Reports
  <2>2. Reports(o)' = {x}
    BY <1>2, <1>4, <1>10, <2>1, OrdersAssumption DEF ReportOf
  <2>3. At(orders'[o]) = x /\ orders'[o].occurred = at
    BY <1>10 DEF Starts, At
  <2>4. RowExplained(o)'
    BY <1>2, <2>2, <2>3 DEF RowExplained, At, Follows
  <2> QED BY <1>4, <1>9, <2>4 DEF Explained
<1>11. CASE /\ input.status \in Status /\ orders[o] # None
            /\ Meets(orders[o], orders'[o], input.status, at)
            /\ orders'[o].occurred = EarlierOf(orders[o].occurred, at)
  <2> DEFINE x == [status |-> input.status, at |-> at]
  <2>1. Reports(o)' = Reports(o) \cup {x}
    BY <1>2, <1>4, <1>11, OrdersAssumption DEF ReportOf
  <2>2. orders[o].occurred \in Int /\ orders[o].at \in Int
    BY <1>11, OrdersAssumption DEF IInv, Typed, Order
  <2>3. /\ \E a \in Reports(o)' : a.at = orders'[o].occurred
        /\ \A a \in Reports(o)' : orders'[o].occurred <= a.at
    <3>1. /\ \E a \in Reports(o) : a.at = orders[o].occurred
          /\ \A a \in Reports(o) : orders[o].occurred <= a.at
      BY <1>7, <1>11 DEF RowExplained
    <3>2. x.at = at
      OBVIOUS
    <3> HIDE DEF x
    <3>3. CASE orders[o].occurred < at
      BY <1>6, <1>11, <2>1, <2>2, <3>1, <3>2, <3>3 DEF EarlierOf
    <3>4. CASE ~(orders[o].occurred < at)
      BY <1>6, <1>11, <2>1, <2>2, <3>1, <3>2, <3>4 DEF EarlierOf
    <3> QED BY <3>3, <3>4
  <2>4. ASSUME ~FullyRefunded(o)' PROVE At(orders[o]) \in Reports(o)
    BY <2>4, <1>5, <1>7, <1>11 DEF RowExplained
  <2>5. ASSUME ~FullyRefunded(o)' PROVE At(orders'[o]) \in Reports(o)'
    <3>1. At(orders'[o]) = At(orders[o]) \/ At(orders'[o]) = x
      BY <1>2, <1>11, <2>2 DEF Meets, LaterOf, At
    <3> QED BY <2>1, <2>4, <2>5, <3>1
  <2>6. ASSUME ~FullyRefunded(o)', Coherent(Reports(o)')
        PROVE  \A a \in Reports(o)' : Follows(At(orders'[o]), a)
    <3>1. Coherent(Reports(o))
      BY <2>1, <2>6, CoherentParts
    <3>2. \A a \in Reports(o) : Follows(At(orders[o]), a)
      BY <2>6, <3>1, <1>5, <1>7, <1>11 DEF RowExplained
    <3> QED BY <1>6, <1>11, <2>1, <2>4, <2>6, <3>2, StoryGoesOn
  <2>7. RowExplained(o)'
    BY <1>8, <2>3, <2>5, <2>6 DEF RowExplained, At, Follows
  <2> QED BY <1>4, <1>9, <2>7 DEF Explained
<1>12. CASE /\ input.status = None /\ orders[o] # None
            /\ orders'[o].occurred = orders[o].occurred
            /\ FullyRefunded(o)' \/ orders'[o] = orders[o]
  <2>1. Reports(o)' = Reports(o)
    BY <1>4, <1>12 DEF ReportOf
  <2>2. RowExplained(o)'
    BY <1>5, <1>7, <1>8, <1>12, <2>1 DEF RowExplained, At, Follows
  <2> QED BY <1>4, <1>9, <2>2 DEF Explained
<1>13. \/ /\ input.status \in Status /\ orders[o] = None
          /\ Starts(orders'[o], input.status, at)
       \/ /\ input.status \in Status /\ orders[o] # None
          /\ Meets(orders[o], orders'[o], input.status, at)
          /\ orders'[o].occurred = EarlierOf(orders[o].occurred, at)
       \/ /\ input.status = None /\ orders[o] # None
          /\ orders'[o].occurred = orders[o].occurred
          /\ FullyRefunded(o)' \/ orders'[o] = orders[o]
  <2>1. Typed
    BY DEF IInv
  <2> QED BY <1>2, <1>3, <2>1, RowStep
<1> QED BY <1>10, <1>11, <1>12, <1>13

\* Every step of the system.
LEMMA ExplainedStep == IInv /\ Explained /\ [Next]_vars => Explained'
<1> SUFFICES ASSUME IInv, Explained, [Next]_vars PROVE Explained'
  OBVIOUS
<1>1. ASSUME UNCHANGED <<orders, refunds, log>>,
             \/ UNCHANGED raw
             \/ \E e \in Evidence : \E event : raw[e] = None /\ raw' = [raw EXCEPT ![e] = event]
      PROVE  Explained'
  <2>1. RecordedStored' /\ \A o \in Orders : Reports(o)' = Reports(o)
    BY <1>1, ReportsKept DEF IInv, Explained
  <2>2. \A o \in Orders : RowExplained(o)'
    BY <1>1, <2>1 DEF Explained, RowExplained, FullyRefunded, At, Follows, Coherent
  <2> QED BY <2>1, <2>2 DEF Explained
<1>2. ASSUME NEW e \in Evidence, NEW event \in Event, Save(e, event) PROVE Explained'
  BY <1>1, <1>2 DEF Save
<1>3. ASSUME NEW e \in Evidence, NEW input \in Input, Project(e, input) PROVE Explained'
  BY <1>3, RowExplainedStep
<1>4. ASSUME UNCHANGED <<raw, orders, refunds, log>> PROVE Explained'
  BY <1>1, <1>4
<1> QED BY <1>2, <1>3, <1>4 DEF Next, vars, Project, ReadOrder, ReadHistory, ReadRefunds, Read

\* However often and in whatever order events are projected: an order occurred when its
\* earliest report says, and unless it is refunded in full it is at one of its reports, the
\* one all others of a coherent story lead to (projection.go:113-150).
THEOREM ReportsExplain == Spec => []Explained
<1>1. Init => Explained
  BY DEF Init, Explained, RecordedStored, RowExplained
<1> QED BY <1>1, ExplainedStep, OrdersInductive, PTL DEF Spec

\* In whatever order, and however often, the events of a coherent story are projected:
\* the order ends where the story does, or in a full refund.
THEOREM StoriesConverge == Spec => []Converges
<1>1. Explained => Converges
  <2> SUFFICES ASSUME Explained, NEW o \in Orders, orders[o] # None,
                      Coherent(Reports(o)), ~FullyRefunded(o)
               PROVE  /\ \E a \in Reports(o) : a.status = orders[o].status
                      /\ \A a \in Reports(o) : Follows([status |-> orders[o].status], a)
    BY DEF Converges
  <2>1. At(orders[o]) \in Reports(o) /\ \A a \in Reports(o) : Follows(At(orders[o]), a)
    BY DEF Explained, RowExplained
  <2> QED BY <2>1 DEF At, Follows
<1> QED BY <1>1, ReportsExplain, PTL

\* The time orders are listed and paged by is the earliest any status event gave.
THEOREM EarliestOccurs == Spec => []OccurredIsEarliest
<1>1. Explained => OccurredIsEarliest
  BY DEF Explained, RowExplained, OccurredIsEarliest
<1> QED BY <1>1, ReportsExplain, PTL

-----------------------------------------------------------------------------
(* What the owner is shown.                                                *)

\* What a reader has read is still in the history and among the refunds, which only grow.
ReaderSound(g) ==
  LET r == reader[g] IN
  /\ r.pc # "idle" => r.order \in Orders
  /\ r.pc = "history" => r.status \in Shown(r.order)
  /\ r.pc \in {"refunds", "done"} => r.status \in r.shown
  /\ r.pc \in {"history", "refunds"} /\ r.status = "REFUNDED" =>
       \E f \in refunds : f.order = r.order
  /\ r.pc = "done" /\ r.status = "REFUNDED" => r.count > 0

\* The status of an order is the outcome of an applied projection.
StatusShown == \A o \in Orders : orders[o] # None => orders[o].status \in Shown(o)

ReadersInv ==
  /\ IsFiniteSet(refunds)
  /\ reader \in [Readers -> Reading]
  /\ StatusShown
  /\ \A g \in Readers : ReaderSound(g)

\* The history only grows, by the entry just appended.
LEMMA ShownGrows ==
  ASSUME Typed, NEW e \in Evidence, NEW input \in Input, NEW o \in Orders, NEW row \in Order,
         NEW d \in Dispositions, Effect(e, input, o, row, d)
  PROVE  /\ \A p \in Orders : Shown(p) \subseteq Shown(p)'
         /\ d = "APPLIED" => row.status \in Shown(o)'
<1> DEFINE x == EntryFor(e, input, row.status, d)
           n == Len(log[o])
<1>1. x \in Entry /\ log' = [log EXCEPT ![o] = Append(@, x)]
  BY TypedStep DEF Effect
<1>2. x.resulting = row.status /\ x.disposition = d
  BY DEF EntryFor
<1> HIDE DEF x, n
<1>3. /\ \A p \in Orders : p # o => log'[p] = log[p]
      /\ n \in Nat /\ DOMAIN log[o] = 1..n /\ DOMAIN log'[o] = 1..(n + 1)
      /\ \A i \in 1..n : log'[o][i] = log[o][i]
      /\ log'[o][n + 1] = x
  BY <1>1, Appended DEF n
<1>4. \A p \in Orders : \A i \in DOMAIN log[p] : i \in DOMAIN log'[p] /\ log'[p][i] = log[p][i]
  BY <1>3
<1>5. \A p \in Orders : Shown(p) \subseteq Shown(p)'
  BY <1>4 DEF Shown
<1>6. d = "APPLIED" => row.status \in Shown(o)'
  <2>1. n + 1 \in DOMAIN log'[o]
    BY <1>3
  <2> QED BY <1>2, <1>3, <2>1 DEF Shown
<1> QED BY <1>5, <1>6

LEMMA ProjectionRead ==
  ASSUME Typed, ReadersInv, NEW e \in Evidence, NEW input \in Input, Project(e, input)
  PROVE  ReadersInv'
<1>1. PICK o \in Orders, row \in Order, d \in Dispositions : Effect(e, input, o, row, d)
  BY Projection
<1>2. /\ \A p \in Orders : Shown(p) \subseteq Shown(p)'
      /\ d = "APPLIED" => row.status \in Shown(o)'
  BY <1>1, ShownGrows
<1>3. refunds \subseteq refunds' /\ IsFiniteSet(refunds')
  BY <1>1, FS_AddElement DEF Effect, NoRefund, OneRefund, ReadersInv
<1>4. StatusShown'
  <2>1. orders' = [orders EXCEPT ![o] = row] /\ orders'[o] = row
        /\ \A p \in Orders : p # o => orders'[p] = orders[p]
    BY <1>1 DEF Effect, Typed
  <2>2. d # "APPLIED" => orders[o] # None /\ row.status = orders[o].status
    BY <1>1 DEF Effect
  <2> QED BY <1>2, <2>1, <2>2 DEF StatusShown, ReadersInv
<1>5. UNCHANGED reader
  BY DEF Project, CreateOrder, UpdateOrder, ApplyRefund
<1>6. ASSUME NEW g \in Readers PROVE ReaderSound(g)'
  <2>1. ReaderSound(g) /\ reader'[g] = reader[g]
    BY <1>5 DEF ReadersInv
  <2>2. reader[g].pc = "history" => reader[g].status \in Shown(reader[g].order)'
    BY <2>1, <1>2, <1>5 DEF ReaderSound
  <2> QED BY <2>1, <2>2, <1>3, <1>5 DEF ReaderSound
<1> QED BY <1>3, <1>4, <1>5, <1>6 DEF ReadersInv

\* A reader's step, with everybody else where he was.
LEMMA ReadStep ==
  ASSUME ReadersInv, NEW g \in Readers, NEW r \in Reading, Read(g, r),
         r.pc # "idle" => r.order \in Orders,
         r.pc = "history" => r.status \in Shown(r.order),
         r.pc \in {"refunds", "done"} => r.status \in r.shown,
         r.pc \in {"history", "refunds"} /\ r.status = "REFUNDED" =>
           \E f \in refunds : f.order = r.order,
         r.pc = "done" /\ r.status = "REFUNDED" => r.count > 0
  PROVE  ReadersInv'
<1>1. reader' \in [Readers -> Reading] /\ reader'[g] = r
      /\ \A h \in Readers : h # g => reader'[h] = reader[h]
  BY DEF Read, ReadersInv
<1>2. UNCHANGED <<orders, refunds, log>>
  BY DEF Read
<1>3. ASSUME NEW h \in Readers PROVE ReaderSound(h)'
  <2>1. CASE h = g
    BY <1>1, <1>2, <2>1 DEF ReaderSound, Shown
  <2>2. CASE h # g
    BY <1>1, <1>2, <2>2 DEF ReaderSound, Shown, ReadersInv
  <2> QED BY <2>1, <2>2
<1>4. StatusShown'
  BY <1>2 DEF ReadersInv, StatusShown, Shown
<1> QED BY <1>1, <1>2, <1>3, <1>4 DEF ReadersInv

LEMMA ReadersStep == IInv /\ ReadersInv /\ [Next]_vars => ReadersInv'
<1> SUFFICES ASSUME IInv, ReadersInv, [Next]_vars PROVE ReadersInv'
  OBVIOUS
<1>1. ASSUME NEW e \in Evidence, NEW input \in Input, Project(e, input) PROVE ReadersInv'
  BY <1>1, ProjectionRead DEF IInv
<1>2. ASSUME NEW g \in Readers, NEW o \in Orders, ReadOrder(g, o) PROVE ReadersInv'
  <2> DEFINE r == [NotReading EXCEPT !.pc = "history", !.order = o, !.status = orders[o].status]
  <2>1. orders[o] # None /\ Read(g, r)
    BY <1>2 DEF ReadOrder
  <2>2. orders[o].status \in Status /\ orders[o].status \in Shown(o)
    BY <2>1 DEF IInv, Typed, Order, ReadersInv, StatusShown
  <2>3. r.pc = "history" /\ r.order = o /\ r.status = orders[o].status
    BY DEF NotReading
  <2>4. r \in Reading
    BY <2>2 DEF NotReading, Reading
  <2>5. orders[o].status = "REFUNDED" => \E f \in refunds : f.order = o
    BY <2>1 DEF IInv, RefundsAgree, FullyRefunded
  <2> HIDE DEF r
  <2> QED BY <2>1, <2>2, <2>3, <2>4, <2>5, ReadStep
<1>3. ASSUME NEW g \in Readers, ReadHistory(g) PROVE ReadersInv'
  <2> DEFINE old == reader[g]
             r   == [old EXCEPT !.pc = "refunds", !.shown = Shown(old.order)]
  <2>1. old.pc = "history" /\ Read(g, r) /\ old \in Reading /\ ReaderSound(g)
    BY <1>3 DEF ReadHistory, ReadersInv
  <2>2. r.pc = "refunds" /\ r.order = old.order /\ r.status = old.status /\ r.shown = Shown(old.order)
    BY <2>1 DEF Reading
  <2>3. Shown(old.order) \subseteq Status
    <3>1. log[old.order] \in Seq(Entry)
      BY <2>1 DEF ReaderSound, IInv, Typed
    <3>2. \A i \in DOMAIN log[old.order] : log[old.order][i] \in Entry
      BY <3>1
    <3>3. \A i \in DOMAIN log[old.order] : log[old.order][i].resulting \in Status
      BY <3>2 DEF Entry
    <3> QED BY <3>3 DEF Shown
  <2>4. r \in Reading
    BY <2>1, <2>3 DEF Reading
  <2>5. /\ old.order \in Orders /\ old.status \in Shown(old.order)
        /\ old.status = "REFUNDED" => \E f \in refunds : f.order = old.order
    BY <2>1 DEF ReaderSound
  <2> HIDE DEF r, old
  <2> QED BY <2>1, <2>2, <2>4, <2>5, ReadStep
<1>4. ASSUME NEW g \in Readers, ReadRefunds(g) PROVE ReadersInv'
  <2> DEFINE old  == reader[g]
             mine == {f \in refunds : f.order = old.order}
             r    == [old EXCEPT !.pc = "done", !.count = Cardinality(mine)]
  <2>1. old.pc = "refunds" /\ Read(g, r) /\ old \in Reading /\ ReaderSound(g)
    BY <1>4 DEF ReadRefunds, RefundCount, ReadersInv
  <2>2. IsFiniteSet(mine) /\ Cardinality(mine) \in Nat
    BY FS_Subset, FS_CardinalityType DEF ReadersInv
  <2>3. mine # {} => Cardinality(mine) > 0
    BY <2>2, FS_EmptySet
  <2>4. /\ r.pc = "done" /\ r.order = old.order /\ r.status = old.status /\ r.shown = old.shown
        /\ r.count = Cardinality(mine)
    BY <2>1 DEF Reading
  <2>5. r \in Reading
    BY <2>1, <2>2 DEF Reading
  <2>6. /\ old.order \in Orders /\ old.status \in old.shown
        /\ old.status = "REFUNDED" => mine # {}
    BY <2>1 DEF ReaderSound
  <2> HIDE DEF r, old, mine
  <2> QED BY <2>1, <2>3, <2>4, <2>5, <2>6, ReadStep
<1>5. ASSUME UNCHANGED <<orders, refunds, log, reader>> PROVE ReadersInv'
  BY <1>5 DEF ReadersInv, StatusShown, ReaderSound, Shown
<1> QED BY <1>1, <1>2, <1>3, <1>4, <1>5 DEF Next, vars, Save, Project

\* Between two of its three queries, a reader holds a status that the history and the
\* refunds it has yet to read will explain (read.go).
THEOREM ReadersInductive == Spec => []ReadersInv
<1>1. Init => ReadersInv
  <2>1. NotReading \in Reading
    BY DEF NotReading, Reading
  <2> QED BY <2>1, FS_EmptySet DEF Init, ReadersInv, StatusShown, ReaderSound, NotReading
<1> QED BY <1>1, ReadersStep, OrdersInductive, PTL DEF Spec

\* Whatever is projected between the three queries of a detail, its history holds the
\* status it shows, and an order shown REFUNDED is shown with a refund.
THEOREM DetailsExplained == Spec => []DetailExplained
<1>1. ReadersInv => DetailExplained
  BY DEF ReadersInv, ReaderSound, DetailExplained
<1> QED BY <1>1, ReadersInductive, PTL

\* Types of the variables.
THEOREM OrdersTyped == Spec => []TypeOK
<1>1. IInv /\ ReadersInv => TypeOK
  BY DEF IInv, Typed, ReadersInv, TypeOK
<1> QED BY <1>1, OrdersInductive, ReadersInductive, PTL


-----------------------------------------------------------------------------
(***************************************************************************)
(* Part II: Pages.  A row of the walk is ahead when its key is behind the  *)
(* cursor.                                                                 *)
(***************************************************************************)
Ahead(r) == Precedes(walk.cursor, Key(r))

\* While the walk goes on, a row that was there all the time has been shown or is still ahead.
NotYetLost ==
  Walking => \A r \in steady \cap valid : r \in walk.seen \/ Ahead(r)

\* What has been shown is not ahead, unless it was moved.
NotAgain ==
  Walking => \A r \in walk.seen : r \in moved \/ ~Ahead(r)

\* The batches read so far hold every card of the snapshot between the cursor and the boundary.
BatchInv ==
  listing = "materials" /\ walk.pc = "granted" =>
    /\ steady \subseteq batch.rows
    /\ batch.after = walk.cursor \/ Precedes(walk.cursor, batch.after)
    /\ batch.items = {r \in batch.rows \cap valid : Ahead(r) /\ ~Precedes(batch.after, Key(r))}

\* A listing that shows nothing has shown no row all the time.
NothingStands == access = "done" => steady = {}

WalkInv ==
  /\ WalkTypeOK /\ steady \subseteq match /\ NothingStands
  /\ NotYetLost /\ NotAgain /\ BatchInv /\ NothingLost /\ ShownOnce

-----------------------------------------------------------------------------
(* The order of the keys.                                                  *)

LEMMA PrecedesOrder ==
  ASSUME NEW a \in Nat \X Nat, NEW b \in Nat \X Nat, NEW c \in Nat \X Nat
  PROVE  /\ ~Precedes(a, a)
         /\ Precedes(a, b) /\ Precedes(b, c) => Precedes(a, c)
         /\ Precedes(a, b) => ~Precedes(b, a)
         /\ a = b \/ Precedes(a, b) \/ Precedes(b, a)
BY DEF Precedes

\* Every row has a key of its own, behind the start.
LEMMA KeyTypes ==
  ASSUME WalkTypeOK, NEW r \in Rows, NEW q \in Rows
  PROVE  /\ Key(r) \in Nat \X Nat /\ Precedes(Start, Key(r))
         /\ Key(r) = Key(q) => r = q
BY PagesAssumption DEF PagesAssumption, Rows, WalkTypeOK, Key, Precedes, Start

\* Of two rows one comes first.
LEMMA RowOrder ==
  ASSUME WalkTypeOK, NEW r \in Rows, NEW q \in Rows, NEW k \in Nat \X Nat
  PROVE  /\ ~Precedes(Key(r), Key(r))
         /\ r # q => Precedes(Key(r), Key(q)) \/ Precedes(Key(q), Key(r))
         /\ Precedes(Key(r), Key(q)) => ~Precedes(Key(q), Key(r))
         /\ Precedes(k, Key(r)) /\ Precedes(Key(r), Key(q)) => Precedes(k, Key(q))
         /\ Precedes(Key(r), Key(q)) /\ Precedes(Key(q), k) => Precedes(Key(r), k)
         /\ Precedes(Key(r), k) => ~Precedes(k, Key(r))
<1>1. Key(r) \in Nat \X Nat /\ Key(q) \in Nat \X Nat /\ (Key(r) = Key(q) => r = q)
  BY KeyTypes
<1>2. r # q => Precedes(Key(r), Key(q)) \/ Precedes(Key(q), Key(r))
  BY <1>1, PrecedesOrder
<1>3. ~Precedes(Key(r), Key(r)) /\ (Precedes(Key(r), Key(q)) => ~Precedes(Key(q), Key(r)))
  BY <1>1, PrecedesOrder
<1>4. Precedes(k, Key(r)) /\ Precedes(Key(r), Key(q)) => Precedes(k, Key(q))
  BY <1>1, PrecedesOrder
<1>5. Precedes(Key(r), Key(q)) /\ Precedes(Key(q), k) => Precedes(Key(r), k)
  BY <1>1, PrecedesOrder
<1>6. Precedes(Key(r), k) => ~Precedes(k, Key(r))
  BY <1>1, PrecedesOrder
<1> QED
  BY <1>2, <1>3, <1>4, <1>5, <1>6

LEMMA LeastNatural ==
  ASSUME NEW T, T \subseteq Nat, T # {}
  PROVE  \E x \in T : \A y \in T : x <= y
<1> DEFINE R == OpToRel(<, Nat)
<1>1. IsWellFoundedOn(R, Nat)
  BY NatLessThanWellFounded
<1>2. PICK x \in T : \A y \in T : ~(<<y, x>> \in R)
  <2> HIDE DEF R
  <2> QED
    BY <1>1, WFMin
<1>3. \A y \in T : ~(y < x)
  BY <1>2 DEF OpToRel
<1> QED
  BY <1>3

LEMMA GreatestNatural ==
  ASSUME NEW T, NEW m \in Nat, T \subseteq 0..m, T # {}
  PROVE  \E x \in T : \A y \in T : y <= x
<1> DEFINE U == {m - x : x \in T}
<1>1. U \subseteq Nat /\ U # {}
  <2>1. \A x \in T : m - x \in Nat
    OBVIOUS
  <2> QED
    BY <2>1
<1>2. PICK u \in U : \A w \in U : u <= w
  <2> HIDE DEF U
  <2> QED
    BY <1>1, LeastNatural
<1>3. PICK x \in T : u = m - x
  OBVIOUS
<1>4. ASSUME NEW y \in T PROVE y <= x
  <2>1. m - y \in U
    OBVIOUS
  <2>2. m - x <= m - y
    BY <1>2, <1>3, <2>1
  <2> QED
    BY <2>2
<1> QED
  BY <1>4

\* Some row comes first.
LEMMA FirstRow ==
  ASSUME WalkTypeOK, NEW S \in SUBSET Rows, S # {}
  PROVE  \E r \in S : \A q \in S : ~Precedes(Key(q), Key(r))
<1>1. /\ \A r \in Rows : place[r] \in Nat /\ r \in Nat
  BY PagesAssumption DEF PagesAssumption, Rows, WalkTypeOK
<1>2. PICK p \in {place[r] : r \in S} : \A x \in {place[r] : r \in S} : p <= x
  <2> DEFINE T == {place[r] : r \in S}
  <2>1. T \subseteq Nat /\ T # {}
    BY <1>1
  <2> HIDE DEF T
  <2>2. \E x \in T : \A y \in T : x <= y
    BY <2>1, LeastNatural
  <2> QED
    BY <2>2 DEF T
<1>3. PICK r \in {q \in S : place[q] = p} : \A q \in {q \in S : place[q] = p} : r <= q
  <2> DEFINE T == {q \in S : place[q] = p}
  <2>1. T \subseteq Nat /\ T # {}
    BY <1>1, <1>2
  <2> HIDE DEF T
  <2>2. \E x \in T : \A y \in T : x <= y
    BY <2>1, LeastNatural
  <2> QED
    BY <2>2 DEF T
<1>4. ASSUME NEW q \in S PROVE ~Precedes(Key(q), Key(r))
  <2>1. place[q] >= place[r] /\ (place[q] = place[r] => r <= q)
    BY <1>2, <1>3
  <2>2. place[q] \in Nat /\ place[r] \in Nat /\ q \in Nat /\ r \in Nat
    BY <1>1, <1>3
  <2> QED
    BY <2>1, <2>2 DEF Precedes, Key
<1> QED
  BY <1>3, <1>4

\* Some row comes last.
LEMMA LastRow ==
  ASSUME WalkTypeOK, NEW S \in SUBSET Rows, S # {}
  PROVE  \E r \in S : \A q \in S : q # r => Precedes(Key(q), Key(r))
<1>1. /\ MaxPlace \in Nat /\ LastId \in Nat
      /\ \A r \in Rows : place[r] \in 0..MaxPlace /\ r \in 0..LastId
  BY PagesAssumption DEF PagesAssumption, Rows, WalkTypeOK
<1>2. PICK p \in {place[r] : r \in S} : \A x \in {place[r] : r \in S} : x <= p
  <2> DEFINE T == {place[r] : r \in S}
  <2>1. T \subseteq 0..MaxPlace /\ T # {}
    BY <1>1
  <2> HIDE DEF T
  <2>2. \E x \in T : \A y \in T : y <= x
    BY <1>1, <2>1, GreatestNatural
  <2> QED
    BY <2>2 DEF T
<1>3. PICK r \in {q \in S : place[q] = p} : \A q \in {q \in S : place[q] = p} : q <= r
  <2> DEFINE T == {q \in S : place[q] = p}
  <2>1. T \subseteq 0..LastId /\ T # {}
    BY <1>1, <1>2
  <2> HIDE DEF T
  <2>2. \E x \in T : \A y \in T : y <= x
    BY <1>1, <2>1, GreatestNatural
  <2> QED
    BY <2>2 DEF T
<1>4. ASSUME NEW q \in S, q # r PROVE Precedes(Key(q), Key(r))
  <2>1. place[q] <= place[r] /\ (place[q] = place[r] => q <= r)
    BY <1>2, <1>3
  <2>2. place[q] \in Nat /\ place[r] \in Nat /\ q \in Nat /\ r \in Nat
    BY <1>1, <1>3
  <2> QED
    BY <1>4, <2>1, <2>2 DEF Precedes, Key
<1> QED
  BY <1>3, <1>4

-----------------------------------------------------------------------------
(* ORDER BY ... LIMIT.                                                     *)

LEMMA RowsFinite == \A S \in SUBSET Rows : IsFiniteSet(S) /\ Cardinality(S) \in Nat
<1>1. IsFiniteSet(Rows)
  BY PagesAssumption, FS_Interval DEF PagesAssumption, Rows
<1>2. ASSUME NEW S \in SUBSET Rows PROVE IsFiniteSet(S)
  BY <1>1, FS_Subset
<1> QED
  BY <1>2, FS_CardinalityType

Before(S, r) == {q \in S : Precedes(Key(q), Key(r))}

\* The first rows of a set are rows of it, and every row before one of them is, too.
LEMMA FirstDown ==
  ASSUME WalkTypeOK, NEW S \in SUBSET Rows, NEW n \in Nat
  PROVE  /\ First(S, n) \subseteq S
         /\ \A r \in First(S, n), q \in S : Precedes(Key(q), Key(r)) => q \in First(S, n)
<1>1. First(S, n) \subseteq S
  BY DEF First
<1>2. ASSUME NEW r \in First(S, n), NEW q \in S, Precedes(Key(q), Key(r)) PROVE q \in First(S, n)
  <2>1. r \in Rows /\ q \in Rows
    BY <1>1
  <2>2. Before(S, q) \subseteq Before(S, r)
    <3> SUFFICES ASSUME NEW x \in S, Precedes(Key(x), Key(q)) PROVE Precedes(Key(x), Key(r))
      BY DEF Before
    <3>1. x \in Rows /\ Key(r) \in Nat \X Nat
      BY <2>1, KeyTypes
    <3> QED
      BY <1>2, <2>1, <3>1, RowOrder
  <2>3. /\ Before(S, q) \in SUBSET Rows /\ Before(S, r) \in SUBSET Rows
    BY DEF Before
  <2>4. Cardinality(Before(S, q)) <= Cardinality(Before(S, r))
    BY <2>2, <2>3, RowsFinite, FS_Subset
  <2>5. Cardinality(Before(S, r)) < n
    BY DEF First, Before
  <2>6. Cardinality(Before(S, q)) < n
    BY <2>3, <2>4, <2>5, RowsFinite
  <2> QED
    BY <2>6 DEF First, Before
<1> QED
  BY <1>1, <1>2

\* LIMIT n returns no more than n rows.
LEMMA FirstBounded ==
  ASSUME WalkTypeOK, NEW S \in SUBSET Rows, NEW n \in Nat
  PROVE  Cardinality(First(S, n)) <= n
<1>1. First(S, n) \in SUBSET Rows
  BY FirstDown
<1>2. CASE First(S, n) = {}
  BY <1>2, FS_EmptySet
<1>3. CASE First(S, n) # {}
  <2>1. PICK r \in First(S, n) : \A q \in First(S, n) : q # r => Precedes(Key(q), Key(r))
    BY <1>1, <1>3, LastRow
  <2>2. First(S, n) \subseteq Before(S, r) \cup {r}
    BY <2>1, FirstDown DEF Before
  <2>3. Before(S, r) \in SUBSET Rows
    BY DEF Before
  <2>4. Cardinality(Before(S, r)) < n
    BY DEF First, Before
  <2>5. /\ IsFiniteSet(Before(S, r) \cup {r})
        /\ Cardinality(Before(S, r) \cup {r}) <= Cardinality(Before(S, r)) + 1
    BY <2>3, RowsFinite, FS_AddElement
  <2>6. Cardinality(First(S, n)) <= Cardinality(Before(S, r) \cup {r})
    BY <2>2, <2>5, FS_Subset
  <2>7. /\ Cardinality(First(S, n)) \in Nat /\ Cardinality(Before(S, r)) \in Nat
        /\ Cardinality(Before(S, r) \cup {r}) \in Nat
    BY <1>1, <2>3, <2>5, RowsFinite, FS_CardinalityType
  <2> QED
    BY <2>4, <2>5, <2>6, <2>7
<1> QED
  BY <1>2, <1>3

\* When fewer rows come than were asked for, there are no others.
LEMMA FirstIsAll ==
  ASSUME WalkTypeOK, NEW S \in SUBSET Rows, NEW n \in Nat, Cardinality(First(S, n)) < n
  PROVE  First(S, n) = S
<1> SUFFICES ASSUME S \ First(S, n) # {} PROVE FALSE
  BY FirstDown
<1>1. PICK r \in S \ First(S, n) : \A q \in S \ First(S, n) : ~Precedes(Key(q), Key(r))
  BY FirstRow
<1>2. Before(S, r) \subseteq First(S, n)
  BY <1>1 DEF Before
<1>3. First(S, n) \in SUBSET Rows /\ Before(S, r) \in SUBSET Rows
  BY FirstDown DEF Before
<1>4. Cardinality(Before(S, r)) <= Cardinality(First(S, n))
  BY <1>2, <1>3, RowsFinite, FS_Subset
<1>5. Cardinality(Before(S, r)) < n
  BY <1>3, <1>4, RowsFinite
<1> QED
  BY <1>1, <1>5 DEF First, Before

\* All rows are returned when there are not more than were asked for.
LEMMA FirstOfFew ==
  ASSUME WalkTypeOK, NEW S \in SUBSET Rows, NEW n \in Nat, Cardinality(S) <= n
  PROVE  First(S, n) = S
<1> SUFFICES ASSUME NEW r \in S PROVE Cardinality(Before(S, r)) < n
  BY DEF First, Before
<1>1. Before(S, r) \subseteq S \ {r}
  <2>1. r \in Rows /\ Key(r) \in Nat \X Nat
    BY KeyTypes
  <2>2. ~Precedes(Key(r), Key(r))
    BY <2>1, PrecedesOrder
  <2> QED
    BY <2>2 DEF Before
<1>2. IsFiniteSet(S) /\ Cardinality(S) \in Nat
  BY RowsFinite
<1>3. IsFiniteSet(S \ {r}) /\ Cardinality(S \ {r}) = Cardinality(S) - 1
  BY <1>2, FS_RemoveElement
<1>4. Cardinality(Before(S, r)) <= Cardinality(S \ {r})
  BY <1>1, <1>3, FS_Subset
<1>5. Cardinality(Before(S, r)) \in Nat
  BY RowsFinite DEF Before
<1> QED
  BY <1>2, <1>3, <1>4, <1>5

\* LastOf is the key of a row behind all the others.
LEMMA LastOfRow ==
  ASSUME WalkTypeOK, NEW S \in SUBSET Rows, S # {}
  PROVE  \E r \in S : LastOf(S) = Key(r) /\ \A q \in S : q # r => Precedes(Key(q), Key(r))
<1>1. PICK m \in S : \A q \in S : q # m => Precedes(Key(q), Key(m))
  BY LastRow
<1>2. \A r \in S : Key(r)[2] = r
  BY DEF Key
<1> DEFINE P(k) == \A r \in S : r # k[2] => Precedes(Key(r), k)
<1>3. \E k \in {Key(r) : r \in S} : P(k)
  BY <1>1, <1>2
<1>4. LastOf(S) = CHOOSE k \in {Key(r) : r \in S} : P(k)
  BY DEF LastOf
<1>5. LastOf(S) \in {Key(r) : r \in S} /\ P(LastOf(S))
  <2> HIDE DEF P
  <2> QED
    BY <1>3, <1>4
<1>6. PICK r \in S : LastOf(S) = Key(r)
  BY <1>5
<1> QED
  BY <1>2, <1>5, <1>6

-----------------------------------------------------------------------------
(* A page.                                                                 *)

\* What a page shows of the rows T it could show: the rows up to the new cursor.
LEMMA PageShows ==
  ASSUME WalkTypeOK, NEW T \in SUBSET Rows
  PROVE  LET found == First(T, Limit + 1)
             shown == First(found, Limit)
         IN  /\ shown \subseteq T
             /\ Cardinality(found) <= Limit => shown = T
             /\ Cardinality(found) > Limit =>
                  \E m \in shown :
                    /\ LastOf(shown) = Key(m)
                    /\ \A q \in shown : q # m => Precedes(Key(q), Key(m))
                    /\ \A q \in T \ shown : Precedes(Key(m), Key(q))
<1> DEFINE found == First(T, Limit + 1)
           shown == First(found, Limit)
<1>1. Limit \in Nat /\ Limit + 1 \in Nat /\ Limit > 0
  BY PagesAssumption DEF PagesAssumption, Rows
<1>2. /\ found \in SUBSET Rows /\ found \subseteq T
      /\ \A r \in found, q \in T : Precedes(Key(q), Key(r)) => q \in found
  BY <1>1, FirstDown
<1>3. Cardinality(found) \in Nat
  BY <1>2, RowsFinite
<1>4. Cardinality(found) < Limit + 1 => found = T
  BY <1>1, FirstIsAll
<1>5. Cardinality(found) <= Limit => First(found, Limit) = found
  <2> HIDE DEF found
  <2> QED
    BY <1>1, <1>2, FirstOfFew
<1>6. /\ shown \subseteq found
      /\ \A r \in shown, q \in found : Precedes(Key(q), Key(r)) => q \in shown
  <2> HIDE DEF found
  <2> QED
    BY <1>1, <1>2, FirstDown
<1>7. Cardinality(shown) < Limit => shown = found
  <2> HIDE DEF found
  <2> QED
    BY <1>1, <1>2, FirstIsAll
<1>8. ASSUME Cardinality(found) > Limit
      PROVE  \E m \in shown :
               /\ LastOf(shown) = Key(m)
               /\ \A q \in shown : q # m => Precedes(Key(q), Key(m))
               /\ \A q \in T \ shown : Precedes(Key(m), Key(q))
  <2> HIDE DEF found
  <2>1. shown # {} /\ shown \in SUBSET Rows
    <3>1. shown = {} => Cardinality(shown) = 0
      BY FS_EmptySet
    <3>2. shown = {} => found = {}
      BY <1>1, <1>7, <3>1
    <3>3. found = {} => Cardinality(found) = 0
      BY FS_EmptySet
    <3> QED
      BY <1>1, <1>2, <1>6, <1>8, <3>2, <3>3
  <2> HIDE DEF shown
  <2>2. PICK m \in shown :
          LastOf(shown) = Key(m) /\ \A q \in shown : q # m => Precedes(Key(q), Key(m))
    BY <2>1, LastOfRow
  <2>3. ASSUME NEW q \in T \ shown PROVE Precedes(Key(m), Key(q))
    <3>1. q \in Rows /\ m \in Rows /\ q # m /\ Key(q) \in Nat \X Nat
      BY <1>2, <2>1, KeyTypes
    <3>2. ~Precedes(Key(q), Key(m))
      BY <1>2, <1>6
    <3> QED
      BY <3>1, <3>2, RowOrder
  <2> QED
    BY <2>2, <2>3
<1>9. Cardinality(found) <= Limit => shown = T
  BY <1>1, <1>3, <1>4, <1>5
<1>10. shown \subseteq T
  BY <1>2, <1>6
<1> HIDE DEF found, shown
<1> QED
  BY <1>8, <1>9, <1>10 DEF found, shown

\* The order of the rows stays as long as no order is moved.
LEMMA KeysStay ==
  ASSUME UNCHANGED place
  PROVE  \A r : Key(r)' = Key(r)
BY DEF Key

WalkTyped ==
  walk \in [pc : {"next", "granted", "refused", "done"}, cursor : (0..MaxPlace) \X (Rows \cup {0}),
            seen : SUBSET Rows, twice : SUBSET Rows]

\* A page that could show T keeps the walk's promises, when the rows to be shown are in T or
\* behind all of it.
LEMMA PageStep ==
  ASSUME WalkTypeOK, NotYetLost, NotAgain, ShownOnce, Walking, Quiet,
         NEW T \in SUBSET Rows,
         \A r \in T : Ahead(r),
         \A r \in steady \cap valid :
           Ahead(r) => \/ r \in T
                       \/ /\ Cardinality(First(T, Limit + 1)) > Limit
                          /\ \A q \in T : Precedes(Key(q), Key(r)),
         ShowFound(First(T, Limit + 1))
  PROVE  /\ WalkTyped' /\ walk'.pc \in {"next", "done"}
         /\ NotYetLost' /\ NotAgain' /\ NothingLost' /\ ShownOnce'
<1> DEFINE found == First(T, Limit + 1)
           shown == First(found, Limit)
           full  == Cardinality(found) > Limit
<1>1. /\ shown \subseteq T
      /\ ~full => shown = T
      /\ full => \E m \in shown :
                   /\ LastOf(shown) = Key(m)
                   /\ \A q \in shown : q # m => Precedes(Key(q), Key(m))
                   /\ \A q \in T \ shown : Precedes(Key(m), Key(q))
  <2>1. Cardinality(found) \in Nat /\ Limit \in Nat
    BY PagesAssumption, FirstDown, RowsFinite DEF PagesAssumption, Rows
  <2> QED
    BY <2>1, PageShows
<1>2. walk' = [pc     |-> IF full THEN "next" ELSE "done",
               cursor |-> IF full THEN LastOf(shown) ELSE walk.cursor,
               seen   |-> walk.seen \cup shown,
               twice  |-> walk.twice \cup (walk.seen \cap shown)]
  BY DEF ShowFound, ShowPage
<1>3. \A r \in steady \cap valid :
        Ahead(r) => r \in T \/ (full /\ \A q \in T : Precedes(Key(q), Key(r)))
  OBVIOUS
<1> HIDE DEF found, shown, full
<1>4. /\ walk'.pc = IF full THEN "next" ELSE "done"
      /\ walk'.cursor = IF full THEN LastOf(shown) ELSE walk.cursor
      /\ walk'.seen = walk.seen \cup shown
      /\ walk'.twice = walk.twice \cup (walk.seen \cap shown)
  BY <1>2
<1>5. /\ listing' = listing /\ match' = match /\ valid' = valid /\ place' = place
      /\ steady' = steady /\ moved' = moved /\ \A r : Key(r)' = Key(r)
  BY KeysStay DEF Quiet
<1>6. walk.cursor \in Nat \X Nat /\ walk.seen \subseteq Rows /\ walk.twice \subseteq Rows
  <2>1. walk.cursor \in (0..MaxPlace) \X (Rows \cup {0}) /\ MaxPlace \in Nat
    BY PagesAssumption DEF PagesAssumption, Rows, WalkTypeOK
  <2>2. Rows \cup {0} \subseteq Nat
    BY PagesAssumption DEF PagesAssumption, Rows
  <2> QED
    BY <2>1, <2>2 DEF WalkTypeOK
<1>7. ASSUME full
      PROVE  \E m \in shown :
               /\ walk'.cursor = Key(m) /\ m \in Rows
               /\ Precedes(walk.cursor, Key(m))
               /\ \A q \in shown : q # m => Precedes(Key(q), Key(m))
               /\ \A q \in T \ shown : Precedes(Key(m), Key(q))
  BY <1>1, <1>4, <1>7 DEF Ahead
<1>8. WalkTyped'
  <2>1. walk'.cursor \in (0..MaxPlace) \X (Rows \cup {0})
    <3>1. CASE full
      <4>1. PICK m \in Rows : walk'.cursor = Key(m)
        BY <1>7, <3>1
      <4>2. place[m] \in 0..MaxPlace
        BY PagesAssumption DEF PagesAssumption, Rows, WalkTypeOK
      <4> QED
        BY <4>1, <4>2 DEF Key
    <3>2. CASE ~full
      BY <1>4, <3>2 DEF WalkTypeOK
    <3> QED
      BY <3>1, <3>2
  <2>2. walk'.seen \in SUBSET Rows /\ walk'.twice \in SUBSET Rows
    BY <1>1, <1>4, <1>6
  <2> QED
    BY <1>2, <1>4, <2>1, <2>2 DEF WalkTyped
<1>9. walk'.pc \in {"next", "done"}
  BY <1>4
<1>10. NotYetLost'
  <2> SUFFICES ASSUME full, NEW r \in steady \cap valid, r \notin walk'.seen
               PROVE  Precedes(walk'.cursor, Key(r))
    BY <1>4, <1>5 DEF NotYetLost, Walking, Ahead
  <2>1. r \in Rows /\ Ahead(r) /\ r \notin shown
    BY <1>4 DEF NotYetLost, WalkTypeOK
  <2>2. PICK m \in shown : walk'.cursor = Key(m) /\ \A q \in T \ shown : Precedes(Key(m), Key(q))
    BY <1>7
  <2> QED
    BY <1>1, <1>3, <2>1, <2>2
<1>11. NotAgain'
  <2> SUFFICES ASSUME full, NEW r \in walk'.seen, r \notin moved
               PROVE  ~Precedes(walk'.cursor, Key(r))
    BY <1>4, <1>5 DEF NotAgain, Walking, Ahead
  <2>1. PICK m \in shown :
          /\ walk'.cursor = Key(m) /\ m \in Rows /\ Precedes(walk.cursor, Key(m))
          /\ \A q \in shown : q # m => Precedes(Key(q), Key(m))
    BY <1>7
  <2>2. r \in Rows /\ Key(r) \in Nat \X Nat /\ Key(m) \in Nat \X Nat
    BY <1>1, <1>4, <1>6, <2>1, KeyTypes
  <2>3. CASE r \in shown
    BY <2>1, <2>2, <2>3, PrecedesOrder
  <2>4. CASE r \notin shown
    <3>1. ~Precedes(walk.cursor, Key(r))
      BY <1>4, <2>4 DEF NotAgain, Ahead
    <3> QED
      BY <1>6, <2>1, <2>2, <3>1, PrecedesOrder
  <2> QED
    BY <2>3, <2>4
<1>12. NothingLost'
  <2> SUFFICES ASSUME ~full, NEW r \in steady \cap valid PROVE r \in walk'.seen
    BY <1>4, <1>5 DEF NothingLost
  <2>1. r \in walk.seen \/ Ahead(r)
    BY DEF NotYetLost
  <2> QED
    BY <1>1, <1>3, <1>4, <2>1
<1>13. ShownOnce'
  <2>1. \A r \in walk.seen \cap shown : r \in moved
    BY <1>1 DEF NotAgain
  <2> QED
    BY <1>4, <1>5, <2>1 DEF ShownOnce
<1> QED
  BY <1>8, <1>9, <1>10, <1>11, <1>12, <1>13

-----------------------------------------------------------------------------
(* The actions keep the invariant.                                         *)

LEMMA BoundaryTypes ==
  ASSUME WalkTypeOK
  PROVE  walk.cursor \in Nat \X Nat /\ batch.after \in Nat \X Nat
<1>1. /\ walk.cursor \in (0..MaxPlace) \X (Rows \cup {0})
      /\ batch.after \in (0..MaxPlace) \X (Rows \cup {0})
  BY DEF WalkTypeOK
<1>2. Rows \cup {0} \subseteq Nat /\ 0..MaxPlace \subseteq Nat
  BY PagesAssumption DEF PagesAssumption, Rows
<1> QED
  BY <1>1, <1>2

\* The rest of the invariant after a page that is shown.
LEMMA ShownKeeps ==
  ASSUME WalkInv, Quiet, WalkTyped', walk'.pc \in {"next", "done"},
         NotYetLost', NotAgain', NothingLost', ShownOnce',
         batch' \in [rows : SUBSET Rows, after : (0..MaxPlace) \X (Rows \cup {0}), items : SUBSET Rows]
  PROVE  WalkInv'
<1>1. WalkTypeOK' /\ (steady \subseteq match)' /\ NothingStands'
  BY DEF WalkInv, WalkTypeOK, WalkTyped, Quiet, NothingStands
<1>2. BatchInv'
  BY DEF BatchInv
<1> QED
  BY <1>1, <1>2 DEF WalkInv

LEMMA QueryKeeps ==
  ASSUME WalkInv, Walking, Query, Quiet, UNCHANGED batch
  PROVE  WalkInv'
<1>1. Behind(match, walk.cursor) \in SUBSET Rows /\ \A r \in Behind(match, walk.cursor) : Ahead(r)
  BY DEF Behind, Ahead, WalkInv, WalkTypeOK
<1>2. \A r \in steady \cap valid : Ahead(r) => r \in Behind(match, walk.cursor)
  BY DEF Behind, Ahead, WalkInv
<1>3. /\ WalkTyped' /\ walk'.pc \in {"next", "done"}
      /\ NotYetLost' /\ NotAgain' /\ NothingLost' /\ ShownOnce'
  BY <1>1, <1>2, PageStep DEF Query, WalkInv
<1>4. batch' \in [rows : SUBSET Rows, after : (0..MaxPlace) \X (Rows \cup {0}), items : SUBSET Rows]
  BY DEF WalkInv, WalkTypeOK
<1> QED
  BY <1>3, <1>4, ShownKeeps

\* A question whether the next page may be read shows nothing.
LEMMA AskingKeeps ==
  ASSUME WalkInv, Walking, Quiet,
         walk' = [walk EXCEPT !.pc = access],
         batch' \in [rows : SUBSET Rows, after : (0..MaxPlace) \X (Rows \cup {0}), items : SUBSET Rows],
         BatchInv'
  PROVE  WalkInv'
<1>1. /\ walk'.pc = access /\ walk'.pc # "next" /\ walk'.cursor = walk.cursor
      /\ walk'.seen = walk.seen /\ walk'.twice = walk.twice
  BY DEF WalkInv, WalkTypeOK
<1>2. /\ listing' = listing /\ match' = match /\ valid' = valid /\ place' = place
      /\ access' = access /\ steady' = steady /\ moved' = moved /\ \A r : Key(r)' = Key(r)
  BY KeysStay DEF Quiet
<1>3. WalkTypeOK'
  BY DEF WalkInv, WalkTypeOK, Quiet
<1>4. NotYetLost' /\ NotAgain'
  BY <1>1, <1>2 DEF WalkInv, NotYetLost, NotAgain, Ahead, Walking
<1>5. NothingLost' /\ ShownOnce' /\ (steady \subseteq match)' /\ NothingStands'
  BY <1>1, <1>2 DEF WalkInv, NothingLost, ShownOnce, NothingStands
<1> QED
  BY <1>3, <1>4, <1>5 DEF WalkInv

LEMMA GetCouponKeeps ==
  ASSUME WalkInv, GetCoupon
  PROVE  WalkInv'
<1>1. Walking /\ Quiet /\ batch' = batch /\ listing' # "materials"
  BY DEF GetCoupon, Asked, Walking, Quiet
<1>2. BatchInv'
  BY <1>1 DEF BatchInv
<1> QED
  BY <1>1, <1>2, AskingKeeps DEF GetCoupon, WalkInv, WalkTypeOK

LEMMA CheckCapabilityKeeps ==
  ASSUME WalkInv, CheckCapability
  PROVE  WalkInv'
<1>1. Walking /\ Quiet
  BY DEF CheckCapability, Asked, Walking
<1>2. walk.cursor \in (0..MaxPlace) \X (Rows \cup {0}) /\ match \subseteq Rows
  BY DEF WalkInv, WalkTypeOK
<1>3. batch' \in [rows : SUBSET Rows, after : (0..MaxPlace) \X (Rows \cup {0}), items : SUBSET Rows]
  BY <1>2 DEF CheckCapability, WalkInv, WalkTypeOK
<1>4. BatchInv'
  <2> SUFFICES ASSUME walk'.pc = "granted"
               PROVE  /\ steady' \subseteq batch'.rows /\ batch'.after = walk'.cursor
                      /\ batch'.items = {r \in batch'.rows \cap valid' :
                                           Ahead(r)' /\ ~Precedes(batch'.after, Key(r)')}
    BY DEF BatchInv
  <2>1. access = "granted" /\ walk'.cursor = walk.cursor
    BY DEF CheckCapability, WalkInv, WalkTypeOK
  <2>2. batch'.rows = match /\ batch'.after = walk.cursor /\ batch'.items = {}
    BY <2>1 DEF CheckCapability
  <2>3. steady' = steady /\ steady \subseteq match
    BY <1>1 DEF Quiet, WalkInv
  <2> QED
    BY <2>1, <2>2, <2>3 DEF Ahead
<1> QED
  BY <1>1, <1>3, <1>4, AskingKeeps DEF CheckCapability

\* Another batch is read: the cards held are all up to its last row.
LEMMA NextBatchKeeps ==
  ASSUME WalkInv, Asked("materials", "granted"), Quiet, UNCHANGED walk,
         NEW found, found = First(Behind(batch.rows, batch.after), Limit + 1),
         NEW items, items = First(batch.items \cup CardFor(found), Limit + 1),
         Cardinality(items) <= Limit, Cardinality(found) = Limit + 1,
         batch' = [batch EXCEPT !.after = NextBatch(found), !.items = items]
  PROVE  WalkInv'
<1>1. WalkTypeOK /\ Limit \in Nat
  BY PagesAssumption DEF PagesAssumption, Rows, WalkInv
<1>2. /\ batch.rows \subseteq Rows /\ batch.items \subseteq Rows
      /\ batch \in [rows : SUBSET Rows, after : (0..MaxPlace) \X (Rows \cup {0}), items : SUBSET Rows]
  BY <1>1 DEF WalkTypeOK
<1>3. Behind(batch.rows, batch.after) \in SUBSET Rows
  BY <1>2 DEF Behind
<1>4. /\ found \subseteq Behind(batch.rows, batch.after) /\ found \in SUBSET Rows
      /\ \A r \in found, q \in Behind(batch.rows, batch.after) :
           Precedes(Key(q), Key(r)) => q \in found
  BY <1>1, <1>3, FirstDown
<1>5. found # {}
  BY <1>1, FS_EmptySet
<1>6. PICK m \in found : LastOf(found) = Key(m) /\ \A q \in found : q # m => Precedes(Key(q), Key(m))
  BY <1>1, <1>4, <1>5, LastOfRow
<1>7. items = batch.items \cup CardFor(found)
  <2> DEFINE T == batch.items \cup CardFor(found)
  <2>1. T \in SUBSET Rows
    BY <1>2, <1>4 DEF CardFor
  <2>2. First(T, Limit + 1) \in SUBSET Rows
    BY <1>1, <2>1, FirstDown
  <2>3. items = First(T, Limit + 1)
    OBVIOUS
  <2> HIDE DEF T
  <2>4. Cardinality(items) \in Nat
    BY <2>2, <2>3, RowsFinite
  <2>5. Cardinality(First(T, Limit + 1)) < Limit + 1
    BY <1>1, <2>3, <2>4
  <2>6. First(T, Limit + 1) = T
    BY <1>1, <2>1, <2>5, FirstIsAll
  <2> QED
    BY <2>3, <2>6 DEF T
<1>8. /\ batch'.rows = batch.rows /\ batch'.after = Key(m) /\ batch'.items = items
  BY <1>2, <1>6 DEF NextBatch
<1>9. /\ m \in Rows /\ m \in batch.rows /\ Precedes(batch.after, Key(m)) /\ Key(m) \in Nat \X Nat
  BY <1>1, <1>4, KeyTypes DEF Behind
<1>10. /\ steady \subseteq batch.rows
       /\ batch.after = walk.cursor \/ Precedes(walk.cursor, batch.after)
       /\ batch.items = {r \in batch.rows \cap valid : Ahead(r) /\ ~Precedes(batch.after, Key(r))}
  BY DEF WalkInv, BatchInv, Asked
<1>11. walk.cursor \in Nat \X Nat /\ batch.after \in Nat \X Nat
  BY <1>1, BoundaryTypes
<1>12. Precedes(walk.cursor, Key(m))
  BY <1>9, <1>10, <1>11, PrecedesOrder
<1>13. items = {r \in batch.rows \cap valid : Ahead(r) /\ ~Precedes(Key(m), Key(r))}
  <2>1. ASSUME NEW r \in items
        PROVE  r \in batch.rows \cap valid /\ Ahead(r) /\ ~Precedes(Key(m), Key(r))
    <3>1. r \in Rows /\ Key(r) \in Nat \X Nat
      BY <1>1, <1>2, <1>4, <1>7, KeyTypes DEF CardFor
    <3>2. CASE r \in batch.items
      <4>1. r \in batch.rows \cap valid /\ Ahead(r) /\ ~Precedes(batch.after, Key(r))
        BY <1>10, <3>2
      <4>2. ~Precedes(Key(m), Key(r))
        BY <1>9, <1>11, <3>1, <4>1, PrecedesOrder
      <4> QED
        BY <4>1, <4>2
    <3>3. CASE r \in found \cap valid
      <4>1. r \in batch.rows \cap valid /\ Precedes(batch.after, Key(r))
        BY <1>4, <3>3 DEF Behind
      <4>2. Ahead(r)
        BY <1>10, <1>11, <3>1, <4>1, PrecedesOrder DEF Ahead
      <4>3. ~Precedes(Key(m), Key(r))
        BY <1>6, <1>9, <3>1, <3>3, PrecedesOrder
      <4> QED
        BY <4>1, <4>2, <4>3
    <3> QED
      BY <1>7, <3>2, <3>3 DEF CardFor
  <2>2. ASSUME NEW r \in batch.rows \cap valid, Ahead(r), ~Precedes(Key(m), Key(r))
        PROVE  r \in items
    <3>1. r \in Rows
      BY <1>2
    <3>2. CASE Precedes(batch.after, Key(r))
      <4>1. r \in Behind(batch.rows, batch.after)
        BY <3>2 DEF Behind
      <4>2. r = m \/ Precedes(Key(r), Key(m))
        BY <1>1, <1>9, <2>2, <3>1, RowOrder
      <4> QED
        BY <1>4, <1>7, <4>1, <4>2 DEF CardFor
    <3>3. CASE ~Precedes(batch.after, Key(r))
      BY <1>7, <1>10, <2>2, <3>3
    <3> QED
      BY <3>2, <3>3
  <2> QED
    BY <2>1, <2>2
<1>14. /\ listing' = listing /\ match' = match /\ valid' = valid /\ place' = place /\ access' = access
       /\ steady' = steady /\ moved' = moved /\ walk' = walk /\ \A r : Key(r)' = Key(r)
  BY KeysStay DEF Quiet
<1>15. BatchInv'
  <2>1. /\ steady' \subseteq batch'.rows
        /\ Precedes(walk'.cursor, batch'.after)
    BY <1>8, <1>10, <1>12, <1>14
  <2>2. batch'.items = {r \in batch'.rows \cap valid' : Ahead(r)' /\ ~Precedes(batch'.after, Key(r)')}
    BY <1>8, <1>13, <1>14 DEF Ahead
  <2> QED
    BY <2>1, <2>2 DEF BatchInv
<1>16. WalkTypeOK'
  <2>1. Key(m) \in (0..MaxPlace) \X (Rows \cup {0})
    <3>1. place[m] \in 0..MaxPlace
      BY <1>1, <1>9, PagesAssumption DEF PagesAssumption, Rows, WalkTypeOK
    <3> QED
      BY <1>9, <3>1 DEF Key
  <2>2. items \in SUBSET Rows
    BY <1>2, <1>4, <1>7 DEF CardFor
  <2>3. batch' \in [rows : SUBSET Rows, after : (0..MaxPlace) \X (Rows \cup {0}), items : SUBSET Rows]
    <3>1. NextBatch(found) = Key(m)
      BY <1>6 DEF NextBatch
    <3> QED
      BY <1>2, <2>1, <2>2, <3>1
  <2> QED
    BY <1>1, <1>14, <2>3 DEF WalkTypeOK
<1>17. NotYetLost' /\ NotAgain'
  BY <1>14 DEF WalkInv, NotYetLost, NotAgain, Ahead, Walking
<1>18. NothingLost' /\ ShownOnce' /\ (steady \subseteq match)' /\ NothingStands'
  BY <1>14 DEF WalkInv, NothingLost, ShownOnce, NothingStands
<1> QED
  BY <1>15, <1>16, <1>17, <1>18 DEF WalkInv

\* The last batch: the cards held and found are all up to the last row of a full batch.
LEMMA MaterialPageKeeps ==
  ASSUME WalkInv, Asked("materials", "granted"), Quiet,
         NEW found, found = First(Behind(batch.rows, batch.after), Limit + 1),
         NEW items, items = First(batch.items \cup CardFor(found), Limit + 1),
         ~(Cardinality(items) <= Limit /\ Cardinality(found) = Limit + 1),
         ShowFound(items), batch' = NoBatch
  PROVE  WalkInv'
<1> DEFINE T == batch.items \cup CardFor(found)
<1>1. WalkTypeOK /\ Limit \in Nat /\ Limit + 1 \in Nat
  BY PagesAssumption DEF PagesAssumption, Rows, WalkInv
<1>2. batch.rows \subseteq Rows /\ batch.items \subseteq Rows
  BY <1>1 DEF WalkTypeOK
<1>3. Behind(batch.rows, batch.after) \in SUBSET Rows
  BY <1>2 DEF Behind
<1>4. /\ found \subseteq Behind(batch.rows, batch.after) /\ found \in SUBSET Rows
      /\ \A r \in found, q \in Behind(batch.rows, batch.after) :
           Precedes(Key(q), Key(r)) => q \in found
  BY <1>1, <1>3, FirstDown
<1>5. T \in SUBSET Rows
  BY <1>2, <1>4 DEF CardFor
<1>6. /\ steady \subseteq batch.rows
      /\ batch.after = walk.cursor \/ Precedes(walk.cursor, batch.after)
      /\ batch.items = {r \in batch.rows \cap valid : Ahead(r) /\ ~Precedes(batch.after, Key(r))}
  BY DEF WalkInv, BatchInv, Asked
<1>7. walk.cursor \in Nat \X Nat /\ batch.after \in Nat \X Nat
  BY <1>1, BoundaryTypes
<1>8. ASSUME NEW r \in T PROVE Ahead(r)
  <2>1. r \in Rows /\ Key(r) \in Nat \X Nat
    BY <1>1, <1>5, KeyTypes
  <2>2. ASSUME r \in found PROVE Ahead(r)
    <3>1. Precedes(batch.after, Key(r))
      BY <1>4, <2>2 DEF Behind
    <3> QED
      BY <1>6, <1>7, <2>1, <3>1, PrecedesOrder DEF Ahead
  <2> QED
    BY <1>6, <2>2 DEF CardFor
<1>9. items = First(T, Limit + 1)
  OBVIOUS
<1>10. ASSUME NEW r \in steady \cap valid, Ahead(r), r \notin T
       PROVE  /\ Cardinality(items) > Limit
              /\ \A q \in T : Precedes(Key(q), Key(r))
  <2>1. r \in batch.rows /\ r \in valid /\ r \in Rows
    BY <1>2, <1>6
  <2>2. Precedes(batch.after, Key(r))
    BY <1>6, <1>10, <2>1
  <2>3. r \in Behind(batch.rows, batch.after) /\ r \notin found
    BY <1>10, <2>1, <2>2 DEF Behind, CardFor
  <2>4. Cardinality(found) = Limit + 1
    <3>1. Cardinality(found) <= Limit + 1 /\ Cardinality(found) \in Nat
      BY <1>1, <1>3, <1>4, FirstBounded, RowsFinite
    <3>2. ~(Cardinality(found) < Limit + 1)
      BY <1>1, <1>3, <2>3, FirstIsAll
    <3> QED
      BY <1>1, <3>1, <3>2
  <2>5. Cardinality(items) \in Nat
    <3> HIDE DEF T
    <3> QED
      BY <1>1, <1>5, <1>9, FirstDown, RowsFinite
  <2>6. Cardinality(items) > Limit
    BY <1>1, <2>4, <2>5
  <2>7. ASSUME NEW q \in T PROVE Precedes(Key(q), Key(r))
    <3>1. q \in Rows /\ Key(q) \in Nat \X Nat /\ Key(r) \in Nat \X Nat
      BY <1>1, <1>5, <2>1, KeyTypes
    <3>2. CASE q \in batch.items
      <4>1. ~Precedes(batch.after, Key(q))
        BY <1>6, <3>2
      <4> QED
        BY <1>7, <2>2, <3>1, <4>1, PrecedesOrder
    <3>3. CASE q \in found
      <4>1. ~Precedes(Key(r), Key(q)) /\ q # r
        BY <1>4, <2>3, <3>3
      <4> QED
        BY <1>1, <2>1, <3>1, <4>1, RowOrder
    <3> QED
      BY <3>2, <3>3 DEF CardFor
  <2> QED
    BY <2>6, <2>7
<1>11. /\ Walking /\ NotYetLost /\ NotAgain /\ ShownOnce
  BY DEF WalkInv, Asked, Walking
<1>12. /\ WalkTyped' /\ walk'.pc \in {"next", "done"}
       /\ NotYetLost' /\ NotAgain' /\ NothingLost' /\ ShownOnce'
  <2> HIDE DEF T
  <2>1. \A r \in steady \cap valid :
          Ahead(r) => r \in T \/ (/\ Cardinality(First(T, Limit + 1)) > Limit
                                  /\ \A q \in T : Precedes(Key(q), Key(r)))
    BY <1>9, <1>10
  <2>2. ShowFound(First(T, Limit + 1))
    BY <1>9
  <2> QED
    BY <1>1, <1>5, <1>8, <1>11, <2>1, <2>2, PageStep
<1>13. batch' \in [rows : SUBSET Rows, after : (0..MaxPlace) \X (Rows \cup {0}), items : SUBSET Rows]
  BY PagesAssumption DEF PagesAssumption, Rows, NoBatch, Start
<1> QED
  BY <1>12, <1>13, ShownKeeps

LEMMA ListMaterialsKeeps ==
  ASSUME WalkInv, ListMaterials
  PROVE  WalkInv'
<1>1. PICK found : found = First(Behind(batch.rows, batch.after), Limit + 1)
  OBVIOUS
<1>2. PICK items : items = First(batch.items \cup CardFor(found), Limit + 1)
  OBVIOUS
<1>3. /\ Asked("materials", "granted") /\ Quiet
      /\ IF Cardinality(items) <= Limit /\ Cardinality(found) = Limit + 1
           THEN /\ batch' = [batch EXCEPT !.after = NextBatch(found), !.items = items]
                /\ UNCHANGED walk
           ELSE ShowFound(items) /\ batch' = NoBatch
  BY <1>1, <1>2 DEF ListMaterials, MoreBatches
<1>4. CASE Cardinality(items) <= Limit /\ Cardinality(found) = Limit + 1
  BY <1>1, <1>2, <1>3, <1>4, NextBatchKeeps
<1>5. CASE ~(Cardinality(items) <= Limit /\ Cardinality(found) = Limit + 1)
  BY <1>1, <1>2, <1>3, <1>5, MaterialPageKeeps
<1> QED
  BY <1>4, <1>5

\* Rows that come and go are not the ones that were there all the time.
LEMMA RowsKeep ==
  ASSUME WalkInv, NEW r \in Rows, Appear(r) \/ Vanish(r)
  PROVE  WalkInv'
<1>1. /\ Walking /\ listing' = listing /\ valid' = valid /\ place' = place /\ access' = access
      /\ walk' = walk /\ batch' = batch /\ moved' = moved /\ \A q : Key(q)' = Key(q)
      /\ match' \in {match \cup {r}, match \ {r}}
      /\ steady' \subseteq steady /\ steady' \subseteq match'
  BY KeysStay DEF Appear, Vanish, WalkInv
<1>2. WalkTypeOK'
  BY <1>1 DEF WalkInv, WalkTypeOK
<1>3. NotYetLost' /\ NotAgain'
  BY <1>1 DEF WalkInv, NotYetLost, NotAgain, Ahead, Walking
<1>4. NothingLost' /\ ShownOnce' /\ NothingStands'
  BY <1>1 DEF WalkInv, NothingLost, ShownOnce, NothingStands
<1>5. BatchInv'
  BY <1>1 DEF WalkInv, BatchInv, Ahead
<1> QED
  BY <1>1, <1>2, <1>3, <1>4, <1>5 DEF WalkInv

\* An order that is moved onward stays ahead.
LEMMA BackdateKeeps ==
  ASSUME WalkInv, NEW r \in Rows, Backdate(r)
  PROVE  WalkInv'
<1>1. PICK p \in 1..MaxPlace : p > place[r] /\ place' = [place EXCEPT ![r] = p]
  BY DEF Backdate
<1>2. /\ Walking /\ listing = "orders" /\ listing' = listing /\ match' = match /\ valid' = valid
      /\ access' = access /\ walk' = walk /\ batch' = batch /\ steady' = steady
      /\ moved' = moved \cup {r}
  BY DEF Backdate
<1>3. WalkTypeOK'
  BY <1>1, <1>2 DEF WalkInv, WalkTypeOK
<1>4. ASSUME NEW q \in Rows PROVE Ahead(q) => Ahead(q)'
  <2>1. place[q] \in Nat /\ place'[q] \in Nat /\ place[q] <= place'[q] /\ q \in Nat
    BY <1>1, <1>3, PagesAssumption DEF PagesAssumption, Rows, WalkInv, WalkTypeOK
  <2>2. walk.cursor \in Nat \X Nat
    BY BoundaryTypes DEF WalkInv
  <2> QED
    BY <1>2, <2>1, <2>2 DEF Ahead, Precedes, Key
<1>5. ASSUME NEW q \in Rows, q # r PROVE Ahead(q)' <=> Ahead(q)
  BY <1>1, <1>2, <1>5 DEF Ahead, Key, WalkInv, WalkTypeOK
<1>6. steady \subseteq Rows /\ walk.seen \subseteq Rows
  BY DEF WalkInv, WalkTypeOK
<1>7. NotYetLost'
  BY <1>2, <1>4, <1>6 DEF WalkInv, NotYetLost, Walking
<1>8. NotAgain'
  BY <1>2, <1>5, <1>6 DEF WalkInv, NotAgain, Walking
<1>9. NothingLost' /\ ShownOnce' /\ BatchInv' /\ (steady \subseteq match)' /\ NothingStands'
  BY <1>2 DEF WalkInv, NothingLost, ShownOnce, BatchInv, Walking, NothingStands
<1> QED
  BY <1>3, <1>7, <1>8, <1>9 DEF WalkInv

\* What asking leads to may change: only a listing that shows nothing breaks with its rows.
LEMMA SwitchKeeps ==
  ASSUME WalkInv,
         UNCHANGED <<listing, match, valid, place, walk, batch, moved>>,
         access' \in {"granted", "refused", "done"},
         \/ access' # "done" /\ steady' = steady
         \/ steady' = {}
         \/ UNCHANGED <<access, steady>>
  PROVE  WalkInv'
<1>1. /\ listing' = listing /\ match' = match /\ valid' = valid /\ place' = place
      /\ walk' = walk /\ batch' = batch /\ moved' = moved /\ \A r : Key(r)' = Key(r)
  BY KeysStay
<1>2. steady' \subseteq steady /\ NothingStands'
  BY DEF WalkInv, NothingStands
<1>3. WalkTypeOK'
  BY <1>1, <1>2 DEF WalkInv, WalkTypeOK
<1>4. NotYetLost' /\ NotAgain' /\ BatchInv'
  BY <1>1, <1>2 DEF WalkInv, NotYetLost, NotAgain, BatchInv, Ahead, Walking
<1>5. NothingLost' /\ ShownOnce' /\ (steady \subseteq match)'
  BY <1>1, <1>2 DEF WalkInv, NothingLost, ShownOnce
<1> QED
  BY <1>2, <1>3, <1>4, <1>5 DEF WalkInv

LEMMA WalkBegins == WalkInit => WalkInv
<1> SUFFICES ASSUME WalkInit PROVE WalkInv
  OBVIOUS
<1>1. WalkTypeOK
  <2>1. place \in [Rows -> 1..MaxPlace]
    BY DEF WalkInit
  <2>2. match \subseteq Rows /\ valid \subseteq Rows
    BY PagesAssumption DEF PagesAssumption, Rows, WalkInit
  <2> QED
    BY <2>1, <2>2, PagesAssumption DEF PagesAssumption, Rows, WalkInit, WalkTypeOK, NoBatch, Start
<1>2. \A r \in Rows : Ahead(r)
  BY <1>1, KeyTypes DEF WalkInit, Ahead
<1>3. NotYetLost /\ NotAgain
  BY <1>1, <1>2 DEF WalkInit, NotYetLost, NotAgain, WalkTypeOK
<1>4. BatchInv /\ NothingLost /\ ShownOnce /\ steady \subseteq match /\ NothingStands
  BY DEF WalkInit, NothingStands, BatchInv, NothingLost, ShownOnce
<1> QED
  BY <1>1, <1>3, <1>4 DEF WalkInv

\* Every reachable state of a walk keeps the invariant: what is still to be shown lies ahead
\* of the cursor, and what has been shown does not.
THEOREM WalkInductive == WalkSpec => []WalkInv
<1>1. WalkInv /\ [WalkNext]_walkVars => WalkInv'
  <2> SUFFICES ASSUME WalkInv, [WalkNext]_walkVars PROVE WalkInv'
    OBVIOUS
  <2>1. CASE Page
    <3>1. CASE ListOwned
      BY <3>1, QueryKeeps DEF ListOwned, Asked, Walking
    <3>2. CASE ListPositions
      BY <3>2, QueryKeeps DEF ListPositions, Asked, Walking
    <3>3. CASE ListApplications
      BY <3>3, QueryKeeps DEF ListApplications, Asked, Walking
    <3>4. CASE ListCoupons
      BY <3>4, QueryKeeps DEF ListCoupons, Asked, Walking
    <3>5. CASE GetCoupon
      BY <3>5, GetCouponKeeps
    <3>6. CASE ListProducts
      BY <3>6, QueryKeeps DEF ListProducts, Asked, Walking
    <3>7. CASE CheckCapability
      BY <3>7, CheckCapabilityKeeps
    <3>8. CASE ListMaterials
      BY <3>8, ListMaterialsKeeps
    <3> QED
      BY <2>1, <3>1, <3>2, <3>3, <3>4, <3>5, <3>6, <3>7, <3>8 DEF Page
  <2>2. CASE \E r \in Rows : Appear(r) \/ Vanish(r) \/ Backdate(r)
    BY <2>2, RowsKeep, BackdateKeeps
  <2>3. CASE Switch
    <3>1. /\ UNCHANGED <<listing, match, valid, place, walk, batch, moved>>
          /\ access' \in {"granted", "refused", "done"}
          /\ \/ access' # "done" /\ steady' = steady
             \/ steady' = {}
             \/ UNCHANGED <<access, steady>>
      BY <2>3 DEF Switch
    <3> QED
      BY <3>1, SwitchKeeps
  <2>4. CASE UNCHANGED walkVars
    <3>1. /\ UNCHANGED <<listing, match, valid, place, walk, batch, moved>>
          /\ UNCHANGED <<access, steady>>
          /\ access' \in {"granted", "refused", "done"}
      BY <2>4 DEF WalkInv, WalkTypeOK, walkVars
    <3> QED
      BY <3>1, SwitchKeeps
  <2> QED
    BY <2>1, <2>2, <2>3, <2>4 DEF WalkNext
<1> QED
  BY <1>1, WalkBegins, PTL DEF WalkSpec

\* Whoever pages to the end of a listing has been shown every row that was there all the
\* time, whatever the size of the pages and whatever came, went and moved meanwhile
\* (read.go:108-110, repository.go:86-110).
THEOREM NothingIsLost == WalkSpec => []NothingLost
<1>1. WalkInv => NothingLost
  BY DEF WalkInv
<1> QED
  BY <1>1, WalkInductive, PTL

\* No row is shown twice but an order whose time was moved (projection.go:124-127).
THEOREM NothingTwice == WalkSpec => []ShownOnce
<1>1. WalkInv => ShownOnce
  BY DEF WalkInv
<1> QED
  BY <1>1, WalkInductive, PTL

=============================================================================
