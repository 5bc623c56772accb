----------------------------- MODULE CouponSync -----------------------------
(***************************************************************************)
(* One coupon of the catalogue (internal/coupon): Synchronizer.Sync brings *)
(* the channel's verified snapshots into coupon_catalog, coupon_products   *)
(* and coupon_sync_events, and readers look at the coupon and, in a second *)
(* query, at its products.                                                 *)
(*                                                                         *)
(* A snapshot is verified before the transaction that applies it, so two   *)
(* of them may be applied in either order.  The transaction holds an       *)
(* advisory lock from its first statement on.  A reference to evidence may *)
(* come back, with the same verification or a later one.  The platform is  *)
(* a prefix of the coupon's id and never differs.                          *)
(***************************************************************************)
EXTENDS Naturals, FiniteSets

CONSTANTS
  Sessions,  \* calls of Sync
  Readers,   \* calls of Get and Products
  Evidence,  \* audit references of the channel
  Products,  \* external product ids
  Offers,    \* what the channel may publish the coupon as
  MaxTime,   \* bound on the clock
  None

VARIABLES
  clock,
  row,       \* the coupon's row in coupon_catalog
  products,  \* its rows in coupon_products
  events,    \* coupon_sync_events
  lock,      \* holder of pg_advisory_xact_lock
  session,
  reader

vars == <<clock, row, products, events, lock, session, reader>>

-----------------------------------------------------------------------------
Times == 0..MaxTime

Expiry == 1..(MaxTime + 1)

Offer == [scope : {"PRODUCT", "SHOP", "ACTIVITY"}, expires : Expiry,
          products : [Products -> Expiry \cup {None}]]

\* A snapshot without an offer says that the coupon is not active.
Snapshot == [at : Times, evidence : Evidence, offer : Offers \cup {None}]

Active(s) == s.offer # None

Relations(s) == {p \in Products : s.offer.products[p] # None}

Valid(s) ==
  Active(s) =>
    /\ s.offer.expires > s.at
    /\ \A p \in Relations(s) : s.offer.products[p] > s.at
    /\ s.offer.scope = "PRODUCT" => Relations(s) # {}

Row == [at : Times, evidence : Evidence, enabled : BOOLEAN, offer : Offers]

Product == [id : Products, expires : Expiry, at : Times, enabled : BOOLEAN]

Event == [evidence : Evidence, at : Times, action : {"PUBLISH", "REVOKE"}]

ASSUME CouponSyncAssumption ==
  /\ MaxTime \in Nat
  /\ Offers \subseteq Offer \ {None}
  /\ None \notin Sessions \cup Row \cup {"ok"}

Session == [pc : {"idle", "verified", "locked"}, snapshot : Snapshot \cup {None},
            old : Row \cup {None}, told : {"ok", "error", None}]

IdleSession == [pc |-> "idle", snapshot |-> None, old |-> None, told |-> None]

IdleReader == [pc |-> "idle", since |-> {}, item |-> None, shown |-> {}]

Init ==
  /\ clock = 0
  /\ row = None /\ products = {} /\ events = {}
  /\ lock = None
  /\ session = [s \in Sessions |-> IdleSession]
  /\ reader = [r \in Readers |-> IdleReader]

-----------------------------------------------------------------------------
(* Sync.                                                                   *)

\* The verifier looks at the channel now.
Verify(s) ==
  \E answer \in [at : {clock}, evidence : Evidence, offer : Offers \cup {None}] :
    /\ session[s].pc = "idle"
    /\ session' = [session EXCEPT ![s] =
         IF Valid(answer) THEN [IdleSession EXCEPT !.pc = "verified", !.snapshot = answer]
                          ELSE IdleSession]
    /\ UNCHANGED <<clock, row, products, events, lock, reader>>

\* The advisory lock is not taken.
LockFailing(s) ==
  /\ session[s].pc = "verified"
  /\ lock' = s
  /\ session' = [session EXCEPT ![s].pc = "locked", ![s].old = row]
  /\ UNCHANGED <<clock, row, products, events, reader>>

\* The lock, and the row as it is then.
Lock(s) ==
  /\ session[s].pc = "verified" /\ lock = None
  /\ lock' = s
  /\ session' = [session EXCEPT ![s].pc = "locked", ![s].old = row]
  /\ UNCHANGED <<clock, row, products, events, reader>>

Return(s, answer) ==
  /\ lock' = None
  /\ session' = [session EXCEPT ![s].pc = "idle", ![s].old = None, ![s].told = answer]

\* A revoked coupon takes any snapshot.
StaleIfEnabled(old, snapshot) == old # None /\ old.enabled /\ snapshot.at < old.at

Stale(old, snapshot) == old # None /\ snapshot.at < old.at

\* The evidence alone tells a repetition.
ReplayedEvidence(old, snapshot) ==
  old # None /\ old.evidence = snapshot.evidence /\ old.enabled = Active(snapshot)

Replayed(old, snapshot) ==
  /\ old # None /\ snapshot.at = old.at
  /\ old.evidence = snapshot.evidence /\ old.enabled = Active(snapshot)

Conflicting(old, snapshot) ==
  old # None /\ snapshot.at = old.at /\ ~Replayed(old, snapshot)

\* The primary key of coupon_sync_events refuses the event, and the transaction fails.
Recorded(snapshot) == \E e \in events : e.evidence = snapshot.evidence

Replay(s) ==
  /\ session[s].pc = "locked" /\ Replayed(session[s].old, session[s].snapshot)
  /\ Return(s, "ok")
  /\ UNCHANGED <<clock, row, products, events, reader>>

Refused(old, snapshot) ==
  \/ Stale(old, snapshot)
  \/ Conflicting(old, snapshot)
  \/ old = None /\ ~Active(snapshot)
  \/ ~Replayed(old, snapshot) /\ Recorded(snapshot)

Reject(s) ==
  /\ session[s].pc = "locked" /\ Refused(session[s].old, session[s].snapshot)
  /\ Return(s, "error")
  /\ UNCHANGED <<clock, row, products, events, reader>>

Applicable(s) ==
  /\ ~Replayed(session[s].old, session[s].snapshot)
  /\ ~Refused(session[s].old, session[s].snapshot)

EventOf(snapshot) ==
  [evidence |-> snapshot.evidence, at |-> snapshot.at,
   action |-> IF Active(snapshot) THEN "PUBLISH" ELSE "REVOKE"]

Publish(s) ==
  LET snapshot == session[s].snapshot IN
  /\ session[s].pc = "locked" /\ Applicable(s) /\ Active(snapshot)
  /\ row' = [at |-> snapshot.at, evidence |-> snapshot.evidence, enabled |-> TRUE,
             offer |-> snapshot.offer]
  /\ products' = {[id |-> p, expires |-> snapshot.offer.products[p], at |-> snapshot.at,
                   enabled |-> TRUE] : p \in Relations(snapshot)}
  /\ events' = events \cup {EventOf(snapshot)}
  /\ Return(s, "ok")
  /\ UNCHANGED <<clock, reader>>

Revoke(s) ==
  LET snapshot == session[s].snapshot IN
  /\ session[s].pc = "locked" /\ Applicable(s) /\ ~Active(snapshot)
  /\ row' = [row EXCEPT !.enabled = FALSE, !.at = snapshot.at, !.evidence = snapshot.evidence]
  /\ products' = {[p EXCEPT !.enabled = FALSE, !.at = snapshot.at] : p \in products}
  /\ events' = events \cup {EventOf(snapshot)}
  /\ Return(s, "ok")
  /\ UNCHANGED <<clock, reader>>

\* The call ends early, at the verifier or with its transaction rolled back.
Fail(s) ==
  /\ session[s].pc # "idle"
  /\ lock' = IF lock = s THEN None ELSE lock
  /\ session' = [session EXCEPT ![s] = IdleSession]
  /\ UNCHANGED <<clock, row, products, events, reader>>

Sync(s) ==
  \/ Verify(s) \/ Lock(s) \/ Replay(s) \/ Reject(s) \/ Publish(s) \/ Revoke(s) \/ Fail(s)

-----------------------------------------------------------------------------
(* Get, Products and what List and Cities ask of a coupon.                 *)

Current(p) == p.enabled /\ p.expires > clock

Visible ==
  /\ row # None /\ row.enabled /\ row.offer.expires > clock
  /\ row.offer.scope = "PRODUCT" => \E p \in products : Current(p)

\* A call begins: since is what the catalogue had recorded by then.
Call(r) ==
  /\ reader[r].pc = "idle"
  /\ reader' = [reader EXCEPT ![r] =
       [pc |-> "item", since |-> events, item |-> None, shown |-> {}]]
  /\ UNCHANGED <<clock, row, products, events, lock, session>>

Get(r) ==
  /\ reader[r].pc = "item"
  /\ reader' = [reader EXCEPT
       ![r].pc   = IF Visible /\ row.offer.scope # "ACTIVITY" THEN "products" ELSE "idle",
       ![r].item = IF Visible THEN row ELSE None]
  /\ UNCHANGED <<clock, row, products, events, lock, session>>

ReadProducts(r) ==
  /\ reader[r].pc = "products"
  /\ reader' = [reader EXCEPT ![r].pc = "idle", ![r].shown = {p \in products : Current(p)}]
  /\ UNCHANGED <<clock, row, products, events, lock, session>>

Tick ==
  /\ clock < MaxTime
  /\ clock' = clock + 1
  /\ UNCHANGED <<row, products, events, lock, session, reader>>

Next ==
  \/ \E s \in Sessions : Sync(s)
  \/ \E r \in Readers : Call(r) \/ Get(r) \/ ReadProducts(r)
  \/ Tick

Spec == Init /\ [][Next]_vars

-----------------------------------------------------------------------------
\* Types of the variables.
TypeOK ==
  /\ clock \in Times
  /\ row \in Row \cup {None}
  /\ products \subseteq Product
  /\ events \subseteq Event
  /\ lock \in Sessions \cup {None}
  /\ session \in [Sessions -> Session]
  /\ reader \in [Readers -> [pc : {"idle", "item", "products"}, since : SUBSET Event,
       item : Row \cup {None}, shown : SUBSET Product]]

\* The catalogue is what the newest applied verification says, in whatever order they
\* arrived: its event is the row's, and no product of another one is left beside it
\* (sync.go:70-80, docs/02-database-schema.md:30).
NewestVerificationStands ==
  /\ row = None => events = {} /\ products = {}
  /\ row # None =>
       /\ \E e \in events : e.evidence = row.evidence /\ e.at = row.at
                            /\ (e.action = "PUBLISH") = row.enabled
       /\ \A e \in events : e.at <= row.at
       /\ \A e, f \in events : e.at = f.at => e = f
       /\ \A p \in products : p.at = row.at /\ p.enabled = row.enabled

\* A Sync that succeeded, by writing or as a repetition, is in the audit trail with what
\* it was about, and stands until a newer one (sync.go:74-79).
AcceptedIsRecorded ==
  \A s \in Sessions : session[s].told = "ok" =>
    EventOf(session[s].snapshot) \in events /\ row.at >= session[s].snapshot.at

\* A revocation holds: who asks after it was applied is shown nothing verified before
\* it, and products of one publication only, the coupon's or a newer one.
RevocationHolds ==
  \A r \in Readers :
    LET Shown == reader[r].shown \cup ({reader[r].item} \ {None}) IN
    /\ \A x \in Shown, e \in reader[r].since :
         e.action = "REVOKE" => x.at > e.at
    /\ \A p, q \in reader[r].shown : p.at = q.at /\ p.at >= reader[r].item.at

=============================================================================
