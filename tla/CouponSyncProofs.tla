-------------------------- MODULE CouponSyncProofs --------------------------
(***************************************************************************)
(* The properties of CouponSync hold for any number of synchronisations,   *)
(* readers, products and audit references, and however late a verified     *)
(* snapshot arrives.  The argument: what the holder of the lock read as    *)
(* the old row is the row, so whatever it applies is newer than every      *)
(* event there is; hence the events lie in one order of time with the      *)
(* row's at its end, and an enabled row is newer than every revocation.    *)
(***************************************************************************)
EXTENDS CouponSync, TLAPS

\* The holder of the lock knows the row, and has a valid snapshot.
SessionInv ==
  \A s \in Sessions :
    /\ session[s].pc # "idle" => session[s].snapshot \in Snapshot
    /\ session[s].pc = "locked" => lock = s /\ session[s].old = row

\* A reader's past is part of the trail, and its coupon not newer than the row.
ReaderInv ==
  \A r \in Readers :
    /\ reader[r].since \subseteq events
    /\ reader[r].pc = "item" => reader[r].item = None /\ reader[r].shown = {}
    /\ reader[r].pc = "products" =>
         /\ reader[r].item # None /\ reader[r].shown = {}
         /\ row # None /\ row.at >= reader[r].item.at

IInv ==
  /\ TypeOK /\ SessionInv /\ ReaderInv
  /\ NewestVerificationStands /\ AcceptedIsRecorded /\ RevocationHolds

-----------------------------------------------------------------------------
LEMMA InitInv == Init => IInv
<1> SUFFICES ASSUME Init PROVE IInv
  OBVIOUS
<1> USE DEF Init, IdleSession, IdleReader
<1>1. TypeOK
  BY CouponSyncAssumption DEF CouponSyncAssumption, TypeOK, Times, Session
<1>2. SessionInv /\ ReaderInv
  BY DEF SessionInv, ReaderInv
<1>3. NewestVerificationStands
  BY DEF NewestVerificationStands
<1>4. AcceptedIsRecorded
  BY CouponSyncAssumption DEF CouponSyncAssumption, AcceptedIsRecorded
<1>5. RevocationHolds
  BY DEF RevocationHolds
<1> QED
  BY <1>1, <1>2, <1>3, <1>4, <1>5 DEF IInv

\* A row that is there is of the newest event, and anything live newer than revocations.
LEMMA LiveIsNewer ==
  ASSUME IInv, row # None, row.enabled, NEW e \in events, e.action = "REVOKE"
  PROVE  row.at > e.at
<1>1. PICK f \in events : f.evidence = row.evidence /\ f.at = row.at /\ (f.action = "PUBLISH") = row.enabled
  BY DEF IInv, NewestVerificationStands
<1>2. e.at <= row.at /\ (e.at = f.at => e = f)
  BY <1>1 DEF IInv, NewestVerificationStands
<1>3. e.at \in Nat /\ row.at \in Nat
  BY CouponSyncAssumption DEF CouponSyncAssumption, IInv, TypeOK, Event, Row, Times
<1>4. e # f
  BY <1>1
<1> QED
  BY <1>1, <1>2, <1>3, <1>4

\* Steps that leave the catalogue and its readers alone.
LEMMA CatalogUnchanged ==
  ASSUME IInv, UNCHANGED <<clock, row, products, events, reader>>
  PROVE  ReaderInv' /\ NewestVerificationStands' /\ RevocationHolds'
BY DEF IInv, ReaderInv, NewestVerificationStands, RevocationHolds

\* Steps of a session that write nothing: it is told nothing but what it knew before.
LEMMA QuietSession ==
  ASSUME IInv, NEW s \in Sessions, NEW t \in Session, session' = [session EXCEPT ![s] = t],
         t.pc # "idle" => t.snapshot \in Snapshot,
         t.pc = "locked" => lock' = s /\ t.old = row,
         lock' \in Sessions \cup {None},
         \A q \in Sessions : q # s /\ lock = q => lock' = q,
         t.told = "ok" => EventOf(t.snapshot) \in events /\ row.at >= t.snapshot.at,
         UNCHANGED <<clock, row, products, events, reader>>
  PROVE  IInv'
<1>1. session'[s] = t /\ \A q \in Sessions : q # s => session'[q] = session[q]
  BY DEF IInv, TypeOK
<1>2. TypeOK'
  BY DEF IInv, TypeOK
<1>3. SessionInv'
  BY <1>1 DEF IInv, SessionInv
<1>4. AcceptedIsRecorded'
  BY <1>1 DEF IInv, AcceptedIsRecorded, EventOf, Active
<1> QED
  BY <1>2, <1>3, <1>4, CatalogUnchanged DEF IInv

-----------------------------------------------------------------------------
(* Synchronisations that write nothing.                                    *)

LEMMA VerifyInv == ASSUME IInv, NEW s \in Sessions, Verify(s) PROVE IInv'
<1>1. PICK answer \in [at : {clock}, evidence : Evidence, offer : Offers \cup {None}] :
        session' = [session EXCEPT ![s] =
          IF Valid(answer) THEN [IdleSession EXCEPT !.pc = "verified", !.snapshot = answer]
                           ELSE IdleSession]
  BY DEF Verify
<1> DEFINE t == IF Valid(answer) THEN [IdleSession EXCEPT !.pc = "verified", !.snapshot = answer]
                                 ELSE IdleSession
<1>2. answer \in Snapshot
  BY DEF IInv, TypeOK, Snapshot
<1>3. /\ t \in Session /\ t.pc # "locked" /\ t.told = None
      /\ t.pc # "idle" => t.snapshot = answer
  BY <1>2 DEF IdleSession, Session
<1>4. lock \in Sessions \cup {None} /\ None # "ok"
  BY CouponSyncAssumption DEF CouponSyncAssumption, IInv, TypeOK
<1>5. /\ session' = [session EXCEPT ![s] = t]
      /\ UNCHANGED <<clock, row, products, events, lock, reader>>
  BY <1>1 DEF Verify
<1> HIDE DEF t
<1> QED
  BY <1>2, <1>3, <1>4, <1>5, QuietSession

LEMMA LockInv == ASSUME IInv, NEW s \in Sessions, Lock(s) PROVE IInv'
<1> DEFINE t == [session[s] EXCEPT !.pc = "locked", !.old = row]
<1>0. session[s] \in Session /\ row \in Row \cup {None} /\ session[s].snapshot \in Snapshot
  BY DEF IInv, TypeOK, SessionInv, Lock
<1>1. /\ t \in Session /\ t.old = row /\ t.snapshot = session[s].snapshot /\ t.told = session[s].told
      /\ t.snapshot \in Snapshot
  BY <1>0 DEF Session
<1>2. t.told = "ok" => EventOf(t.snapshot) \in events /\ row.at >= t.snapshot.at
  BY <1>1 DEF IInv, AcceptedIsRecorded
<1>3. /\ session' = [session EXCEPT ![s] = t] /\ lock' = s /\ \A q \in Sessions : lock # q
      /\ UNCHANGED <<clock, row, products, events, reader>>
  BY CouponSyncAssumption DEF CouponSyncAssumption, Lock
<1> HIDE DEF t
<1> QED
  BY <1>1, <1>2, <1>3, QuietSession

\* The state of a session that Return leaves.
LEMMA Returned ==
  ASSUME IInv, NEW s \in Sessions, NEW answer \in {"ok", "error"}, session[s].pc = "locked",
         Return(s, answer)
  PROVE  \E t \in Session :
           /\ session' = [session EXCEPT ![s] = t] /\ t.pc = "idle" /\ t.told = answer
           /\ t.snapshot = session[s].snapshot
           /\ lock' = None /\ lock = s
<1> DEFINE t == [session[s] EXCEPT !.pc = "idle", !.old = None, !.told = answer]
<1>1. t \in Session /\ t.pc = "idle" /\ t.told = answer /\ t.snapshot = session[s].snapshot
  BY DEF IInv, TypeOK, Session
<1>2. session' = [session EXCEPT ![s] = t] /\ lock' = None /\ lock = s
  BY DEF Return, IInv, SessionInv
<1> QED
  BY <1>1, <1>2

LEMMA ReplayInv == ASSUME IInv, NEW s \in Sessions, Replay(s) PROVE IInv'
<1>1. PICK t \in Session :
        /\ session' = [session EXCEPT ![s] = t] /\ t.pc = "idle"
        /\ t.snapshot = session[s].snapshot /\ lock' = None /\ lock = s
  BY Returned DEF Replay
<1>2. /\ row # None /\ t.snapshot.at = row.at /\ t.snapshot.evidence = row.evidence
      /\ row.enabled = Active(t.snapshot) /\ t.snapshot \in Snapshot
  BY <1>1 DEF Replay, Replayed, IInv, SessionInv
<1>3. PICK e \in events : e.evidence = row.evidence /\ e.at = row.at /\ (e.action = "PUBLISH") = row.enabled
  BY <1>2 DEF IInv, NewestVerificationStands
<1>4. e \in Event
  BY DEF IInv, TypeOK
<1>5. e = EventOf(t.snapshot)
  BY <1>2, <1>3, <1>4 DEF EventOf, Event, Active
<1>6. row.at >= t.snapshot.at
  BY <1>2, CouponSyncAssumption DEF CouponSyncAssumption, IInv, TypeOK, Row, Times
<1> QED
  BY <1>1, <1>5, <1>6, QuietSession DEF Replay

LEMMA RejectInv == ASSUME IInv, NEW s \in Sessions, Reject(s) PROVE IInv'
<1>1. PICK t \in Session :
        /\ session' = [session EXCEPT ![s] = t] /\ t.pc = "idle" /\ t.told = "error"
        /\ lock' = None /\ lock = s
  BY Returned DEF Reject
<1> QED
  BY <1>1, QuietSession DEF Reject

LEMMA FailInv == ASSUME IInv, NEW s \in Sessions, Fail(s) PROVE IInv'
<1>1. IdleSession \in Session /\ IdleSession.pc = "idle" /\ IdleSession.told # "ok"
  BY CouponSyncAssumption DEF CouponSyncAssumption, IdleSession, Session
<1>2. lock' \in Sessions \cup {None}
  BY DEF Fail, IInv, TypeOK
<1> QED
  BY <1>1, <1>2, QuietSession DEF Fail

-----------------------------------------------------------------------------
(* Synchronisations that write.                                            *)

\* What is applied is newer than the row and than every event.
LEMMA AppliedIsNewer ==
  ASSUME IInv, NEW s \in Sessions, session[s].pc = "locked", Applicable(s)
  PROVE  /\ session[s].snapshot \in Snapshot /\ session[s].snapshot.at \in Nat
         /\ row # None => row.at \in Nat /\ row.at < session[s].snapshot.at
         /\ \A e \in events : e.at \in Nat /\ e.at < session[s].snapshot.at
<1> DEFINE n == session[s].snapshot
<1>1. session[s].old = row /\ n \in Snapshot
  BY DEF IInv, SessionInv
<1>2. n.at \in Nat /\ (row # None => row \in Row /\ row.at \in Nat)
  BY <1>1, CouponSyncAssumption DEF CouponSyncAssumption, IInv, TypeOK, Row, Snapshot, Times
<1>3. row # None => row.at < n.at
  BY <1>1, <1>2 DEF Applicable, Refused, Stale, Conflicting
<1>4. ASSUME NEW e \in events PROVE e.at \in Nat /\ e.at < n.at
  <2>1. row # None /\ e.at <= row.at
    BY DEF IInv, NewestVerificationStands
  <2>2. e.at \in Nat
    BY CouponSyncAssumption DEF CouponSyncAssumption, IInv, TypeOK, Event, Times
  <2> QED
    BY <1>2, <1>3, <2>1, <2>2
<1> QED
  BY <1>1, <1>2, <1>3, <1>4

\* A snapshot becomes the row and the newest event, and all products are of it.
LEMMA WriteInv ==
  ASSUME IInv, NEW s \in Sessions, session[s].pc = "locked", Applicable(s), Return(s, "ok"),
         row' \in Row, row'.at = session[s].snapshot.at,
         row'.evidence = session[s].snapshot.evidence, row'.enabled = Active(session[s].snapshot),
         products' \subseteq Product,
         \A p \in products' : p.at = row'.at /\ p.enabled = row'.enabled,
         events' = events \cup {EventOf(session[s].snapshot)},
         UNCHANGED <<clock, reader>>
  PROVE  IInv'
<1> DEFINE n == session[s].snapshot
<1>1. PICK t \in Session :
        /\ session' = [session EXCEPT ![s] = t] /\ t.pc = "idle" /\ t.told = "ok" /\ t.snapshot = n
        /\ lock' = None /\ lock = s
  BY Returned
<1>2. session'[s] = t /\ (\A q \in Sessions : q # s => session'[q] = session[q])
      /\ session' \in [Sessions -> Session]
  BY <1>1 DEF IInv, TypeOK
<1>3. /\ n \in Snapshot /\ n.at \in Nat
      /\ row # None => row.at \in Nat /\ row.at < n.at
      /\ \A e \in events : e.at \in Nat /\ e.at < n.at
  BY AppliedIsNewer
<1>4. row' # None
  BY CouponSyncAssumption DEF CouponSyncAssumption
<1>5. EventOf(n) \in Event
  BY <1>3 DEF EventOf, Event, Snapshot
<1>6. /\ EventOf(n).at = n.at /\ EventOf(n).evidence = n.evidence
      /\ (EventOf(n).action = "PUBLISH") = Active(n)
  BY DEF EventOf, Active
<1>7. TypeOK'
  BY <1>1, <1>2, <1>5 DEF IInv, TypeOK
<1>8. SessionInv'
  BY <1>1, <1>2 DEF IInv, SessionInv
<1>9. ReaderInv'
  <2> SUFFICES ASSUME NEW r \in Readers, reader[r].pc = "products"
               PROVE  row'.at >= reader[r].item.at
    BY <1>4 DEF IInv, ReaderInv
  <2>1. row # None /\ row.at >= reader[r].item.at /\ reader[r].item # None
    BY DEF IInv, ReaderInv
  <2>2. reader[r].item.at \in Nat
    BY <2>1, CouponSyncAssumption DEF CouponSyncAssumption, IInv, TypeOK, Row, Times
  <2> QED
    BY <1>3, <2>1, <2>2
<1>10. NewestVerificationStands'
  <2>1. \A e, f \in events : e.at = f.at => e = f
    BY DEF IInv, NewestVerificationStands
  <2>2. /\ \A e \in events' : e = EventOf(n) \/ (e \in events /\ e.at \in Nat /\ e.at < n.at)
        /\ EventOf(n) \in events'
    BY <1>3
  <2>3. \A e \in events' : e.at <= row'.at
    BY <1>3, <1>6, <2>2
  <2>4. ASSUME NEW e \in events', NEW f \in events', e.at = f.at PROVE e = f
    <3>1. CASE e \in events /\ f \in events
      BY <2>1, <2>4, <3>1
    <3>2. CASE e = EventOf(n) \/ f = EventOf(n)
      BY <1>3, <1>6, <2>2, <2>4, <3>2
    <3> QED
      BY <2>2, <3>1, <3>2
  <2>5. EventOf(n).evidence = row'.evidence /\ EventOf(n).at = row'.at
        /\ (EventOf(n).action = "PUBLISH") = row'.enabled
    BY <1>6
  <2> QED
    BY <1>4, <2>2, <2>3, <2>4, <2>5 DEF NewestVerificationStands
<1>11. AcceptedIsRecorded'
  <2> SUFFICES ASSUME NEW q \in Sessions, session'[q].told = "ok"
               PROVE  EventOf(session'[q].snapshot) \in events' /\ row'.at >= session'[q].snapshot.at
    BY DEF AcceptedIsRecorded, EventOf, Active
  <2>1. CASE q = s
    BY <1>1, <1>2, <1>3, <2>1
  <2>2. CASE q # s
    <3>1. EventOf(session[q].snapshot) \in events
      BY <1>2, <2>2 DEF IInv, AcceptedIsRecorded
    <3>2. EventOf(session[q].snapshot).at = session[q].snapshot.at
      BY DEF EventOf
    <3> QED
      BY <1>2, <1>3, <2>2, <3>1, <3>2
  <2> QED
    BY <2>1, <2>2
<1>12. RevocationHolds'
  BY DEF IInv, RevocationHolds
<1> QED
  BY <1>7, <1>8, <1>9, <1>10, <1>11, <1>12 DEF IInv

LEMMA PublishInv == ASSUME IInv, NEW s \in Sessions, Publish(s) PROVE IInv'
<1> DEFINE n == session[s].snapshot
<1>1. n \in Snapshot /\ n.offer \in Offer /\ Active(n)
  BY CouponSyncAssumption DEF CouponSyncAssumption, Publish, IInv, SessionInv, Snapshot, Active
<1>2. n.offer \in Offers /\ n.at \in Times /\ n.evidence \in Evidence
  BY <1>1 DEF Snapshot, Active
<1>3. \A p \in Relations(n) : n.offer.products[p] \in Expiry
  BY <1>1 DEF Relations, Offer
<1>4. row' \in Row /\ row'.at = n.at /\ row'.evidence = n.evidence /\ row'.enabled = TRUE
  BY <1>2 DEF Publish, Row
<1>5. products' = {[id |-> p, expires |-> n.offer.products[p], at |-> n.at, enabled |-> TRUE] : p \in Relations(n)}
  BY DEF Publish
<1>6. products' \subseteq Product /\ \A p \in products' : p.at = n.at /\ p.enabled = TRUE
  <2> SUFFICES ASSUME NEW p \in products'
               PROVE  p \in Product /\ p.at = n.at /\ p.enabled = TRUE
    OBVIOUS
  <2>1. PICK i \in Relations(n) :
          p = [id |-> i, expires |-> n.offer.products[i], at |-> n.at, enabled |-> TRUE]
    BY <1>5
  <2>2. i \in Products /\ n.offer.products[i] \in Expiry
    BY <1>3 DEF Relations
  <2> HIDE DEF n
  <2> QED
    BY <1>2, <2>1, <2>2 DEF Product
<1>7. Active(n) = TRUE
  BY <1>1 DEF Active
<1> QED
  BY <1>4, <1>6, <1>7, WriteInv DEF Publish

LEMMA RevokeInv == ASSUME IInv, NEW s \in Sessions, Revoke(s) PROVE IInv'
<1> DEFINE n == session[s].snapshot
<1>1. n \in Snapshot /\ row # None /\ row \in Row
  BY DEF Revoke, Applicable, Refused, IInv, TypeOK, SessionInv
<1>2. row' \in Row /\ row'.at = n.at /\ row'.evidence = n.evidence /\ row'.enabled = FALSE
  BY <1>1 DEF Revoke, Row, Snapshot
<1>3. products' = {[p EXCEPT !.enabled = FALSE, !.at = n.at] : p \in products} /\ products \subseteq Product
  BY DEF Revoke, IInv, TypeOK
<1>4. products' \subseteq Product /\ \A p \in products' : p.at = n.at /\ p.enabled = FALSE
  BY <1>1, <1>3 DEF Product, Snapshot
<1>5. Active(n) = FALSE
  BY DEF Revoke, Active
<1> QED
  BY <1>2, <1>4, <1>5, WriteInv DEF Revoke

-----------------------------------------------------------------------------
(* Readers.                                                                *)

\* A reader's step leaves the catalogue and the synchronisations alone.
LEMMA QuietReader ==
  ASSUME IInv, UNCHANGED <<clock, row, products, events, lock, session>>
  PROVE  SessionInv' /\ NewestVerificationStands' /\ AcceptedIsRecorded'
BY DEF IInv, SessionInv, NewestVerificationStands, AcceptedIsRecorded, EventOf, Active

Reader == [pc : {"idle", "item", "products"}, since : SUBSET Event,
           item : Row \cup {None}, shown : SUBSET Product]

\* What one reader must keep: the parts of ReaderInv and RevocationHolds about it.
ReaderFine(t) ==
  /\ t.since \subseteq events
  /\ t.pc = "item" => t.item = None /\ t.shown = {}
  /\ t.pc = "products" =>
       t.item # None /\ t.shown = {} /\ row # None /\ row.at >= t.item.at
  /\ \A e \in t.since : e.action = "REVOKE" =>
       /\ t.item # None => t.item.at > e.at
       /\ \A p \in t.shown : p.at > e.at
  /\ \A p, q \in t.shown : p.at = q.at /\ p.at >= t.item.at

LEMMA AllFine ==
  ASSUME IInv, NEW r \in Readers
  PROVE  reader[r] \in Reader /\ ReaderFine(reader[r])
<1>1. \A x \in reader[r].shown \cup ({reader[r].item} \ {None}), e \in reader[r].since :
        e.action = "REVOKE" => x.at > e.at
  BY DEF IInv, RevocationHolds
<1>2. \A p, q \in reader[r].shown : p.at = q.at /\ p.at >= reader[r].item.at
  BY DEF IInv, RevocationHolds
<1>3. reader[r] \in Reader
  BY DEF IInv, TypeOK, Reader
<1> QED
  BY <1>1, <1>2, <1>3 DEF IInv, ReaderInv, ReaderFine

LEMMA ReaderStep ==
  ASSUME IInv, NEW r \in Readers, NEW t \in Reader, ReaderFine(t),
         reader' = [reader EXCEPT ![r] = t],
         UNCHANGED <<clock, row, products, events, lock, session>>
  PROVE  IInv'
<1>1. TypeOK'
  BY DEF IInv, TypeOK, Reader
<1>2. \A q \in Readers : ReaderFine(reader'[q])
  BY AllFine DEF IInv, TypeOK
<1>3. ReaderInv'
  BY <1>2 DEF ReaderInv, ReaderFine
<1>4. RevocationHolds'
  BY <1>2 DEF RevocationHolds, ReaderFine
<1> QED
  BY <1>1, <1>3, <1>4, QuietReader DEF IInv

LEMMA CallInv == ASSUME IInv, NEW r \in Readers, Call(r) PROVE IInv'
<1> DEFINE t == [pc |-> "item", since |-> events, item |-> None, shown |-> {}]
<1>1. t \in Reader /\ ReaderFine(t)
  BY DEF IInv, TypeOK, Reader, ReaderFine
<1>2. reader' = [reader EXCEPT ![r] = t] /\ UNCHANGED <<clock, row, products, events, lock, session>>
  BY DEF Call
<1> HIDE DEF t
<1> QED
  BY <1>1, <1>2, ReaderStep

LEMMA GetInv == ASSUME IInv, NEW r \in Readers, Get(r) PROVE IInv'
<1> DEFINE t == [reader[r] EXCEPT
      !.pc = IF Visible /\ row.offer.scope # "ACTIVITY" THEN "products" ELSE "idle",
      !.item = IF Visible THEN row ELSE None]
<1>0. reader[r] \in Reader /\ ReaderFine(reader[r]) /\ reader[r].pc = "item"
  BY AllFine DEF Get
<1>1. row \in Row \cup {None} /\ (row # None => row.at \in Nat)
  BY CouponSyncAssumption DEF CouponSyncAssumption, IInv, TypeOK, Row, Times
<1>2. /\ t \in Reader /\ t.since = reader[r].since /\ t.shown = {}
      /\ t.pc = IF Visible /\ row.offer.scope # "ACTIVITY" THEN "products" ELSE "idle"
      /\ t.item = IF Visible THEN row ELSE None
  BY <1>0, <1>1 DEF Reader, ReaderFine
<1>3. Visible => row # None /\ row.enabled
  BY DEF Visible
<1>4. \A e \in reader[r].since : e.action = "REVOKE" /\ Visible => row.at > e.at
  BY <1>0, <1>3, LiveIsNewer DEF ReaderFine
<1>5. reader' = [reader EXCEPT ![r] = t] /\ UNCHANGED <<clock, row, products, events, lock, session>>
  BY DEF Get, IInv, TypeOK
<1> HIDE DEF t
<1>6. ReaderFine(t)
  BY <1>0, <1>1, <1>2, <1>3, <1>4 DEF ReaderFine
<1> QED
  BY <1>2, <1>5, <1>6, ReaderStep

LEMMA ReadProductsInv == ASSUME IInv, NEW r \in Readers, ReadProducts(r) PROVE IInv'
<1> DEFINE live == {p \in products : Current(p)}
           t == [reader[r] EXCEPT !.pc = "idle", !.shown = live]
<1>0. reader[r] \in Reader /\ ReaderFine(reader[r]) /\ reader[r].pc = "products"
  BY AllFine DEF ReadProducts
<1>1. /\ t \in Reader /\ t.pc = "idle" /\ t.since = reader[r].since
      /\ t.item = reader[r].item /\ t.shown = live
  BY <1>0 DEF Reader, IInv, TypeOK
<1>2. row # None /\ row.at >= t.item.at
  BY <1>0, <1>1 DEF ReaderFine
<1>3. \A p \in live : p.at = row.at /\ row.enabled
  BY <1>2 DEF Current, IInv, NewestVerificationStands
<1>4. \A p \in live, e \in t.since : e.action = "REVOKE" => p.at > e.at
  BY <1>0, <1>1, <1>2, <1>3, LiveIsNewer DEF ReaderFine
<1>5. reader' = [reader EXCEPT ![r] = t] /\ UNCHANGED <<clock, row, products, events, lock, session>>
  BY DEF ReadProducts, IInv, TypeOK
<1> HIDE DEF t
<1>6. ReaderFine(t)
  BY <1>0, <1>1, <1>2, <1>3, <1>4 DEF ReaderFine
<1> QED
  BY <1>1, <1>5, <1>6, ReaderStep

LEMMA TickInv == ASSUME IInv, Tick PROVE IInv'
<1>1. TypeOK'
  BY CouponSyncAssumption DEF CouponSyncAssumption, Tick, Times, IInv, TypeOK
<1> QED
  BY <1>1 DEF Tick, IInv, SessionInv, ReaderInv, NewestVerificationStands, AcceptedIsRecorded,
              RevocationHolds, EventOf, Active

-----------------------------------------------------------------------------
LEMMA NextInv == ASSUME IInv, [Next]_vars PROVE IInv'
<1>1. ASSUME NEW s \in Sessions, Sync(s) PROVE IInv'
  BY <1>1, VerifyInv, LockInv, ReplayInv, RejectInv, PublishInv, RevokeInv, FailInv DEF Sync
<1>2. ASSUME NEW r \in Readers, Call(r) \/ Get(r) \/ ReadProducts(r) PROVE IInv'
  BY <1>2, CallInv, GetInv, ReadProductsInv
<1>3. CASE UNCHANGED vars
  BY <1>3 DEF vars, IInv, TypeOK, SessionInv, ReaderInv, NewestVerificationStands,
              AcceptedIsRecorded, RevocationHolds, EventOf, Active
<1> QED
  BY <1>1, <1>2, <1>3, TickInv DEF Next

\* The invariant holds in every behaviour: types, the lock, and the three properties.
THEOREM Inductive == Spec => []IInv
<1>1. Init => IInv
  BY InitInv
<1>2. IInv /\ [Next]_vars => IInv'
  BY NextInv
<1> QED
  BY <1>1, <1>2, PTL DEF Spec

\* The catalogue is what the newest applied verification says, whatever the order in
\* which Sync applies the snapshots (sync.go:70-80).
THEOREM NewestStands == Spec => []NewestVerificationStands
<1>1. IInv => NewestVerificationStands
  BY DEF IInv
<1> QED
  BY <1>1, Inductive, PTL

\* A Sync that succeeded is in coupon_sync_events with what it was about.
THEOREM AcceptedStays == Spec => []AcceptedIsRecorded
<1>1. IInv => AcceptedIsRecorded
  BY DEF IInv
<1> QED
  BY <1>1, Inductive, PTL

\* Who asks after a revocation is shown nothing verified before it, though Get and
\* Products look separately (detail.go).
THEOREM RevocationsHold == Spec => []RevocationHolds
<1>1. IInv => RevocationHolds
  BY DEF IInv
<1> QED
  BY <1>1, Inductive, PTL

=============================================================================
