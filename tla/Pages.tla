-------------------------------- MODULE Pages --------------------------------
(***************************************************************************)
(* A client walks through a listing page by page while the rows change     *)
(* under it: orders, promotion positions, applications, coupons, the       *)
(* products of a coupon, and promotion materials.  Each page is a query    *)
(* for the rows behind a cursor, with one more row than it shows; the      *)
(* cursor is the sort key of the last row shown, as it was then.           *)
(*                                                                         *)
(* A row is what a listing may show, a match one that meets the query's    *)
(* conditions now.  place orders the rows along the walk and ids break     *)
(* ties: orders and applications go by descending time; all rows of the    *)
(* others, which go by ascending id, are at one place.                     *)
(***************************************************************************)
EXTENDS Naturals, FiniteSets

CONSTANTS
  Listings,  \* listings that are walked
  LastId,    \* ids are 1..LastId
  Stock,     \* the rows a listing may have
  Limit,     \* rows on a page
  MaxPlace   \* bound on how far an order's time moves back

ASSUME PagesAssumption ==
  /\ Listings \subseteq {"orders", "positions", "applications", "coupons", "products", "materials"}
  /\ Stock \in [Listings -> SUBSET (1..LastId)]
  /\ MaxPlace \in Nat \ {0} /\ Limit \in Nat \ {0} /\ LastId \in Nat

Rows == 1..LastId

VARIABLES
  listing,
  match,    \* rows that satisfy the query's conditions now
  valid,    \* materials that pass CardFor as well
  place,    \* sort keys
  access,   \* what asking before a page leads to: pages, a refusal, or an empty page
  walk,     \* what the client has been shown
  batch,    \* the material query's snapshot
  steady,   \* history: rows that were shown by the listing since the walk began
  moved     \* history: rows whose sort key moved since then

walkVars == <<listing, match, valid, place, access, walk, batch, steady, moved>>

-----------------------------------------------------------------------------
\* Keys are compared with the id last.
Key(r) == <<place[r], r>>

Precedes(a, b) == a[1] < b[1] \/ (a[1] = b[1] /\ a[2] < b[2])

Start == <<0, 0>>

\* ORDER BY ... LIMIT n.
First(S, n) == {r \in S : Cardinality({q \in S : Precedes(Key(q), Key(r))}) < n}

\* The key of the last row.
LastOf(S) == CHOOSE k \in {Key(r) : r \in S} : \A r \in S : r # k[2] => Precedes(Key(r), k)

\* The row the cursor names comes again.
BehindOrAt(S, cursor) == {r \in S : ~Precedes(Key(r), cursor)}

Behind(S, cursor) == {r \in S : Precedes(cursor, Key(r))}

NoBatch == [rows |-> {}, after |-> Start, items |-> {}]

WalkInit ==
  /\ listing \in Listings
  /\ match \in SUBSET Stock[listing]
  /\ valid \in (IF listing = "materials" THEN SUBSET Stock[listing] ELSE {Rows})
  /\ place \in [Rows -> 1..MaxPlace]
  /\ \A r \in Rows :
       listing \notin {"orders", "applications"} \/ r \notin Stock[listing] => place[r] = 1
  /\ access = "granted"
  /\ walk = [pc |-> "next", cursor |-> Start, seen |-> {}, twice |-> {}]
  /\ batch = NoBatch
  /\ steady = match /\ moved = {}

-----------------------------------------------------------------------------
(* The pages.                                                              *)

\* The walk goes on unless the extra row is missing.
ShowPage(found, more) ==
  LET shown == First(found, Limit) IN
  walk' = [pc     |-> IF more THEN "next" ELSE "done",
           cursor |-> IF more THEN LastOf(shown) ELSE walk.cursor,
           seen   |-> walk.seen \cup shown,
           twice  |-> walk.twice \cup (walk.seen \cap shown)]

\* The cursor is the extra row, which the next page leaves out.
ShowFound(found) ==
  ShowPage(found, Cardinality(found) > Limit)

Query == ShowFound(First(Behind(match, walk.cursor), Limit + 1))

Asked(name, pc) == listing = name /\ walk.pc = pc

Quiet == UNCHANGED <<listing, match, valid, place, access, steady, moved>>

ListOwned == Asked("orders", "next") /\ Query /\ Quiet /\ UNCHANGED batch

ListPositions == Asked("positions", "next") /\ Query /\ Quiet /\ UNCHANGED batch

ListApplications == Asked("applications", "next") /\ Query /\ Quiet /\ UNCHANGED batch

ListCoupons == Asked("coupons", "next") /\ Query /\ Quiet /\ UNCHANGED batch

\* Products asks for its coupon first: it may be hidden, or be of a scope that has no
\* products, whose page is empty and the last.
GetCoupon ==
  /\ Asked("products", "next")
  /\ walk' = [walk EXCEPT !.pc = access]
  /\ Quiet /\ UNCHANGED batch

ListProducts == Asked("products", "granted") /\ Query /\ Quiet /\ UNCHANGED batch

\* Materials are read in one snapshot, which also says whether they may be.
CheckCapability ==
  /\ Asked("materials", "next")
  /\ walk' = [walk EXCEPT !.pc = access]
  /\ batch' = IF access = "granted" THEN [rows |-> match, after |-> walk.cursor, items |-> {}] ELSE batch
  /\ Quiet

\* The rows that make a card in this context.
CardFor(found) == found \cap valid

\* The boundary moves on only with the cards shown.
NextBatchAfterCards(found) == IF CardFor(found) = {} THEN batch.after ELSE LastOf(CardFor(found))

NextBatch(found) == LastOf(found)

\* Mutant: a batch counts as the last when few of its rows make a card.
MoreBatchesByCards(items, found) ==
  Cardinality(items) <= Limit /\ Cardinality(CardFor(found)) = Limit + 1

\* Rows may be left, and the page is not full.
MoreBatches(items, found) ==
  Cardinality(items) <= Limit /\ Cardinality(found) = Limit + 1

\* Rows that do not make a card are left out, and another batch read while rows may
\* be left and the page is not full.
ListMaterials ==
  LET found == First(Behind(batch.rows, batch.after), Limit + 1)
      items == First(batch.items \cup CardFor(found), Limit + 1)
  IN
  /\ Asked("materials", "granted")
  /\ IF MoreBatches(items, found)
       THEN /\ batch' = [batch EXCEPT !.after = NextBatch(found), !.items = items]
            /\ UNCHANGED walk
       ELSE ShowFound(items) /\ batch' = NoBatch
  /\ Quiet

Page ==
  \/ ListOwned \/ ListPositions \/ ListApplications \/ ListCoupons
  \/ GetCoupon \/ ListProducts \/ CheckCapability \/ ListMaterials

-----------------------------------------------------------------------------
(* The rows.                                                               *)

Walking == walk.pc \in {"next", "granted"}

\* Stored, attributed, enabled, reviewed into the status asked for, published.
Appear(r) ==
  /\ Walking /\ r \in Stock[listing] \ match
  /\ match' = match \cup {r}
  /\ UNCHANGED <<listing, valid, place, access, walk, batch, steady, moved>>

Vanish(r) ==
  /\ Walking /\ r \in match
  /\ match' = match \ {r}
  /\ steady' = steady \ {r}
  /\ UNCHANGED <<listing, valid, place, access, walk, batch, moved>>

\* A correction moves an order in either direction.
MoveAnyhow(r) ==
  /\ Walking /\ listing = "orders" /\ r \in Stock[listing]
  /\ \E p \in 1..MaxPlace :
       p # place[r] /\ place' = [place EXCEPT ![r] = p]
  /\ moved' = moved \cup {r}
  /\ UNCHANGED <<listing, match, valid, access, walk, batch, steady>>

\* An earlier event moves order_occurred_at back, which is onward in the walk.
Backdate(r) ==
  /\ Walking /\ listing = "orders" /\ r \in Stock[listing]
  /\ \E p \in 1..MaxPlace :
       p > place[r] /\ place' = [place EXCEPT ![r] = p]
  /\ moved' = moved \cup {r}
  /\ UNCHANGED <<listing, match, valid, access, walk, batch, steady>>

\* The coupon is revoked, published, or published with another scope; the capability
\* is suspended or approved.
Switch ==
  /\ Walking /\ listing \in {"products", "materials"}
  /\ access' \in {"granted", "refused"} \cup (IF listing = "products" THEN {"done"} ELSE {})
  /\ access' # access
  /\ steady' = IF access' = "done" THEN {} ELSE steady
  /\ UNCHANGED <<listing, match, valid, place, walk, batch, moved>>

WalkNext ==
  \/ Page
  \/ \E r \in Rows : Appear(r) \/ Vanish(r) \/ Backdate(r)
  \/ Switch

\* The client asks for the next page while there is one.
WalkSpec == WalkInit /\ [][WalkNext]_walkVars /\ WF_walkVars(Page)

-----------------------------------------------------------------------------
\* Types of the variables.
WalkTypeOK ==
  /\ listing \in Listings
  /\ match \subseteq Rows /\ valid \subseteq Rows
  /\ place \in [Rows -> 1..MaxPlace]
  /\ access \in {"granted", "refused", "done"}
  /\ walk \in [pc : {"next", "granted", "refused", "done"}, cursor : (0..MaxPlace) \X (Rows \cup {0}),
               seen : SUBSET Rows, twice : SUBSET Rows]
  /\ batch \in [rows : SUBSET Rows, after : (0..MaxPlace) \X (Rows \cup {0}), items : SUBSET Rows]
  /\ steady \subseteq Rows /\ moved \subseteq Rows

\* Whoever pages to the end has been shown every row that was there all the time, also
\* orders whose time was moved under him, and whatever came and went around them
\* (read.go:108-110, repository.go:86-110).
NothingLost == walk.pc = "done" => steady \cap valid \subseteq walk.seen

\* Nothing is shown twice, except orders that were moved: their key is the only one
\* that changes (projection.go:124-127).
ShownOnce == walk.twice \subseteq moved

\* The walk ends, by the last page or a refusal, however many rows a page skips.
WalkEnds == <>(walk.pc \in {"done", "refused"})

=============================================================================
