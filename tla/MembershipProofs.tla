-------------------------- MODULE MembershipProofs --------------------------
(***************************************************************************)
(* Membership is safe for any number of sessions, users, administrators    *)
(* and applications.  The argument: the row lock makes the profile a       *)
(* transaction has read the profile it writes, and the advisory lock keeps *)
(* a second call of a scope away until the first has left its audit; and   *)
(* with the profile the one open application is locked, so each decision   *)
(* meets the application it names still pending.                           *)
(***************************************************************************)
EXTENDS Membership, FiniteSetTheorems, TLAPS

\* What a transaction knows, by how far it has got.
SessionInv(s) ==
  LET me == call[s]  r == call[s].request IN
  /\ me.pc # "idle" => r \in Request
  /\ me.pc = "scope" => r.op = "admin"
  /\ me.pc \in {"profile", "commit"} => me.user \in Users
  /\ me.pc \in {"profile", "commit"} /\ r.op = "admin" =>
       /\ me.user = Concerns(r.command) /\ me.user # r.actor
       /\ AuditsIn(r) = {}
  /\ me.pc = "commit" =>
       /\ me.before = Existing(me.user)
       /\ r.op = "admin" => profiles[me.user] # None

\* The locks.
Exclusive ==
  \A s, t \in Sessions : s # t =>
    /\ call[s].pc = "commit" /\ call[t].pc = "commit" => call[s].user # call[t].user
    /\ \A p, q \in {"profile", "commit"} :
         Serving(s, "admin", p) /\ Serving(t, "admin", q) =>
           Scope(call[s].request) # Scope(call[t].request)

\* A reviewed application is there, and no longer pending.
ReviewsDone ==
  \A a \in audits : a.command.action = "REVIEW" =>
    applications[a.command.target] # None /\ a.after.status \in {"ENABLED", "REJECTED"}

IInv ==
  /\ TypeOK /\ Exclusive /\ ReviewsDone /\ ProfileAgrees /\ DecisionsStand
  /\ \A s \in Sessions : SessionInv(s)

-----------------------------------------------------------------------------
LEMMA InitInv == Init => IInv
<1> SUFFICES ASSUME Init PROVE IInv
  OBVIOUS
<1>1. TypeOK
  BY DEF Init, TypeOK, Call, IdleCall
<1>2. \A s \in Sessions : call[s].pc = "idle"
  BY DEF Init, IdleCall
<1>3. Exclusive /\ \A s \in Sessions : SessionInv(s)
  BY <1>2 DEF Exclusive, Serving, SessionInv
<1>4. ReviewsDone /\ DecisionsStand
  BY DEF Init, ReviewsDone, DecisionsStand
<1>5. ProfileAgrees
  BY DEF Init, ProfileAgrees, Of
<1> QED
  BY <1>1, <1>3, <1>4, <1>5 DEF IInv

-----------------------------------------------------------------------------
(* Records.                                                                *)

LEMMA DecidedFields ==
  ASSUME NEW p \in Profile, NEW c \in Command
  PROVE  /\ Decided(p, c) \in Profile /\ Decided(p, c).version = p.version + 1
         /\ Decided(p, c).application = p.application
         /\ Decided(p, c).status = IF c.action = "DISABLE" THEN "DISABLED"
                                   ELSE IF c.approve THEN "ENABLED" ELSE "REJECTED"
<1> DEFINE q == [p EXCEPT !.version = @ + 1]
           st == CASE c.action = "DISABLE" -> "DISABLED"
                   [] c.approve            -> "ENABLED"
                   [] OTHER                -> "REJECTED"
<1>1. q \in Profile /\ q.version = p.version + 1 /\ q.application = p.application
  BY DEF Profile
<1>2. c.action = "DISABLE" => ~c.approve
  BY DEF Command
<1>3. st = IF c.action = "DISABLE" THEN "DISABLED" ELSE IF c.approve THEN "ENABLED" ELSE "REJECTED"
  BY <1>2
<1>4. st \in Status
  BY <1>3 DEF Status
<1>5. Decided(p, c) = [q EXCEPT !.status = st]
  BY DEF Decided
<1> HIDE DEF q, st
<1> QED
  BY <1>1, <1>3, <1>4, <1>5 DEF Profile

LEMMA AppliedFields ==
  ASSUME NEW p \in Profile, NEW x \in Applications
  PROVE  /\ Applied(p, x) \in Profile /\ Applied(p, x).status = "PENDING"
         /\ Applied(p, x).application = x /\ Applied(p, x).version = p.version + 1
BY DEF Applied, Profile, Status

LEMMA ExistingIsProfile ==
  ASSUME TypeOK, NEW u \in Users PROVE Existing(u) \in Profile
BY DEF TypeOK, Existing, NewProfile, Profile, Status

LEMMA IdleIsCall == IdleCall \in Call /\ IdleCall.pc = "idle"
BY DEF IdleCall, Call

\* The state of a session whose transaction has read and locked its profile.
LEMMA LockedFields ==
  ASSUME TypeOK, NEW s \in Sessions, NEW row \in Profile
  PROVE  /\ Locked(s, row) \in Call /\ Locked(s, row).pc = "commit"
         /\ Locked(s, row).before = row
         /\ Locked(s, row).user = call[s].user /\ Locked(s, row).request = call[s].request
<1> DEFINE a == [call[s] EXCEPT !.pc = "commit"]
<1>1. a \in Call /\ a.pc = "commit" /\ a.user = call[s].user /\ a.request = call[s].request
  BY DEF TypeOK, Call
<1>2. Locked(s, row) = [a EXCEPT !.before = row]
  BY DEF Locked
<1> HIDE DEF a
<1> QED
  BY <1>1, <1>2 DEF Call

LEMMA RequestFields ==
  ASSUME NEW r \in Request
  PROVE  /\ r.op = "admin" => r.actor \in Actors /\ r.command \in Command
         /\ r.op = "submit" => r.key \in Keys
         /\ r.op \in {"admin", "submit"}
BY DEF Request

-----------------------------------------------------------------------------
(* Steps that write nothing.                                               *)

LEMMA QuietStep ==
  ASSUME IInv, NEW s \in Sessions, NEW u \in Call, Become(s, u),
         SessionInv(s)',
         u.pc = "commit" =>
           \A t \in Sessions \ {s} : call[t].pc = "commit" => call[t].user # u.user,
         u.pc \in {"profile", "commit"} /\ u.request.op = "admin" =>
           \A t \in Sessions \ {s} :
             Serving(t, "admin", "profile") \/ Serving(t, "admin", "commit") =>
               Scope(call[t].request) # Scope(u.request),
         UNCHANGED <<profiles, applications, audits>>
  PROVE  IInv'
<1>1. call'[s] = u /\ (\A t \in Sessions : t # s => call'[t] = call[t]) /\ call' \in [Sessions -> Call]
  BY DEF IInv, TypeOK, Become
<1>2. TypeOK'
  BY <1>1 DEF IInv, TypeOK
<1>3. Exclusive'
  <2>1. ASSUME NEW a \in Sessions, NEW b \in Sessions, a # b, call'[a].pc = "commit", call'[b].pc = "commit"
        PROVE  call'[a].user # call'[b].user
    BY <1>1, <2>1 DEF IInv, Exclusive
  <2>2. ASSUME NEW a \in Sessions, NEW b \in Sessions, a # b,
               NEW p \in {"profile", "commit"}, NEW q \in {"profile", "commit"},
               Serving(a, "admin", p)', Serving(b, "admin", q)'
        PROVE  Scope(call[a].request)' # Scope(call[b].request)'
    <3>1. CASE a # s /\ b # s
      BY <1>1, <2>2, <3>1 DEF IInv, Exclusive, Serving, Scope
    <3>2. CASE a = s
      BY <1>1, <2>2, <3>2 DEF Serving, Scope
    <3>3. CASE b = s
      BY <1>1, <2>2, <3>3 DEF Serving, Scope
    <3> QED
      BY <3>1, <3>2, <3>3
  <2> QED
    BY <2>1, <2>2 DEF Exclusive
<1>4. ReviewsDone' /\ ProfileAgrees' /\ DecisionsStand'
  BY DEF IInv, ReviewsDone, ProfileAgrees, DecisionsStand, Of
<1>5. ASSUME NEW t \in Sessions, t # s PROVE SessionInv(t)'
  BY <1>1, <1>5 DEF IInv, SessionInv, Concerns, AuditsIn, Scope, Existing
<1> QED
  BY <1>2, <1>3, <1>4, <1>5 DEF IInv

LEMMA ReturnInv ==
  ASSUME IInv, NEW s \in Sessions, Return(s), UNCHANGED <<profiles, applications, audits>>
  PROVE  IInv'
<1>1. SessionInv(s)'
  BY IdleIsCall DEF Return, Become, IInv, TypeOK, SessionInv
<1> QED
  BY <1>1, IdleIsCall, QuietStep DEF Return

LEMMA SubmitInv ==
  ASSUME IInv, NEW s \in Sessions, NEW w \in Users, NEW k \in Keys, Submit(s, w, k) PROVE IInv'
<1> DEFINE r == [op |-> "submit", key |-> k]
           a == [IdleCall EXCEPT !.pc = "profile"]
           b == [a EXCEPT !.user = w]
           u == [b EXCEPT !.request = r]
<1>1. r \in Request /\ r.op = "submit"
  BY DEF Request
<1>2. u \in Call /\ u.pc = "profile" /\ u.request = r /\ u.user = w
  <2> HIDE DEF r
  <2>1. a \in Call /\ a.pc = "profile"
    BY IdleIsCall DEF Call
  <2> HIDE DEF a
  <2>2. b \in Call /\ b.pc = "profile" /\ b.user = w
    BY <2>1 DEF Call
  <2> HIDE DEF b
  <2> QED
    BY <1>1, <2>2 DEF Call
<1>4. Become(s, u) /\ UNCHANGED <<profiles, applications, audits>>
  BY DEF Submit
<1> HIDE DEF u, r
<1>5. call'[s] = u
  BY <1>4 DEF Become, IInv, TypeOK
<1>6. SessionInv(s)'
  BY <1>1, <1>2, <1>5 DEF SessionInv
<1> QED
  BY <1>1, <1>2, <1>4, <1>6, QuietStep

LEMMA ExecuteInv ==
  ASSUME IInv, NEW s \in Sessions, NEW a \in Actors, NEW c \in Command, Execute(s, a, c) PROVE IInv'
<1> DEFINE r == [op |-> "admin", actor |-> a, command |-> c]
           b == [IdleCall EXCEPT !.pc = "scope"]
           u == [b EXCEPT !.request = r]
<1>1. r \in Request /\ r.op = "admin"
  BY DEF Request
<1>2. u \in Call /\ u.pc = "scope" /\ u.request = r
  <2> HIDE DEF r
  <2>1. b \in Call /\ b.pc = "scope"
    BY IdleIsCall DEF Call
  <2> HIDE DEF b
  <2> QED
    BY <1>1, <2>1 DEF Call
<1>4. Become(s, u) /\ UNCHANGED <<profiles, applications, audits>>
  BY DEF Execute
<1> HIDE DEF u, r
<1>5. call'[s] = u
  BY <1>4 DEF Become, IInv, TypeOK
<1>6. SessionInv(s)'
  BY <1>1, <1>2, <1>5 DEF SessionInv
<1> QED
  BY <1>1, <1>2, <1>4, <1>6, QuietStep

\* What is known of a session that serves a call.
LEMMA Served ==
  ASSUME IInv, NEW s \in Sessions, NEW op, NEW pc \in {"scope", "profile", "commit"}, Serving(s, op, pc)
  PROVE  /\ call[s].request \in Request /\ call[s].request.op = op /\ call[s].pc = pc
         /\ call[s] \in Call /\ TypeOK /\ SessionInv(s)
         /\ pc # "scope" => call[s].user \in Users
         /\ op = "admin" => call[s].request.actor \in Actors /\ call[s].request.command \in Command
BY RequestFields DEF IInv, TypeOK, Serving, SessionInv

LEMMA LockOwnProfileInv == ASSUME IInv, NEW s \in Sessions, LockOwnProfile(s) PROVE IInv'
<1>1. Serving(s, "submit", "profile")
  BY DEF LockOwnProfile
<1>2. PICK w \in Users : w = call[s].user
  BY <1>1, Served
<1> DEFINE row == Existing(w)
           u == Locked(s, row)
<1>3. row \in Profile
  BY ExistingIsProfile DEF IInv
<1>4. /\ u \in Call /\ u.pc = "commit" /\ u.before = row
      /\ u.user = w /\ u.request = call[s].request
  <2> HIDE DEF row
  <2> QED
    BY <1>2, <1>3, LockedFields DEF IInv
<1>5. Become(s, u) /\ UNCHANGED <<profiles, applications, audits>>
  BY <1>2 DEF LockOwnProfile
<1>6. call'[s] = u
  BY <1>5 DEF Become, IInv, TypeOK
<1>7. Existing(w)' = row
  BY <1>5 DEF Existing
<1> HIDE DEF u, row
<1>8. SessionInv(s)'
  BY <1>1, <1>4, <1>6, <1>7, Served DEF SessionInv
<1>9. \A t \in Sessions \ {s} : call[t].pc = "commit" => call[t].user # u.user
  BY <1>2, <1>4 DEF LockOwnProfile, ProfileFree
<1> QED
  BY <1>1, <1>4, <1>5, <1>8, <1>9, Served, QuietStep

LEMMA LockScopeInv == ASSUME IInv, NEW s \in Sessions, LockScope(s) PROVE IInv'
<1>1. Serving(s, "admin", "scope") /\ UNCHANGED <<profiles, applications, audits>>
  BY DEF LockScope
<1>2. PICK r \in Request : r = call[s].request
  BY <1>1, Served
<1>3. CASE Return(s)
  BY <1>1, <1>3, ReturnInv
<1>4. CASE /\ AuditsIn(r) = {} /\ Concerns(r.command) \notin {None, r.actor}
           /\ Become(s, [call[s] EXCEPT !.pc = "profile", !.user = Concerns(r.command)])
  <2> DEFINE w == Concerns(r.command)
             a == [call[s] EXCEPT !.pc = "profile"]
             u == [a EXCEPT !.user = w]
  <2>1. r.op = "admin" /\ r.actor \in Actors /\ r.command \in Command
    BY <1>1, <1>2, Served
  <2>2. w \in Users
    BY <1>4, <2>1, MembershipAssumption
    DEF MembershipAssumption, Concerns, Command, IInv, TypeOK, Application
  <2>3. a \in Call /\ a.pc = "profile" /\ a.request = r
    BY <1>1, <1>2, Served DEF Call
  <2>4. u \in Call /\ u.pc = "profile" /\ u.request = r /\ u.user = w
    <3> HIDE DEF a, w
    <3> QED
      BY <2>2, <2>3 DEF Call
  <2>5. Become(s, u) /\ call'[s] = u
    BY <1>4 DEF Become, IInv, TypeOK
  <2>6. Concerns(r.command)' = w /\ AuditsIn(r)' = {}
    BY <1>1, <1>4 DEF Concerns, AuditsIn, Scope
  <2>7. w # r.actor
    BY <1>4
  <2> HIDE DEF u, w
  <2>8. SessionInv(s)'
    BY <2>1, <2>2, <2>4, <2>5, <2>6, <2>7 DEF SessionInv
  <2>9. \A t \in Sessions \ {s} : Serving(t, "admin", "profile") \/ Serving(t, "admin", "commit") =>
          Scope(call[t].request) # Scope(u.request)
    BY <1>2, <2>4 DEF LockScope, ScopeFree
  <2> QED
    BY <1>1, <2>4, <2>5, <2>8, <2>9, QuietStep
<1> QED
  BY <1>2, <1>3, <1>4 DEF LockScope

LEMMA LockProfileInv == ASSUME IInv, NEW s \in Sessions, LockProfile(s) PROVE IInv'
<1>1. Serving(s, "admin", "profile") /\ UNCHANGED <<profiles, applications, audits>>
  BY DEF LockProfile
<1>2. PICK w \in Users, r \in Request : w = call[s].user /\ r = call[s].request
  BY <1>1, Served
<1>3. CASE Return(s)
  BY <1>1, <1>3, ReturnInv
<1>4. CASE profiles[w] # None /\ Become(s, Locked(s, profiles[w]))
  <2> DEFINE row == profiles[w]
             u == Locked(s, row)
  <2>1. row \in Profile /\ Existing(w) = row
    BY <1>4 DEF IInv, TypeOK, Existing
  <2>2. /\ u \in Call /\ u.pc = "commit" /\ u.before = row /\ u.user = w /\ u.request = r
    <3> HIDE DEF row
    <3> QED
      BY <1>2, <2>1, LockedFields DEF IInv
  <2>3. Become(s, u) /\ call'[s] = u
    BY <1>4 DEF Become, IInv, TypeOK
  <2>4. Existing(w)' = row /\ profiles'[w] # None
    BY <1>1, <1>4, <2>1 DEF Existing
  <2> HIDE DEF u, row
  <2>5. SessionInv(s) /\ r.op = "admin" /\ call[s].pc = "profile"
    BY <1>1, <1>2, Served
  <2>6. w = Concerns(r.command) /\ w # r.actor /\ AuditsIn(r) = {}
    BY <1>2, <2>5 DEF SessionInv
  <2>7. Concerns(r.command)' = w /\ AuditsIn(r)' = {}
    BY <1>1, <2>6 DEF Concerns, AuditsIn, Scope
  <2>8. SessionInv(s)'
    BY <2>2, <2>3, <2>4, <2>5, <2>6, <2>7 DEF SessionInv
  <2>9. \A t \in Sessions \ {s} : call[t].pc = "commit" => call[t].user # u.user
    BY <1>2, <2>2 DEF LockProfile, ProfileFree
  <2>10. \A t \in Sessions \ {s} : Serving(t, "admin", "profile") \/ Serving(t, "admin", "commit") =>
           Scope(call[t].request) # Scope(u.request)
    BY <1>1, <1>2, <2>2 DEF IInv, Exclusive
  <2> QED
    BY <1>1, <2>2, <2>3, <2>8, <2>9, <2>10, QuietStep
<1> QED
  BY <1>2, <1>3, <1>4 DEF LockProfile

-----------------------------------------------------------------------------
(* Steps that write.                                                       *)

\* A transaction on w's profile commits: the other sessions know what they knew.
LEMMA Commits ==
  ASSUME IInv, NEW s \in Sessions, NEW w \in Users, call[s].pc = "commit", call[s].user = w, Return(s),
         \A v \in Users : v # w => profiles'[v] = profiles[v],
         \A y \in Applications : applications[y] # None =>
           applications'[y] # None /\ applications'[y].user = applications[y].user,
         \A a \in audits' : a \in audits \/
           \A t \in Sessions \ {s} : Serving(t, "admin", "profile") \/ Serving(t, "admin", "commit") =>
             Scope(a) # Scope(call[t].request)
  PROVE  Exclusive' /\ call' \in [Sessions -> Call] /\ \A t \in Sessions : SessionInv(t)'
<1>1. /\ call'[s].pc = "idle" /\ \A t \in Sessions : t # s => call'[t] = call[t]
      /\ call' \in [Sessions -> Call]
  BY IdleIsCall DEF Return, Become, IInv, TypeOK
<1>2. Exclusive'
  BY <1>1 DEF IInv, Exclusive, Serving, Scope
<1>3. SessionInv(s)'
  BY <1>1 DEF SessionInv
<1>4. ASSUME NEW t \in Sessions, t # s, call[t].pc # "idle" PROVE SessionInv(t)'
  <2>1. call'[t] = call[t] /\ SessionInv(t) /\ call[t].request \in Request
    BY <1>1, <1>4 DEF IInv, SessionInv
  <2>2. PICK r, v : r \in Request /\ r = call[t].request /\ v = call[t].user
    BY <2>1
  <2>3. call[t].pc \in {"profile", "commit"} => v \in Users
    BY <2>1, <2>2 DEF SessionInv
  <2>4. ASSUME call[t].pc \in {"profile", "commit"}, r.op = "admin"
        PROVE  v = Concerns(r.command)' /\ v # r.actor /\ AuditsIn(r)' = {}
    <3>1. v = Concerns(r.command) /\ v # r.actor /\ AuditsIn(r) = {} /\ r.command \in Command
      BY <2>1, <2>2, <2>4, RequestFields DEF SessionInv
    <3>2. v # None
      BY <2>3, <2>4, MembershipAssumption DEF MembershipAssumption
    <3>3. Concerns(r.command)' = v
      BY <3>1, <3>2 DEF Concerns, Command
    <3>4. Serving(t, "admin", "profile") \/ Serving(t, "admin", "commit")
      BY <2>2, <2>4 DEF Serving
    <3>5. AuditsIn(r)' = {}
      BY <1>4, <2>2, <3>1, <3>4 DEF AuditsIn, Scope
    <3> QED
      BY <3>1, <3>3, <3>5
  <2>5. ASSUME call[t].pc = "commit" PROVE profiles'[v] = profiles[v]
    BY <1>4, <2>2, <2>3, <2>5 DEF IInv, Exclusive
  <2>6. call[t].pc = "commit" => Existing(v)' = Existing(v)
    BY <2>5 DEF Existing
  <2> QED
    BY <2>1, <2>2, <2>3, <2>4, <2>5, <2>6 DEF SessionInv
<1>5. ASSUME NEW t \in Sessions, t # s, call[t].pc = "idle" PROVE SessionInv(t)'
  BY <1>1, <1>5 DEF SessionInv
<1> QED
  BY <1>1, <1>2, <1>3, <1>4, <1>5

LEMMA SubmitNewInv ==
  ASSUME IInv, NEW s \in Sessions, NEW x \in Applications, SubmitNew(s, x) PROVE IInv'
<1>1. Serving(s, "submit", "commit") /\ applications[x] = None /\ audits' = audits /\ Return(s)
  BY DEF SubmitNew
<1>2. PICK w \in Users, k \in Keys : w = call[s].user /\ k = call[s].request.key
  BY <1>1, Served, RequestFields
<1> DEFINE p == Existing(w)
           new == [user |-> w, key |-> k, status |-> "PENDING"]
<1>3. call[s].before = p /\ call[s].pc = "commit"
  BY <1>1, <1>2, Served DEF SessionInv
<1>4. /\ MayApply(p) /\ applications' = [applications EXCEPT ![x] = new]
      /\ profiles' = [profiles EXCEPT ![w] = Applied(p, x)]
  BY <1>2, <1>3 DEF SubmitNew
<1>5. p \in Profile
  BY ExistingIsProfile DEF IInv
<1>6. new \in Application /\ new.user = w /\ new.status = "PENDING" /\ new # None
  BY MembershipAssumption DEF MembershipAssumption, Application
<1>7. /\ Applied(p, x) \in Profile /\ Applied(p, x).status = "PENDING"
      /\ Applied(p, x).application = x /\ Applied(p, x) # None
  <2> HIDE DEF p
  <2> QED
    BY <1>5, AppliedFields, MembershipAssumption DEF MembershipAssumption
<1> HIDE DEF new
<1>8. /\ applications'[x] = new /\ \A y \in Applications : y # x => applications'[y] = applications[y]
      /\ profiles'[w] = Applied(p, x) /\ \A v \in Users : v # w => profiles'[v] = profiles[v]
      /\ applications' \in [Applications -> Application \cup {None}]
      /\ profiles' \in [Users -> Profile \cup {None}]
  BY <1>4, <1>6, <1>7 DEF IInv, TypeOK
<1>9. \A y \in Applications : applications[y] # None => applications'[y] = applications[y]
  BY <1>1, <1>8
<1>10. Exclusive' /\ call' \in [Sessions -> Call] /\ \A t \in Sessions : SessionInv(t)'
  BY <1>1, <1>2, <1>3, <1>8, <1>9, Commits
<1>11. TypeOK'
  BY <1>1, <1>8, <1>10 DEF IInv, TypeOK
<1>12. ReviewsDone' /\ DecisionsStand'
  <2>1. \A a \in audits : a.command.action = "REVIEW" =>
          a.command.target \in Applications /\ applications[a.command.target] # None
    BY DEF IInv, ReviewsDone, TypeOK, Audit, Command
  <2> QED
    BY <1>1, <1>9, <2>1 DEF IInv, ReviewsDone, DecisionsStand
<1>13. Of(w)' = Of(w) \cup {x} /\ x \notin Of(w) /\ \A v \in Users : v # w => Of(v)' = Of(v)
  BY <1>1, <1>6, <1>8 DEF Of
<1>14. \A y \in Of(w) : applications[y].status = "REJECTED"
  <2>1. CASE profiles[w] = None
    BY <2>1 DEF IInv, ProfileAgrees
  <2>2. CASE profiles[w] # None
    <3>1. /\ p = profiles[w] /\ p.application \in Of(w)
          /\ applications[p.application].status = (IF p.status = "DISABLED" THEN "ENABLED" ELSE p.status)
          /\ \A y \in Of(w) \ {p.application} : applications[y].status = "REJECTED"
      BY <2>2 DEF IInv, ProfileAgrees, Existing
    <3>2. applications[p.application].status \in {"PENDING", "ENABLED", "REJECTED"}
      BY <3>1 DEF Of, IInv, TypeOK, Application
    <3>3. p.status = "REJECTED"
      BY <1>4, <3>1, <3>2 DEF MayApply
    <3> QED
      BY <3>1, <3>3
  <2> QED
    BY <2>1, <2>2
<1>15. ProfileAgrees'
  <2>1. ASSUME NEW v \in Users, v # w
        PROVE  IF profiles'[v] = None THEN Of(v)' = {}
               ELSE LET q == profiles'[v] IN
                 /\ q.application \in Of(v)'
                 /\ applications'[q.application].status =
                      (IF q.status = "DISABLED" THEN "ENABLED" ELSE q.status)
                 /\ \A y \in Of(v)' \ {q.application} : applications'[y].status = "REJECTED"
    <3>1. profiles'[v] = profiles[v] /\ Of(v)' = Of(v)
      BY <1>8, <1>13, <2>1
    <3>2. \A y \in Of(v) : applications'[y] = applications[y]
      BY <1>9 DEF Of
    <3> QED
      BY <3>1, <3>2 DEF IInv, ProfileAgrees
  <2>2. \A y \in Of(w) : applications'[y].status = "REJECTED"
    BY <1>9, <1>14 DEF Of
  <2> HIDE DEF p
  <2>3. /\ profiles'[w].application \in Of(w)'
        /\ applications'[profiles'[w].application].status = "PENDING" /\ profiles'[w].status = "PENDING"
        /\ \A y \in Of(w)' \ {profiles'[w].application} : applications'[y].status = "REJECTED"
    BY <1>6, <1>7, <1>8, <1>13, <2>2
  <2>4. profiles'[w] # None
    BY <1>7, <1>8
  <2> QED
    BY <2>1, <2>3, <2>4 DEF ProfileAgrees
<1> QED
  BY <1>10, <1>11, <1>12, <1>15 DEF IInv

LEMMA DecideInv == ASSUME IInv, NEW s \in Sessions, Decide(s) PROVE IInv'
<1>1. Serving(s, "admin", "commit") /\ Return(s)
  BY DEF Decide
<1>2. PICK w \in Users, r \in Request : w = call[s].user /\ r = call[s].request
  BY <1>1, Served
<1>3. PICK c \in Command : c = r.command
  BY <1>1, <1>2, Served
<1> DEFINE p == profiles[w]
           after == Decided(p, c)
           new == [actor |-> r.actor, command |-> c, user |-> w, before |-> p, after |-> after]
<1>4. /\ call[s].before = p /\ p \in Profile /\ p # None /\ call[s].pc = "commit"
      /\ w = Concerns(c) /\ w # r.actor /\ AuditsIn(r) = {} /\ r.actor \in Actors
  BY <1>1, <1>2, <1>3, Served DEF SessionInv, Existing, TypeOK
<1>5. /\ MayDecide(p, c) /\ Writable(r) /\ Reviewed(c, after)
      /\ profiles' = [profiles EXCEPT ![w] = after] /\ audits' = audits \cup {new}
  BY <1>2, <1>3, <1>4 DEF Decide
<1>6. /\ after \in Profile /\ after.version = p.version + 1 /\ after.application = p.application
      /\ after.status = IF c.action = "DISABLE" THEN "DISABLED"
                        ELSE IF c.approve THEN "ENABLED" ELSE "REJECTED"
      /\ after # None
  <2> HIDE DEF p
  <2> QED
    BY <1>4, DecidedFields, MembershipAssumption DEF MembershipAssumption
<1>7. /\ new \in Audit /\ new.actor = r.actor /\ new.command = c /\ new.user = w
      /\ new.before = p /\ new.after = after
  <2> HIDE DEF p, after
  <2> QED
    BY <1>4, <1>6 DEF Audit
<1> HIDE DEF after, new
<1>8. /\ profiles'[w] = after /\ \A v \in Users : v # w => profiles'[v] = profiles[v]
      /\ profiles' \in [Users -> Profile \cup {None}]
  BY <1>5, <1>6 DEF IInv, TypeOK
<1>9. c.action = "REVIEW" =>
        /\ c.target \in Applications /\ applications[c.target] # None
        /\ applications[c.target] \in Application /\ applications[c.target].user = w
        /\ applications[c.target].status = "PENDING" /\ p.application = c.target /\ p.status = "PENDING"
  <2> SUFFICES ASSUME c.action = "REVIEW"
               PROVE  /\ c.target \in Applications /\ applications[c.target] # None
                      /\ applications[c.target] \in Application /\ applications[c.target].user = w
                      /\ applications[c.target].status = "PENDING" /\ p.application = c.target
                      /\ p.status = "PENDING"
    OBVIOUS
  <2>1. c.target \in Applications
    BY DEF Command
  <2>2. w # None
    BY MembershipAssumption DEF MembershipAssumption
  <2>3. applications[c.target] # None /\ applications[c.target].user = w
    BY <1>4, <2>2 DEF Concerns
  <2> QED
    BY <1>3, <1>5, <2>1, <2>3 DEF IInv, TypeOK, MayDecide, Writable
<1>10. c.action # "REVIEW" => applications' = applications
  BY <1>5 DEF Reviewed
<1>11. c.action = "REVIEW" =>
         /\ applications'[c.target] = [applications[c.target] EXCEPT !.status = after.status]
         /\ \A y \in Applications : y # c.target => applications'[y] = applications[y]
         /\ after.status \in {"ENABLED", "REJECTED"} /\ (c.approve <=> after.status = "ENABLED")
  BY <1>5, <1>6, <1>9 DEF Reviewed, IInv, TypeOK
<1>12. c.action = "REVIEW" =>
         /\ applications'[c.target] \in Application /\ applications'[c.target].user = w
         /\ applications'[c.target].status = after.status /\ applications'[c.target] # None
  BY <1>9, <1>11, MembershipAssumption DEF MembershipAssumption, Application
<1>13. applications' \in [Applications -> Application \cup {None}]
  <2>1. CASE c.action = "REVIEW"
    BY <1>5, <1>9, <1>11, <1>12, <2>1 DEF Reviewed, IInv, TypeOK
  <2>2. CASE c.action # "REVIEW"
    BY <1>10, <2>2 DEF IInv, TypeOK
  <2> QED
    BY <2>1, <2>2
<1>14. \A y \in Applications : applications[y] # None =>
         applications'[y] # None /\ applications'[y].user = applications[y].user
  BY <1>9, <1>10, <1>11, <1>12
<1>15. Exclusive' /\ call' \in [Sessions -> Call] /\ \A t \in Sessions : SessionInv(t)'
  <2>1. Scope(new) = Scope(r)
    BY <1>3, <1>7 DEF Scope
  <2>2. \A t \in Sessions \ {s} : Serving(t, "admin", "profile") \/ Serving(t, "admin", "commit") =>
          Scope(new) # Scope(call[t].request)
    BY <1>1, <1>2, <2>1 DEF IInv, Exclusive
  <2>3. \A a \in audits' : a \in audits \/
          \A t \in Sessions \ {s} : Serving(t, "admin", "profile") \/ Serving(t, "admin", "commit") =>
            Scope(a) # Scope(call[t].request)
    BY <1>5, <2>2
  <2>4. call[s].pc = "commit" /\ call[s].user = w
    BY <1>2, <1>4
  <2>5. \A v \in Users : v # w => profiles'[v] = profiles[v]
    BY <1>8
  <2> HIDE DEF p
  <2> QED
    BY <1>1, <1>14, <2>3, <2>4, <2>5, Commits, Zenon
<1>16. TypeOK'
  BY <1>5, <1>7, <1>8, <1>13, <1>15 DEF IInv, TypeOK
<1>17. \A a \in audits : a.command.action = "REVIEW" =>
         /\ a.command.target \in Applications /\ applications[a.command.target] # None
         /\ applications[a.command.target].status # "PENDING"
         /\ applications'[a.command.target] = applications[a.command.target]
  <2> SUFFICES ASSUME NEW a \in audits, a.command.action = "REVIEW"
               PROVE  /\ a.command.target \in Applications /\ applications[a.command.target] # None
                      /\ applications[a.command.target].status # "PENDING"
                      /\ applications'[a.command.target] = applications[a.command.target]
    OBVIOUS
  <2>1. a.command.target \in Applications /\ applications[a.command.target] # None
    BY DEF IInv, ReviewsDone, TypeOK, Audit, Command
  <2>2. applications[a.command.target].status # "PENDING"
    BY DEF IInv, ReviewsDone, DecisionsStand
  <2> QED
    BY <1>9, <1>10, <1>11, <2>1, <2>2
<1>18. ReviewsDone'
  BY <1>5, <1>7, <1>11, <1>12, <1>17 DEF IInv, ReviewsDone
<1>19. DecisionsStand'
  <2>1. ASSUME NEW a \in audits
        PROVE  /\ a.actor # a.user
               /\ a.before.version = a.command.version /\ a.after.version = a.before.version + 1
               /\ a.command.action = "REVIEW" =>
                    /\ a.before.application = a.command.target
                    /\ applications'[a.command.target].status = a.after.status
                    /\ a.command.approve <=> a.after.status = "ENABLED"
    BY <1>17 DEF IInv, DecisionsStand
  <2>2. p.version = c.version
    BY <1>5 DEF MayDecide
  <2>3. /\ new.actor # new.user
        /\ new.before.version = new.command.version /\ new.after.version = new.before.version + 1
        /\ new.command.action = "REVIEW" =>
             /\ new.before.application = new.command.target
             /\ applications'[new.command.target].status = new.after.status
             /\ new.command.approve <=> new.after.status = "ENABLED"
    BY <1>4, <1>6, <1>7, <1>9, <1>11, <1>12, <2>2
  <2> QED
    BY <1>5, <2>1, <2>3 DEF DecisionsStand
<1>20. \A v \in Users : Of(v)' = Of(v)
  BY <1>9, <1>10, <1>11, <1>12, <1>14 DEF Of
<1>21. ProfileAgrees'
  <2>1. /\ p.application \in Of(w)
        /\ applications[p.application].status = (IF p.status = "DISABLED" THEN "ENABLED" ELSE p.status)
        /\ \A y \in Of(w) \ {p.application} : applications[y].status = "REJECTED"
    BY <1>4 DEF IInv, ProfileAgrees
  <2>2. ASSUME NEW v \in Users, v # w
        PROVE  IF profiles'[v] = None THEN Of(v)' = {}
               ELSE LET q == profiles'[v] IN
                 /\ q.application \in Of(v)'
                 /\ applications'[q.application].status =
                      (IF q.status = "DISABLED" THEN "ENABLED" ELSE q.status)
                 /\ \A y \in Of(v)' \ {q.application} : applications'[y].status = "REJECTED"
    <3>1. \A y \in Of(v) : applications'[y] = applications[y]
      BY <1>9, <1>10, <1>11, <2>2 DEF Of
    <3>2. profiles'[v] = profiles[v] /\ Of(v)' = Of(v)
      BY <1>8, <1>20, <2>2
    <3> QED
      BY <3>1, <3>2 DEF IInv, ProfileAgrees
  <2>3. /\ applications'[p.application].status =
             (IF after.status = "DISABLED" THEN "ENABLED" ELSE after.status)
        /\ \A y \in Of(w) \ {p.application} : applications'[y].status = "REJECTED"
    <3>1. CASE c.action = "REVIEW"
      BY <1>9, <1>11, <1>12, <2>1, <3>1 DEF Of
    <3>2. CASE c.action # "REVIEW"
      <4>1. c.action = "DISABLE"
        BY <3>2 DEF Command
      <4>2. p.status = "ENABLED" /\ after.status = "DISABLED"
        BY <1>5, <1>6, <4>1 DEF MayDecide
      <4> QED
        BY <1>10, <2>1, <3>2, <4>2
    <3> QED
      BY <3>1, <3>2
  <2> QED
    BY <1>6, <1>8, <1>20, <2>1, <2>2, <2>3 DEF ProfileAgrees
<1> QED
  BY <1>15, <1>16, <1>18, <1>19, <1>21 DEF IInv

-----------------------------------------------------------------------------
\* The commands TLC enumerates are commands.
LEMMA CommandsAreCommand == Commands \subseteq Command
<1>1. Cardinality(Applications) \in Nat
  BY MembershipAssumption, FS_CardinalityType DEF MembershipAssumption
<1>2. 1..2 * Cardinality(Applications) + 1 \subseteq Nat
  BY <1>1
<1> QED
  BY <1>2 DEF Commands, Command

LEMMA NextInv == ASSUME IInv, [Next]_vars PROVE IInv'
<1>1. ASSUME NEW s \in Sessions, Step(s) PROVE IInv'
  <2>1. CASE SubmitNothing(s) \/ Refuse(s) \/ Abort(s)
    BY <2>1, ReturnInv DEF SubmitNothing, Refuse, Abort
  <2> QED
    BY <1>1, <2>1, LockOwnProfileInv, SubmitNewInv, LockScopeInv, LockProfileInv, DecideInv DEF Step
<1>2. CASE UNCHANGED vars
  BY <1>2 DEF vars, IInv, TypeOK, Exclusive, ReviewsDone, ProfileAgrees, DecisionsStand, Of,
              SessionInv, Concerns, AuditsIn, Scope, Existing, Serving
<1>3. ASSUME NEW s \in Sessions, NEW a \in Actors, NEW c \in Commands, Execute(s, a, c) PROVE IInv'
  BY <1>3, CommandsAreCommand, ExecuteInv
<1> QED
  BY <1>1, <1>2, <1>3, SubmitInv DEF Next

\* The invariant holds in every behaviour: the locks, what they protect, and the properties.
THEOREM Inductive == Spec => []IInv
<1>1. Init => IInv
  BY InitInv
<1>2. IInv /\ [Next]_vars => IInv'
  BY NextInv
<1> QED
  BY <1>1, <1>2, PTL DEF Spec

\* A profile and its applications tell the same story after every Submit and ExecuteAdmin.
THEOREM ProfilesAgree == Spec => []ProfileAgrees
<1>1. IInv => ProfileAgrees
  BY DEF IInv
<1> QED
  BY <1>1, Inductive, PTL

\* Each audited decision stands as it was taken, by somebody else, on the version seen.
THEOREM DecisionsStay == Spec => []DecisionsStand
<1>1. IInv => DecisionsStand
  BY DEF IInv
<1> QED
  BY <1>1, Inductive, PTL

\* What a transaction read under its locks is so until it ends.
THEOREM ReadsHold == Spec => []NotOvertaken
<1>1. IInv => NotOvertaken
  BY DEF IInv, SessionInv, Serving, NotOvertaken
<1> QED
  BY <1>1, Inductive, PTL

=============================================================================
