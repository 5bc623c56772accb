----------------------------- MODULE Membership -----------------------------
(***************************************************************************)
(* Becoming and remaining a promoter (internal/promoter): a user submits   *)
(* applications, PostgresRepository.Submit, and administrators review them *)
(* or disable the profile, PostgresRepository.ExecuteAdmin.                *)
(*                                                                         *)
(* Both are transactions.  Submit locks the user's profile row; ExecuteAdmin *)
(* first takes an advisory lock on (actor, action, key) and looks for its  *)
(* own audit, and then locks the profile of the user its command concerns. *)
(* What a transaction writes is visible when it commits, so its writes are *)
(* part of its last step, and the locks are those of the steps in between. *)
(* Reasons, names and scenes are left out: nothing here is decided by them.*)
(***************************************************************************)
EXTENDS Naturals, FiniteSets

CONSTANTS
  Sessions,      \* goroutines serving calls, each with its own connection
  Users,
  Actors,        \* administrators; one may be a user as well
  Applications,  \* application ids
  Keys,          \* idempotency keys
  None

VARIABLES
  profiles,       \* promoter_profiles
  applications,   \* promoter_applications
  audits,         \* promoter_admin_audits
  call            \* the call each session serves

vars == <<profiles, applications, audits, call>>

-----------------------------------------------------------------------------
Status == {"NOT_APPLIED", "PENDING", "ENABLED", "REJECTED", "DISABLED"}

Profile == [status : Status, application : Applications \cup {None}, version : Nat]

Application == [user : Users, key : Keys,
                status : {"PENDING", "ENABLED", "REJECTED"}]

\* target is the application to review, or the user to disable.
Command ==
  [action : {"REVIEW"}, target : Applications, approve : BOOLEAN, version : Nat, key : Keys]
    \cup [action : {"DISABLE"}, target : Users, approve : {FALSE}, version : Nat, key : Keys]

Audit == [actor : Actors, command : Command, user : Users, before : Profile, after : Profile]

NewProfile == [status |-> "NOT_APPLIED", application |-> None, version |-> 0]

Request ==
  [op : {"submit"}, key : Keys] \cup [op : {"admin"}, actor : Actors, command : Command]

ASSUME MembershipAssumption ==
  /\ None \notin Users \cup Applications \cup Profile \cup Application \cup Request
  /\ IsFiniteSet(Applications)

\* user is whose profile the call is about, before that profile as it was read.
Call == [pc : {"idle", "scope", "profile", "commit"}, request : Request \cup {None},
         user : Users \cup {None}, before : Profile \cup {None}]

IdleCall == [pc |-> "idle", request |-> None, user |-> None, before |-> None]

Init ==
  /\ profiles     = [u \in Users |-> None]
  /\ applications = [x \in Applications |-> None]
  /\ audits       = {}
  /\ call         = [s \in Sessions |-> IdleCall]

-----------------------------------------------------------------------------
(* Profile.Apply, Review and Disable.                                      *)

\* Mutant: whoever is not enabled may apply.
AppliesAgain(p) == p.status \in {"NOT_APPLIED", "REJECTED", "DISABLED"}

MayApply(p) == p.status \in {"NOT_APPLIED", "REJECTED"}

Applied(p, x) == [status |-> "PENDING", application |-> x, version |-> p.version + 1]

Decided(p, c) ==
  [p EXCEPT !.version = @ + 1,
            !.status = CASE c.action = "DISABLE" -> "DISABLED"
                         [] c.approve            -> "ENABLED"
                         [] OTHER                -> "REJECTED"]

\* The administrator names the version seen; only what is pending is reviewed.
MayDecide(p, c) ==
  /\ p.version = c.version
  /\ IF c.action = "REVIEW" THEN p.application = c.target /\ p.status = "PENDING"
                            ELSE p.status = "ENABLED"

-----------------------------------------------------------------------------
(* Locks, and the ends of transactions.                                    *)

Become(s, next) == call' = [call EXCEPT ![s] = next]

\* The call returns; commit and rollback both release its locks.
Return(s) == Become(s, IdleCall)

\* Session s serves a call of this kind and has got this far.
Serving(s, op, pc) == call[s].pc = pc /\ call[s].request.op = op

\* The profile row is locked from the read of it to the end.
ProfileFree(s, u) ==
  \A t \in Sessions \ {s} : ~(call[t].pc = "commit" /\ call[t].user = u)

Scope(r) == <<r.actor, r.command.action, r.command.key>>

\* Mutant: the scope is not locked.
ScopeFreeUnlocked(s) == TRUE

\* The advisory lock is held from the look at the audits to the end.
ScopeFree(s) ==
  \A t \in Sessions \ {s} :
    Serving(t, "admin", "profile") \/ Serving(t, "admin", "commit") =>
      Scope(call[t].request) # Scope(call[s].request)

Locked(s, row) == [call[s] EXCEPT !.pc = "commit", !.before = row]

AuditsIn(r) == {x \in audits : Scope(x) = Scope(r)}

\* A call fails, is cancelled or dies at any of its steps and is rolled back.
Abort(s) ==
  /\ call[s].pc # "idle"
  /\ Return(s)
  /\ UNCHANGED <<profiles, applications, audits>>

-----------------------------------------------------------------------------
(* PostgresRepository.Submit.                                              *)

Submit(s, u, k) ==
  /\ call[s].pc = "idle"
  /\ Become(s, [IdleCall EXCEPT !.pc = "profile", !.user = u,
                                !.request = [op |-> "submit", key |-> k]])
  /\ UNCHANGED <<profiles, applications, audits>>

\* A first applicant's row is inserted, and locked, by the same two statements.
Existing(u) == IF profiles[u] = None THEN NewProfile ELSE profiles[u]

LockOwnProfile(s) ==
  LET u == call[s].user IN
  /\ Serving(s, "submit", "profile")
  /\ ProfileFree(s, u)
  /\ Become(s, Locked(s, Existing(u)))
  /\ UNCHANGED <<profiles, applications, audits>>

WithKey(u, k) ==
  {x \in Applications : applications[x] # None /\ applications[x].user = u /\ applications[x].key = k}

\* A known key answers what was submitted under it, or a conflict; and who is
\* pending, enabled or disabled may not apply.
SubmitNothing(s) ==
  LET me == call[s] IN
  /\ Serving(s, "submit", "commit")
  /\ WithKey(me.user, me.request.key) # {} \/ ~MayApply(me.before)
  /\ Return(s)
  /\ UNCHANGED <<profiles, applications, audits>>

\* One pending application per user is also what the unique index demands.
SubmitNew(s, x) ==
  LET me == call[s] IN
  /\ Serving(s, "submit", "commit")
  /\ WithKey(me.user, me.request.key) = {} /\ MayApply(me.before)
  /\ applications[x] = None
  /\ \A y \in Applications :
       applications[y] # None /\ applications[y].user = me.user => applications[y].status # "PENDING"
  /\ applications' = [applications EXCEPT ![x] =
       [user |-> me.user, key |-> me.request.key, status |-> "PENDING"]]
  /\ profiles' = [profiles EXCEPT ![me.user] = Applied(me.before, x)]
  /\ Return(s)
  /\ UNCHANGED audits

-----------------------------------------------------------------------------
(* PostgresRepository.ExecuteAdmin.                                        *)

Execute(s, a, c) ==
  /\ call[s].pc = "idle"
  /\ Become(s, [IdleCall EXCEPT !.pc = "scope",
                                !.request = [op |-> "admin", actor |-> a, command |-> c]])
  /\ UNCHANGED <<profiles, applications, audits>>

\* The user a command concerns; an application's user never changes.
Concerns(c) ==
  IF c.action = "DISABLE" THEN c.target
  ELSE IF applications[c.target] = None THEN None ELSE applications[c.target].user

\* Mutant: an administrator may decide about himself.
LockScopeOwn(s) ==
  LET r == call[s].request IN
  /\ Serving(s, "admin", "scope")
  /\ ScopeFree(s)
  /\ IF AuditsIn(r) = {} /\ Concerns(r.command) # None
     THEN Become(s, [call[s] EXCEPT !.pc = "profile", !.user = Concerns(r.command)])
     ELSE Return(s)
  /\ UNCHANGED <<profiles, applications, audits>>

\* A repeated command answers what its audit says, and another one under the
\* same key is refused; nobody decides about himself.
LockScope(s) ==
  LET r == call[s].request IN
  /\ Serving(s, "admin", "scope")
  /\ ScopeFree(s)
  /\ IF AuditsIn(r) = {} /\ Concerns(r.command) \notin {None, r.actor}
     THEN Become(s, [call[s] EXCEPT !.pc = "profile", !.user = Concerns(r.command)])
     ELSE Return(s)
  /\ UNCHANGED <<profiles, applications, audits>>

LockProfile(s) ==
  LET me == call[s] IN
  /\ Serving(s, "admin", "profile")
  /\ ProfileFree(s, me.user)
  /\ IF profiles[me.user] = None THEN Return(s) ELSE Become(s, Locked(s, profiles[me.user]))
  /\ UNCHANGED <<profiles, applications, audits>>

Reviewed(c, after) ==
  IF c.action = "REVIEW"
  THEN applications' = [applications EXCEPT ![c.target].status = after.status]
  ELSE UNCHANGED applications

\* What the final statements demand: the application is still PENDING, and the
\* audit's scope is unused (a unique constraint).
Writable(r) ==
  /\ r.command.action = "REVIEW" => applications[r.command.target].status = "PENDING"
  /\ AuditsIn(r) = {}

Decide(s) ==
  LET me    == call[s]
      r     == call[s].request
      after == Decided(me.before, r.command)
  IN
  /\ Serving(s, "admin", "commit")
  /\ MayDecide(me.before, r.command) /\ Writable(r)
  /\ Reviewed(r.command, after)
  /\ profiles' = [profiles EXCEPT ![me.user] = after]
  /\ audits' = audits \cup {[actor |-> r.actor, command |-> r.command, user |-> me.user,
                             before |-> me.before, after |-> after]}
  /\ Return(s)

Refuse(s) ==
  LET me == call[s] IN
  /\ Serving(s, "admin", "commit")
  /\ ~MayDecide(me.before, me.request.command) \/ ~Writable(me.request)
  /\ Return(s)
  /\ UNCHANGED <<profiles, applications, audits>>

-----------------------------------------------------------------------------
\* An administrator acts on a version seen in some list, so it is not ahead.
Seen(c) ==
  LET u == Concerns(c) IN
  u # None => profiles[u] # None /\ c.version \in 1..profiles[u].version

\* Versions are bounded by what the finite set of applications allows.
Commands == {c \in [action : {"REVIEW"}, target : Applications, approve : BOOLEAN,
                    version : 1..2 * Cardinality(Applications) + 1, key : Keys]
               \cup [action : {"DISABLE"}, target : Users, approve : {FALSE},
                    version : 1..2 * Cardinality(Applications) + 1, key : Keys] : Seen(c)}

Step(s) ==
  \/ LockOwnProfile(s) \/ SubmitNothing(s) \/ \E x \in Applications : SubmitNew(s, x)
  \/ LockScope(s) \/ LockProfile(s) \/ Decide(s) \/ Refuse(s) \/ Abort(s)

Next ==
  \E s \in Sessions :
    \/ \E u \in Users, k \in Keys : Submit(s, u, k)
    \/ \E a \in Actors, c \in Commands : Execute(s, a, c)
    \/ Step(s)

Spec == Init /\ [][Next]_vars

-----------------------------------------------------------------------------
(* Properties.                                                             *)

\* Types of the variables.
TypeOK ==
  /\ profiles     \in [Users -> Profile \cup {None}]
  /\ applications \in [Applications -> Application \cup {None}]
  /\ audits       \subseteq Audit
  /\ call         \in [Sessions -> Call]

Of(u) == {x \in Applications : applications[x] # None /\ applications[x].user = u}

\* A profile and its current application tell the same story, and every other
\* application of the user was rejected (postgres_repository.go:25-27).
ProfileAgrees ==
  \A u \in Users :
    IF profiles[u] = None THEN Of(u) = {}
    ELSE LET p == profiles[u] IN
      /\ p.application \in Of(u)
      /\ applications[p.application].status =
           (IF p.status = "DISABLED" THEN "ENABLED" ELSE p.status)
      /\ \A x \in Of(u) \ {p.application} : applications[x].status = "REJECTED"

\* Each decision still stands as audited: taken by somebody else on the version
\* seen, and a reviewed application keeps the status it was given.
DecisionsStand ==
  \A a \in audits :
    /\ a.actor # a.user
    /\ a.before.version = a.command.version /\ a.after.version = a.before.version + 1
    /\ a.command.action = "REVIEW" =>
         /\ a.before.application = a.command.target
         /\ applications[a.command.target].status = a.after.status
         /\ a.command.approve <=> a.after.status = "ENABLED"

\* What a transaction has read stays true until it ends: a retry running beside
\* the first call finds its audit instead of a conflict, and the profile read is
\* the profile written.
NotOvertaken ==
  \A s \in Sessions :
    /\ Serving(s, "admin", "profile") \/ Serving(s, "admin", "commit") =>
         AuditsIn(call[s].request) = {}
    /\ call[s].pc = "commit" => call[s].before = Existing(call[s].user)

=============================================================================
