----------------------------- MODULE LockProofs -----------------------------
(***************************************************************************)
(* What rests on PostgreSQL's locks: conversions reserved and claimed      *)
(* under row locks while their promoter is reconfigured (Reservation), and *)
(* migrations under a session lock (Migrate).  The two share no state and  *)
(* no definition; each has its invariant and its theorems.                 *)
(***************************************************************************)
EXTENDS Reservation, Migrate, TLAPS

-----------------------------------------------------------------------------
(***************************************************************************)
(* Part I.  Reservation, for any number of sessions.  The argument: a      *)
(* transaction holds the locks of the steps it has taken and no others;    *)
(* what it read under a lock stays so, because whoever commits a change to *)
(* a row holds it for update; and every script locks profile, position,    *)
(* then mapping or request, so that whoever is waited for is further.      *)
(***************************************************************************)
InTransaction == {"lock", "commit"}

BeforeTransaction == {"find", "replay", "check", "preview", "requote", "recheck"}

\* The lock a transaction took at its i-th step.
LockAt(s, i) ==
  [by |-> s, row |-> RowOf(tx[s], Script[tx[s].op][i][1]), mode |-> Script[tx[s].op][i][2]]

Holds(s, i) == tx[s].pc \in InTransaction /\ i < tx[s].step

\* Open transactions hold the locks of the steps they have taken, and nobody any other.
HeldInv ==
  /\ \A s \in Sessions, i \in 1..3 : Holds(s, i) => LockAt(s, i) \in held
  /\ \A h \in held : \E s \in Sessions, i \in 1..3 : Holds(s, i) /\ h = LockAt(s, i)

\* Two holders of one row share it.
CompatibleInv ==
  \A g, h \in held : g.row = h.row /\ g.by # h.by => g.mode = "share" /\ h.mode = "share"

\* A mapping that was configured has an account.
MappingInv == \A p \in Positions : mapping[p].status # "ABSENT" => mapping[p].account \in Accounts

KeysInv == \A i, j \in DOMAIN requests : requests[i].key = requests[j].key => i = j

\* How far a call is, and the arguments it has by then.
CallInv(me) ==
  /\ me.pc = "idle" => me.op \in {"none", "reserve"}
  /\ me.pc \in BeforeTransaction => me.op = "reserve"
  /\ me.pc \in InTransaction => me.op # "none"
  /\ me.pc = "lock" => me.step <= Len(Script[me.op])
  /\ me.pc = "commit" => me.step = Len(Script[me.op]) + 1
  /\ me.pc \notin InTransaction => me.step = 1
  /\ me.op = "reserve" => me.key \in Keys /\ me.preview \in Previews
  /\ me.op \in {"reserve", "claim", "changePosition", "configure"} => me.position \in Positions
  /\ me.op = "configure" => me.account \in Accounts
  /\ me.op = "reserve" /\ me.pc \in {"preview", "requote", "recheck", "lock", "commit"} =>
       me.account \in Accounts

\* The request a call names is there, and is the one it asked for.
AnswerInv(me) ==
  /\ me.op = "reserve" /\ me.pc = "replay" => me.answer # 0
  /\ me.op = "reserve" /\ me.answer # 0 =>
       /\ me.answer \in DOMAIN requests
       /\ requests[me.answer].key = me.key /\ SameFingerprint(me, requests[me.answer])
  /\ me.op = "claim" =>
       me.answer \in DOMAIN requests /\ requests[me.answer].position = me.position

\* What a transaction has read under a lock it holds is still so.
LockedInv(me) ==
  me.pc \in InTransaction =>
    /\ me.step > 1 => profile = "ENABLED" /\ (me.op = "reserve" => WithKey(me.key) = {})
    /\ me.step > 2 => position[me.position] = "ENABLED"
    /\ me.step > 3 /\ me.op = "reserve" =>
         mapping[me.position] = [status |-> "READY", account |-> me.account]
    /\ me.step > 3 /\ me.op = "claim" => requests[me.answer].status = "PENDING"

SessionInv(me) == CallInv(me) /\ AnswerInv(me) /\ LockedInv(me)

IInv ==
  /\ TypeOK /\ HeldInv /\ CompatibleInv /\ MappingInv /\ KeysInv
  /\ \A s \in Sessions : SessionInv(tx[s])

-----------------------------------------------------------------------------
\* What the scripts say, written out: profile, position, then mapping or request.
LEMMA Scripts ==
  /\ DOMAIN Script = {"reserve", "claim", "changePosition", "configure", "disableProfile"}
  /\ Len(Script["reserve"]) = 3 /\ Len(Script["claim"]) = 3 /\ Len(Script["configure"]) = 3
  /\ Len(Script["changePosition"]) = 2 /\ Len(Script["disableProfile"]) = 1
  /\ Script["reserve"][1] = <<"profile", "update">>
  /\ Script["reserve"][2] = <<"position", "update">>
  /\ Script["reserve"][3] = <<"mapping", "share">>
  /\ Script["claim"][1] = <<"profile", "share">>
  /\ Script["claim"][2] = <<"position", "share">>
  /\ Script["claim"][3] = <<"request", "update">>
  /\ Script["changePosition"][1] = <<"profile", "update">>
  /\ Script["changePosition"][2] = <<"position", "update">>
  /\ Script["configure"][1] = <<"profile", "update">>
  /\ Script["configure"][2] = <<"position", "update">>
  /\ Script["configure"][3] = <<"mapping", "update">>
  /\ Script["disableProfile"][1] = <<"profile", "update">>
BY DEF Script, ScriptOf, ReserveLocks, ClaimLocks, ConfigureLocks

\* The rows that are locked at each step, for a call of each kind.
LEMMA ScriptSteps ==
  ASSUME NEW op \in DOMAIN Script, NEW i \in 1..Len(Script[op])
  PROVE  /\ i \in 1..3 /\ Script[op][i][2] \in {"share", "update"}
         /\ i = 1 <=> Script[op][i][1] = "profile"
         /\ i = 2 <=> Script[op][i][1] = "position"
         /\ i = 3 <=> Script[op][i][1] \in {"mapping", "request"}
         /\ Script[op][i][1] = "request" => op = "claim"
         /\ i = 3 => op \in {"reserve", "claim", "configure"}
         /\ i = 3 /\ op = "reserve" => Script[op][i][1] = "mapping"
         /\ i = 3 /\ op = "claim" => Script[op][i][1] = "request"
         /\ i = 2 => op # "disableProfile"
         /\ op # "claim" /\ i < 3 => Script[op][i][2] = "update"
<1>1. op \in {"reserve", "claim", "changePosition", "configure", "disableProfile"}
  BY Scripts
<1>2. CASE op = "reserve"
  <2>1. i = 1 \/ i = 2 \/ i = 3
    BY <1>2, Scripts
  <2> QED
    BY <1>2, <2>1, Scripts
<1>3. CASE op = "claim"
  <2>1. i = 1 \/ i = 2 \/ i = 3
    BY <1>3, Scripts
  <2> QED
    BY <1>3, <2>1, Scripts
<1>4. CASE op = "configure"
  <2>1. i = 1 \/ i = 2 \/ i = 3
    BY <1>4, Scripts
  <2> QED
    BY <1>4, <2>1, Scripts
<1>5. CASE op = "changePosition"
  <2>1. i = 1 \/ i = 2
    BY <1>5, Scripts
  <2> QED
    BY <1>5, <2>1, Scripts
<1>6. CASE op = "disableProfile"
  <2>1. i = 1
    BY <1>6, Scripts
  <2> QED
    BY <1>6, <2>1, Scripts
<1> QED
  BY <1>1, <1>2, <1>3, <1>4, <1>5, <1>6

\* Lengths bound the steps.
LEMMA ScriptLengths ==
  ASSUME NEW op \in DOMAIN Script
  PROVE  Len(Script[op]) \in 1..3
<1>1. op \in {"reserve", "claim", "changePosition", "configure", "disableProfile"}
  BY Scripts
<1> QED
  BY <1>1, Scripts

-----------------------------------------------------------------------------
\* A session stays one when a field of it is set.
LEMMA SessionUpdates ==
  ASSUME NEW m \in Session
  PROVE  /\ \A op \in DOMAIN Script : [m EXCEPT !.op = op] \in Session
         /\ \A pc \in {"idle"} \cup BeforeTransaction \cup InTransaction : [m EXCEPT !.pc = pc] \in Session
         /\ \A i \in 1..4 : [m EXCEPT !.step = i] \in Session
         /\ \A k \in Keys : [m EXCEPT !.key = k] \in Session
         /\ \A p \in Positions : [m EXCEPT !.position = p] \in Session
         /\ \A v \in Previews : [m EXCEPT !.preview = v] \in Session
         /\ \A a \in Accounts \cup {None} : [m EXCEPT !.account = a] \in Session
         /\ \A n \in Nat : [m EXCEPT !.answer = n] \in Session
<1>1. \A op \in DOMAIN Script : [m EXCEPT !.op = op] \in Session
  BY DEF Session
<1>2. \A pc \in {"idle"} \cup BeforeTransaction \cup InTransaction : [m EXCEPT !.pc = pc] \in Session
  BY DEF Session, BeforeTransaction, InTransaction
<1>3. \A i \in 1..4 : [m EXCEPT !.step = i] \in Session
  BY DEF Session
<1>4. \A k \in Keys : [m EXCEPT !.key = k] \in Session
  BY DEF Session
<1>5. \A p \in Positions : [m EXCEPT !.position = p] \in Session
  BY DEF Session
<1>6. \A v \in Previews : [m EXCEPT !.preview = v] \in Session
  BY DEF Session
<1>7. \A a \in Accounts \cup {None} : [m EXCEPT !.account = a] \in Session
  BY DEF Session
<1>8. \A n \in Nat : [m EXCEPT !.answer = n] \in Session
  BY DEF Session
<1> QED
  BY <1>1, <1>2, <1>3, <1>4, <1>5, <1>6, <1>7, <1>8

LEMMA IdleSessionType == IdleSession \in Session
BY DEF IdleSession, Session

LEMMA InitInv == Init => IInv
<1> SUFFICES ASSUME Init PROVE IInv
  OBVIOUS
<1> USE DEF Init
<1>1. IdleSession \in Session
  BY DEF IdleSession, Session
<1>2. TypeOK
  BY <1>1 DEF TypeOK, Mapping
<1>3. HeldInv /\ CompatibleInv /\ KeysInv
  BY DEF HeldInv, Holds, InTransaction, CompatibleInv, KeysInv, IdleSession
<1>4. MappingInv
  BY DEF MappingInv
<1>5. ASSUME NEW s \in Sessions PROVE SessionInv(tx[s])
  BY DEF SessionInv, CallInv, AnswerInv, LockedInv, InTransaction, BeforeTransaction, IdleSession
<1> QED
  BY <1>2, <1>3, <1>4, <1>5 DEF IInv

-----------------------------------------------------------------------------
(* Facts about states that satisfy the invariant.                          *)

\* One session becomes c, the others stay.
LEMMA Becomes ==
  ASSUME IInv, NEW s \in Sessions, NEW c \in Session, tx' = [tx EXCEPT ![s] = c]
  PROVE  /\ tx' \in [Sessions -> Session] /\ tx'[s] = c
         /\ \A q \in Sessions : q # s => tx'[q] = tx[q]
BY DEF IInv, TypeOK

\* An open transaction is at one of the steps of its script.
LEMMA Positioned ==
  ASSUME IInv, NEW s \in Sessions, tx[s].pc \in InTransaction
  PROVE  /\ tx[s].op \in DOMAIN Script /\ Len(Script[tx[s].op]) \in 1..3
         /\ tx[s].step \in 1..4 /\ tx[s].step <= Len(Script[tx[s].op]) + 1
<1>1. tx[s] \in Session
  BY DEF IInv, TypeOK
<1>2. CallInv(tx[s])
  BY DEF IInv, SessionInv
<1>3. tx[s].op \in DOMAIN Script /\ tx[s].step \in 1..4
  BY <1>1, <1>2 DEF Session, CallInv
<1>4. Len(Script[tx[s].op]) \in 1..3
  BY <1>3, ScriptLengths
<1> QED
  BY <1>2, <1>3, <1>4 DEF CallInv, InTransaction

\* One that waits for a lock is at a step of its script.
LEMMA Waiting ==
  ASSUME IInv, NEW s \in Sessions, tx[s].pc = "lock"
  PROVE  /\ tx[s].op \in DOMAIN Script /\ Len(Script[tx[s].op]) \in 1..3
         /\ tx[s].step \in 1..Len(Script[tx[s].op]) /\ tx[s].step \in 1..3
<1> DEFINE i == tx[s].step
           n == Len(Script[tx[s].op])
<1>1. tx[s].pc \in InTransaction
  BY DEF InTransaction
<1>2. tx[s].op \in DOMAIN Script /\ n \in 1..3 /\ i \in 1..4
  BY <1>1, Positioned
<1>3. i <= n
  BY DEF IInv, SessionInv, CallInv
<1> HIDE DEF i, n
<1>4. i \in 1..n /\ i \in 1..3
  BY <1>2, <1>3
<1> QED
  BY <1>2, <1>4 DEF i, n

\* A lock that is held is one of the steps its transaction has taken.
LEMMA HeldLock ==
  ASSUME IInv, NEW h \in held
  PROVE  \E s \in Sessions, i \in 1..3 :
           /\ Holds(s, i) /\ h = LockAt(s, i) /\ h.by = s
           /\ tx[s].op \in DOMAIN Script /\ i \in 1..Len(Script[tx[s].op]) /\ i < tx[s].step
<1>1. PICK s \in Sessions, i \in 1..3 : Holds(s, i) /\ h = LockAt(s, i)
  BY DEF IInv, HeldInv
<1>2. h.by = s
  BY <1>1 DEF LockAt
<1>3. tx[s].op \in DOMAIN Script /\ i \in 1..Len(Script[tx[s].op]) /\ i < tx[s].step
  BY <1>1, Positioned DEF Holds
<1> QED
  BY <1>1, <1>2, <1>3

LEMMA RequestTypes ==
  ASSUME IInv, NEW i \in DOMAIN requests
  PROVE  requests[i] \in Request /\ i \in Nat /\ i # 0
<1>1. requests \in Seq(Request)
  BY DEF IInv, TypeOK
<1> QED
  BY <1>1

\* A session that holds nothing.
LEMMA HoldsNothing ==
  ASSUME IInv, NEW s \in Sessions, tx[s].pc \notin InTransaction \/ tx[s].step = 1
  PROVE  held = {h \in held : h.by # s}
<1> SUFFICES ASSUME NEW h \in held PROVE h.by # s
  OBVIOUS
<1>1. PICK q \in Sessions, i \in 1..3 : Holds(q, i) /\ h.by = q
  BY HeldLock
<1> QED
  BY <1>1 DEF Holds

\* What a session holds depends on its own call alone; one that lets go holds nothing.
LEMMA LetsGo ==
  ASSUME IInv, NEW s \in Sessions, NEW c \in Session, tx' = [tx EXCEPT ![s] = c],
         c.pc \notin InTransaction \/ c.step = 1,
         held' = {h \in held : h.by # s}
  PROVE  HeldInv' /\ CompatibleInv' /\ held' \subseteq held
<1>1. tx'[s] = c /\ \A q \in Sessions : q # s => tx'[q] = tx[q]
  BY Becomes
<1>2. \A i \in 1..3 : ~Holds(s, i)'
  BY <1>1 DEF Holds
<1>3. \A q \in Sessions, i \in 1..3 : q # s =>
        (Holds(q, i)' <=> Holds(q, i)) /\ LockAt(q, i)' = LockAt(q, i)
  BY <1>1 DEF Holds, LockAt, RowOf
<1>4. ASSUME NEW q \in Sessions, NEW i \in 1..3, Holds(q, i)'
      PROVE  LockAt(q, i)' \in held'
  <2>1. q # s
    BY <1>2, <1>4
  <2>2. LockAt(q, i) \in held /\ LockAt(q, i).by = q
    BY <1>3, <1>4, <2>1 DEF IInv, HeldInv, LockAt
  <2> QED
    BY <1>3, <2>1, <2>2
<1>5. ASSUME NEW h \in held'
      PROVE  \E q \in Sessions, i \in 1..3 : Holds(q, i)' /\ h = LockAt(q, i)'
  <2>1. PICK q \in Sessions, i \in 1..3 : Holds(q, i) /\ h = LockAt(q, i) /\ h.by = q
    BY HeldLock
  <2>2. q # s
    BY <2>1
  <2> QED
    BY <1>3, <2>1, <2>2
<1>6. HeldInv'
  BY <1>4, <1>5 DEF HeldInv
<1>7. CompatibleInv'
  BY DEF IInv, CompatibleInv
<1> QED
  BY <1>6, <1>7

\* A call goes on to c without holding a lock, and nothing is written.
LEMMA CallStep ==
  ASSUME IInv, NEW s \in Sessions, NEW c \in Session, tx' = [tx EXCEPT ![s] = c],
         c.pc \notin InTransaction \/ c.step = 1, SessionInv(c),
         held' = {h \in held : h.by # s},
         UNCHANGED <<profile, position, mapping, expired, requests>>
  PROVE  IInv'
<1>1. /\ tx' \in [Sessions -> Session] /\ tx'[s] = c
      /\ \A q \in Sessions : q # s => tx'[q] = tx[q]
  BY Becomes
<1>2. HeldInv' /\ CompatibleInv' /\ held' \subseteq held
  BY LetsGo
<1>3. TypeOK'
  BY <1>1, <1>2 DEF IInv, TypeOK
<1>4. MappingInv' /\ KeysInv'
  BY DEF IInv, MappingInv, KeysInv
<1>5. ASSUME NEW q \in Sessions PROVE SessionInv(tx[q])'
  <2>1. SessionInv(tx'[q])
    BY <1>1 DEF IInv
  <2> QED
    BY <2>1 DEF SessionInv, CallInv, AnswerInv, LockedInv, WithKey, SameFingerprint
<1> QED
  BY <1>2, <1>3, <1>4, <1>5 DEF IInv

\* What is left of a call that ended.
LEMMA ReturnedFields ==
  ASSUME NEW me \in Session, NEW answer \in Nat
  PROVE  /\ Returned(me, answer) \in Session /\ Returned(me, answer).pc = "idle"
         /\ answer = 0 => Returned(me, answer) = IdleSession
         /\ answer # 0 =>
              /\ Returned(me, answer).op = me.op /\ Returned(me, answer).key = me.key
              /\ Returned(me, answer).position = me.position
              /\ Returned(me, answer).preview = me.preview
              /\ Returned(me, answer).step = 1 /\ Returned(me, answer).answer = answer
<1>1. CASE answer = 0
  BY <1>1, IdleSessionType DEF Returned, IdleSession
<1>2. CASE answer # 0
  <2> DEFINE a == [me EXCEPT !.pc = "idle"]
             b == [a EXCEPT !.step = 1]
             d == [b EXCEPT !.account = None]
             c == [d EXCEPT !.answer = answer]
  <2>1. Returned(me, answer) = c
    BY <1>2 DEF Returned
  <2>2. /\ c.pc = "idle" /\ c.op = me.op /\ c.key = me.key /\ c.position = me.position
        /\ c.preview = me.preview /\ c.step = 1 /\ c.answer = answer
    BY DEF Session
  <2> HIDE DEF a, b, c, d
  <2>3. a \in Session
    BY SessionUpdates DEF a
  <2>4. b \in Session
    BY <2>3 DEF b, Session
  <2>5. d \in Session
    BY <2>4, SessionUpdates DEF d
  <2>6. c \in Session
    BY <2>5, SessionUpdates DEF c
  <2> QED
    BY <1>2, <2>1, <2>2, <2>6
<1> QED
  BY <1>1, <1>2

\* An idle session satisfies the invariant when its answer is what it asked for.
LEMMA IdleSound ==
  /\ SessionInv(IdleSession) /\ IdleSession.pc = "idle"
  /\ \A me \in Session, answer \in Nat :
       /\ answer # 0 /\ CallInv(me) /\ me.op = "reserve" /\ answer \in DOMAIN requests
       /\ requests[answer].key = me.key /\ SameFingerprint(me, requests[answer])
       => SessionInv(Returned(me, answer))
<1>1. SessionInv(IdleSession) /\ IdleSession.pc = "idle"
  BY DEF IdleSession, SessionInv, CallInv, AnswerInv, LockedInv, InTransaction, BeforeTransaction
<1>2. ASSUME NEW me \in Session, NEW answer \in Nat, answer # 0, CallInv(me), me.op = "reserve",
             answer \in DOMAIN requests, requests[answer].key = me.key,
             SameFingerprint(me, requests[answer])
      PROVE  SessionInv(Returned(me, answer))
  <2>1. PICK c \in Session : c = Returned(me, answer)
    BY ReturnedFields
  <2>2. /\ c.pc = "idle" /\ c.op = "reserve" /\ c.key = me.key /\ c.position = me.position
        /\ c.preview = me.preview /\ c.step = 1 /\ c.answer = answer
    BY <1>2, <2>1, ReturnedFields
  <2>3. CallInv(c)
    BY <1>2, <2>2 DEF CallInv, InTransaction, BeforeTransaction
  <2>4. AnswerInv(c) /\ LockedInv(c)
    BY <1>2, <2>2 DEF AnswerInv, LockedInv, InTransaction, SameFingerprint
  <2> QED
    BY <2>1, <2>3, <2>4 DEF SessionInv
<1> QED
  BY <1>1, <1>2

LEMMA FinishInv ==
  ASSUME IInv, NEW s \in Sessions, NEW answer \in Nat, tx[s].pc # "idle", Finish(s, answer),
         answer # 0 =>
           /\ tx[s].op = "reserve" /\ answer \in DOMAIN requests
           /\ requests[answer].key = tx[s].key /\ SameFingerprint(tx[s], requests[answer]),
         UNCHANGED <<profile, position, mapping, expired, requests>>
  PROVE  IInv'
<1> DEFINE c == Returned(tx[s], answer)
<1>1. tx[s] \in Session /\ SessionInv(tx[s])
  BY DEF IInv, TypeOK
<1>2. c \in Session /\ c.pc = "idle"
  BY <1>1, ReturnedFields
<1>3. SessionInv(c)
  <2>1. CASE answer = 0
    BY <1>1, <2>1, ReturnedFields, IdleSound
  <2>2. CASE answer # 0
    BY <1>1, <2>2, IdleSound DEF SessionInv
  <2> QED
    BY <2>1, <2>2
<1>4. c \in Session /\ SessionInv(c) /\ c.pc = "idle"
  BY <1>2, <1>3
<1>5. tx' = [tx EXCEPT ![s] = c] /\ held' = {h \in held : h.by # s}
  BY DEF Finish, Release
<1> HIDE DEF c
<1> QED
  BY <1>4, <1>5, CallStep DEF InTransaction

LEMMA RollbackInv ==
  ASSUME IInv, NEW s \in Sessions, tx[s].pc # "idle", Rollback(s)
  PROVE  IInv'
BY FinishInv DEF Rollback

-----------------------------------------------------------------------------
(* Steps outside a transaction.                                            *)

\* The first step of any call: a reservation reads, the others open their transaction.
LEMMA EnterInv ==
  ASSUME IInv, NEW s \in Sessions, NEW c \in Session, Enter(s, c), SessionInv(c), c.step = 1
  PROVE  IInv'
<1>1. held' = {h \in held : h.by # s}
  BY HoldsNothing DEF Enter, InTransaction
<1> QED
  BY <1>1, CallStep DEF Enter

LEMMA ConvertInv == ASSUME IInv, NEW s \in Sessions, Convert(s) PROVE IInv'
<1>1. PICK k \in Keys, p \in Positions, v \in Previews :
        Enter(s, [IdleSession EXCEPT !.op = "reserve", !.pc = "find", !.key = k,
                                     !.position = p, !.preview = v])
  BY DEF Convert
<1> DEFINE a == [IdleSession EXCEPT !.op = "reserve"]
           b == [a EXCEPT !.pc = "find"]
           d == [b EXCEPT !.key = k]
           e == [d EXCEPT !.position = p]
           c == [e EXCEPT !.preview = v]
<1>2. Enter(s, c)
  BY <1>1
<1>3. c.op = "reserve" /\ c.pc = "find" /\ c.step = 1 /\ c.answer = 0 /\ c.key = k /\ c.position = p /\ c.preview = v
  BY DEF IdleSession
<1>4. c \in Session
  <2> HIDE DEF a, b, d, e
  <2>1. a \in Session
    BY IdleSessionType, SessionUpdates, Scripts DEF a
  <2>2. b \in Session
    BY <2>1, SessionUpdates DEF b, BeforeTransaction
  <2>3. d \in Session
    BY <2>2, SessionUpdates DEF d
  <2>4. e \in Session
    BY <2>3, SessionUpdates DEF e
  <2> QED
    BY <2>4, SessionUpdates
<1> HIDE DEF c
<1>5. SessionInv(c)
  BY <1>3 DEF SessionInv, CallInv, AnswerInv, LockedInv, InTransaction, BeforeTransaction
<1> QED
  BY <1>2, <1>3, <1>4, <1>5, EnterInv

LEMMA StartClaimInv == ASSUME IInv, NEW s \in Sessions, StartClaim(s) PROVE IInv'
<1>1. PICK i \in DOMAIN requests :
        Enter(s, [IdleSession EXCEPT !.op = "claim", !.pc = "lock", !.answer = i,
                                     !.position = requests[i].position])
  BY DEF StartClaim
<1>2. PICK p \in Positions : p = requests[i].position
  BY RequestTypes DEF Request
<1> DEFINE a == [IdleSession EXCEPT !.op = "claim"]
           b == [a EXCEPT !.pc = "lock"]
           d == [b EXCEPT !.answer = i]
           c == [d EXCEPT !.position = p]
<1>3. Enter(s, c)
  BY <1>1, <1>2
<1>4. c.op = "claim" /\ c.pc = "lock" /\ c.step = 1 /\ c.answer = i /\ c.position = p
  BY DEF IdleSession
<1>5. c \in Session
  <2> HIDE DEF a, b, d
  <2>1. a \in Session
    BY IdleSessionType, SessionUpdates, Scripts DEF a
  <2>2. b \in Session
    BY <2>1, SessionUpdates DEF b, InTransaction
  <2>3. i \in Nat
    BY RequestTypes
  <2>4. d \in Session
    BY <2>2, <2>3, SessionUpdates DEF d
  <2> QED
    BY <2>4, SessionUpdates
<1> HIDE DEF c
<1>6. SessionInv(c)
  BY <1>2, <1>4, Scripts DEF SessionInv, CallInv, AnswerInv, LockedInv, InTransaction, BeforeTransaction
<1> QED
  BY <1>3, <1>4, <1>5, <1>6, EnterInv

LEMMA StartChangeInv == ASSUME IInv, NEW s \in Sessions, StartChange(s) PROVE IInv'
<1>1. CASE Enter(s, [IdleSession EXCEPT !.op = "disableProfile", !.pc = "lock"])
  <2> DEFINE a == [IdleSession EXCEPT !.op = "disableProfile"]
             c == [a EXCEPT !.pc = "lock"]
  <2>1. Enter(s, c)
    BY <1>1
  <2>2. c.op = "disableProfile" /\ c.pc = "lock" /\ c.step = 1
    BY DEF IdleSession
  <2>3. c \in Session
    <3> HIDE DEF a
    <3>1. a \in Session
      BY IdleSessionType, SessionUpdates, Scripts DEF a
    <3> QED
      BY <3>1, SessionUpdates DEF InTransaction
  <2> HIDE DEF c
  <2>4. SessionInv(c)
    BY <2>2, Scripts DEF SessionInv, CallInv, AnswerInv, LockedInv, InTransaction, BeforeTransaction
  <2> QED
    BY <2>1, <2>2, <2>3, <2>4, EnterInv
<1>2. CASE \E p \in Positions, op \in {"changePosition", "configure"}, a \in Accounts :
             Enter(s, [IdleSession EXCEPT !.op = op, !.pc = "lock", !.position = p,
                                          !.account = IF op = "configure" THEN a ELSE None])
  <2>1. PICK p \in Positions, op \in {"changePosition", "configure"}, account \in Accounts :
          Enter(s, [IdleSession EXCEPT !.op = op, !.pc = "lock", !.position = p,
                                       !.account = IF op = "configure" THEN account ELSE None])
    BY <1>2
  <2> DEFINE a == [IdleSession EXCEPT !.op = op]
             b == [a EXCEPT !.pc = "lock"]
             d == [b EXCEPT !.position = p]
             c == [d EXCEPT !.account = IF op = "configure" THEN account ELSE None]
  <2>2. Enter(s, c)
    BY <2>1
  <2>3. /\ c.op = op /\ c.pc = "lock" /\ c.step = 1 /\ c.position = p
        /\ op = "configure" => c.account = account
    BY DEF IdleSession
  <2>4. c \in Session
    <3> HIDE DEF a, b, d
    <3>1. a \in Session
      BY IdleSessionType, SessionUpdates, Scripts DEF a
    <3>2. b \in Session
      BY <3>1, SessionUpdates DEF b, InTransaction
    <3>3. d \in Session
      BY <3>2, SessionUpdates DEF d
    <3> QED
      BY <3>3, SessionUpdates
  <2> HIDE DEF c
  <2>5. SessionInv(c)
    BY <2>3, Scripts DEF SessionInv, CallInv, AnswerInv, LockedInv, InTransaction, BeforeTransaction
  <2> QED
    BY <2>2, <2>3, <2>4, <2>5, EnterInv
<1> QED
  BY <1>1, <1>2 DEF StartChange

\* A reservation reads on towards its transaction.
LEMMA ReadOn ==
  ASSUME IInv, NEW s \in Sessions, NEW pc \in BeforeTransaction \cup {"lock"},
         tx[s].pc \in BeforeTransaction, Advance(s, pc),
         pc = "replay" => tx[s].answer # 0,
         pc \in {"preview", "requote", "recheck", "lock"} => tx[s].account \in Accounts,
         UNCHANGED <<profile, position, mapping, expired, requests, held>>
  PROVE  IInv'
<1> DEFINE c == [tx[s] EXCEPT !.pc = pc]
<1>1. tx[s] \in Session /\ SessionInv(tx[s])
  BY DEF IInv, TypeOK
<1>2. /\ c.pc = pc /\ c.step = tx[s].step /\ c.op = tx[s].op /\ c.key = tx[s].key
      /\ c.position = tx[s].position /\ c.preview = tx[s].preview /\ c.account = tx[s].account
      /\ c.answer = tx[s].answer
  BY <1>1 DEF Session
<1>3. c \in Session
  BY <1>1, SessionUpdates DEF InTransaction
<1>4. tx' = [tx EXCEPT ![s] = c]
  BY DEF Advance
<1>5. tx[s].op = "reserve" /\ tx[s].step = 1 /\ Len(Script["reserve"]) = 3
  BY <1>1, Scripts DEF SessionInv, CallInv, BeforeTransaction, InTransaction
<1> HIDE DEF c
<1>6. CallInv(c)
  BY <1>1, <1>2, <1>5 DEF SessionInv, CallInv, BeforeTransaction, InTransaction
<1>7. AnswerInv(c)
  BY <1>1, <1>2, <1>5 DEF SessionInv, AnswerInv, SameFingerprint
<1>8. LockedInv(c)
  BY <1>2, <1>5 DEF LockedInv
<1>9. held' = {h \in held : h.by # s}
  BY <1>5, HoldsNothing
<1> QED
  BY <1>2, <1>3, <1>4, <1>5, <1>6, <1>7, <1>8, <1>9, CallStep DEF SessionInv

LEMMA FindByKeyInv == ASSUME IInv, NEW s \in Sessions, FindByKey(s) PROVE IInv'
<1>1. tx[s].pc = "find"
  BY DEF FindByKey
<1>2. CASE Advance(s, "check") /\ UNCHANGED <<profile, position, mapping, expired, requests, held>>
  BY <1>1, <1>2, ReadOn DEF BeforeTransaction
<1>3. CASE \E i \in WithKey(tx[s].key) :
             IF SameFingerprint(tx[s], requests[i])
             THEN /\ tx' = [tx EXCEPT ![s].pc = "replay", ![s].answer = i]
                  /\ UNCHANGED <<profile, position, mapping, expired, requests, held>>
             ELSE Rollback(s)
  <2>1. PICK i \in WithKey(tx[s].key) :
             IF SameFingerprint(tx[s], requests[i])
             THEN /\ tx' = [tx EXCEPT ![s].pc = "replay", ![s].answer = i]
                  /\ UNCHANGED <<profile, position, mapping, expired, requests, held>>
             ELSE Rollback(s)
    BY <1>3
  <2>2. CASE ~SameFingerprint(tx[s], requests[i])
    BY <1>1, <2>1, <2>2, RollbackInv
  <2>3. CASE SameFingerprint(tx[s], requests[i])
    <3> DEFINE c == [tx[s] EXCEPT !.pc = "replay", !.answer = i]
    <3>1. tx[s] \in Session /\ SessionInv(tx[s]) /\ requests \in Seq(Request)
      BY DEF IInv, TypeOK
    <3>2. i \in DOMAIN requests /\ requests[i].key = tx[s].key /\ i \in Nat /\ i # 0
      BY <3>1 DEF WithKey
    <3>3. tx[s].op = "reserve" /\ tx[s].step = 1
      BY <1>1, <3>1 DEF SessionInv, CallInv, BeforeTransaction, InTransaction
    <3>4. /\ c.pc = "replay" /\ c.step = 1 /\ c.op = "reserve" /\ c.key = tx[s].key
          /\ c.position = tx[s].position /\ c.preview = tx[s].preview /\ c.answer = i
      BY <3>1, <3>3 DEF Session
    <3>5. c \in Session
      <4>1. [tx[s] EXCEPT !.pc = "replay"] \in Session
        BY <3>1, SessionUpdates DEF BeforeTransaction
      <4>2. [[tx[s] EXCEPT !.pc = "replay"] EXCEPT !.answer = i] \in Session
        BY <3>2, <4>1, SessionUpdates
      <4> QED
        BY <4>2
    <3>6. /\ tx' = [tx EXCEPT ![s] = c]
          /\ UNCHANGED <<profile, position, mapping, expired, requests, held>>
      BY <2>1, <2>3
    <3> HIDE DEF c
    <3>7. CallInv(c)
      BY <3>1, <3>3, <3>4 DEF SessionInv, CallInv, BeforeTransaction, InTransaction
    <3>8. AnswerInv(c) /\ LockedInv(c)
      BY <2>3, <3>2, <3>4 DEF AnswerInv, LockedInv, SameFingerprint, InTransaction
    <3>9. held' = {h \in held : h.by # s}
      BY <3>3, <3>6, HoldsNothing
    <3> QED
      BY <3>4, <3>5, <3>6, <3>7, <3>8, <3>9, CallStep DEF SessionInv
  <2> QED
    BY <2>2, <2>3
<1> QED
  BY <1>2, <1>3 DEF FindByKey

LEMMA ReplayInv == ASSUME IInv, NEW s \in Sessions, Replay(s) PROVE IInv'
<1> DEFINE answer == IF Eligible(tx[s].position) THEN tx[s].answer ELSE 0
<1>1. tx[s].pc = "replay" /\ Finish(s, answer)
  BY DEF Replay
<1>2. tx[s] \in Session /\ SessionInv(tx[s])
  BY DEF IInv, TypeOK
<1>3. tx[s].answer \in Nat /\ tx[s].op = "reserve"
  BY <1>1, <1>2 DEF SessionInv, CallInv, BeforeTransaction, Session
<1>4. answer \in Nat /\ (answer # 0 => answer = tx[s].answer)
  BY <1>3
<1>5. UNCHANGED <<profile, position, mapping, expired, requests>>
  BY DEF Replay
<1> HIDE DEF answer
<1> QED
  BY <1>1, <1>2, <1>3, <1>4, <1>5, FinishInv DEF SessionInv, AnswerInv

LEMMA CheckEligibilityInv == ASSUME IInv, NEW s \in Sessions, CheckEligibility(s) PROVE IInv'
<1>1. tx[s].pc = "check"
  BY DEF CheckEligibility
<1>2. CASE ~Eligible(tx[s].position)
  BY <1>1, <1>2, RollbackInv DEF CheckEligibility
<1>3. CASE Eligible(tx[s].position)
  <2>1. tx[s] \in Session /\ SessionInv(tx[s])
    BY DEF IInv, TypeOK
  <2>2. tx[s].op = "reserve" /\ tx[s].step = 1 /\ tx[s].position \in Positions
    BY <1>1, <2>1 DEF SessionInv, CallInv, BeforeTransaction, InTransaction
  <2>3. PICK a \in Accounts : a = mapping[tx[s].position].account
    BY <1>3, <2>2 DEF IInv, MappingInv, Eligible
  <2> DEFINE c == [tx[s] EXCEPT !.pc = "preview", !.account = a]
  <2>4. /\ c.pc = "preview" /\ c.step = 1 /\ c.op = "reserve" /\ c.key = tx[s].key /\ c.account = a
        /\ c.position = tx[s].position /\ c.preview = tx[s].preview /\ c.answer = tx[s].answer
    BY <2>1, <2>2 DEF Session
  <2>5. c \in Session
    <3>1. [tx[s] EXCEPT !.pc = "preview"] \in Session
      BY <2>1, SessionUpdates DEF BeforeTransaction
    <3>2. [[tx[s] EXCEPT !.pc = "preview"] EXCEPT !.account = a] \in Session
      BY <3>1, SessionUpdates
    <3> QED
      BY <3>2
  <2>6. /\ tx' = [tx EXCEPT ![s] = c]
        /\ UNCHANGED <<profile, position, mapping, expired, requests, held>>
    BY <1>3, <2>3 DEF CheckEligibility
  <2> HIDE DEF c
  <2>7. CallInv(c)
    BY <2>1, <2>2, <2>4 DEF SessionInv, CallInv, BeforeTransaction, InTransaction
  <2>8. AnswerInv(c) /\ LockedInv(c)
    BY <2>1, <2>2, <2>4 DEF SessionInv, AnswerInv, LockedInv, SameFingerprint, InTransaction
  <2>9. held' = {h \in held : h.by # s}
    BY <2>2, <2>6, HoldsNothing
  <2> QED
    BY <2>4, <2>5, <2>6, <2>7, <2>8, <2>9, CallStep DEF SessionInv
<1> QED
  BY <1>2, <1>3

\* The steps between the first eligibility check and the transaction.
LEMMA QuoteInv ==
  ASSUME IInv, NEW s \in Sessions, ReadPreview(s) \/ Requote(s) \/ Recheck(s)
  PROVE  IInv'
<1>1. tx[s].pc \in {"preview", "requote", "recheck"}
  BY DEF ReadPreview, Requote, Recheck
<1>2. tx[s].account \in Accounts
  BY <1>1 DEF IInv, SessionInv, CallInv, BeforeTransaction
<1>3. CASE Rollback(s)
  BY <1>1, <1>3, RollbackInv
<1>4. ASSUME NEW pc \in {"requote", "recheck", "lock"}, Advance(s, pc),
             UNCHANGED <<profile, position, mapping, expired, requests, held>>
      PROVE  IInv'
  BY <1>1, <1>2, <1>4, ReadOn DEF BeforeTransaction
<1> QED
  BY <1>3, <1>4 DEF ReadPreview, Requote, Recheck

-----------------------------------------------------------------------------
(* The transaction: taking the next lock.                                  *)

\* The rows a transaction holds, and how.
LEMMA LocksTaken ==
  ASSUME IInv, NEW s \in Sessions, tx[s].pc \in InTransaction
  PROVE  /\ tx[s].step > 1 =>
              /\ Holds(s, 1) /\ LockAt(s, 1).row = <<"profile", None>>
              /\ tx[s].op # "claim" => LockAt(s, 1).mode = "update"
         /\ tx[s].step > 2 =>
              /\ Holds(s, 2) /\ LockAt(s, 2).row = <<"position", tx[s].position>>
              /\ tx[s].op # "claim" => LockAt(s, 2).mode = "update"
         /\ tx[s].step > 3 =>
              /\ Holds(s, 3)
              /\ tx[s].op \in {"reserve", "configure"} =>
                   LockAt(s, 3).row = <<"mapping", tx[s].position>>
              /\ tx[s].op = "claim" => LockAt(s, 3).row = <<"request", tx[s].answer>>
              /\ tx[s].op \in {"claim", "configure"} => LockAt(s, 3).mode = "update"
<1>1. /\ tx[s].op \in DOMAIN Script /\ Len(Script[tx[s].op]) \in 1..3
      /\ tx[s].step \in 1..4 /\ tx[s].step <= Len(Script[tx[s].op]) + 1
  BY Positioned
<1>2. \A i \in 1..3 : i < tx[s].step => Holds(s, i) /\ i \in 1..Len(Script[tx[s].op])
  BY <1>1 DEF Holds
<1>3. ASSUME tx[s].step > 1
      PROVE  /\ Holds(s, 1) /\ LockAt(s, 1).row = <<"profile", None>>
             /\ tx[s].op # "claim" => LockAt(s, 1).mode = "update"
  BY <1>1, <1>2, <1>3, ScriptSteps DEF LockAt, RowOf
<1>4. ASSUME tx[s].step > 2
      PROVE  /\ Holds(s, 2) /\ LockAt(s, 2).row = <<"position", tx[s].position>>
             /\ tx[s].op # "claim" => LockAt(s, 2).mode = "update"
  BY <1>1, <1>2, <1>4, ScriptSteps DEF LockAt, RowOf
<1>5. ASSUME tx[s].step > 3
      PROVE  /\ Holds(s, 3)
             /\ tx[s].op \in {"reserve", "configure"} =>
                  LockAt(s, 3).row = <<"mapping", tx[s].position>>
             /\ tx[s].op = "claim" => LockAt(s, 3).row = <<"request", tx[s].answer>>
             /\ tx[s].op \in {"claim", "configure"} => LockAt(s, 3).mode = "update"
  BY <1>1, <1>2, <1>5, Scripts DEF LockAt, RowOf
<1> QED
  BY <1>3, <1>4, <1>5

\* A row that one transaction holds for update is nobody else's.
LEMMA Excluded ==
  ASSUME IInv, NEW s \in Sessions, NEW q \in Sessions, s # q, NEW i \in 1..3, NEW j \in 1..3,
         Holds(s, i), Holds(q, j), LockAt(s, i).mode = "update"
  PROVE  LockAt(s, i).row # LockAt(q, j).row
<1>1. LockAt(s, i) \in held /\ LockAt(q, j) \in held
  BY DEF IInv, HeldInv
<1>2. LockAt(s, i).by # LockAt(q, j).by
  BY DEF LockAt
<1> QED
  BY <1>1, <1>2 DEF IInv, CompatibleInv

LEMMA LockInv == ASSUME IInv, NEW s \in Sessions, Lock(s) PROVE IInv'
<1> DEFINE i == tx[s].step
           table == NextLock(s)[1]
           new == [by |-> s, row |-> RowOf(tx[s], table), mode |-> NextLock(s)[2]]
           pc == IF tx[s].step = Len(Script[tx[s].op]) THEN "commit" ELSE "lock"
           a == [tx[s] EXCEPT !.step = i + 1]
           c == [a EXCEPT !.pc = pc]
<1>1. /\ tx[s].pc = "lock" /\ CanLock(s) /\ Acceptable(tx[s], table)
      /\ tx[s].op = "reserve" /\ i = 1 => WithKey(tx[s].key) = {}
      /\ held' = held \cup {new}
      /\ UNCHANGED <<profile, position, mapping, expired, requests>>
  BY DEF Lock
<1>2. /\ tx[s] \in Session /\ SessionInv(tx[s])
      /\ tx[s].op \in DOMAIN Script /\ Len(Script[tx[s].op]) \in 1..3
      /\ i \in 1..Len(Script[tx[s].op]) /\ i \in 1..3
  BY <1>1, Waiting DEF IInv, TypeOK
<1>3. /\ c.step = i + 1 /\ c.pc = pc /\ c.op = tx[s].op /\ c.key = tx[s].key
      /\ c.position = tx[s].position /\ c.preview = tx[s].preview
      /\ c.account = tx[s].account /\ c.answer = tx[s].answer
  BY <1>2 DEF Session
<1>4. tx' = [tx EXCEPT ![s] = c]
  BY DEF Lock
<1>5. c \in Session
  <2> HIDE DEF a
  <2>1. a \in Session
    BY <1>2, SessionUpdates DEF a, Session
  <2>2. pc \in {"idle"} \cup BeforeTransaction \cup InTransaction
    BY DEF InTransaction
  <2> QED
    BY <2>1, <2>2, SessionUpdates
<1>6. /\ tx' \in [Sessions -> Session] /\ tx'[s] = c
      /\ \A q \in Sessions : q # s => tx'[q] = tx[q]
  BY <1>4, <1>5, Becomes
<1>7. new = LockAt(s, i)
  BY DEF LockAt, NextLock
<1>8. pc \in InTransaction /\ tx[s].pc \in InTransaction
  BY <1>1 DEF InTransaction
<1>9. new.by = s /\ new.mode \in {"share", "update"} /\ new.row = RowOf(tx[s], table)
  BY <1>2, ScriptSteps DEF NextLock
<1>10. \A h \in held : h.row = new.row /\ h.by # s => h.mode = "share" /\ new.mode = "share"
  BY <1>1 DEF CanLock, Free
<1> HIDE DEF c, new, pc, a
<1>11. /\ \A k \in 1..3 : Holds(s, k)' <=> Holds(s, k) \/ k = i
       /\ \A k \in 1..3 : LockAt(s, k)' = LockAt(s, k)
       /\ \A q \in Sessions, k \in 1..3 : q # s =>
            (Holds(q, k)' <=> Holds(q, k)) /\ LockAt(q, k)' = LockAt(q, k)
  <2>1. \A k \in 1..3 : Holds(s, k)' <=> Holds(s, k) \/ k = i
    BY <1>2, <1>3, <1>6, <1>8 DEF Holds
  <2>2. \A k \in 1..3 : LockAt(s, k)' = LockAt(s, k)
    BY <1>3, <1>6 DEF LockAt, RowOf
  <2>3. \A q \in Sessions, k \in 1..3 : q # s =>
            (Holds(q, k)' <=> Holds(q, k)) /\ LockAt(q, k)' = LockAt(q, k)
    BY <1>6 DEF Holds, LockAt, RowOf
  <2> QED
    BY <2>1, <2>2, <2>3
<1>12. HeldInv'
  <2>1. ASSUME NEW q \in Sessions, NEW k \in 1..3, Holds(q, k)' PROVE LockAt(q, k)' \in held'
    BY <1>1, <1>7, <1>11, <2>1 DEF IInv, HeldInv
  <2>2. ASSUME NEW h \in held'
        PROVE  \E q \in Sessions, k \in 1..3 : Holds(q, k)' /\ h = LockAt(q, k)'
    <3>1. CASE h = new
      BY <1>2, <1>7, <1>11, <3>1
    <3>2. CASE h \in held
      <4>1. PICK q \in Sessions, k \in 1..3 : Holds(q, k) /\ h = LockAt(q, k)
        BY <3>2 DEF IInv, HeldInv
      <4> QED
        BY <1>11, <4>1
    <3> QED
      BY <1>1, <3>1, <3>2
  <2> QED
    BY <2>1, <2>2 DEF HeldInv
<1>13. CompatibleInv'
  BY <1>1, <1>9, <1>10 DEF IInv, CompatibleInv
<1>14. TypeOK'
  BY <1>1, <1>6, <1>9 DEF IInv, TypeOK
<1>15. MappingInv' /\ KeysInv'
  BY <1>1 DEF IInv, MappingInv, KeysInv
<1>16. SessionInv(c)
  <2>1. CallInv(c)
    BY <1>1, <1>2, <1>3 DEF SessionInv, CallInv, InTransaction, BeforeTransaction, pc
  <2>2. AnswerInv(c)
    BY <1>1, <1>2, <1>3 DEF SessionInv, AnswerInv, SameFingerprint, pc
  <2>3. LockedInv(c)
    <3>1. /\ i = 1 <=> table = "profile"
          /\ i = 2 <=> table = "position"
          /\ i = 3 /\ tx[s].op = "reserve" => table = "mapping"
          /\ i = 3 /\ tx[s].op = "claim" => table = "request"
      BY <1>2, ScriptSteps DEF NextLock
    <3>2. /\ i > 1 => profile = "ENABLED" /\ (tx[s].op = "reserve" => WithKey(tx[s].key) = {})
          /\ i > 2 => position[tx[s].position] = "ENABLED"
      BY <1>2, <1>8 DEF SessionInv, LockedInv
    <3>3. i = 1 => profile = "ENABLED" /\ (tx[s].op = "reserve" => WithKey(tx[s].key) = {})
      BY <1>1, <3>1 DEF Acceptable
    <3>4. i = 2 => position[tx[s].position] = "ENABLED"
      BY <1>1, <3>1 DEF Acceptable
    <3>5. /\ i = 3 /\ tx[s].op = "reserve" =>
               mapping[tx[s].position] = [status |-> "READY", account |-> tx[s].account]
          /\ i = 3 /\ tx[s].op = "claim" => requests[tx[s].answer].status = "PENDING"
      BY <1>1, <3>1 DEF Acceptable
    <3> HIDE DEF i
    <3> QED
      BY <1>2, <1>3, <3>2, <3>3, <3>4, <3>5 DEF LockedInv
  <2> QED
    BY <2>1, <2>2, <2>3 DEF SessionInv
<1>17. ASSUME NEW q \in Sessions PROVE SessionInv(tx[q])'
  <2>1. SessionInv(tx'[q])
    BY <1>6, <1>16 DEF IInv
  <2> QED
    BY <1>1, <2>1 DEF SessionInv, CallInv, AnswerInv, LockedInv, WithKey, SameFingerprint
<1> QED
  BY <1>12, <1>13, <1>14, <1>15, <1>17 DEF IInv

\* The ways out of a transaction that write nothing.
LEMMA LeaveInv ==
  ASSUME IInv, NEW s \in Sessions, FindPrior(s) \/ Refuse(s) \/ Abort(s)
  PROVE  IInv'
<1>1. CASE Refuse(s) \/ Abort(s)
  BY <1>1, RollbackInv DEF Refuse, Abort
<1>2. CASE FindPrior(s)
  <2>1. /\ tx[s].pc = "lock" /\ tx[s].op = "reserve"
        /\ UNCHANGED <<profile, position, mapping, expired, requests>>
    BY <1>2 DEF FindPrior
  <2>2. PICK i \in WithKey(tx[s].key) :
          Finish(s, IF SameFingerprint(tx[s], requests[i]) THEN i ELSE 0)
    BY <1>2 DEF FindPrior
  <2>3. i \in DOMAIN requests /\ requests[i].key = tx[s].key /\ i \in Nat
    BY RequestTypes DEF WithKey
  <2>4. CASE SameFingerprint(tx[s], requests[i])
    BY <2>1, <2>2, <2>3, <2>4, FinishInv
  <2>5. CASE ~SameFingerprint(tx[s], requests[i])
    BY <2>1, <2>2, <2>5, FinishInv
  <2> QED
    BY <2>4, <2>5
<1> QED
  BY <1>1, <1>2

-----------------------------------------------------------------------------
(* The transaction: writing and committing.                                *)

\* A transaction commits: the rows are typed, and what the others know of them remains so.
LEMMA CommitInv ==
  ASSUME IInv, NEW s \in Sessions, NEW c \in Session, c.pc = "idle", SessionInv(c)',
         tx' = [tx EXCEPT ![s] = c], Release(s),
         profile' \in {"ENABLED", "DISABLED"},
         position' \in [Positions -> {"ENABLED", "DISABLED"}],
         mapping' \in [Positions -> Mapping],
         requests' \in Seq(Request), expired' = expired,
         MappingInv', KeysInv',
         \A q \in Sessions \ {s} : AnswerInv(tx[q])' /\ LockedInv(tx[q])'
  PROVE  IInv'
<1>1. held' = {h \in held : h.by # s}
  BY DEF Release
<1>2. /\ tx' \in [Sessions -> Session] /\ tx'[s] = c
      /\ \A q \in Sessions : q # s => tx'[q] = tx[q]
  BY Becomes
<1>3. HeldInv' /\ CompatibleInv' /\ held' \subseteq held
  BY <1>1, LetsGo DEF InTransaction
<1>4. TypeOK'
  BY <1>2, <1>3 DEF IInv, TypeOK
<1>5. ASSUME NEW q \in Sessions PROVE SessionInv(tx[q])'
  <2>1. CASE q = s
    BY <1>2, <2>1 DEF SessionInv, CallInv, AnswerInv, LockedInv, WithKey, SameFingerprint
  <2>2. CASE q # s
    <3>1. CallInv(tx[q])'
      BY <1>2, <2>2 DEF IInv, SessionInv, CallInv
    <3> QED
      BY <2>2, <3>1 DEF SessionInv
  <2> QED
    BY <2>1, <2>2
<1> QED
  BY <1>3, <1>4, <1>5 DEF IInv

\* The row a commit writes is locked for update, so that nobody else has read it.
LEMMA Unread ==
  ASSUME IInv, NEW s \in Sessions, NEW q \in Sessions, q # s,
         tx[s].pc \in InTransaction, tx[q].pc \in InTransaction
  PROVE  /\ tx[s].step > 1 /\ tx[s].op # "claim" => tx[q].step = 1
         /\ tx[s].step > 2 /\ tx[s].op # "claim" /\ tx[q].position = tx[s].position =>
              tx[q].step \in 1..2
         /\ tx[s].step > 3 /\ tx[s].op = "configure" /\ tx[q].op = "reserve"
              /\ tx[q].position = tx[s].position => tx[q].step \in 1..3
         /\ tx[s].step > 3 /\ tx[s].op = "claim" /\ tx[q].op = "claim"
              /\ tx[q].answer = tx[s].answer => tx[q].step \in 1..3
<1>1. tx[s].step \in 1..4 /\ tx[q].step \in 1..4
  BY Positioned
<1>2. ASSUME tx[s].step > 1, tx[s].op # "claim", tx[q].step > 1 PROVE FALSE
  BY <1>2, LocksTaken, Excluded
<1>3. ASSUME tx[s].step > 2, tx[s].op # "claim", tx[q].position = tx[s].position, tx[q].step > 2
      PROVE  FALSE
  BY <1>3, LocksTaken, Excluded
<1>4. ASSUME tx[s].step > 3, tx[s].op = "configure", tx[q].op = "reserve",
             tx[q].position = tx[s].position, tx[q].step > 3
      PROVE  FALSE
  BY <1>4, LocksTaken, Excluded
<1>5. ASSUME tx[s].step > 3, tx[s].op = "claim", tx[q].op = "claim",
             tx[q].answer = tx[s].answer, tx[q].step > 3
      PROVE  FALSE
  BY <1>5, LocksTaken, Excluded
<1> QED
  BY <1>1, <1>2, <1>3, <1>4, <1>5

\* A transaction about to commit has taken all its locks.
LEMMA Committing ==
  ASSUME IInv, NEW s \in Sessions, tx[s].pc = "commit"
  PROVE  /\ tx[s].op \in {"reserve", "claim", "configure"} => tx[s].step = 4
         /\ tx[s].op = "changePosition" => tx[s].step = 3
         /\ tx[s].op = "disableProfile" => tx[s].step = 2
<1>1. tx[s].step = Len(Script[tx[s].op]) + 1
  BY DEF IInv, SessionInv, CallInv
<1>2. /\ Len(Script["reserve"]) + 1 = 4 /\ Len(Script["claim"]) + 1 = 4 /\ Len(Script["configure"]) + 1 = 4
      /\ Len(Script["changePosition"]) + 1 = 3 /\ Len(Script["disableProfile"]) + 1 = 2
  BY Scripts
<1> QED
  BY <1>1, <1>2

\* Storing a request: the promoter's profile is locked for update, so that no other
\* reservation is past its first step and no key has been looked up.
LEMMA InsertInv == ASSUME IInv, NEW s \in Sessions, Insert(s) PROVE IInv'
<1>1. tx[s].pc = "commit" /\ tx[s].op = "reserve" /\ tx[s] \in Session /\ SessionInv(tx[s])
  BY DEF Insert, IInv, TypeOK
<1>2. CASE tx[s].preview \in expired
  BY <1>1, <1>2, RollbackInv DEF Insert
<1>3. CASE tx[s].preview \notin expired
  <2> DEFINE q == [key |-> tx[s].key, position |-> tx[s].position, preview |-> tx[s].preview,
                   account |-> tx[s].account, status |-> "PENDING"]
  <2>1. /\ requests' = Append(requests, q) /\ Finish(s, Len(requests) + 1)
        /\ UNCHANGED <<profile, position, mapping, expired>>
    BY <1>3 DEF Insert
  <2>2. /\ tx[s].step = 4 /\ WithKey(tx[s].key) = {}
        /\ tx[s].key \in Keys /\ tx[s].position \in Positions /\ tx[s].preview \in Previews
        /\ tx[s].account \in Accounts
    BY <1>1, Scripts DEF SessionInv, CallInv, LockedInv, InTransaction
  <2>3. q \in Request
    BY <2>2 DEF Request
  <2>4. requests \in Seq(Request) /\ Len(requests) \in Nat /\ DOMAIN requests = 1..Len(requests)
    BY DEF IInv, TypeOK
  <2>5. PICK n \in Nat : n = Len(requests) + 1
    BY <2>4
  <2>6. /\ requests' \in Seq(Request) /\ DOMAIN requests' = DOMAIN requests \cup {n}
        /\ n \notin DOMAIN requests /\ requests'[n] = q
        /\ \A i \in DOMAIN requests : requests'[i] = requests[i]
    <3> HIDE DEF q
    <3> QED
      BY <2>1, <2>3, <2>4, <2>5
  <2>7. /\ requests'[n].key = tx[s].key /\ requests'[n].position = tx[s].position
        /\ requests'[n].preview = tx[s].preview
    BY <2>6
  <2> HIDE DEF q
  <2>8. \A i \in DOMAIN requests : requests[i].key # tx[s].key
    BY <2>2 DEF WithKey
  <2>9. KeysInv'
    BY <2>6, <2>7, <2>8 DEF IInv, KeysInv
  <2>10. MappingInv'
    BY <2>1 DEF IInv, MappingInv
  <2>11. PICK c \in Session : c = Returned(tx[s], n)
    BY <1>1, ReturnedFields
  <2>12. /\ c.pc = "idle" /\ c.op = "reserve" /\ c.key = tx[s].key /\ c.position = tx[s].position
         /\ c.preview = tx[s].preview /\ c.step = 1 /\ c.answer = n
    BY <1>1, <2>5, <2>11, <2>4, ReturnedFields
  <2>13. tx' = [tx EXCEPT ![s] = c] /\ Release(s)
    BY <2>1, <2>5, <2>11 DEF Finish
  <2>14. SessionInv(c)'
    <3>1. CallInv(c)'
      BY <2>12, <2>2 DEF CallInv, InTransaction, BeforeTransaction
    <3>2. AnswerInv(c)'
      BY <2>12, <2>6, <2>7 DEF AnswerInv, SameFingerprint
    <3>3. LockedInv(c)'
      BY <2>12 DEF LockedInv, InTransaction
    <3> QED
      BY <3>1, <3>2, <3>3 DEF SessionInv
  <2>15. ASSUME NEW r \in Sessions \ {s} PROVE AnswerInv(tx[r])' /\ LockedInv(tx[r])'
    <3>1. SessionInv(tx[r]) /\ tx'[r] = tx[r]
      BY <2>13, Becomes DEF IInv
    <3>2. AnswerInv(tx[r])'
      BY <2>6, <3>1 DEF SessionInv, AnswerInv, SameFingerprint
    <3>3. tx[r].pc \in InTransaction => tx[r].step = 1
      BY <1>1, <2>2, Unread DEF InTransaction
    <3>4. LockedInv(tx[r])'
      BY <3>1, <3>3 DEF LockedInv
    <3> QED
      BY <3>2, <3>4
  <2>16. /\ profile' \in {"ENABLED", "DISABLED"}
         /\ position' \in [Positions -> {"ENABLED", "DISABLED"}] /\ mapping' \in [Positions -> Mapping]
    BY <2>1 DEF IInv, TypeOK
  <2> QED
    BY <2>1, <2>6, <2>9, <2>10, <2>12, <2>13, <2>14, <2>15, <2>16, CommitInv
<1> QED
  BY <1>2, <1>3

\* A commit that ends a call without an answer.
LEMMA EndInv ==
  ASSUME IInv, NEW s \in Sessions, Finish(s, 0),
         profile' \in {"ENABLED", "DISABLED"},
         position' \in [Positions -> {"ENABLED", "DISABLED"}],
         mapping' \in [Positions -> Mapping],
         requests' \in Seq(Request), expired' = expired,
         MappingInv', KeysInv',
         \A q \in Sessions \ {s} : AnswerInv(tx[q])' /\ LockedInv(tx[q])'
  PROVE  IInv'
<1>1. PICK c \in Session : c = IdleSession
  BY IdleSessionType
<1>2. tx' = [tx EXCEPT ![s] = c] /\ Release(s)
  BY <1>1 DEF Finish, Returned
<1>3. c.pc = "idle" /\ SessionInv(c)'
  BY <1>1 DEF IdleSession, SessionInv, CallInv, AnswerInv, LockedInv, InTransaction, BeforeTransaction
<1> QED
  BY <1>2, <1>3, CommitInv

LEMMA ClaimInv == ASSUME IInv, NEW s \in Sessions, Claim(s) PROVE IInv'
<1>1. /\ tx[s].pc = "commit" /\ tx[s].op = "claim" /\ Finish(s, 0)
      /\ requests' = [requests EXCEPT ![tx[s].answer].status = "PROCESSING"]
      /\ UNCHANGED <<profile, position, mapping, expired>>
  BY DEF Claim
<1>2. PICK a \in DOMAIN requests : a = tx[s].answer
  BY <1>1 DEF IInv, SessionInv, AnswerInv
<1>3. SessionInv(tx[s]) /\ tx[s].step = 4
  BY <1>1, Committing DEF IInv
<1>4. requests \in Seq(Request) /\ \A i \in DOMAIN requests : requests[i] \in Request
  BY RequestTypes DEF IInv, TypeOK
<1>5. /\ requests' \in Seq(Request) /\ DOMAIN requests' = DOMAIN requests
      /\ \A i \in DOMAIN requests :
           /\ requests'[i].key = requests[i].key /\ requests'[i].position = requests[i].position
           /\ requests'[i].preview = requests[i].preview
           /\ i # a => requests'[i] = requests[i]
  <2>1. [requests[a] EXCEPT !.status = "PROCESSING"] \in Request
    BY <1>4 DEF Request
  <2>2. requests' = [requests EXCEPT ![a] = [requests[a] EXCEPT !.status = "PROCESSING"]]
    BY <1>1, <1>2
  <2>3. requests' \in Seq(Request) /\ DOMAIN requests' = DOMAIN requests
    BY <1>4, <2>1, <2>2
  <2>4. \A i \in DOMAIN requests : i # a => requests'[i] = requests[i]
    BY <2>2
  <2>5. /\ requests'[a].key = requests[a].key /\ requests'[a].position = requests[a].position
        /\ requests'[a].preview = requests[a].preview
    BY <1>4, <2>2 DEF Request
  <2> QED
    BY <2>3, <2>4, <2>5
<1>6. /\ profile' \in {"ENABLED", "DISABLED"}
      /\ position' \in [Positions -> {"ENABLED", "DISABLED"}] /\ mapping' \in [Positions -> Mapping]
  BY <1>1 DEF IInv, TypeOK
<1>7. MappingInv' /\ KeysInv'
  BY <1>1, <1>5 DEF IInv, MappingInv, KeysInv
<1>8. ASSUME NEW q \in Sessions \ {s} PROVE AnswerInv(tx[q])' /\ LockedInv(tx[q])'
  <2>1. SessionInv(tx[q]) /\ tx'[q] = tx[q]
    BY <1>1 DEF IInv, TypeOK, Finish
  <2>2. AnswerInv(tx[q])'
    BY <1>5, <2>1 DEF SessionInv, AnswerInv, SameFingerprint
  <2>3. WithKey(tx[q].key)' = WithKey(tx[q].key)
    BY <1>5, <2>1 DEF WithKey
  <2>4. ASSUME tx[q].pc \in InTransaction, tx[q].step > 3, tx[q].op = "claim"
        PROVE  requests'[tx[q].answer].status = "PENDING"
    <3>1. tx[q].answer \in DOMAIN requests /\ requests[tx[q].answer].status = "PENDING"
      BY <2>1, <2>4 DEF SessionInv, AnswerInv, LockedInv
    <3>2. tx[q].answer # a
      BY <1>1, <1>2, <1>3, <2>4, Unread DEF InTransaction
    <3> QED
      BY <1>5, <3>1, <3>2
  <2>5. LockedInv(tx[q])'
    BY <1>1, <2>1, <2>3, <2>4 DEF SessionInv, LockedInv
  <2> QED
    BY <2>2, <2>5
<1> QED
  BY <1>1, <1>5, <1>6, <1>7, <1>8, EndInv

LEMMA DisableProfileInv == ASSUME IInv, NEW s \in Sessions, DisableProfile(s) PROVE IInv'
<1>1. /\ tx[s].pc = "commit" /\ tx[s].op = "disableProfile" /\ Finish(s, 0)
      /\ profile' = "DISABLED" /\ UNCHANGED <<position, mapping, expired, requests>>
  BY DEF DisableProfile
<1>2. tx[s].step = 2
  BY <1>1, Committing
<1>3. /\ profile' \in {"ENABLED", "DISABLED"} /\ requests' \in Seq(Request)
      /\ position' \in [Positions -> {"ENABLED", "DISABLED"}] /\ mapping' \in [Positions -> Mapping]
  BY <1>1 DEF IInv, TypeOK
<1>4. MappingInv' /\ KeysInv'
  BY <1>1 DEF IInv, MappingInv, KeysInv
<1>5. ASSUME NEW q \in Sessions \ {s} PROVE AnswerInv(tx[q])' /\ LockedInv(tx[q])'
  <2>1. SessionInv(tx[q]) /\ tx'[q] = tx[q]
    BY <1>1 DEF IInv, TypeOK, Finish
  <2>2. AnswerInv(tx[q])'
    BY <1>1, <2>1 DEF SessionInv, AnswerInv, SameFingerprint
  <2>3. tx[q].pc \in InTransaction => tx[q].step = 1
    BY <1>1, <1>2, Unread DEF InTransaction
  <2> QED
    BY <2>1, <2>2, <2>3 DEF LockedInv
<1> QED
  BY <1>1, <1>3, <1>4, <1>5, EndInv

LEMMA DisablePositionInv == ASSUME IInv, NEW s \in Sessions, DisablePosition(s) PROVE IInv'
<1>1. /\ tx[s].pc = "commit" /\ tx[s].op = "changePosition" /\ Finish(s, 0)
      /\ position' = [position EXCEPT ![tx[s].position] = "DISABLED"]
      /\ UNCHANGED <<profile, mapping, expired, requests>>
  BY DEF DisablePosition
<1>2. tx[s].step = 3
  BY <1>1, Committing
<1>3. /\ profile' \in {"ENABLED", "DISABLED"} /\ requests' \in Seq(Request)
      /\ position' \in [Positions -> {"ENABLED", "DISABLED"}] /\ mapping' \in [Positions -> Mapping]
  BY <1>1 DEF IInv, TypeOK
<1>4. MappingInv' /\ KeysInv'
  BY <1>1 DEF IInv, MappingInv, KeysInv
<1>5. ASSUME NEW q \in Sessions \ {s} PROVE AnswerInv(tx[q])' /\ LockedInv(tx[q])'
  <2>1. SessionInv(tx[q]) /\ tx'[q] = tx[q]
    BY <1>1 DEF IInv, TypeOK, Finish
  <2>2. AnswerInv(tx[q])'
    BY <1>1, <2>1 DEF SessionInv, AnswerInv, SameFingerprint
  <2>3. tx[q].pc \in InTransaction => tx[q].step = 1
    BY <1>1, <1>2, Unread DEF InTransaction
  <2> QED
    BY <2>1, <2>2, <2>3 DEF LockedInv
<1> QED
  BY <1>1, <1>3, <1>4, <1>5, EndInv

LEMMA ConfigureInv ==
  ASSUME IInv, NEW s \in Sessions, ConfigureChannelPosition(s)
  PROVE  IInv'
<1>1. tx[s].pc = "commit" /\ tx[s].op = "configure"
  BY DEF ConfigureChannelPosition
<1>2. CASE Rollback(s)
  BY <1>1, <1>2, RollbackInv
<1>3. CASE /\ mapping' = [mapping EXCEPT ![tx[s].position] =
                            [status |-> "PENDING_VERIFICATION", account |-> tx[s].account]]
           /\ Finish(s, 0)
           /\ UNCHANGED <<profile, position, expired, requests>>
  <2>1. tx[s].step = 4 /\ tx[s].position \in Positions /\ tx[s].account \in Accounts
    BY <1>1, Committing DEF IInv, SessionInv, CallInv
  <2>2. /\ profile' \in {"ENABLED", "DISABLED"} /\ requests' \in Seq(Request)
        /\ position' \in [Positions -> {"ENABLED", "DISABLED"}] /\ mapping' \in [Positions -> Mapping]
    BY <1>3, <2>1 DEF IInv, TypeOK, Mapping
  <2>3. MappingInv' /\ KeysInv'
    BY <1>3, <2>1 DEF IInv, TypeOK, MappingInv, KeysInv
  <2>4. ASSUME NEW q \in Sessions \ {s} PROVE AnswerInv(tx[q])' /\ LockedInv(tx[q])'
    <3>1. SessionInv(tx[q]) /\ tx'[q] = tx[q]
      BY <1>3 DEF IInv, TypeOK, Finish
    <3>2. AnswerInv(tx[q])'
      BY <1>3, <3>1 DEF SessionInv, AnswerInv, SameFingerprint
    <3>3. tx[q].pc \in InTransaction => tx[q].step = 1
      BY <1>1, <2>1, Unread DEF InTransaction
    <3> QED
      BY <3>1, <3>2, <3>3 DEF LockedInv
  <2> QED
    BY <1>3, <2>2, <2>3, <2>4, EndInv
<1> QED
  BY <1>2, <1>3 DEF ConfigureChannelPosition

\* What is held depends on the sessions and the locks alone.
LEMMA StillHeld ==
  ASSUME IInv, UNCHANGED <<held, tx>>
  PROVE  HeldInv' /\ CompatibleInv'
<1>1. \A s \in Sessions, i \in 1..3 : (Holds(s, i)' <=> Holds(s, i)) /\ LockAt(s, i)' = LockAt(s, i)
  BY DEF Holds, LockAt, RowOf
<1>2. HeldInv'
  BY <1>1 DEF IInv, HeldInv
<1>3. CompatibleInv'
  BY DEF IInv, CompatibleInv
<1> QED
  BY <1>2, <1>3

\* A mapping that a reservation has compared is locked, so that it is not marked ready
\* under it.
LEMMA MarkReadyInv == ASSUME IInv, NEW p \in Positions, MarkReady(p) PROVE IInv'
<1>1. /\ mapping[p].status = "PENDING_VERIFICATION" /\ mapping[p] \in Mapping
      /\ mapping' = [mapping EXCEPT ![p].status = "READY"]
      /\ UNCHANGED <<profile, position, expired, requests, held, tx>>
  BY DEF MarkReady, IInv, TypeOK
<1>2. TypeOK'
  BY <1>1 DEF IInv, TypeOK, Mapping
<1>3. MappingInv'
  BY <1>1 DEF IInv, TypeOK, MappingInv, Mapping
<1>4. HeldInv' /\ CompatibleInv' /\ KeysInv'
  BY <1>1, StillHeld DEF IInv, KeysInv
<1>5. ASSUME NEW q \in Sessions PROVE SessionInv(tx[q])'
  <2>1. SessionInv(tx[q])
    BY DEF IInv
  <2>2. ASSUME tx[q].pc \in InTransaction, tx[q].step > 3, tx[q].op = "reserve"
        PROVE  tx[q].position # p
    BY <1>1, <2>1, <2>2 DEF SessionInv, LockedInv
  <2>3. tx[q].op = "reserve" => tx[q].position \in Positions
    BY <2>1 DEF SessionInv, CallInv
  <2>4. LockedInv(tx[q])'
    BY <1>1, <2>1, <2>2, <2>3 DEF IInv, TypeOK, SessionInv, LockedInv, WithKey
  <2> QED
    BY <1>1, <2>1, <2>4 DEF SessionInv, CallInv, AnswerInv, SameFingerprint
<1> QED
  BY <1>2, <1>3, <1>4, <1>5 DEF IInv

LEMMA ExpireInv == ASSUME IInv, NEW v \in Previews, Expire(v) PROVE IInv'
<1>1. expired' = expired \cup {v} /\ UNCHANGED <<profile, position, mapping, requests, held, tx>>
  BY DEF Expire
<1>2. TypeOK' /\ MappingInv' /\ KeysInv'
  BY <1>1 DEF IInv, TypeOK, MappingInv, KeysInv
<1>3. HeldInv' /\ CompatibleInv'
  BY <1>1, StillHeld
<1>4. \A q \in Sessions : SessionInv(tx[q])'
  BY <1>1 DEF IInv, SessionInv, CallInv, AnswerInv, LockedInv, WithKey, SameFingerprint
<1> QED
  BY <1>2, <1>3, <1>4 DEF IInv

LEMMA NextInv == IInv /\ [Next]_vars => IInv'
<1> SUFFICES ASSUME IInv, [Next]_vars PROVE IInv'
  OBVIOUS
<1>1. ASSUME NEW s \in Sessions, Step(s) PROVE IInv'
  BY <1>1, FindByKeyInv, ReplayInv, CheckEligibilityInv, QuoteInv, LeaveInv, LockInv, InsertInv,
     ClaimInv, DisablePositionInv, ConfigureInv, DisableProfileInv DEF Step
<1>2. ASSUME NEW s \in Sessions, Convert(s) \/ StartClaim(s) \/ StartChange(s) \/ Abort(s) PROVE IInv'
  BY <1>2, ConvertInv, StartClaimInv, StartChangeInv, LeaveInv
<1>3. CASE UNCHANGED vars
  <2>1. TypeOK' /\ MappingInv' /\ KeysInv'
    BY <1>3 DEF vars, IInv, TypeOK, MappingInv, KeysInv
  <2>2. HeldInv' /\ CompatibleInv'
    BY <1>3, StillHeld DEF vars
  <2>3. \A q \in Sessions : SessionInv(tx[q])'
    BY <1>3 DEF vars, IInv, SessionInv, CallInv, AnswerInv, LockedInv, WithKey, SameFingerprint
  <2> QED
    BY <2>1, <2>2, <2>3 DEF IInv
<1> QED
  BY <1>1, <1>2, <1>3, MarkReadyInv, ExpireInv DEF Next

-----------------------------------------------------------------------------
(* The theorems.                                                           *)

\* The invariant holds in every reachable state, whatever sessions, positions, previews,
\* keys and accounts there are.
THEOREM Inductive == Spec => []IInv
<1>1. Init => IInv
  BY InitInv
<1>2. IInv /\ [Next]_vars => IInv'
  BY NextInv
<1> QED
  BY <1>1, <1>2, PTL DEF Spec

\* One request per key, and a call returns the request it asked for.
THEOREM AlwaysItsCall == Spec => []AnswersItsCall
<1>1. IInv => AnswersItsCall
  BY DEF IInv, KeysInv, SessionInv, AnswerInv, AnswersItsCall
<1> QED
  BY <1>1, Inductive, PTL

\* Whoever waits for a lock is not as far as its holder.
LEMMA HolderIsFurther ==
  ASSUME IInv, NEW s \in Sessions, NEW t \in Sessions, WaitsFor(s, t)
  PROVE  /\ tx[s].pc = "lock" /\ tx[s].step \in 1..3 /\ tx[t].step \in 1..4
         /\ tx[s].step < tx[t].step
<1>1. PICK h \in held : tx[s].pc = "lock" /\ h.by = t /\ h.row = RowOf(tx[s], NextLock(s)[1])
  BY DEF WaitsFor
<1>2. PICK q \in Sessions, j \in 1..3 :
        /\ h = LockAt(q, j) /\ h.by = q /\ Holds(q, j)
        /\ tx[q].op \in DOMAIN Script /\ j \in 1..Len(Script[tx[q].op]) /\ j < tx[q].step
  BY HeldLock
<1>3. q = t
  BY <1>1, <1>2
<1>4. tx[s].op \in DOMAIN Script /\ tx[s].step \in 1..Len(Script[tx[s].op]) /\ tx[s].step \in 1..3
  BY <1>1, Waiting
<1>5. tx[t].step \in 1..4
  BY DEF IInv, TypeOK, Session
<1> DEFINE i == tx[s].step
           mine == Script[tx[s].op][i][1]
           theirs == Script[tx[t].op][j][1]
<1>6. RowOf(tx[s], mine) = RowOf(tx[t], theirs)
  BY <1>1, <1>2, <1>3 DEF NextLock, LockAt
<1>7. mine = theirs
  BY <1>6 DEF RowOf
<1>8. /\ i = 1 <=> mine = "profile"
      /\ i = 2 <=> mine = "position"
  BY <1>4, ScriptSteps
<1>9. /\ j = 1 <=> theirs = "profile"
      /\ j = 2 <=> theirs = "position"
  BY <1>2, <1>3, ScriptSteps
<1>10. i = j
  <2> HIDE DEF mine, theirs, i
  <2>1. i \in 1..3 /\ j \in 1..3
    BY <1>2, <1>4 DEF i
  <2> QED
    BY <1>7, <1>8, <1>9, <2>1
<1> QED
  BY <1>1, <1>2, <1>3, <1>4, <1>5, <1>10

\* No transactions wait for each other: of a set of them that did, each would be waiting
\* for one that is further, and there are three steps.
THEOREM NeverDeadlocked == Spec => []NoDeadlock
<1>1. ASSUME IInv PROVE NoDeadlock
  <2> SUFFICES ASSUME NEW S \in (SUBSET Sessions) \ {{}}, \A s \in S : \E t \in S : WaitsFor(s, t)
               PROVE  FALSE
    BY DEF NoDeadlock
  <2>1. \A s \in S : \E t \in S :
          /\ tx[s].step \in 1..3 /\ tx[t].step \in 1..3 /\ tx[s].step < tx[t].step
    <3> SUFFICES ASSUME NEW s \in S
                 PROVE  \E t \in S : /\ tx[s].step \in 1..3 /\ tx[t].step \in 1..3
                                     /\ tx[s].step < tx[t].step
      OBVIOUS
    <3>1. PICK t \in S : WaitsFor(s, t)
      OBVIOUS
    <3>2. PICK u \in S : WaitsFor(t, u)
      OBVIOUS
    <3>3. tx[s].step \in 1..3 /\ tx[s].step < tx[t].step
      BY <1>1, <3>1, HolderIsFurther
    <3>4. tx[t].step \in 1..3
      BY <1>1, <3>2, HolderIsFurther
    <3> QED
      BY <3>3, <3>4
  <2>2. PICK s \in S : TRUE
    OBVIOUS
  <2>3. PICK t \in S : tx[s].step \in 1..3 /\ tx[t].step \in 1..3 /\ tx[s].step < tx[t].step
    BY <2>1
  <2>4. PICK u \in S : tx[u].step \in 1..3 /\ tx[t].step < tx[u].step
    BY <2>1
  <2>5. PICK v \in S : tx[v].step \in 1..3 /\ tx[u].step < tx[v].step
    BY <2>1
  <2> QED
    BY <2>3, <2>4, <2>5
<1>2. IInv => NoDeadlock
  BY <1>1
<1> QED
  BY <1>2, Inductive, PTL

\* The only step that stores a request is Insert, and it holds every row it has checked.
LEMMA StoringStep ==
  IInv /\ [Next]_vars =>
    [\A i \in DOMAIN requests' \ DOMAIN requests :
       LET q == requests'[i] IN
       /\ profile = "ENABLED" /\ position[q.position] = "ENABLED"
       /\ mapping[q.position] = [status |-> "READY", account |-> q.account]
       /\ q.preview \notin expired]_vars
<1> SUFFICES ASSUME IInv, Next, NEW i \in DOMAIN requests' \ DOMAIN requests
             PROVE  /\ profile = "ENABLED" /\ position[requests'[i].position] = "ENABLED"
                    /\ mapping[requests'[i].position] =
                         [status |-> "READY", account |-> requests'[i].account]
                    /\ requests'[i].preview \notin expired
  BY DEF vars
<1>1. PICK s \in Sessions : Insert(s)
  <2>1. requests' # requests
    OBVIOUS
  <2>2. ASSUME NEW s \in Sessions, Claim(s) PROVE FALSE
    <3>1. requests' = [requests EXCEPT ![tx[s].answer].status = "PROCESSING"]
      BY <2>2 DEF Claim
    <3>2. DOMAIN requests' = DOMAIN requests
      BY <3>1
    <3> QED
      BY <3>2
  <2> QED
    BY <2>1, <2>2 DEF Next, Step, Convert, StartClaim, StartChange, Enter, FindByKey, Replay,
       CheckEligibility, ReadPreview, Requote, Recheck, FindPrior, Lock, Refuse, Abort, Rollback,
       DisablePosition, ConfigureChannelPosition, DisableProfile, MarkReady, Expire
<1>2. tx[s].pc = "commit" /\ tx[s].op = "reserve" /\ SessionInv(tx[s]) /\ tx[s].step = 4
  BY <1>1, Committing DEF IInv, Insert
<1>3. /\ profile = "ENABLED" /\ position[tx[s].position] = "ENABLED"
      /\ mapping[tx[s].position] = [status |-> "READY", account |-> tx[s].account]
  BY <1>2 DEF SessionInv, LockedInv, InTransaction
<1> DEFINE q == [key |-> tx[s].key, position |-> tx[s].position, preview |-> tx[s].preview,
                 account |-> tx[s].account, status |-> "PENDING"]
<1>4. tx[s].preview \notin expired /\ requests' = Append(requests, q)
  BY <1>1 DEF Insert, Rollback
<1>5. requests'[i] = q
  <2> HIDE DEF q
  <2>1. requests \in Seq(Request)
    BY DEF IInv, TypeOK
  <2> QED
    BY <1>4, <2>1
<1> QED
  BY <1>3, <1>4, <1>5

\* A request is stored only while promoter, position, mapping and preview are as they
\* were checked.
THEOREM StoresEligible == Spec => StoredWhileEligible
BY StoringStep, Inductive, PTL DEF Spec, StoredWhileEligible

\* The only step that changes a stored request is Claim, and it holds what it has checked.
LEMMA ClaimingStep ==
  IInv /\ [Next]_vars =>
    [\A i \in DOMAIN requests : requests'[i] # requests[i] =>
       /\ requests[i].status = "PENDING"
       /\ profile = "ENABLED" /\ position[requests[i].position] = "ENABLED"]_vars
<1> SUFFICES ASSUME IInv, Next, NEW i \in DOMAIN requests, requests'[i] # requests[i]
             PROVE  /\ requests[i].status = "PENDING"
                    /\ profile = "ENABLED" /\ position[requests[i].position] = "ENABLED"
  BY DEF vars
<1>1. PICK s \in Sessions : Claim(s)
  <2>1. requests' # requests
    OBVIOUS
  <2>2. ASSUME NEW s \in Sessions, Insert(s) PROVE FALSE
    <3>1. requests \in Seq(Request)
      BY DEF IInv, TypeOK
    <3>2. \A q : requests' = Append(requests, q) => requests'[i] = requests[i]
      BY <3>1
    <3> QED
      BY <2>1, <2>2, <3>2 DEF Insert, Rollback
  <2> QED
    BY <2>1, <2>2 DEF Next, Step, Convert, StartClaim, StartChange, Enter, FindByKey, Replay,
       CheckEligibility, ReadPreview, Requote, Recheck, FindPrior, Lock, Refuse, Abort, Rollback,
       DisablePosition, ConfigureChannelPosition, DisableProfile, MarkReady, Expire
<1>2. /\ tx[s].pc = "commit" /\ tx[s].op = "claim" /\ SessionInv(tx[s]) /\ tx[s].step = 4
      /\ requests' = [requests EXCEPT ![tx[s].answer].status = "PROCESSING"]
  BY <1>1, Committing DEF IInv, Claim
<1>3. tx[s].answer = i
  BY <1>2
<1> QED
  BY <1>2, <1>3 DEF SessionInv, LockedInv, AnswerInv, InTransaction

\* A request is claimed by one call only, and only while promoter and position are enabled.
THEOREM ClaimsEligible == Spec => ClaimedWhileEligible
BY ClaimingStep, Inductive, PTL DEF Spec, ClaimedWhileEligible

-----------------------------------------------------------------------------
(***************************************************************************)
(* Part II.  Migrate, for any releases and any number of runners.  The     *)
(* argument: only the holder of the lock goes on, so that from its reading *)
(* of the ledger on, what it has left is its directory without the ledger; *)
(* the next of it is numbered above everything in the ledger, above what   *)
(* it read because Begin looked, above what it added because it takes the  *)
(* lowest first.                                                           *)
(***************************************************************************)
Working == {"locked", "applying", "open", "leaving"}

HolderInv == \A r \in Runners : run[r].pc \in Working => lock = r

\* The ledger tells what has taken effect.
LedgerInv == ledger = {schema[i] : i \in DOMAIN schema}

\* What the runner that applies knows.
RunInv ==
  \A r \in Runners : run[r].pc \in {"applying", "open"} =>
    /\ ledger \subseteq dir[r]
    /\ run[r].applied \subseteq ledger
    /\ run[r].left = dir[r] \ ledger
    /\ \A n \in ledger \ run[r].applied, m \in run[r].left : n.version < m.version
    /\ run[r].pc = "open" =>
         \A m \in run[r].left : IsNext(m, run[r].left) => ~Precedes(m, run[r].applied)

MigrateInv ==
  /\ MigrateTypeOK /\ HolderInv /\ LedgerInv /\ RunInv
  /\ AppliedInOrder /\ NoReleaseMixed /\ ServedSchemaStays

-----------------------------------------------------------------------------
\* Versions tell the migrations of a directory apart, and are numbers.
LEMMA DirectoryVersions ==
  ASSUME NEW d \in Directories, NEW m \in d, NEW n \in d
  PROVE  /\ m \in Migration /\ m.version \in Nat /\ n.version \in Nat
         /\ m.version = n.version => m = n
BY MigrateAssumption DEF MigrateAssumption, Readable, Migration

\* MigrateInit establishes the invariant.
LEMMA MigrateInitInv == MigrateInit => MigrateInv
<1> SUFFICES ASSUME MigrateInit PROVE MigrateInv
  OBVIOUS
<1> USE DEF MigrateInit
<1>1. MigrateTypeOK
  BY MigrateAssumption DEF MigrateTypeOK, MigrateAssumption, Call, IdleCall
<1>2. HolderInv /\ RunInv
  BY DEF HolderInv, RunInv, Working, IdleCall
<1>3. LedgerInv /\ AppliedInOrder /\ ServedSchemaStays
  BY DEF LedgerInv, AppliedInOrder, ServedSchemaStays
<1>4. NoReleaseMixed
  BY MigrateAssumption DEF NoReleaseMixed, MigrateAssumption
<1> QED
  BY <1>1, <1>2, <1>3, <1>4 DEF MigrateInv

-----------------------------------------------------------------------------
(* Steps that leave ledger and schema alone.                               *)

\* The properties speak of ledger, schema and serving only.
LEMMA DataUnchanged ==
  ASSUME MigrateInv, UNCHANGED <<ledger, schema, serving>>
  PROVE  LedgerInv' /\ AppliedInOrder' /\ NoReleaseMixed' /\ ServedSchemaStays'
BY DEF MigrateInv, LedgerInv, AppliedInOrder, NoReleaseMixed, ServedSchemaStays

\* A runner that holds the lock is the only one at work.
LEMMA Alone ==
  ASSUME MigrateInv, NEW r \in Runners, run[r].pc \in Working,
         NEW q \in Runners, q # r
  PROVE  run[q].pc \notin Working
BY DEF MigrateInv, HolderInv

\* The step of one runner takes it to a call of the right type.
LEMMA CallTypes ==
  ASSUME MigrateInv, NEW r \in Runners, NEW c \in Call, run' = [run EXCEPT ![r] = c]
  PROVE  /\ run' \in [Runners -> Call] /\ run'[r] = c
         /\ \A q \in Runners : q # r => run'[q] = run[q]
BY DEF MigrateInv, MigrateTypeOK

\* The runner becomes c and holds the lock if it goes on working; nobody else changes.
LEMMA QuietStep ==
  ASSUME MigrateInv, NEW r \in Runners, NEW c \in Call, run' = [run EXCEPT ![r] = c],
         lock' \in Runners \cup {Nobody}, faults' \in 0..MaxFaults,
         c.pc \in Working => lock' = r,
         \A q \in Runners : q # r /\ lock = q => lock' = q,
         c.pc \in {"applying", "open"} =>
           /\ ledger \subseteq dir[r]
           /\ c.applied \subseteq ledger
           /\ c.left = dir[r] \ ledger
           /\ \A n \in ledger \ c.applied, m \in c.left : n.version < m.version
           /\ c.pc = "open" =>
                \A m \in c.left : IsNext(m, c.left) => ~Precedes(m, c.applied),
         UNCHANGED <<dir, ledger, schema, serving>>
  PROVE  MigrateInv'
<1>1. run' \in [Runners -> Call] /\ run'[r] = c /\ \A q \in Runners : q # r => run'[q] = run[q]
  BY CallTypes
<1>2. MigrateTypeOK'
  BY <1>1 DEF MigrateInv, MigrateTypeOK
<1>3. HolderInv'
  BY <1>1 DEF MigrateInv, HolderInv
<1>4. RunInv'
  BY <1>1 DEF MigrateInv, RunInv, IsNext, Precedes
<1> QED
  BY <1>2, <1>3, <1>4, DataUnchanged DEF MigrateInv

-----------------------------------------------------------------------------
(* One lemma per action.                                                   *)

LEMMA StartInv == ASSUME MigrateInv, NEW r \in Runners, Start(r) PROVE MigrateInv'
<1> DEFINE c == [run[r] EXCEPT !.pc = "waiting"]
<1>1. c \in Call /\ c.pc = "waiting"
  BY DEF MigrateInv, MigrateTypeOK, Call
<1>2. lock \in Runners \cup {Nobody} /\ faults \in 0..MaxFaults
  BY DEF MigrateInv, MigrateTypeOK
<1> QED
  BY <1>1, <1>2, QuietStep DEF Start, Goto, Working

LEMMA AcquireLockInv == ASSUME MigrateInv, NEW r \in Runners, AcquireLock(r) PROVE MigrateInv'
<1> DEFINE c == [run[r] EXCEPT !.pc = "locked"]
<1>1. c \in Call /\ c.pc = "locked"
  BY DEF MigrateInv, MigrateTypeOK, Call
<1>2. faults \in 0..MaxFaults
  BY DEF MigrateInv, MigrateTypeOK
<1>3. \A q \in Runners : lock # q
  BY MigrateAssumption DEF MigrateAssumption, AcquireLock
<1> QED
  BY <1>1, <1>2, <1>3, QuietStep DEF AcquireLock, Goto

LEMMA ReadLedgerInv == ASSUME MigrateInv, NEW r \in Runners, ReadLedger(r) PROVE MigrateInv'
<1> DEFINE c == IF Intact(r) THEN [pc |-> "applying", applied |-> ledger, left |-> dir[r] \ ledger]
                             ELSE [pc |-> "leaving", applied |-> {}, left |-> {}]
<1>1. dir[r] \subseteq Migration /\ ledger \subseteq Migration
  BY MigrateAssumption DEF MigrateAssumption, Readable, MigrateInv, MigrateTypeOK
<1>2. c \in Call
  BY <1>1 DEF Call
<1>3. lock = r /\ faults \in 0..MaxFaults
  BY DEF MigrateInv, MigrateTypeOK, HolderInv, ReadLedger, At, Working
<1>4. c.pc \in {"applying", "open"} =>
        /\ Intact(r) /\ c.applied = ledger /\ c.left = dir[r] \ ledger /\ c.pc # "open"
  OBVIOUS
<1> HIDE DEF c
<1>5. run' = [run EXCEPT ![r] = c] /\ UNCHANGED <<dir, lock, ledger, schema, serving, faults>>
  BY DEF ReadLedger, c
<1> QED
  BY <1>2, <1>3, <1>4, <1>5, QuietStep DEF Intact

LEMMA BeginInv == ASSUME MigrateInv, NEW r \in Runners, Begin(r) PROVE MigrateInv'
<1>1. PICK m \in run[r].left :
        /\ At(r, "applying") /\ IsNext(m, run[r].left)
        /\ Goto(r, IF Precedes(m, run[r].applied) THEN "leaving" ELSE "open")
        /\ UNCHANGED <<dir, lock, ledger, schema, serving, faults>>
  BY DEF Begin
<1> DEFINE c == [run[r] EXCEPT !.pc = IF Precedes(m, run[r].applied) THEN "leaving" ELSE "open"]
<1>2. /\ c \in Call /\ c.applied = run[r].applied /\ c.left = run[r].left
      /\ c.pc = "open" => ~Precedes(m, run[r].applied)
      /\ run' = [run EXCEPT ![r] = c]
  BY <1>1 DEF MigrateInv, MigrateTypeOK, Call, Goto
<1>3. lock = r /\ faults \in 0..MaxFaults
  BY <1>1 DEF MigrateInv, MigrateTypeOK, HolderInv, At, Working
<1>4. /\ ledger \subseteq dir[r]
      /\ run[r].applied \subseteq ledger
      /\ run[r].left = dir[r] \ ledger
      /\ \A n \in ledger \ run[r].applied, k \in run[r].left : n.version < k.version
  BY <1>1 DEF MigrateInv, RunInv, At
<1>5. \A k \in run[r].left : IsNext(k, run[r].left) => k = m
  <2> SUFFICES ASSUME NEW k \in run[r].left, IsNext(k, run[r].left) PROVE k = m
    OBVIOUS
  <2>1. dir[r] \in Directories /\ k \in dir[r] /\ m \in dir[r]
    BY <1>4 DEF MigrateInv, MigrateTypeOK
  <2>2. k.version <= m.version /\ m.version <= k.version
    BY <1>1 DEF IsNext
  <2> QED
    BY <2>1, <2>2, DirectoryVersions
<1> HIDE DEF c
<1> QED
  BY <1>1, <1>2, <1>3, <1>4, <1>5, QuietStep

LEMMA DoneInv == ASSUME MigrateInv, NEW r \in Runners, Done(r) PROVE MigrateInv'
<1> DEFINE c == [run[r] EXCEPT !.pc = "leaving"]
<1>1. c \in Call /\ c.pc = "leaving"
  BY DEF MigrateInv, MigrateTypeOK, Call
<1>2. lock = r /\ faults \in 0..MaxFaults
  BY DEF MigrateInv, MigrateTypeOK, HolderInv, Done, At, Working
<1> QED
  BY <1>1, <1>2, QuietStep DEF Done, Goto

\* The connection is gone, and the lock with it if it was this runner's.
LEMMA ReleaseInv ==
  ASSUME MigrateInv, NEW r \in Runners, run' = [run EXCEPT ![r] = IdleCall],
         lock' = IF lock = r THEN Nobody ELSE lock, faults' \in 0..MaxFaults,
         UNCHANGED <<dir, ledger, schema, serving>>
  PROVE  MigrateInv'
<1>1. IdleCall \in Call /\ IdleCall.pc = "idle"
  BY DEF Call, IdleCall
<1>2. lock' \in Runners \cup {Nobody}
  BY DEF MigrateInv, MigrateTypeOK
<1> QED
  BY <1>1, <1>2, QuietStep DEF Working

LEMMA FailInv == ASSUME MigrateInv, NEW r \in Runners, Fail(r) PROVE MigrateInv'
<1> DEFINE c == [run[r] EXCEPT !.pc = "leaving"]
<1>1. c \in Call /\ c.pc = "leaving"
  BY DEF MigrateInv, MigrateTypeOK, Call
<1>2. lock = r /\ faults' \in 0..MaxFaults
  BY MigrateAssumption DEF MigrateAssumption, MigrateInv, MigrateTypeOK, HolderInv, Fail, At, Working
<1>3. run' = [run EXCEPT ![r] = c] /\ UNCHANGED <<dir, lock, ledger, schema, serving>>
  BY DEF Fail, Goto
<1> HIDE DEF c
<1> QED
  BY <1>1, <1>2, <1>3, QuietStep

-----------------------------------------------------------------------------
(* Applying a migration.                                                   *)

\* What Apply does, with the number of its migration above the whole ledger.
LEMMA ApplyFacts ==
  ASSUME MigrateInv, NEW r \in Runners, Apply(r)
  PROVE  \E m \in dir[r] \ ledger :
           /\ \A n \in dir[r] \ ledger : m.version <= n.version
           /\ \A n \in ledger : n.version < m.version
           /\ ledger' = ledger \cup {m} /\ schema' = Append(schema, m)
           /\ run' = [run EXCEPT ![r].pc = "applying", ![r].left = @ \ {m}]
<1>1. PICK m \in run[r].left :
        /\ At(r, "open") /\ IsNext(m, run[r].left)
        /\ ledger' = ledger \cup {m} /\ schema' = Append(schema, m)
        /\ run' = [run EXCEPT ![r].pc = "applying", ![r].left = @ \ {m}]
  BY DEF Apply
<1>2. /\ ledger \subseteq dir[r] /\ run[r].applied \subseteq ledger
      /\ run[r].left = dir[r] \ ledger
      /\ \A n \in ledger \ run[r].applied, k \in run[r].left : n.version < k.version
      /\ ~Precedes(m, run[r].applied)
  BY <1>1 DEF MigrateInv, RunInv, At
<1>3. dir[r] \in Directories
  BY DEF MigrateInv, MigrateTypeOK
<1>4. ASSUME NEW n \in ledger PROVE n.version < m.version
  <2>1. n \in dir[r] /\ m \in dir[r] /\ n # m
    BY <1>2
  <2>2. n.version \in Nat /\ m.version \in Nat /\ n.version # m.version
    BY <1>3, <2>1, DirectoryVersions
  <2>3. CASE n \in run[r].applied
    BY <1>2, <2>2, <2>3 DEF Precedes
  <2>4. CASE n \notin run[r].applied
    BY <1>2, <2>4
  <2> QED
    BY <2>3, <2>4
<1> QED
  BY <1>1, <1>2, <1>4 DEF IsNext

LEMMA ApplyInv == ASSUME MigrateInv, NEW r \in Runners, Apply(r) PROVE MigrateInv'
<1>1. PICK m \in dir[r] \ ledger :
        /\ \A n \in dir[r] \ ledger : m.version <= n.version
        /\ \A n \in ledger : n.version < m.version
        /\ ledger' = ledger \cup {m} /\ schema' = Append(schema, m)
        /\ run' = [run EXCEPT ![r].pc = "applying", ![r].left = @ \ {m}]
  BY ApplyFacts
<1>2. At(r, "open") /\ UNCHANGED <<dir, lock, serving, faults>>
  BY DEF Apply
<1>3. /\ dir[r] \in Directories /\ dir[r] \subseteq Migration
      /\ ledger \subseteq dir[r] /\ run[r].applied \subseteq ledger /\ run[r].left = dir[r] \ ledger
  BY <1>2, MigrateAssumption DEF MigrateAssumption, Readable, MigrateInv, MigrateTypeOK, RunInv, At
<1> DEFINE c == [run[r] EXCEPT !.pc = "applying", !.left = @ \ {m}]
<1>4. c \in Call /\ c.pc = "applying" /\ c.applied = run[r].applied /\ c.left = dir[r] \ ledger'
  BY <1>1, <1>3 DEF MigrateInv, MigrateTypeOK, Call
<1>5. run' = [run EXCEPT ![r] = c]
  BY <1>1
<1> HIDE DEF c
<1>6. run' \in [Runners -> Call] /\ run'[r] = c /\ \A q \in Runners : q # r => run'[q] = run[q]
  BY <1>4, <1>5, CallTypes
<1>7. \A n \in dir[r] \ ledger' : m.version < n.version
  <2> SUFFICES ASSUME NEW n \in dir[r] \ ledger' PROVE m.version < n.version
    OBVIOUS
  <2>1. n \in dir[r] \ ledger /\ n # m
    BY <1>1
  <2>2. m.version \in Nat /\ n.version \in Nat /\ m.version # n.version
    BY <1>1, <1>3, <2>1, DirectoryVersions
  <2> QED
    BY <1>1, <2>1, <2>2
<1>8. /\ schema' \in Seq(Migration) /\ Len(schema') = Len(schema) + 1
      /\ schema'[Len(schema) + 1] = m /\ \A i \in 1..Len(schema) : schema'[i] = schema[i]
      /\ DOMAIN schema' = 1..(Len(schema) + 1) /\ DOMAIN schema = 1..Len(schema)
      /\ Len(schema) \in Nat
  BY <1>1, <1>3 DEF MigrateInv, MigrateTypeOK
<1>9. \A i \in DOMAIN schema : schema[i] \in ledger
  BY DEF MigrateInv, LedgerInv
<1>10. MigrateTypeOK'
  BY <1>1, <1>2, <1>3, <1>6, <1>8 DEF MigrateInv, MigrateTypeOK
<1>11. HolderInv'
  BY <1>2, <1>4, <1>6 DEF MigrateInv, HolderInv, At, Working
<1>12. LedgerInv'
  <2>1. ledger' \subseteq {schema'[i] : i \in DOMAIN schema'}
    BY <1>1, <1>8 DEF MigrateInv, LedgerInv
  <2>2. {schema'[i] : i \in DOMAIN schema'} \subseteq ledger'
    BY <1>1, <1>8 DEF MigrateInv, LedgerInv
  <2> QED
    BY <2>1, <2>2 DEF LedgerInv
<1>13. RunInv'
  <2> SUFFICES ASSUME NEW q \in Runners, run'[q].pc \in {"applying", "open"}
               PROVE  /\ ledger' \subseteq dir'[q]
                      /\ run'[q].applied \subseteq ledger'
                      /\ run'[q].left = dir'[q] \ ledger'
                      /\ \A n \in ledger' \ run'[q].applied, k \in run'[q].left : n.version < k.version
                      /\ run'[q].pc = "open" =>
                           \A k \in run'[q].left : IsNext(k, run'[q].left) => ~Precedes(k, run'[q].applied)
    BY DEF RunInv, IsNext, Precedes
  <2>1. q = r
    BY <1>2, <1>6, Alone DEF Working, At
  <2>2. ASSUME NEW n \in ledger' \ run'[q].applied, NEW k \in run'[q].left
        PROVE n.version < k.version
    <3>1. n = m \/ n \in ledger \ run[r].applied
      BY <1>1, <1>4, <1>6, <2>1
    <3>2. k \in dir[r] \ ledger' /\ k \in run[r].left
      BY <1>1, <1>3, <1>4, <1>6, <2>1
    <3>3. CASE n = m
      BY <1>7, <3>2, <3>3
    <3>4. CASE n \in ledger \ run[r].applied
      BY <1>2, <3>2, <3>4 DEF MigrateInv, RunInv, At
    <3> QED
      BY <3>1, <3>3, <3>4
  <2> QED
    BY <1>1, <1>2, <1>3, <1>4, <1>6, <2>1, <2>2
<1>14. AppliedInOrder'
  <2> SUFFICES ASSUME NEW i \in 1..(Len(schema) + 1), NEW j \in 1..(Len(schema) + 1), i < j
               PROVE  schema'[i].version < schema'[j].version
    BY <1>8 DEF AppliedInOrder
  <2>1. CASE j = Len(schema) + 1
    <3>1. i \in 1..Len(schema)
      BY <2>1, <1>8
    <3> QED
      BY <1>1, <1>8, <1>9, <2>1, <3>1
  <2>2. CASE j # Len(schema) + 1
    <3>1. i \in DOMAIN schema /\ j \in DOMAIN schema
      BY <2>2, <1>8
    <3>2. schema[i].version < schema[j].version
      BY <3>1 DEF MigrateInv, AppliedInOrder
    <3> QED
      BY <1>8, <3>1, <3>2
  <2> QED
    BY <2>1, <2>2
<1>15. NoReleaseMixed'
  <2>1. ledger' \subseteq dir[r]
    BY <1>1, <1>3
  <2>2. ASSUME NEW k \in dir[r] \ ledger', NEW n \in ledger' PROVE k.version > n.version
    <3>1. n \in dir[r] /\ m \in dir[r]
      BY <2>1, <1>1
    <3>2. k.version \in Nat /\ n.version \in Nat /\ m.version \in Nat
      BY <1>3, <3>1, DirectoryVersions
    <3>3. n = m \/ n.version < m.version
      BY <1>1
    <3> QED
      BY <1>7, <3>2, <3>3
  <2> QED
    BY <1>3, <2>1, <2>2 DEF NoReleaseMixed
<1>16. ServedSchemaStays'
  <2> SUFFICES ASSUME NEW d \in serving
               PROVE  /\ \A n \in d : \E i \in DOMAIN schema' : schema'[i] = n
                      /\ \A i \in DOMAIN schema', n \in d : schema'[i] \in d \/ schema'[i].version > n.version
    BY <1>2 DEF ServedSchemaStays
  <2>1. /\ \A n \in d : \E i \in DOMAIN schema : schema[i] = n
        /\ \A i \in DOMAIN schema, n \in d : schema[i] \in d \/ schema[i].version > n.version
    BY DEF MigrateInv, ServedSchemaStays
  <2>2. \A n \in d : \E i \in DOMAIN schema' : schema'[i] = n
    BY <1>8, <2>1
  <2>3. ASSUME NEW i \in DOMAIN schema', NEW n \in d
        PROVE  schema'[i] \in d \/ schema'[i].version > n.version
    <3>1. CASE i \in DOMAIN schema
      BY <1>8, <2>1, <3>1
    <3>2. CASE i = Len(schema) + 1
      <4>1. n \in ledger
        BY <1>9, <2>1
      <4>2. n.version \in Nat /\ m.version \in Nat
        BY <4>1, <1>1, <1>3, DirectoryVersions
      <4> QED
        BY <1>1, <1>8, <3>2, <4>1, <4>2
    <3> QED
      BY <1>8, <3>1, <3>2
  <2> QED
    BY <2>2, <2>3
<1> QED
  BY <1>10, <1>11, <1>12, <1>13, <1>14, <1>15, <1>16 DEF MigrateInv

\* An API that begins to serve finds its directory to be the ledger.
LEMMA VerifyInv == ASSUME MigrateInv, NEW d \in Directories, Verify(d) PROVE MigrateInv'
<1>1. /\ ledger = d /\ serving' = serving \cup {d}
      /\ UNCHANGED <<dir, lock, ledger, schema, run, faults>>
  BY DEF Verify
<1>2. MigrateTypeOK' /\ HolderInv' /\ LedgerInv' /\ RunInv' /\ AppliedInOrder' /\ NoReleaseMixed'
  BY <1>1 DEF MigrateInv, MigrateTypeOK, HolderInv, LedgerInv, RunInv, IsNext, Precedes, AppliedInOrder, NoReleaseMixed
<1>3. ServedSchemaStays'
  BY <1>1 DEF MigrateInv, LedgerInv, ServedSchemaStays
<1> QED
  BY <1>2, <1>3 DEF MigrateInv

LEMMA MigrateNextInv == MigrateInv /\ [MigrateNext]_migrateVars => MigrateInv'
<1> SUFFICES ASSUME MigrateInv, [MigrateNext]_migrateVars PROVE MigrateInv'
  OBVIOUS
<1>1. ASSUME NEW r \in Runners, Run(r) PROVE MigrateInv'
  <2>1. ASSUME Unlock(r) PROVE MigrateInv'
    BY <2>1, ReleaseInv DEF Unlock, MigrateInv, MigrateTypeOK
  <2> QED
    BY <1>1, <2>1, StartInv, AcquireLockInv, ReadLedgerInv, BeginInv, ApplyInv, DoneInv, FailInv DEF Run
<1>2. ASSUME NEW r \in Runners, Die(r) PROVE MigrateInv'
  <2>1. faults' \in 0..MaxFaults
    BY <1>2, MigrateAssumption DEF MigrateAssumption, Die, MigrateInv, MigrateTypeOK
  <2> QED
    BY <1>2, <2>1, ReleaseInv DEF Die
<1>3. ASSUME NEW d \in Directories, Verify(d) PROVE MigrateInv'
  BY <1>3, VerifyInv
<1>4. CASE UNCHANGED migrateVars
  BY <1>4 DEF migrateVars, MigrateInv, MigrateTypeOK, HolderInv, LedgerInv, RunInv, IsNext, Precedes, AppliedInOrder,
              NoReleaseMixed, ServedSchemaStays
<1> QED
  BY <1>1, <1>2, <1>3, <1>4 DEF MigrateNext

-----------------------------------------------------------------------------
\* The invariant holds in every reachable state, whatever runners and releases there are.
THEOREM MigrateInductive == MigrateSpec => []MigrateInv
<1>1. MigrateInit => MigrateInv
  BY MigrateInitInv
<1>2. MigrateInv /\ [MigrateNext]_migrateVars => MigrateInv'
  BY MigrateNextInv
<1> QED
  BY <1>1, <1>2, PTL DEF MigrateSpec

\* Every migration takes effect at most once, in the order of the numbers.
THEOREM AlwaysInOrder == MigrateSpec => []AppliedInOrder
<1>1. MigrateInv => AppliedInOrder
  BY DEF MigrateInv
<1> QED
  BY <1>1, MigrateInductive, PTL

\* The ledger is always one release's directory up to some version.
THEOREM NeverMixed == MigrateSpec => []NoReleaseMixed
<1>1. MigrateInv => NoReleaseMixed
  BY DEF MigrateInv
<1> QED
  BY <1>1, MigrateInductive, PTL

\* What an API verified stays in effect below everything added later.
THEOREM ServedStays == MigrateSpec => []ServedSchemaStays
<1>1. MigrateInv => ServedSchemaStays
  BY DEF MigrateInv
<1> QED
  BY <1>1, MigrateInductive, PTL
=============================================================================
