---------------------------- MODULE PositionSteps ----------------------------
(***************************************************************************)
(* The two transactions of Positions, statement by statement: the locks    *)
(* they take, what they read under them, and a commit that makes all they  *)
(* wrote visible.  READ COMMITTED: a locking SELECT or an UPDATE waits for *)
(* the row and reads its latest committed version.                         *)
(*                                                                         *)
(* The module shows what Positions takes for granted, that a command is    *)
(* one action.  Neither the unique index on the default nor the primary    *)
(* key of the receipts is modelled: a commit they would have to refuse     *)
(* must not be tried in the first place.                                   *)
(***************************************************************************)
EXTENDS Positions

ASSUME StepsAssumption == None \notin Editors

VARIABLES
  lock,  \* who holds a row lock, or an advisory lock
  call   \* the transaction that carries out an editor's command

stepVars == <<enabled, positions, mapping, receipts, editor, lock, call>>

-----------------------------------------------------------------------------
Profile == <<"profile", None>>
RowOf(p) == <<"position", p>>
Scope(c) == <<"scope", c.key>>

Lockable == {Profile} \cup {RowOf(p) : p \in Ids} \cup ({"scope"} \X Keys)

\* row is the row that was read, losing the positions that lose the default flag.
Call == [pc : {"none", "receipt", "profile", "row", "default", "commit"},
         row : Position \cup Mapping \cup {None}, losing : SUBSET Ids]

NoCall == [pc |-> "none", row |-> None, losing |-> {}]

StepInit ==
  /\ Init
  /\ lock = [l \in Lockable |-> None]
  /\ call = [g \in Editors |-> NoCall]

Free(g, l) == lock[l] \in {None, g}

Take(g, ls) == lock' = [l \in Lockable |-> IF l \in ls THEN g ELSE lock[l]]

Advance(g, pc) == call' = [call EXCEPT ![g].pc = pc]

\* Commit and rollback release every lock.
End(g) ==
  /\ lock' = [l \in Lockable |-> IF lock[l] = g THEN None ELSE lock[l]]
  /\ call' = [call EXCEPT ![g] = NoCall]

Unwritten == UNCHANGED <<enabled, positions, mapping, receipts>>

-----------------------------------------------------------------------------
(* The statements.                                                         *)

\* A configuration begins with an advisory lock on its key.
LockScope(g) ==
  /\ Sending(g) /\ call[g].pc = "none"
  /\ editor[g].command.action = "CONFIGURE"
  /\ Free(g, Scope(editor[g].command))
  /\ Take(g, {Scope(editor[g].command)}) /\ Advance(g, "receipt")
  /\ UNCHANGED vars

\* The other commands begin with the profile; a configuration locks it when it has
\* found no receipt.
AtProfile(g) ==
  call[g].pc = IF editor[g].command.action = "CONFIGURE" THEN "profile" ELSE "none"

\* Mutant: the profile is read without FOR UPDATE.
ReadProfile(g) ==
  /\ Sending(g) /\ AtProfile(g) /\ enabled
  /\ UNCHANGED lock
  /\ Advance(g, IF editor[g].command.action = "CONFIGURE" THEN "row" ELSE "receipt")
  /\ UNCHANGED vars

LockProfile(g) ==
  /\ Sending(g) /\ AtProfile(g) /\ enabled
  /\ Free(g, Profile)
  /\ Take(g, {Profile})
  /\ Advance(g, IF editor[g].command.action = "CONFIGURE" THEN "row" ELSE "receipt")
  /\ UNCHANGED vars

FindNoReceipt(g) ==
  /\ call[g].pc = "receipt"
  /\ InScope(editor[g].command) = {}
  /\ Advance(g, IF editor[g].command.action = "CONFIGURE" THEN "profile" ELSE "row")
  /\ UNCHANGED <<lock, enabled, positions, mapping, receipts, editor>>

\* Mutant: whatever was stored under the key is the answer.
FindReceiptUnread(g) ==
  /\ call[g].pc = "receipt"
  /\ \E r \in InScope(editor[g].command) : Answered(g, r.position, r.row)
  /\ End(g) /\ Unwritten

\* The key was used: the same command has its first answer again.
FindReceipt(g) ==
  /\ call[g].pc = "receipt"
  /\ \E r \in InScope(editor[g].command) :
       r.command = editor[g].command /\ Answered(g, r.position, r.row)
  /\ End(g) /\ Unwritten

Usable(c) ==
  IF c.action = "CONFIGURE"
    THEN positions[c.position].status = "ENABLED" /\ Version(mapping[c.position]) = c.version
    ELSE Changeable(positions[c.position], c)

Unshared(c) ==
  \A q \in Ids \ {c.position} : mapping[q] # None => mapping[q].external # c.content

\* The position, and the mapping with it, is read FOR UPDATE.
ReadRow(g) ==
  LET c == editor[g].command IN
  /\ call[g].pc = "row" /\ c.action # "CREATE"
  /\ Free(g, RowOf(c.position)) /\ Usable(c)
  /\ Take(g, {RowOf(c.position)})
  /\ call' = [call EXCEPT ![g].pc  = IF c.action = "CONFIGURE" THEN "commit" ELSE "default",
                          ![g].row = IF c.action = "CONFIGURE" THEN mapping[c.position]
                                                               ELSE positions[c.position]]
  /\ UNCHANGED vars

MakeRow(g) ==
  /\ call[g].pc = "row" /\ editor[g].command.action = "CREATE"
  /\ Advance(g, "default")
  /\ UNCHANGED <<lock, enabled, positions, mapping, receipts, editor>>

\* The row this command leaves.
Result(g) ==
  IF editor[g].command.action = "CREATE" THEN Created(editor[g].command)
                                         ELSE Changed(call[g].row, editor[g].command)

\* A new default takes the flag from what is the default now.
TakeDefault(g) ==
  LET losing == {q \in Ids : /\ q # editor[g].command.position /\ Result(g).default
                             /\ positions[q] # None /\ positions[q].default}
  IN
  /\ call[g].pc = "default"
  /\ \A q \in losing : Free(g, RowOf(q))
  /\ Take(g, {RowOf(q) : q \in losing})
  /\ call' = [call EXCEPT ![g].pc = "commit", ![g].losing = losing]
  /\ UNCHANGED vars

\* A refusal, by the statement that finds the reason; the end of a configuration is
\* refused by the unique constraint on external positions.
RefuseCall(g) ==
  /\ Sending(g)
  /\ LET c == editor[g].command IN
     \/ AtProfile(g) /\ Free(g, Profile) /\ ~enabled
     \/ call[g].pc = "receipt" /\ \E r \in InScope(c) : r.command # c
     \/ call[g].pc = "row" /\ c.action # "CREATE" /\ Free(g, RowOf(c.position)) /\ ~Usable(c)
     \/ call[g].pc = "commit" /\ c.action = "CONFIGURE" /\ ~Unshared(c)
  /\ Refused(g) /\ End(g)

-----------------------------------------------------------------------------
(* The ends of the transactions.                                           *)

Committed(g, p) ==
  [q \in Ids |-> IF q = p THEN Result(g)
                 ELSE IF q \in call[g].losing THEN Undefaulted(positions[q]) ELSE positions[q]]

CommitPosition(g) ==
  LET c == editor[g].command IN
  /\ call[g].pc = "commit" /\ c.action # "CONFIGURE"
  /\ Cardinality(receipts) < MaxReceipts
  /\ \E p \in IF c.action = "CREATE" THEN {q \in Ids : positions[q] = None} ELSE {c.position} :
       /\ positions' = Committed(g, p)
       /\ receipts' = receipts \cup {Receipt(g, p, Result(g))}
       /\ Answered(g, p, Result(g))
  /\ End(g)
  /\ UNCHANGED <<enabled, mapping>>

CommitMapping(g) ==
  LET c == editor[g].command
      row == Configured(c)
  IN
  /\ call[g].pc = "commit" /\ c.action = "CONFIGURE"
  /\ Cardinality(receipts) < MaxReceipts
  /\ Unshared(c)
  /\ mapping' = [mapping EXCEPT ![c.position] = row]
  /\ receipts' = receipts \cup {Receipt(g, c.position, row)}
  /\ Answered(g, c.position, row)
  /\ End(g)
  /\ UNCHANGED <<enabled, positions>>

\* A call may fail or be cut off at any statement.  The command is sent again, or given up.
Abort(g) == call[g].pc # "none" /\ End(g) /\ UNCHANGED vars

Elsewhere == UNCHANGED <<lock, call>>

StepNext ==
  \/ \E g \in Editors :
       \/ \E k \in Keys :
            \/ \E c \in Contents, default \in BOOLEAN :
                 ComposeCreate(g, k, c, default) /\ Elsewhere
            \/ \E p \in Ids :
                 \/ \E c \in Contents : ComposeChange(g, k, p, "EDIT", c) /\ Elsewhere
                 \/ \E action \in {"DEFAULT", "DISABLE"} :
                      ComposeChange(g, k, p, action, None) /\ Elsewhere
                 \/ \E x \in Externals : ComposeConfigure(g, k, p, x) /\ Elsewhere
       \/ LockScope(g) \/ LockProfile(g) \/ FindNoReceipt(g) \/ FindReceipt(g)
       \/ ReadRow(g) \/ MakeRow(g) \/ TakeDefault(g) \/ RefuseCall(g)
       \/ CommitPosition(g) \/ CommitMapping(g) \/ Abort(g)
       \/ call[g].pc = "none" /\ GiveUp(g) /\ Elsewhere
  \/ lock[Profile] = None /\ DisableProfile /\ Elsewhere

StepSpec == StepInit /\ [][StepNext]_stepVars

-----------------------------------------------------------------------------
\* Types of the variables.
StepTypeOK ==
  /\ lock \in [Lockable -> Editors \cup {None}]
  /\ call \in [Editors -> Call]

\* However the statements of several commands interleave, each takes effect in its commit
\* as if it were alone, on the rows as they are then: two new defaults leave one, a
\* profile disabled meanwhile stops the command, and a key is used once.  It is the lock on
\* the owner's row, taken first, that sees to it (positions_repository.go:41-42).
CommandsAreAtomic == Spec

=============================================================================
