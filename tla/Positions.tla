------------------------------ MODULE Positions ------------------------------
(***************************************************************************)
(* The promotion positions of one promoter and their mapping to positions  *)
(* at the channel (internal/promoter): ChangePosition and                  *)
(* ConfigureChannelPosition.                                               *)
(*                                                                         *)
(* Both are transactions that lock the promoter's profile row before they  *)
(* read any of this (an advisory lock, when they configure, before that),  *)
(* so each is one action, as PositionSteps shows statement by statement;   *)
(* Reservation has their locks beside those of conversions.  What lies     *)
(* between two transactions is modelled: an editor works on a row it has   *)
(* seen, and sends its command again when it misses the answer.            *)
(***************************************************************************)
EXTENDS Naturals, FiniteSets

CONSTANTS
  Ids,        \* ids of positions
  Editors,    \* promoters' clients, and administrators configuring
  Keys,       \* idempotency keys
  Contents,   \* name and scene of a position
  Externals,  \* JD account and external position pairs
  MaxReceipts,  \* bound on the commands carried out
  None

ASSUME PositionsAssumption == None \notin Ids \cup Contents \cup Externals

VARIABLES
  enabled,    \* the promoter profile is ENABLED
  positions,  \* promotion_positions
  mapping,    \* channel_positions, by internal position
  receipts,   \* promotion_position_requests and channel_position_config_events
  editor      \* what each editor has sent, and was answered

vars == <<enabled, positions, mapping, receipts, editor>>

-----------------------------------------------------------------------------
Position == [content : Contents, status : {"ENABLED", "DISABLED"}, default : BOOLEAN,
             version : Nat \ {0}]

\* Mappings await verification whenever they have been configured.
Mapping == [external : Externals, version : Nat \ {0}]

\* position is what the command names, content what it asks for.
Command == [action : {"CREATE", "EDIT", "DEFAULT", "DISABLE", "CONFIGURE"}, key : Keys,
            position : Ids \cup {None}, content : Contents \cup Externals \cup {None},
            default : BOOLEAN, version : Nat]

\* The stored result of a command: the row as the command left it.
Answer == [position : Ids, row : Position \cup Mapping]

ASSUME RowAssumption == None \notin Position \cup Mapping \cup Command \cup Answer

Editor == [command : Command \cup {None}, seen : Position \cup Mapping \cup {None},
           answer : Answer \cup {None}]

IdleEditor == [command |-> None, seen |-> None, answer |-> None]

Init ==
  /\ enabled   = TRUE
  /\ positions = [p \in Ids |-> None]
  /\ mapping   = [p \in Ids |-> None]
  /\ receipts  = {}
  /\ editor    = [g \in Editors |-> IdleEditor]

-----------------------------------------------------------------------------
(* Editors.                                                                *)

Version(row) == IF row = None THEN 0 ELSE row.version

Sending(g) == editor[g].command # None /\ editor[g].answer = None

\* The editor looks at a row and decides what to do about it.
Compose(g, command, seen) ==
  /\ ~Sending(g)
  /\ editor' = [editor EXCEPT ![g] = [command |-> command, seen |-> seen, answer |-> None]]
  /\ UNCHANGED <<enabled, positions, mapping, receipts>>

ComposeCreate(g, k, c, default) ==
  Compose(g, [action |-> "CREATE", key |-> k, position |-> None, content |-> c,
              default |-> default, version |-> 0], None)

ComposeChange(g, k, p, action, c) ==
  /\ positions[p] # None
  /\ Compose(g, [action |-> action, key |-> k, position |-> p, content |-> c,
                 default |-> FALSE, version |-> positions[p].version], positions[p])

ComposeConfigure(g, k, p, x) ==
  /\ positions[p] # None
  /\ Compose(g, [action |-> "CONFIGURE", key |-> k, position |-> p, content |-> x,
                 default |-> FALSE, version |-> Version(mapping[p])], mapping[p])

\* The answer arrives, or is lost and the command will be sent again.
Answered(g, p, row) ==
  \/ editor' = [editor EXCEPT ![g].answer = [position |-> p, row |-> row]]
  \/ UNCHANGED editor

-----------------------------------------------------------------------------
(* What ChangePosition does to the rows.                                   *)

Created(c) == [content |-> c.content, status |-> "ENABLED", default |-> c.default, version |-> 1]

\* The row as an UPDATE leaves it: every UPDATE counts the version.
Row(content, status, default, version) ==
  [content |-> content, status |-> status, default |-> default, version |-> version + 1]

Changed(row, c) ==
  CASE c.action = "EDIT"    -> Row(c.content, row.status, row.default, row.version)
    [] c.action = "DEFAULT" -> Row(row.content, row.status, TRUE, row.version)
    [] c.action = "DISABLE" -> Row(row.content, "DISABLED", FALSE, row.version)

\* Mutant: the position that was the default keeps its version.
UndefaultedQuietly(row) == [row EXCEPT !.default = FALSE]

Undefaulted(row) == Row(row.content, row.status, FALSE, row.version)

\* A new default takes the flag from the old one, and outdates its editors.
Losing(q, p, row) == q # p /\ row.default /\ positions[q] # None /\ positions[q].default

Saved(p, row) ==
  [q \in Ids |-> IF q = p THEN row
                 ELSE IF Losing(q, p, row) THEN Undefaulted(positions[q]) ELSE positions[q]]

Receipt(g, p, row) == [command |-> editor[g].command, position |-> p, row |-> row]

\* Receipts of this action and key: the key's scope.
InScope(c) == {r \in receipts : r.command.action = c.action /\ r.command.key = c.key}

-----------------------------------------------------------------------------
(* The two transactions.                                                   *)

\* A command that is refused or fails is given up; nothing is stored.
Refused(g) ==
  /\ editor' = [editor EXCEPT ![g] = IdleEditor]
  /\ UNCHANGED <<enabled, positions, mapping, receipts>>

\* The key was used: the same command has its first answer again.  Only a
\* configuration looks for it before it asks for an enabled promoter.
Replay(g) ==
  /\ Sending(g)
  /\ editor[g].command.action # "CONFIGURE" => enabled
  /\ \E r \in InScope(editor[g].command) :
       r.command = editor[g].command /\ Answered(g, r.position, r.row)
  /\ UNCHANGED <<enabled, positions, mapping, receipts>>

New(g, actions) ==
  /\ Sending(g) /\ enabled
  /\ editor[g].command.action \in actions
  /\ InScope(editor[g].command) = {}
  /\ Cardinality(receipts) < MaxReceipts

CreatePosition(g, p) ==
  LET row == Created(editor[g].command) IN
  /\ New(g, {"CREATE"})
  /\ positions[p] = None
  /\ positions' = Saved(p, row)
  /\ receipts' = receipts \cup {Receipt(g, p, row)}
  /\ Answered(g, p, row)
  /\ UNCHANGED <<enabled, mapping>>

Changeable(row, c) == row.version = c.version /\ row.status = "ENABLED"

ChangePosition(g) ==
  LET c   == editor[g].command
      p   == editor[g].command.position
      row == Changed(positions[p], c)
  IN
  /\ New(g, {"EDIT", "DEFAULT", "DISABLE"})
  /\ Changeable(positions[p], c)
  /\ positions' = Saved(p, row)
  /\ receipts' = receipts \cup {Receipt(g, p, row)}
  /\ Answered(g, p, row)
  /\ UNCHANGED <<enabled, mapping>>

\* A position is configured while it is enabled, on the version of the mapping
\* that was seen, and for no external position another one has.
Configurable(c) ==
  /\ positions[c.position].status = "ENABLED"
  /\ Version(mapping[c.position]) = c.version
  /\ \A q \in Ids \ {c.position} : mapping[q] # None => mapping[q].external # c.content

\* Mutant: a mapping that is configured again starts over.
ConfiguredAfresh(c) == [external |-> c.content, version |-> 1]

Configured(c) == [external |-> c.content, version |-> c.version + 1]

ConfigureChannelPosition(g) ==
  LET c   == editor[g].command
      row == Configured(c)
  IN
  /\ New(g, {"CONFIGURE"})
  /\ Configurable(c)
  /\ mapping' = [mapping EXCEPT ![c.position] = row]
  /\ receipts' = receipts \cup {Receipt(g, c.position, row)}
  /\ Answered(g, c.position, row)
  /\ UNCHANGED <<enabled, positions>>

Acceptable(c) ==
  CASE c.action = "CREATE"    -> TRUE
    [] c.action = "CONFIGURE" -> Configurable(c)
    [] OTHER                  -> Changeable(positions[c.position], c)

Refuse(g) ==
  LET c == editor[g].command IN
  /\ Sending(g)
  /\ \/ ~enabled /\ (c.action # "CONFIGURE" \/ InScope(c) = {})
     \/ \E r \in InScope(c) : r.command # c
     \/ InScope(c) = {} /\ ~Acceptable(c)
  /\ Refused(g)

\* The command never arrives, or fails on the way, and is given up.
GiveUp(g) == Sending(g) /\ Refused(g)

\* An administrator disables the profile, for good.
DisableProfile ==
  /\ enabled
  /\ enabled' = FALSE
  /\ UNCHANGED <<positions, mapping, receipts, editor>>

Next ==
  \/ \E g \in Editors :
       \/ \E k \in Keys :
            \/ \E c \in Contents, default \in BOOLEAN : ComposeCreate(g, k, c, default)
            \/ \E p \in Ids :
                 \/ \E c \in Contents : ComposeChange(g, k, p, "EDIT", c)
                 \/ \E action \in {"DEFAULT", "DISABLE"} : ComposeChange(g, k, p, action, None)
                 \/ \E x \in Externals : ComposeConfigure(g, k, p, x)
       \/ \E p \in Ids : CreatePosition(g, p)
       \/ Replay(g) \/ ChangePosition(g) \/ ConfigureChannelPosition(g) \/ Refuse(g) \/ GiveUp(g)
  \/ DisableProfile

Spec == Init /\ [][Next]_vars

-----------------------------------------------------------------------------
(* Properties.                                                             *)

\* Types of the variables.
TypeOK ==
  /\ enabled   \in BOOLEAN
  /\ positions \in [Ids -> Position \cup {None}]
  /\ mapping   \in [Ids -> Mapping \cup {None}]
  /\ receipts  \subseteq [command : Command, position : Ids, row : Position \cup Mapping]
  /\ editor    \in [Editors -> Editor]

\* A promoter has at most one default position and it is enabled: no sequence of
\* commands runs into the unique index or the CHECK of migration 000004.
OneDefault ==
  \A p, q \in Ids : positions[p] # None /\ positions[p].default =>
    /\ positions[p].status = "ENABLED"
    /\ positions[q] # None /\ positions[q].default => p = q

\* Under a new receipt of an editor who saw this row.
ByEditorOf(p, row) ==
  \E g \in Editors :
    /\ editor[g].command \in {r.command : r \in receipts' \ receipts}
    /\ editor[g].command.position = p /\ editor[g].seen = row

SavedAsSeen(p) ==
  /\ positions[p] # None /\ positions'[p] # positions[p] =>
       \/ ByEditorOf(p, positions[p])
       \/ /\ positions[p].default /\ ~positions'[p].default
          /\ positions'[p].version = positions[p].version + 1
  /\ mapping[p] # None /\ mapping'[p] # mapping[p] => ByEditorOf(p, mapping[p])

\* Nobody overwrites what he has not seen: a row changes under a command composed
\* on exactly that row, or loses the default flag, and then outdates its editors
\* as well (positions_repository.go:101-106).
SavedWhatWasSeen == [][\A p \in Ids : SavedAsSeen(p)]_vars

\* What the answer to a command says, by the command's kind.
Answers(a, c) ==
  /\ c.position \in {None, a.position}
  /\ c.action \in {"CREATE", "EDIT"} => a.row.content = c.content
  /\ c.action = "DISABLE" => a.row.status = "DISABLED"
  /\ c.action \in {"CREATE", "DEFAULT"} => a.row.default = (c.action = "DEFAULT" \/ c.default)
  /\ c.action = "CONFIGURE" => a.row.external = c.content

\* An answer is the answer to the command that was sent, also when it is read
\* from a receipt another client stored under the same key.
AnswersItsCommand ==
  \A g \in Editors : editor[g].answer # None => Answers(editor[g].answer, editor[g].command)

\* Receipts are a true history, each of one effect: no two of a row show the same
\* version, none is ahead of the row, and every mapping is the last one recorded.
ReceiptsAreHistory ==
  LET Configuring(r) == r.command.action = "CONFIGURE" IN
  /\ \A r, s \in receipts :
       /\ r.position = s.position /\ Configuring(r) = Configuring(s)
            /\ r.row.version = s.row.version => r = s
       /\ r.row.version <=
            (IF Configuring(r) THEN mapping[r.position] ELSE positions[r.position]).version
  /\ \A p \in Ids : mapping[p] # None =>
       \E r \in receipts : Configuring(r) /\ r.position = p /\ r.row = mapping[p]

=============================================================================
