--------------------------- MODULE PositionsProofs ---------------------------
(***************************************************************************)
(* Proofs about Positions for any number of positions, editors and keys:   *)
(* the types, one default position, that no change overwrites what its     *)
(* author had not seen; and, in Part II, that PositionSteps implements it. *)
(***************************************************************************)
EXTENDS PositionSteps, TLAPS

Changes == {"EDIT", "DEFAULT", "DISABLE"}

\* What a command still to be carried out says, by its kind.
WellFormed(c, seen) ==
  /\ c.action = "CREATE" => c.position = None /\ c.content \in Contents
  /\ c.action \in Changes =>
       /\ c.position \in Ids /\ positions[c.position] # None
       /\ seen \in Position /\ c.version = seen.version
       /\ c.action = "EDIT" => c.content \in Contents
  /\ c.action = "CONFIGURE" =>
       /\ c.position \in Ids /\ positions[c.position] # None
       /\ seen \in Mapping \cup {None} /\ c.version = Version(seen)
       /\ c.content \in Externals

\* A row seen is behind the row stored, or it is the row stored.
Behind(seen, row) ==
  /\ Version(seen) <= Version(row)
  /\ Version(seen) = Version(row) => seen = row

EditorSound(g) ==
  LET c    == editor[g].command
      seen == editor[g].seen
  IN
  Sending(g) =>
    /\ WellFormed(c, seen)
    /\ c.action \in Changes => Behind(seen, positions[c.position])
    /\ c.action = "CONFIGURE" => Behind(seen, mapping[c.position])

\* The inductive invariant.
IInv == TypeOK /\ OneDefault /\ \A g \in Editors : EditorSound(g)

\* A row only moves on: to nothing less, and with a new version if it changes.
Onward(old, new) ==
  /\ Version(old) <= Version(new)
  /\ Version(old) = Version(new) => old = new
  /\ old # None => new # None

-----------------------------------------------------------------------------
(* Rows.                                                                   *)

\* Stored rows have a version above zero, so version zero stands for no row.
LEMMA Versions ==
  ASSUME NEW row \in Position \cup Mapping \cup {None}
  PROVE  /\ Version(row) \in Nat
         /\ Version(row) = 0 <=> row = None
BY DEF Version, Position, Mapping

LEMMA Existing ==
  ASSUME NEW row \in Position \cup Mapping PROVE row # None
BY RowAssumption

\* A seen row stays behind a row that moves on.
LEMMA BehindOnward ==
  ASSUME NEW seen \in Position \cup Mapping \cup {None},
         NEW old \in Position \cup Mapping \cup {None},
         NEW new \in Position \cup Mapping \cup {None},
         Behind(seen, old), Onward(old, new)
  PROVE  Behind(seen, new)
<1>1. Version(seen) \in Nat /\ Version(old) \in Nat /\ Version(new) \in Nat
  BY Versions
<1> QED BY <1>1 DEF Behind, Onward

\* Creating, changing and configuring give rows of the right shape.
LEMMA CreatedRow ==
  ASSUME NEW c \in Command, c.content \in Contents
  PROVE  Created(c) \in Position
BY DEF Created, Position, Command

LEMMA ChangedRow ==
  ASSUME NEW c \in Command, c.action \in Changes, c.action = "EDIT" => c.content \in Contents,
         NEW row \in Position, row.status = "ENABLED"
  PROVE  /\ Changed(row, c) \in Position
         /\ Changed(row, c).version = row.version + 1
         /\ Changed(row, c).default => Changed(row, c).status = "ENABLED"
<1>1. /\ row.content \in Contents /\ row.status \in {"ENABLED", "DISABLED"}
      /\ row.default \in BOOLEAN /\ row.version \in Nat
  BY DEF Position
<1>2. CASE c.action = "EDIT"
  <2>1. Changed(row, c) = Row(c.content, row.status, row.default, row.version)
    BY <1>2 DEF Changed
  <2> QED BY <1>1, <1>2, <2>1 DEF Row, Position
<1>3. CASE c.action = "DEFAULT"
  <2>1. Changed(row, c) = Row(row.content, row.status, TRUE, row.version)
    BY <1>3 DEF Changed
  <2> QED BY <1>1, <2>1 DEF Row, Position
<1>4. CASE c.action = "DISABLE"
  <2>1. Changed(row, c) = Row(row.content, "DISABLED", FALSE, row.version)
    BY <1>4 DEF Changed
  <2> QED BY <1>1, <2>1 DEF Row, Position
<1> QED BY <1>2, <1>3, <1>4 DEF Changes

LEMMA UndefaultedRow ==
  ASSUME NEW row \in Position
  PROVE  /\ Undefaulted(row) \in Position
         /\ ~Undefaulted(row).default
         /\ Undefaulted(row).version = row.version + 1
<1>1. /\ row.content \in Contents /\ row.status \in {"ENABLED", "DISABLED"}
      /\ row.version \in Nat
  BY DEF Position
<1> QED BY <1>1 DEF Undefaulted, Row, Position

LEMMA ConfiguredRow ==
  ASSUME NEW c \in Command, c.content \in Externals
  PROVE  Configured(c) \in Mapping /\ Configured(c).version = c.version + 1
BY DEF Configured, Mapping, Command

\* Storing a row moves every other row on, and leaves one default.
LEMMA SavedRows ==
  ASSUME TypeOK, OneDefault, NEW p \in Ids, NEW row \in Position,
         row.default => row.status = "ENABLED",
         Onward(positions[p], row),
         positions' = Saved(p, row)
  PROVE  /\ positions' \in [Ids -> Position \cup {None}]
         /\ positions'[p] = row
         /\ \A q \in Ids : Onward(positions[q], positions'[q])
         /\ OneDefault'
<1>1. \A q \in Ids : positions'[q] = IF q = p THEN row
                     ELSE IF Losing(q, p, row) THEN Undefaulted(positions[q]) ELSE positions[q]
  BY DEF Saved
<1>2. \A q \in Ids : positions[q] \in Position \cup {None}
  BY DEF TypeOK
<1>3. \A q \in Ids : Losing(q, p, row) => positions[q] \in Position
  BY <1>2 DEF Losing
<1>4. positions' \in [Ids -> Position \cup {None}]
  <2>1. \A q \in Ids : positions'[q] \in Position \cup {None}
    BY <1>1, <1>2, <1>3, UndefaultedRow
  <2> QED BY <2>1 DEF Saved
<1>5. ASSUME NEW q \in Ids PROVE Onward(positions[q], positions'[q])
  <2>1. CASE q = p
    BY <2>1, <1>1
  <2>2. CASE Losing(q, p, row)
    <3>1. positions'[q] = Undefaulted(positions[q]) /\ positions[q] \in Position
      BY <2>2, <1>1, <1>3 DEF Losing
    <3>2. positions'[q] \in Position /\ positions'[q].version = positions[q].version + 1
      BY <3>1, UndefaultedRow
    <3>3. positions[q] # None
      BY <2>2 DEF Losing
    <3>4. positions[q].version \in Nat
      BY <3>1 DEF Position
    <3>5. positions'[q] # None
      BY <3>2, Existing
    <3>6. Version(positions[q]) = positions[q].version /\ Version(positions'[q]) = positions'[q].version
      BY <3>3, <3>5 DEF Version
    <3> QED BY <3>2, <3>4, <3>5, <3>6 DEF Onward
  <2>3. CASE q # p /\ ~Losing(q, p, row)
    <3>1. positions'[q] = positions[q] BY <2>3, <1>1
    <3>2. Version(positions[q]) \in Nat BY <1>2, Versions
    <3> QED BY <3>1, <3>2 DEF Onward
  <2> QED BY <2>1, <2>2, <2>3 DEF Losing
<1>6. OneDefault'
  <2>1. \A q \in Ids \ {p} : positions'[q] # None /\ positions'[q].default =>
           ~row.default /\ positions'[q] = positions[q]
    BY <1>1, <1>3, UndefaultedRow DEF Losing
  <2> QED BY <2>1, <1>1 DEF OneDefault
<1> QED BY <1>1, <1>4, <1>5, <1>6

-----------------------------------------------------------------------------
(* The two kinds of step: an editor composes a command, or rows move on    *)
(* while some editor settles his.                                          *)

\* Whoever still sends, sends what he sent before.
Settling ==
  /\ editor' \in [Editors -> Editor]
  /\ \A h \in Editors : Sending(h)' => Sending(h) /\ editor'[h] = editor[h]

LEMMA AnsweredSettles ==
  ASSUME TypeOK, NEW g \in Editors, NEW p \in Ids, NEW row \in Position \cup Mapping,
         Answered(g, p, row)
  PROVE  Settling
<1> DEFINE answer == [position |-> p, row |-> row]
<1>1. editor \in [Editors -> Editor] /\ editor[g] \in Editor
  BY DEF TypeOK
<1>2. answer \in Answer /\ answer # None
  BY RowAssumption DEF Answer
<1>3. CASE UNCHANGED editor
  BY <1>1, <1>3 DEF Settling, Sending
<1>4. CASE editor' = [editor EXCEPT ![g].answer = answer]
  <2> HIDE DEF answer
  <2>1. editor'[g] = [editor[g] EXCEPT !.answer = answer]
    BY <1>1, <1>4
  <2>2. editor'[g] \in Editor /\ editor'[g].answer = answer
    BY <1>1, <1>2, <2>1 DEF Editor
  <2>3. \A h \in Editors \ {g} : editor'[h] = editor[h]
    BY <1>1, <1>4
  <2>4. editor' \in [Editors -> Editor]
    BY <1>1, <1>4, <2>2, <2>3
  <2> QED BY <1>2, <2>2, <2>3, <2>4 DEF Settling, Sending
<1> QED BY <1>3, <1>4 DEF Answered

LEMMA RefusedSettles ==
  ASSUME TypeOK, NEW g \in Editors, Refused(g)
  PROVE  Settling
<1>1. IdleEditor \in Editor
  BY DEF IdleEditor, Editor
<1> QED BY <1>1 DEF TypeOK, Refused, Settling, Sending, IdleEditor

LEMMA MovingOn ==
  ASSUME IInv, Settling, OneDefault', enabled' \in BOOLEAN,
         positions' \in [Ids -> Position \cup {None}],
         mapping' \in [Ids -> Mapping \cup {None}],
         receipts' \subseteq [command : Command, position : Ids, row : Position \cup Mapping],
         \A q \in Ids : Onward(positions[q], positions'[q]) /\ Onward(mapping[q], mapping'[q])
  PROVE  IInv'
<1>1. TypeOK'
  BY DEF Settling, TypeOK
<1>2. ASSUME NEW h \in Editors, Sending(h)' PROVE EditorSound(h)'
  <2> DEFINE c == editor[h].command
             seen == editor[h].seen
  <2>1. Sending(h) /\ editor'[h] = editor[h]
    BY <1>2 DEF Settling
  <2>2. EditorSound(h)
    BY DEF IInv
  <2>3. /\ WellFormed(c, seen)
        /\ c.action \in Changes => Behind(seen, positions[c.position])
        /\ c.action = "CONFIGURE" => Behind(seen, mapping[c.position])
    BY <2>1, <2>2 DEF EditorSound
  <2>4. c.action \in Changes \cup {"CONFIGURE"} => c.position \in Ids /\ positions[c.position] # None
    BY <2>3 DEF WellFormed
  <2>5. WellFormed(c, seen)'
    <3>1. c.action \in Changes \cup {"CONFIGURE"} => positions'[c.position] # None
      BY <2>4 DEF Onward
    <3> QED BY <2>1, <2>3, <3>1 DEF WellFormed
  <2>6. seen \in Position \cup Mapping \cup {None}
    BY DEF IInv, TypeOK, Editor
  <2>7. ASSUME c.action \in Changes PROVE Behind(seen, positions'[c.position])
    <3>1. /\ positions[c.position] \in Position \cup Mapping \cup {None}
          /\ positions'[c.position] \in Position \cup Mapping \cup {None}
      BY <2>4, <2>7 DEF IInv, TypeOK
    <3>2. Behind(seen, positions[c.position]) /\ Onward(positions[c.position], positions'[c.position])
      BY <2>3, <2>4, <2>7
    <3> QED BY <2>6, <3>1, <3>2, BehindOnward
  <2>8. ASSUME c.action = "CONFIGURE" PROVE Behind(seen, mapping'[c.position])
    <3>1. /\ mapping[c.position] \in Position \cup Mapping \cup {None}
          /\ mapping'[c.position] \in Position \cup Mapping \cup {None}
      BY <2>4, <2>8 DEF IInv, TypeOK
    <3>2. Behind(seen, mapping[c.position]) /\ Onward(mapping[c.position], mapping'[c.position])
      BY <2>3, <2>4, <2>8
    <3> QED BY <2>6, <3>1, <3>2, BehindOnward
  <2> HIDE DEF c, seen
  <2>9. c' = c /\ seen' = seen
    BY <2>1 DEF c, seen
  <2>10. c.action \in Changes => Behind(seen, positions[c.position])'
    BY <2>7, <2>9 DEF Behind
  <2>11. c.action = "CONFIGURE" => Behind(seen, mapping[c.position])'
    BY <2>8, <2>9 DEF Behind
  <2> QED BY <2>5, <2>9, <2>10, <2>11 DEF EditorSound, c, seen
<1>3. \A h \in Editors : EditorSound(h)'
  BY <1>2 DEF EditorSound
<1> QED BY <1>1, <1>3 DEF IInv

LEMMA ComposeStep ==
  ASSUME IInv, NEW g \in Editors, NEW command \in Command,
         NEW seen \in Position \cup Mapping \cup {None},
         Compose(g, command, seen), WellFormed(command, seen),
         command.action \in Changes => Behind(seen, positions[command.position]),
         command.action = "CONFIGURE" => Behind(seen, mapping[command.position])
  PROVE  IInv'
<1> DEFINE new == [command |-> command, seen |-> seen, answer |-> None]
<1>1. editor' = [editor EXCEPT ![g] = new] /\ UNCHANGED <<enabled, positions, mapping, receipts>>
  BY DEF Compose
<1>2. new \in Editor
  BY DEF Editor
<1>3. editor' \in [Editors -> Editor] /\ editor'[g] = new
      /\ \A h \in Editors \ {g} : editor'[h] = editor[h]
  BY <1>1, <1>2 DEF IInv, TypeOK
<1>4. TypeOK' /\ OneDefault'
  BY <1>1, <1>3 DEF IInv, TypeOK, OneDefault
<1>5. \A c, s : WellFormed(c, s)' <=> WellFormed(c, s)
  BY <1>1 DEF WellFormed
<1>6. ASSUME NEW h \in Editors PROVE EditorSound(h)'
  <2>1. CASE h = g
    <3>1. editor'[h].command = command /\ editor'[h].seen = seen
      BY <2>1, <1>3
    <3>2. WellFormed(command, seen)'
      BY <1>5
    <3> QED BY <3>1, <3>2, <1>1 DEF EditorSound, Behind, WellFormed
  <2>2. CASE h # g
    <3>1. editor'[h] = editor[h] /\ EditorSound(h)
      BY <2>2, <1>3 DEF IInv
    <3> QED BY <3>1, <1>1 DEF EditorSound, WellFormed, Sending
  <2> QED BY <2>1, <2>2
<1> QED BY <1>4, <1>6 DEF IInv

LEMMA SeenIsBehind ==
  ASSUME NEW row \in Position \cup Mapping \cup {None} PROVE Behind(row, row) /\ Onward(row, row)
<1>1. Version(row) \in Nat BY Versions
<1> QED BY <1>1 DEF Behind, Onward

LEMMA Composing ==
  ASSUME IInv, NEW g \in Editors, NEW k \in Keys
  PROVE  /\ \A c \in Contents, default \in BOOLEAN : ComposeCreate(g, k, c, default) => IInv'
         /\ \A p \in Ids, c \in Contents : ComposeChange(g, k, p, "EDIT", c) => IInv'
         /\ \A p \in Ids, action \in {"DEFAULT", "DISABLE"} :
              ComposeChange(g, k, p, action, None) => IInv'
         /\ \A p \in Ids, x \in Externals : ComposeConfigure(g, k, p, x) => IInv'
<1>1. ASSUME NEW c \in Contents, NEW default \in BOOLEAN, ComposeCreate(g, k, c, default)
      PROVE  IInv'
  <2> DEFINE command == [action |-> "CREATE", key |-> k, position |-> None, content |-> c,
                         default |-> default, version |-> 0]
  <2>1. command \in Command /\ WellFormed(command, None)
    BY DEF Command, WellFormed, Changes
  <2>2. Compose(g, command, None)
    BY <1>1 DEF ComposeCreate
  <2>3. command.action = "CREATE" OBVIOUS
  <2> HIDE DEF command
  <2> QED BY <2>1, <2>2, <2>3, ComposeStep DEF Changes
<1>2. ASSUME NEW p \in Ids, NEW action \in Changes, NEW c \in Contents \cup {None},
             action = "EDIT" => c \in Contents, ComposeChange(g, k, p, action, c)
      PROVE  IInv'
  <2> DEFINE row == positions[p]
             command == [action |-> action, key |-> k, position |-> p, content |-> c,
                         default |-> FALSE, version |-> row.version]
  <2>1. row # None /\ row \in Position
    BY <1>2 DEF ComposeChange, IInv, TypeOK
  <2>2. row.version \in Nat
    BY <2>1 DEF Position
  <2>3. Compose(g, command, row)
    BY <1>2 DEF ComposeChange
  <2>4. command \in Command
    BY <1>2, <2>2 DEF Command, Changes
  <2>5. WellFormed(command, row)
    BY <1>2, <2>1, <2>2 DEF WellFormed, Changes
  <2>6. command.action # "CONFIGURE" /\ command.position = p
    BY <1>2 DEF Changes
  <2>7. Behind(row, row)
    BY <2>1, SeenIsBehind
  <2> HIDE DEF command
  <2> QED BY <2>1, <2>3, <2>4, <2>5, <2>6, <2>7, ComposeStep
<1>3. ASSUME NEW p \in Ids, NEW x \in Externals, ComposeConfigure(g, k, p, x)
      PROVE  IInv'
  <2> DEFINE row == mapping[p]
             command == [action |-> "CONFIGURE", key |-> k, position |-> p, content |-> x,
                         default |-> FALSE, version |-> Version(row)]
  <2>1. row \in Mapping \cup {None} /\ positions[p] # None
    BY <1>3 DEF ComposeConfigure, IInv, TypeOK
  <2>2. Version(row) \in Nat
    BY <2>1, Versions
  <2>3. Compose(g, command, row)
    BY <1>3 DEF ComposeConfigure
  <2>4. command \in Command
    BY <2>2 DEF Command
  <2>5. WellFormed(command, row)
    BY <2>1, <2>2 DEF WellFormed, Changes
  <2>6. command.action = "CONFIGURE" /\ command.position = p
    OBVIOUS
  <2>7. Behind(row, row)
    BY <2>1, SeenIsBehind
  <2> HIDE DEF command
  <2> QED BY <2>1, <2>3, <2>4, <2>5, <2>6, <2>7, ComposeStep DEF Changes
<1> QED BY <1>1, <1>2, <1>3, PositionsAssumption DEF Changes

-----------------------------------------------------------------------------
(* The transactions.                                                       *)

\* What an editor who still sends is owed by the invariant.
LEMMA Sent ==
  ASSUME IInv, NEW g \in Editors, Sending(g)
  PROVE  LET c    == editor[g].command
             seen == editor[g].seen
         IN
         /\ c \in Command /\ WellFormed(c, seen)
         /\ c.action \in Changes => Behind(seen, positions[c.position])
         /\ c.action = "CONFIGURE" => Behind(seen, mapping[c.position])
<1>1. editor[g].command \in Command
  BY DEF IInv, TypeOK, Editor, Sending
<1> QED BY <1>1 DEF IInv, EditorSound

\* A step that leaves the rows alone and settles editors.
LEMMA Unmoved ==
  ASSUME IInv, Settling, enabled' \in BOOLEAN, UNCHANGED <<positions, mapping, receipts>>
  PROVE  IInv'
<1>1. \A q \in Ids : Onward(positions[q], positions'[q]) /\ Onward(mapping[q], mapping'[q])
  BY SeenIsBehind DEF IInv, TypeOK
<1>2. OneDefault'
  BY DEF IInv, OneDefault
<1> QED BY <1>1, <1>2, MovingOn DEF IInv, TypeOK

LEMMA ReceiptTypes ==
  ASSUME IInv, NEW g \in Editors, Sending(g), NEW p \in Ids, NEW row \in Position \cup Mapping,
         receipts' = receipts \cup {Receipt(g, p, row)}
  PROVE  receipts' \subseteq [command : Command, position : Ids, row : Position \cup Mapping]
BY Sent DEF Receipt, IInv, TypeOK

\* What CreatePosition does to the rows.
LEMMA CreateEffect ==
  ASSUME IInv, NEW g \in Editors, NEW p \in Ids, CreatePosition(g, p)
  PROVE  LET row == Created(editor[g].command) IN
         /\ Sending(g) /\ row \in Position /\ positions[p] = None
         /\ row.default => row.status = "ENABLED"
         /\ Onward(positions[p], row)
<1> DEFINE c == editor[g].command
<1>1. Sending(g) /\ c.action = "CREATE" /\ positions[p] = None
  BY DEF CreatePosition, New
<1>2. c \in Command /\ c.content \in Contents
  BY <1>1, Sent DEF WellFormed
<1>3. Created(c) \in Position /\ Created(c).status = "ENABLED" /\ Created(c).version = 1
  BY <1>2, CreatedRow DEF Created
<1>4. Created(c) # None
  BY <1>3, Existing
<1>5. Version(None) = 0 /\ Version(Created(c)) = 1
  BY <1>3, <1>4 DEF Version
<1> QED BY <1>1, <1>3, <1>4, <1>5 DEF Onward

\* What ChangePosition does to the rows: it changes the row its editor saw.
LEMMA ChangeEffect ==
  ASSUME IInv, NEW g \in Editors, ChangePosition(g)
  PROVE  LET c   == editor[g].command
             p   == c.position
             row == Changed(positions[p], c)
         IN
         /\ Sending(g) /\ p \in Ids /\ row \in Position
         /\ row.default => row.status = "ENABLED"
         /\ Onward(positions[p], row)
         /\ editor[g].seen = positions[p]
<1> DEFINE c    == editor[g].command
           seen == editor[g].seen
           old  == positions[c.position]
<1>1. Sending(g) /\ c.action \in Changes /\ old.version = c.version /\ old.status = "ENABLED"
  BY DEF ChangePosition, New, Changeable, Changes
<1>2. c \in Command /\ WellFormed(c, seen) /\ Behind(seen, old)
  BY <1>1, Sent
<1>3. /\ c.position \in Ids /\ old # None /\ seen \in Position /\ c.version = seen.version
      /\ c.action = "EDIT" => c.content \in Contents
  BY <1>1, <1>2 DEF WellFormed
<1>4. old \in Position
  BY <1>3 DEF IInv, TypeOK
<1>5. seen # None
  BY <1>3, Existing
<1>6. Version(seen) = Version(old)
  BY <1>1, <1>3, <1>5 DEF Version
<1>7. seen = old
  BY <1>2, <1>6 DEF Behind
<1>8. /\ Changed(old, c) \in Position /\ Changed(old, c).version = old.version + 1
      /\ Changed(old, c).default => Changed(old, c).status = "ENABLED"
  BY <1>1, <1>2, <1>3, <1>4, ChangedRow
<1>9. Changed(old, c) # None
  BY <1>8, Existing
<1>10. Version(old) = old.version /\ Version(Changed(old, c)) = old.version + 1 /\ old.version \in Nat
  BY <1>3, <1>4, <1>8, <1>9 DEF Version, Position
<1>11. Onward(old, Changed(old, c))
  BY <1>9, <1>10 DEF Onward
<1> QED BY <1>1, <1>3, <1>7, <1>8, <1>11

\* What ConfigureChannelPosition does: it replaces the mapping its editor saw.
LEMMA ConfigureEffect ==
  ASSUME IInv, NEW g \in Editors, ConfigureChannelPosition(g)
  PROVE  LET c   == editor[g].command
             p   == c.position
             row == Configured(c)
         IN
         /\ Sending(g) /\ p \in Ids /\ row \in Mapping
         /\ mapping' = [mapping EXCEPT ![p] = row]
         /\ Onward(mapping[p], row)
         /\ editor[g].seen = mapping[p]
<1> DEFINE c    == editor[g].command
           seen == editor[g].seen
           old  == mapping[c.position]
<1>1. Sending(g) /\ c.action = "CONFIGURE" /\ Version(old) = c.version
      /\ mapping' = [mapping EXCEPT ![c.position] = Configured(c)]
  BY DEF ConfigureChannelPosition, New, Configurable
<1>2. c \in Command /\ WellFormed(c, seen) /\ Behind(seen, old)
  BY <1>1, Sent
<1>3. c.position \in Ids /\ c.version = Version(seen) /\ c.content \in Externals
  BY <1>1, <1>2 DEF WellFormed
<1>4. seen = old
  BY <1>1, <1>2, <1>3 DEF Behind
<1>5. Configured(c) \in Mapping /\ Configured(c).version = c.version + 1
  BY <1>2, <1>3, ConfiguredRow
<1>6. Configured(c) # None
  BY <1>5, Existing
<1>7. Version(Configured(c)) = Version(old) + 1
  BY <1>1, <1>5, <1>6 DEF Version
<1>8. old \in Mapping \cup {None}
  BY <1>3 DEF IInv, TypeOK
<1>9. Version(old) \in Nat
  BY <1>8, Versions
<1>10. Onward(old, Configured(c))
  BY <1>6, <1>7, <1>9 DEF Onward
<1> QED BY <1>1, <1>3, <1>4, <1>5, <1>10

LEMMA Storing ==
  ASSUME IInv, NEW g \in Editors, Sending(g), NEW p \in Ids, NEW row \in Position,
         row.default => row.status = "ENABLED",
         Onward(positions[p], row),
         positions' = Saved(p, row),
         receipts' = receipts \cup {Receipt(g, p, row)},
         Answered(g, p, row),
         UNCHANGED <<enabled, mapping>>
  PROVE  IInv'
<1>1. /\ positions' \in [Ids -> Position \cup {None}]
      /\ \A q \in Ids : Onward(positions[q], positions'[q])
      /\ OneDefault'
  BY SavedRows DEF IInv
<1>2. \A q \in Ids : Onward(mapping[q], mapping'[q])
  BY SeenIsBehind DEF IInv, TypeOK
<1>3. Settling
  BY AnsweredSettles DEF IInv
<1>4. receipts' \subseteq [command : Command, position : Ids, row : Position \cup Mapping]
  BY ReceiptTypes
<1> QED BY <1>1, <1>2, <1>3, <1>4, MovingOn DEF IInv, TypeOK

LEMMA TransactionStep ==
  ASSUME IInv, NEW g \in Editors
  PROVE  /\ \A p \in Ids : CreatePosition(g, p) => IInv'
         /\ ChangePosition(g) => IInv'
         /\ ConfigureChannelPosition(g) => IInv'
         /\ Replay(g) => IInv'
         /\ Refuse(g) \/ GiveUp(g) => IInv'
<1>1. ASSUME NEW p \in Ids, CreatePosition(g, p) PROVE IInv'
  <2> DEFINE row == Created(editor[g].command)
  <2>1. /\ Sending(g) /\ row \in Position /\ (row.default => row.status = "ENABLED")
        /\ Onward(positions[p], row)
    BY <1>1, CreateEffect
  <2>2. /\ positions' = Saved(p, row) /\ receipts' = receipts \cup {Receipt(g, p, row)}
        /\ Answered(g, p, row) /\ UNCHANGED <<enabled, mapping>>
    BY <1>1 DEF CreatePosition
  <2> HIDE DEF row
  <2> QED BY <2>1, <2>2, Storing
<1>2. ASSUME ChangePosition(g) PROVE IInv'
  <2> DEFINE p   == editor[g].command.position
             row == Changed(positions[p], editor[g].command)
  <2>1. /\ Sending(g) /\ p \in Ids /\ row \in Position /\ (row.default => row.status = "ENABLED")
        /\ Onward(positions[p], row)
    BY <1>2, ChangeEffect
  <2>2. /\ positions' = Saved(p, row) /\ receipts' = receipts \cup {Receipt(g, p, row)}
        /\ Answered(g, p, row) /\ UNCHANGED <<enabled, mapping>>
    BY <1>2 DEF ChangePosition
  <2> HIDE DEF p, row
  <2> QED BY <2>1, <2>2, Storing
<1>3. ASSUME ConfigureChannelPosition(g) PROVE IInv'
  <2> DEFINE p   == editor[g].command.position
             row == Configured(editor[g].command)
  <2>1. /\ Sending(g) /\ p \in Ids /\ row \in Mapping
        /\ mapping' = [mapping EXCEPT ![p] = row] /\ Onward(mapping[p], row)
    BY <1>3, ConfigureEffect
  <2>2. /\ receipts' = receipts \cup {Receipt(g, p, row)}
        /\ Answered(g, p, row) /\ UNCHANGED <<enabled, positions>>
    BY <1>3 DEF ConfigureChannelPosition
  <2> HIDE DEF p, row
  <2>3. /\ mapping' \in [Ids -> Mapping \cup {None}] /\ mapping'[p] = row
        /\ \A q \in Ids \ {p} : mapping'[q] = mapping[q]
    BY <2>1 DEF IInv, TypeOK
  <2>4. \A q \in Ids : Onward(positions[q], positions'[q]) /\ Onward(mapping[q], mapping'[q])
    BY <2>1, <2>2, <2>3, SeenIsBehind DEF IInv, TypeOK
  <2>5. Settling
    BY <2>1, <2>2, AnsweredSettles DEF IInv
  <2>6. receipts' \subseteq [command : Command, position : Ids, row : Position \cup Mapping]
    BY <2>1, <2>2, ReceiptTypes
  <2>7. OneDefault' /\ enabled' \in BOOLEAN /\ positions' \in [Ids -> Position \cup {None}]
    BY <2>2 DEF IInv, OneDefault, TypeOK
  <2> QED BY <2>3, <2>4, <2>5, <2>6, <2>7, MovingOn
<1>4. ASSUME Replay(g) PROVE IInv'
  <2>1. PICK r \in receipts : Answered(g, r.position, r.row)
    BY <1>4 DEF Replay, InScope
  <2>2. r.position \in Ids /\ r.row \in Position \cup Mapping
    BY DEF IInv, TypeOK
  <2>3. Settling
    BY <2>1, <2>2, AnsweredSettles DEF IInv
  <2> QED BY <1>4, <2>3, Unmoved DEF Replay, IInv, TypeOK
<1>5. ASSUME Refuse(g) \/ GiveUp(g) PROVE IInv'
  <2>1. Refused(g)
    BY <1>5 DEF Refuse, GiveUp
  <2>2. Settling
    BY <2>1, RefusedSettles DEF IInv
  <2> QED BY <2>1, <2>2, Unmoved DEF Refused, IInv, TypeOK
<1> QED BY <1>1, <1>2, <1>3, <1>4, <1>5

-----------------------------------------------------------------------------
(* The theorems.                                                           *)

LEMMA Established == Init => IInv
<1> SUFFICES ASSUME Init PROVE IInv
  OBVIOUS
<1>1. IdleEditor \in Editor
  BY DEF IdleEditor, Editor
<1>2. TypeOK /\ OneDefault
  BY <1>1 DEF Init, TypeOK, OneDefault
<1>3. \A g \in Editors : ~Sending(g)
  BY DEF Init, Sending, IdleEditor
<1> QED BY <1>2, <1>3 DEF IInv, EditorSound

LEMMA Preserved == IInv /\ [Next]_vars => IInv'
<1> SUFFICES ASSUME IInv, [Next]_vars PROVE IInv'
  OBVIOUS
<1>1. ASSUME NEW g \in Editors, NEW k \in Keys,
             \/ \E c \in Contents, default \in BOOLEAN : ComposeCreate(g, k, c, default)
             \/ \E p \in Ids :
                  \/ \E c \in Contents : ComposeChange(g, k, p, "EDIT", c)
                  \/ \E action \in {"DEFAULT", "DISABLE"} : ComposeChange(g, k, p, action, None)
                  \/ \E x \in Externals : ComposeConfigure(g, k, p, x)
      PROVE  IInv'
  BY <1>1, Composing
<1>2. ASSUME NEW g \in Editors,
             \/ \E p \in Ids : CreatePosition(g, p)
             \/ Replay(g) \/ ChangePosition(g) \/ ConfigureChannelPosition(g)
             \/ Refuse(g) \/ GiveUp(g)
      PROVE  IInv'
  BY <1>2, TransactionStep
<1>3. ASSUME DisableProfile PROVE IInv'
  <2>1. Settling
    BY <1>3 DEF DisableProfile, Settling, Sending, IInv, TypeOK
  <2> QED BY <1>3, <2>1, Unmoved DEF DisableProfile
<1>4. ASSUME UNCHANGED vars PROVE IInv'
  <2>1. Settling
    BY <1>4 DEF vars, Settling, Sending, IInv, TypeOK
  <2> QED BY <1>4, <2>1, Unmoved DEF vars, IInv, TypeOK
<1> QED BY <1>1, <1>2, <1>3, <1>4 DEF Next

\* The inductive invariant holds: the types, one default, and that what an editor
\* saw is the stored row or behind it.
THEOREM Inductive == Spec => []IInv
BY Established, Preserved, PTL DEF Spec

\* Types of the variables.
THEOREM Typed == Spec => []TypeOK
<1>1. IInv => TypeOK BY DEF IInv
<1> QED BY <1>1, Inductive, PTL

\* However many positions, editors and commands: at most one default position,
\* and it is enabled (the unique index and CHECK of migration 000004).
THEOREM DefaultIsOne == Spec => []OneDefault
<1>1. IInv => OneDefault BY DEF IInv
<1> QED BY <1>1, Inductive, PTL

-----------------------------------------------------------------------------
(* No change overwrites what its author had not seen.                      *)

\* The key was unused, so the receipt stored is new.
LEMMA ReceiptIsNew ==
  ASSUME NEW g \in Editors, NEW actions, New(g, actions), NEW p, NEW row,
         receipts' = receipts \cup {Receipt(g, p, row)}
  PROVE  editor[g].command \in {r.command : r \in receipts' \ receipts}
<1>1. Receipt(g, p, row).command = editor[g].command
  BY DEF Receipt
<1>2. InScope(editor[g].command) = {}
  BY DEF New
<1>3. Receipt(g, p, row) \notin receipts
  BY <1>1, <1>2 DEF InScope
<1> QED BY <1>1, <1>3

\* Rows other than the one saved change only by losing the default.
LEMMA SavedOthers ==
  ASSUME TypeOK, NEW p \in Ids, NEW row, positions' = Saved(p, row),
         NEW q \in Ids \ {p}, positions'[q] # positions[q]
  PROVE  /\ positions[q].default /\ ~positions'[q].default
         /\ positions'[q].version = positions[q].version + 1
<1>1. positions'[q] = IF Losing(q, p, row) THEN Undefaulted(positions[q]) ELSE positions[q]
  BY DEF Saved
<1>2. Losing(q, p, row) /\ positions'[q] = Undefaulted(positions[q])
  BY <1>1
<1>3. positions[q] \in Position /\ positions[q].default
  BY <1>2 DEF Losing, TypeOK
<1> QED BY <1>2, <1>3, UndefaultedRow

LEMMA SeenStep ==
  ASSUME IInv, [Next]_vars, NEW q \in Ids
  PROVE  SavedAsSeen(q)
<1>1. ASSUME NEW g \in Editors, NEW p \in Ids, CreatePosition(g, p) PROVE SavedAsSeen(q)
  <2>1. positions[p] = None /\ positions' = Saved(p, Created(editor[g].command)) /\ UNCHANGED mapping
    BY <1>1 DEF CreatePosition
  <2> QED BY <2>1, SavedOthers DEF SavedAsSeen, IInv
<1>2. ASSUME NEW g \in Editors, ChangePosition(g) PROVE SavedAsSeen(q)
  <2> DEFINE c   == editor[g].command
             row == Changed(positions[c.position], c)
  <2>1. c.position \in Ids /\ editor[g].seen = positions[c.position]
    BY <1>2, ChangeEffect
  <2>2. /\ positions' = Saved(c.position, row) /\ UNCHANGED mapping
        /\ receipts' = receipts \cup {Receipt(g, c.position, row)}
        /\ New(g, {"EDIT", "DEFAULT", "DISABLE"})
    BY <1>2 DEF ChangePosition
  <2> HIDE DEF row
  <2>3. c \in {r.command : r \in receipts' \ receipts}
    BY <2>2, ReceiptIsNew
  <2>4. ByEditorOf(c.position, positions[c.position])
    BY <2>1, <2>3 DEF ByEditorOf
  <2>5. CASE q = c.position
    BY <2>2, <2>4, <2>5 DEF SavedAsSeen
  <2>6. CASE q # c.position
    BY <2>1, <2>2, <2>6, SavedOthers DEF SavedAsSeen, IInv
  <2> QED BY <2>5, <2>6
<1>3. ASSUME NEW g \in Editors, ConfigureChannelPosition(g) PROVE SavedAsSeen(q)
  <2> DEFINE c   == editor[g].command
             row == Configured(c)
  <2>1. /\ c.position \in Ids /\ editor[g].seen = mapping[c.position]
        /\ mapping' = [mapping EXCEPT ![c.position] = row]
    BY <1>3, ConfigureEffect
  <2>2. /\ UNCHANGED positions /\ New(g, {"CONFIGURE"})
        /\ receipts' = receipts \cup {Receipt(g, c.position, row)}
    BY <1>3 DEF ConfigureChannelPosition
  <2> HIDE DEF row
  <2>3. c \in {r.command : r \in receipts' \ receipts}
    BY <2>2, ReceiptIsNew
  <2>4. ByEditorOf(c.position, mapping[c.position])
    BY <2>1, <2>3 DEF ByEditorOf
  <2>5. q # c.position => mapping'[q] = mapping[q]
    BY <2>1 DEF IInv, TypeOK
  <2> QED BY <2>2, <2>4, <2>5 DEF SavedAsSeen
<1>4. ASSUME UNCHANGED <<positions, mapping>> PROVE SavedAsSeen(q)
  BY <1>4 DEF SavedAsSeen
<1>5. \A g \in Editors : Replay(g) \/ Refuse(g) \/ GiveUp(g) => UNCHANGED <<positions, mapping>>
  BY DEF Replay, Refuse, GiveUp, Refused
<1>6. \A g, command, seen : Compose(g, command, seen) => UNCHANGED <<positions, mapping>>
  BY DEF Compose
<1>7. \A g, k, p, c, x : ComposeCreate(g, k, c, x) \/ ComposeChange(g, k, p, x, c) \/ ComposeConfigure(g, k, p, x)
        => UNCHANGED <<positions, mapping>>
  BY <1>6 DEF ComposeCreate, ComposeChange, ComposeConfigure
<1>8. DisableProfile \/ UNCHANGED vars => UNCHANGED <<positions, mapping>>
  BY DEF DisableProfile, vars
<1> QED BY <1>1, <1>2, <1>3, <1>4, <1>5, <1>7, <1>8 DEF Next

\* A row or a mapping changes only under a command composed on exactly that row,
\* or loses the default flag and then outdates its editors (optimistic locking by
\* version is enough, although versions are compared and not rows).
THEOREM NothingUnseen == Spec => SavedWhatWasSeen
<1>1. IInv /\ [Next]_vars => \A p \in Ids : SavedAsSeen(p)
  BY SeenStep
<1> QED BY <1>1, Inductive, PTL DEF Spec, SavedWhatWasSeen

-----------------------------------------------------------------------------
(* An answer answers its command, from the transaction or from a receipt.  *)

\* Receipts answer their commands too, so a replay hands out the right answer.
Truthful ==
  /\ AnswersItsCommand
  /\ \A r \in receipts : Answers(r, r.command)

LEMMA AnsweredAnswers ==
  ASSUME TypeOK, AnswersItsCommand, NEW g \in Editors, Sending(g), NEW p \in Ids, NEW row,
         Answers([position |-> p, row |-> row], editor[g].command),
         Answered(g, p, row)
  PROVE  AnswersItsCommand'
<1> DEFINE answer == [position |-> p, row |-> row]
<1>1. CASE UNCHANGED editor
  BY <1>1 DEF AnswersItsCommand, Answers
<1>2. CASE editor' = [editor EXCEPT ![g].answer = answer]
  <2> HIDE DEF answer
  <2>1. editor[g] \in Editor /\ editor'[g] = [editor[g] EXCEPT !.answer = answer]
        /\ \A h \in Editors \ {g} : editor'[h] = editor[h]
    BY <1>2 DEF TypeOK
  <2>2. editor'[g].answer = answer /\ editor'[g].command = editor[g].command
    BY <2>1 DEF Editor
  <2>3. Answers(answer, editor[g].command)
    BY DEF answer
  <2>4. \A h \in Editors : editor'[h].answer # None => Answers(editor'[h].answer, editor'[h].command)
    BY <2>1, <2>2, <2>3 DEF AnswersItsCommand
  <2> QED BY <2>4 DEF AnswersItsCommand, Answers
<1> QED BY <1>1, <1>2 DEF Answered

LEMMA StoredAnswers ==
  ASSUME IInv, Truthful, NEW g \in Editors, Sending(g), NEW p \in Ids, NEW row,
         Answers([position |-> p, row |-> row], editor[g].command),
         receipts' = receipts \cup {Receipt(g, p, row)},
         Answered(g, p, row)
  PROVE  Truthful'
<1>1. Answers(Receipt(g, p, row), editor[g].command)
  BY DEF Answers, Receipt
<1>2. Receipt(g, p, row).command = editor[g].command
  BY DEF Receipt
<1>3. \A r \in receipts' : Answers(r, r.command)
  BY <1>1, <1>2 DEF Truthful
<1>4. AnswersItsCommand'
  BY AnsweredAnswers DEF IInv, Truthful
<1>5. (\A r \in receipts : Answers(r, r.command))'
  BY <1>3 DEF Answers
<1> QED BY <1>4, <1>5 DEF Truthful

\* The rows the transactions return say what was asked for.
LEMMA RowsAnswer ==
  ASSUME NEW c \in Command, NEW p \in Ids, NEW row
  PROVE  /\ c.action = "CREATE" /\ c.position = None =>
              Answers([position |-> p, row |-> Created(c)], c)
         /\ c.action \in Changes /\ c.position = p =>
              Answers([position |-> p, row |-> Changed(row, c)], c)
         /\ c.action = "CONFIGURE" /\ c.position = p =>
              Answers([position |-> p, row |-> Configured(c)], c)
<1>1. CASE c.action = "CREATE"
  BY <1>1 DEF Answers, Created, Command, Changes
<1>2. CASE c.action = "EDIT"
  <2>1. Changed(row, c).content = c.content
    BY <1>2 DEF Changed, Row
  <2> QED BY <1>2, <2>1 DEF Answers
<1>3. CASE c.action = "DEFAULT"
  <2>1. Changed(row, c).default = TRUE
    BY <1>3 DEF Changed, Row
  <2> QED BY <1>3, <2>1 DEF Answers
<1>4. CASE c.action = "DISABLE"
  <2>1. Changed(row, c).status = "DISABLED"
    BY <1>4 DEF Changed, Row
  <2> QED BY <1>4, <2>1 DEF Answers
<1>5. CASE c.action = "CONFIGURE"
  BY <1>5 DEF Answers, Configured, Changes
<1> QED BY <1>1, <1>2, <1>3, <1>4, <1>5 DEF Command, Changes

\* Steps that store no receipt and answer nobody.
LEMMA SilentStep ==
  ASSUME IInv, Truthful, UNCHANGED receipts,
         \/ UNCHANGED editor
         \/ \E g \in Editors : Refused(g)
         \/ \E g \in Editors : \E command, seen : Compose(g, command, seen)
  PROVE  Truthful'
<1>1. (\A r \in receipts : Answers(r, r.command))'
  BY DEF Truthful, Answers
<1>2. AnswersItsCommand'
  BY DEF IInv, TypeOK, Truthful, AnswersItsCommand, Answers, Refused, IdleEditor, Compose
<1> QED BY <1>1, <1>2 DEF Truthful

LEMMA TruthStep == IInv /\ Truthful /\ [Next]_vars => Truthful'
<1> SUFFICES ASSUME IInv, Truthful, [Next]_vars PROVE Truthful'
  OBVIOUS
<1>1. ASSUME NEW g \in Editors, NEW p \in Ids, CreatePosition(g, p) PROVE Truthful'
  <2> DEFINE c == editor[g].command
  <2>1. Sending(g) /\ c.action = "CREATE"
    BY <1>1 DEF CreatePosition, New
  <2>2. c \in Command /\ c.position = None
    BY <2>1, Sent DEF WellFormed
  <2>3. Answers([position |-> p, row |-> Created(c)], c)
    BY <2>1, <2>2, RowsAnswer
  <2> QED BY <1>1, <2>1, <2>3, StoredAnswers DEF CreatePosition
<1>2. ASSUME NEW g \in Editors, ChangePosition(g) PROVE Truthful'
  <2> DEFINE c == editor[g].command
             p == c.position
  <2>1. Sending(g) /\ p \in Ids /\ c.action \in Changes
    BY <1>2, ChangeEffect DEF ChangePosition, New, Changes
  <2>2. c \in Command /\ positions[p] \in Position
    BY <2>1, Sent DEF WellFormed, IInv, TypeOK
  <2>3. Answers([position |-> p, row |-> Changed(positions[p], c)], c)
    BY <2>1, <2>2, RowsAnswer
  <2> QED BY <1>2, <2>1, <2>3, StoredAnswers DEF ChangePosition
<1>3. ASSUME NEW g \in Editors, ConfigureChannelPosition(g) PROVE Truthful'
  <2> DEFINE c == editor[g].command
             p == c.position
  <2>1. Sending(g) /\ p \in Ids /\ c.action = "CONFIGURE"
    BY <1>3, ConfigureEffect DEF ConfigureChannelPosition, New
  <2>2. c \in Command
    BY <2>1, Sent
  <2>3. Answers([position |-> p, row |-> Configured(c)], c)
    BY <2>1, <2>2, RowsAnswer
  <2> QED BY <1>3, <2>1, <2>3, StoredAnswers DEF ConfigureChannelPosition
<1>4. ASSUME NEW g \in Editors, Replay(g) PROVE Truthful'
  <2>1. PICK r \in receipts : r.command = editor[g].command /\ Answered(g, r.position, r.row)
    BY <1>4 DEF Replay, InScope
  <2>2. Answers([position |-> r.position, row |-> r.row], editor[g].command)
    BY <2>1 DEF Truthful, Answers
  <2>3. AnswersItsCommand'
    BY <1>4, <2>1, <2>2, AnsweredAnswers DEF Replay, IInv, TypeOK, Truthful
  <2>4. (\A x \in receipts : Answers(x, x.command))'
    BY <1>4 DEF Replay, Truthful, Answers
  <2> QED BY <2>3, <2>4 DEF Truthful
<1>5. ASSUME NEW g \in Editors, Refuse(g) \/ GiveUp(g) PROVE Truthful'
  <2>1. Refused(g) /\ UNCHANGED receipts
    BY <1>5 DEF Refuse, GiveUp, Refused
  <2> QED BY <2>1, SilentStep
<1>6. ASSUME NEW g \in Editors, NEW command, NEW seen, Compose(g, command, seen) PROVE Truthful'
  <2>1. UNCHANGED receipts
    BY <1>6 DEF Compose
  <2> QED BY <1>6, <2>1, SilentStep
<1>7. \A g \in Editors : \A k, p, c, x :
        ComposeCreate(g, k, c, x) \/ ComposeChange(g, k, p, x, c) \/ ComposeConfigure(g, k, p, x) => Truthful'
  BY <1>6 DEF ComposeCreate, ComposeChange, ComposeConfigure
<1>8. DisableProfile \/ UNCHANGED vars => Truthful'
  BY SilentStep DEF DisableProfile, vars
<1> QED BY <1>1, <1>2, <1>3, <1>4, <1>5, <1>7, <1>8 DEF Next

\* Every answer, from the transaction or replayed from a receipt that any client
\* stored under the key, is the answer to the command it was given for.
THEOREM AnswersAreRight == Spec => []AnswersItsCommand
<1>1. Init => Truthful
  BY DEF Init, Truthful, AnswersItsCommand, IdleEditor
<1>2. Truthful => AnswersItsCommand
  BY DEF Truthful
<1> QED BY <1>1, <1>2, TruthStep, Inductive, PTL DEF Spec

-----------------------------------------------------------------------------
(* Receipts are the history of the rows.                                   *)

Configures(r) == r.command.action = "CONFIGURE"

\* The stored row a receipt is about.
Kept(r) == IF Configures(r) THEN mapping[r.position] ELSE positions[r.position]

\* ReceiptsAreHistory, and that no row a receipt is about is ever gone.
History ==
  /\ \A r, s \in receipts :
       /\ r.position = s.position
       /\ Configures(r) <=> Configures(s)
       /\ r.row.version = s.row.version
       => r = s
  /\ \A r \in receipts : Kept(r) # None /\ r.row.version <= Version(Kept(r))
  /\ \A p \in Ids : mapping[p] # None =>
       \E r \in receipts : Configures(r) /\ r.position = p /\ r.row = mapping[p]

\* A new receipt goes with a row newer than the one it replaces, while no row goes back.
LEMMA Recording ==
  ASSUME TypeOK, TypeOK', History, NEW x, receipts' = receipts \cup {x},
         \A q \in Ids : Onward(positions[q], positions'[q]) /\ Onward(mapping[q], mapping'[q]),
         Kept(x)' = x.row, Version(Kept(x)) < Version(Kept(x)'),
         \A q \in Ids : mapping'[q] # mapping[q] => Configures(x) /\ q = x.position
  PROVE  History'
<1>1. x \in [command : Command, position : Ids, row : Position \cup Mapping]
  BY DEF TypeOK
<1>2. x.position \in Ids /\ x.row \in Position \cup Mapping /\ x.row # None
  BY <1>1, Existing
<1>3. Version(x.row) = x.row.version /\ x.row.version \in Nat
  BY <1>2, Versions DEF Version
<1>4. ASSUME NEW r \in receipts
      PROVE  /\ r.position \in Ids /\ r.row.version \in Nat
             /\ Kept(r) # None /\ r.row.version <= Version(Kept(r))
             /\ Version(Kept(r)) \in Nat /\ Version(Kept(r)') \in Nat
             /\ Kept(r)' # None /\ Version(Kept(r)) <= Version(Kept(r)')
  <2>1. r.position \in Ids /\ r.row \in Position \cup Mapping
    BY DEF TypeOK
  <2>2. r.row.version \in Nat
    BY <2>1 DEF Position, Mapping
  <2>3. Kept(r) # None /\ r.row.version <= Version(Kept(r))
    BY DEF History
  <2>4. /\ Kept(r) \in Position \cup Mapping \cup {None}
        /\ Kept(r)' \in Position \cup Mapping \cup {None}
    BY <2>1 DEF Kept, TypeOK
  <2>5. Onward(Kept(r), Kept(r)')
    BY <2>1 DEF Kept, Configures
  <2> QED BY <2>1, <2>2, <2>3, <2>4, <2>5, Versions DEF Onward
<1>5. ASSUME NEW r \in receipts, r.position = x.position, Configures(r) <=> Configures(x)
      PROVE  r.row.version < x.row.version
  <2>1. Kept(r) = Kept(x)
    BY <1>5 DEF Kept
  <2>2. Version(Kept(r)) < x.row.version
    BY <2>1, <1>3
  <2> QED BY <2>2, <1>3, <1>4
<1>6. \A r, s \in receipts' :
        r.position = s.position /\ (Configures(r) <=> Configures(s)) /\ r.row.version = s.row.version
        => r = s
  <2>1. \A r, s \in receipts :
          r.position = s.position /\ (Configures(r) <=> Configures(s)) /\ r.row.version = s.row.version
          => r = s
    BY DEF History
  <2>2. \A r \in receipts :
          r.position = x.position /\ (Configures(r) <=> Configures(x)) => r.row.version # x.row.version
    BY <1>3, <1>4, <1>5
  <2> QED BY <2>1, <2>2
<1>7. ASSUME NEW r \in receipts' PROVE Kept(r)' # None /\ r.row.version <= Version(Kept(r)')
  <2>1. CASE r \in receipts
    BY <2>1, <1>4
  <2>2. CASE r = x
    BY <2>2, <1>2, <1>3
  <2> QED BY <2>1, <2>2
<1>8. ASSUME NEW p \in Ids, mapping'[p] # None
      PROVE  \E r \in receipts' : Configures(r) /\ r.position = p /\ r.row = mapping'[p]
  <2>1. CASE mapping'[p] = mapping[p]
    BY <2>1, <1>8 DEF History
  <2>2. CASE mapping'[p] # mapping[p]
    <3>1. Configures(x) /\ p = x.position /\ x \in receipts'
      BY <2>2
    <3>2. x.row = mapping'[p]
      BY <3>1 DEF Kept, Configures
    <3> QED BY <3>1, <3>2
  <2> QED BY <2>1, <2>2
<1>9. \A r, s : Configures(r)' <=> Configures(r)
  BY DEF Configures
<1>10. \A r : Version(Kept(r))' = Version(Kept(r)')
  BY DEF Version
<1> QED BY <1>6, <1>7, <1>8, <1>9, <1>10 DEF History

\* Steps that store nothing.
LEMMA NothingRecorded ==
  ASSUME History, UNCHANGED <<positions, mapping, receipts>>
  PROVE  History'
BY DEF History, Kept, Configures, Version

LEMMA HistoryStep == IInv /\ IInv' /\ History /\ [Next]_vars => History'
<1> SUFFICES ASSUME IInv, IInv', History, [Next]_vars PROVE History'
  OBVIOUS
<1>1. TypeOK /\ TypeOK' /\ OneDefault
  BY DEF IInv
<1>2. \A q \in Ids : Onward(positions[q], positions[q]) /\ Onward(mapping[q], mapping[q])
  BY <1>1, SeenIsBehind DEF TypeOK
<1>3. ASSUME NEW g \in Editors, NEW p \in Ids, NEW row \in Position,
             row.default => row.status = "ENABLED", Sending(g),
             editor[g].command.action # "CONFIGURE", UNCHANGED mapping,
             Onward(positions[p], row), Version(positions[p]) < Version(row),
             positions' = Saved(p, row), receipts' = receipts \cup {Receipt(g, p, row)}
      PROVE  History'
  <2>1. PICK x : x = Receipt(g, p, row)
    OBVIOUS
  <2>2. x.position = p /\ x.row = row /\ ~Configures(x)
    BY <1>3, <2>1 DEF Receipt, Configures
  <2>3. positions'[p] = row /\ \A q \in Ids : Onward(positions[q], positions'[q])
    BY <1>1, <1>3, SavedRows
  <2>4. Kept(x) = positions[p] /\ Kept(x)' = row
    BY <2>3, <2>2 DEF Kept, Configures
  <2> QED BY <1>1, <1>2, <1>3, <2>1, <2>3, <2>4, <2>2, Recording
<1>4. ASSUME NEW g \in Editors, NEW p \in Ids, CreatePosition(g, p) PROVE History'
  <2> DEFINE row == Created(editor[g].command)
  <2>1. /\ Sending(g) /\ row \in Position /\ positions[p] = None
        /\ (row.default => row.status = "ENABLED") /\ Onward(positions[p], row)
    BY <1>4, CreateEffect
  <2>2. Version(positions[p]) = 0 /\ Version(row) \in Nat /\ Version(row) # 0
    BY <2>1, Versions, Existing DEF Version
  <2>3. /\ editor[g].command.action # "CONFIGURE" /\ positions' = Saved(p, row)
        /\ receipts' = receipts \cup {Receipt(g, p, row)} /\ UNCHANGED mapping
    BY <1>4 DEF CreatePosition, New
  <2> HIDE DEF row
  <2> QED BY <1>3, <2>1, <2>2, <2>3
<1>5. ASSUME NEW g \in Editors, ChangePosition(g) PROVE History'
  <2> DEFINE c   == editor[g].command
             p   == c.position
             row == Changed(positions[p], c)
  <2>1. /\ Sending(g) /\ p \in Ids /\ row \in Position
        /\ (row.default => row.status = "ENABLED") /\ Onward(positions[p], row)
        /\ positions[p] = editor[g].seen
    BY <1>5, ChangeEffect
  <2>2. /\ c.action \in Changes /\ c.action # "CONFIGURE" /\ positions' = Saved(p, row)
        /\ receipts' = receipts \cup {Receipt(g, p, row)} /\ UNCHANGED mapping
        /\ Changeable(positions[p], c)
    BY <1>5 DEF ChangePosition, New, Changes
  <2>3. positions[p] \in Position /\ positions[p] # None /\ c \in Command
        /\ (c.action = "EDIT" => c.content \in Contents)
    BY <2>1, <2>2, Sent DEF WellFormed, IInv, TypeOK
  <2>4. row.version = positions[p].version + 1
    BY <2>2, <2>3, ChangedRow DEF Changeable
  <2>5. Version(row) = row.version /\ Version(positions[p]) = positions[p].version
        /\ positions[p].version \in Nat
    BY <2>1, <2>3, Existing DEF Version, Position
  <2>6. Version(positions[p]) < Version(row)
    BY <2>4, <2>5
  <2> HIDE DEF row
  <2> QED BY <1>3, <2>1, <2>2, <2>6
<1>6. ASSUME NEW g \in Editors, ConfigureChannelPosition(g) PROVE History'
  <2> DEFINE c   == editor[g].command
             p   == c.position
             row == Configured(c)
  <2>1. /\ Sending(g) /\ p \in Ids /\ row \in Mapping
        /\ mapping' = [mapping EXCEPT ![p] = row] /\ Onward(mapping[p], row)
    BY <1>6, ConfigureEffect
  <2>2. PICK x : x = Receipt(g, p, row)
    OBVIOUS
  <2>3. /\ c.action = "CONFIGURE" /\ Version(mapping[p]) = c.version /\ UNCHANGED positions
        /\ receipts' = receipts \cup {x}
    BY <1>6, <2>2 DEF ConfigureChannelPosition, New, Configurable
  <2>4. c \in Command /\ row.version = c.version + 1 /\ c.version \in Nat
    BY <2>1, Sent DEF Configured, Command
  <2>5. Version(row) = c.version + 1 /\ Version(mapping[p]) < Version(row)
    BY <2>1, <2>3, <2>4, Existing DEF Version
  <2>6. mapping'[p] = row /\ \A q \in Ids \ {p} : mapping'[q] = mapping[q]
    BY <1>1, <2>1 DEF TypeOK
  <2>7. x.position = p /\ x.row = row /\ Configures(x)
    BY <2>3, <2>2 DEF Receipt, Configures
  <2> HIDE DEF row
  <2>8. Kept(x) = mapping[p] /\ Kept(x)' = row
    BY <2>6, <2>7 DEF Kept, Configures
  <2>9. \A q \in Ids : Onward(positions[q], positions'[q]) /\ Onward(mapping[q], mapping'[q])
    BY <1>2, <2>1, <2>3, <2>6
  <2> QED BY <1>1, <2>3, <2>5, <2>6, <2>7, <2>8, <2>9, Recording
<1>7. \A g \in Editors : Replay(g) \/ Refuse(g) \/ GiveUp(g) => UNCHANGED <<positions, mapping, receipts>>
  BY DEF Replay, Refuse, GiveUp, Refused
<1>8. \A g, k, p, c, x :
        ComposeCreate(g, k, c, x) \/ ComposeChange(g, k, p, x, c) \/ ComposeConfigure(g, k, p, x)
        => UNCHANGED <<positions, mapping, receipts>>
  BY DEF Compose, ComposeCreate, ComposeChange, ComposeConfigure
<1>9. DisableProfile \/ UNCHANGED vars => UNCHANGED <<positions, mapping, receipts>>
  BY DEF DisableProfile, vars
<1> QED BY <1>4, <1>5, <1>6, <1>7, <1>8, <1>9, NothingRecorded DEF Next

\* For any number of commands and editors the receipts are a true history: each row
\* version recorded once, none ahead of the stored row, every mapping the last recorded.
THEOREM ReceiptsTellHistory == Spec => []ReceiptsAreHistory
<1>1. Init => History
  BY DEF Init, History
<1>2. History => ReceiptsAreHistory
  <2> SUFFICES ASSUME History PROVE ReceiptsAreHistory
    OBVIOUS
  <2>1. \A r \in receipts : Version(Kept(r)) = Kept(r).version
    BY DEF History, Version
  <2> QED BY <2>1 DEF History, ReceiptsAreHistory, Configures, Kept
<1> QED BY <1>1, <1>2, HistoryStep, Inductive, PTL DEF Spec

-----------------------------------------------------------------------------
(* Part II.  A command's statements are one action of Positions, since its  *)
(* transaction holds the profile from before it reads until it commits.     *)

\* The transaction has read the profile, and so holds it.
Inside(g) ==
  \/ call[g].pc \in {"row", "default", "commit"}
  \/ call[g].pc = "receipt" /\ editor[g].command.action # "CONFIGURE"

\* The positions a new default takes the flag from.
Stripped(g) ==
  {q \in Ids : /\ q # editor[g].command.position /\ Result(g).default
               /\ positions[q] # None /\ positions[q].default}

\* What a transaction has locked is its own, and what it has read is still so.
CallSound(g) ==
  LET c == editor[g].command
      t == call[g]
  IN
  t.pc # "none" =>
    /\ Sending(g)
    /\ Inside(g) => lock[Profile] = g /\ enabled
    /\ c.action = "CONFIGURE" => lock[Scope(c)] = g
    /\ t.pc # "receipt" => InScope(c) = {}
    /\ t.pc = "profile" => c.action = "CONFIGURE"
    /\ t.pc = "default" => c.action # "CONFIGURE"
    /\ t.pc \in {"default", "commit"} /\ c.action \in Changes =>
         t.row = positions[c.position] /\ Changeable(t.row, c)
    /\ t.pc = "commit" /\ c.action = "CONFIGURE" =>
         /\ positions[c.position].status = "ENABLED"
         /\ Version(mapping[c.position]) = c.version
    /\ t.pc = "commit" /\ c.action # "CONFIGURE" => t.losing = Stripped(g)

\* The inductive invariant of the statements, beside that of Positions.
StepInv == StepTypeOK /\ \A g \in Editors : CallSound(g)

-----------------------------------------------------------------------------
(* Locks.                                                                  *)

\* What holds of everybody but g when g takes a step and the rows stay.
Others(g) ==
  \A h \in Editors \ {g} :
    /\ call'[h] = call[h] /\ editor'[h] = editor[h]
    /\ \A l \in Lockable : lock[l] = h => lock'[l] = h

LEMMA Taking ==
  ASSUME StepTypeOK, NEW g \in Editors, NEW ls \in SUBSET Lockable,
         \A l \in ls : Free(g, l), Take(g, ls)
  PROVE  /\ lock' \in [Lockable -> Editors \cup {None}]
         /\ \A l \in ls : lock'[l] = g
         /\ \A h \in Editors, l \in Lockable : lock[l] = h => lock'[l] = h
<1>1. \A l \in Lockable : lock'[l] = IF l \in ls THEN g ELSE lock[l]
  BY DEF Take
<1>2. \A l \in Lockable : lock[l] \in Editors \cup {None}
  BY DEF StepTypeOK
<1>3. lock' \in [Lockable -> Editors \cup {None}]
  BY <1>2 DEF Take
<1> QED BY <1>1, <1>2, <1>3, StepsAssumption DEF Free

LEMMA Ending ==
  ASSUME StepTypeOK, NEW g \in Editors, End(g)
  PROVE  /\ StepTypeOK'
         /\ call'[g].pc = "none"
         /\ \A h \in Editors \ {g} :
              call'[h] = call[h] /\ \A l \in Lockable : lock[l] = h => lock'[l] = h
<1>1. NoCall \in Call
  BY DEF NoCall, Call
<1>2. /\ call' \in [Editors -> Call] /\ call'[g] = NoCall
      /\ \A h \in Editors \ {g} : call'[h] = call[h]
  BY <1>1 DEF End, StepTypeOK
<1>3. \A l \in Lockable : lock'[l] = IF lock[l] = g THEN None ELSE lock[l]
  BY DEF End
<1>4. lock' \in [Lockable -> Editors \cup {None}]
  BY DEF End, StepTypeOK
<1> QED BY <1>2, <1>3, <1>4 DEF NoCall, StepTypeOK

\* The keys of the locks a command takes are locks.
LEMMA LocksOf ==
  ASSUME IInv, NEW g \in Editors, Sending(g)
  PROVE  /\ Profile \in Lockable /\ Scope(editor[g].command) \in Lockable
         /\ editor[g].command.action # "CREATE" =>
              editor[g].command.position \in Ids /\ RowOf(editor[g].command.position) \in Lockable
         /\ \A q \in Ids : RowOf(q) \in Lockable
<1> DEFINE c == editor[g].command
<1>1. c \in Command /\ WellFormed(c, editor[g].seen)
  BY Sent
<1>2. c.key \in Keys
  BY <1>1 DEF Command
<1>3. Scope(c) \in Lockable
  BY <1>2 DEF Scope, Lockable
<1>4. c.action # "CREATE" => c.position \in Ids
  BY <1>1 DEF Command, WellFormed, Changes
<1> QED BY <1>3, <1>4 DEF Lockable

\* Two transactions are not both past the lock on the profile.
LEMMA OneInside ==
  ASSUME StepInv, NEW g \in Editors, NEW h \in Editors, Inside(g), Inside(h)
  PROVE  g = h
<1>1. call[g].pc # "none" /\ call[h].pc # "none"
  BY DEF Inside
<1> QED BY <1>1 DEF StepInv, CallSound

\* A call stays sound while its locks stay with it and nobody writes under them.
LEMMA Undisturbed ==
  ASSUME IInv, StepInv, NEW h \in Editors,
         call'[h] = call[h], editor'[h] = editor[h],
         \A l \in Lockable : lock[l] = h => lock'[l] = h,
         Inside(h) => UNCHANGED <<enabled, positions, mapping>>,
         call[h].pc # "none" /\ InScope(editor[h].command) = {} =>
           InScope(editor[h].command)' = {}
  PROVE  CallSound(h)'
<1> SUFFICES ASSUME call[h].pc # "none" PROVE CallSound(h)'
  BY DEF CallSound
<1>1. CallSound(h)
  BY DEF StepInv
<1>2. Sending(h) /\ Sending(h)'
  BY <1>1 DEF CallSound, Sending
<1>3. Inside(h)' <=> Inside(h)
  BY DEF Inside
<1>4. /\ Inside(h) => lock'[Profile] = h /\ enabled'
      /\ editor[h].command.action = "CONFIGURE" => lock'[Scope(editor[h].command)] = h
  BY <1>1, <1>2, LocksOf DEF CallSound
<1>5. call[h].pc \in {"default", "commit"} => Inside(h)
  BY DEF Inside
<1>6. Inside(h) => Stripped(h)' = Stripped(h)
  BY DEF Stripped, Result
<1>7. Scope(editor[h].command)' = Scope(editor[h].command)
  BY DEF Scope
<1> QED BY <1>1, <1>2, <1>3, <1>4, <1>5, <1>6, <1>7 DEF CallSound, Changeable, Version

\* A step that writes nothing disturbs nobody else.
LEMMA Quiet ==
  ASSUME IInv, StepInv, NEW g \in Editors, Others(g), StepTypeOK', CallSound(g)',
         UNCHANGED <<enabled, positions, mapping, receipts>>
  PROVE  StepInv'
<1>1. ASSUME NEW h \in Editors \ {g} PROVE CallSound(h)'
  <2>1. /\ call'[h] = call[h] /\ editor'[h] = editor[h]
        /\ \A l \in Lockable : lock[l] = h => lock'[l] = h
    BY DEF Others
  <2>2. InScope(editor[h].command)' = InScope(editor[h].command)
    BY <2>1 DEF InScope
  <2> QED BY <2>1, <2>2, Undisturbed
<1> QED BY <1>1 DEF StepInv

LEMMA AnsweredOthers ==
  ASSUME IInv, NEW g \in Editors, NEW p, NEW row, Answered(g, p, row)
  PROVE  \A h \in Editors \ {g} : editor'[h] = editor[h]
BY DEF Answered, IInv, TypeOK

-----------------------------------------------------------------------------
(* The statements: each keeps the invariant and writes nothing.            *)

\* A statement that takes the locks ls and advances to pc.
LEMMA Advancing ==
  ASSUME IInv, StepInv, NEW g \in Editors, NEW ls \in SUBSET Lockable,
         \A l \in ls : Free(g, l), Take(g, ls),
         NEW new \in Call, call' = [call EXCEPT ![g] = new], UNCHANGED vars
  PROVE  /\ Others(g) /\ StepTypeOK' /\ call'[g] = new
         /\ \A l \in ls : lock'[l] = g
         /\ \A l \in Lockable : lock[l] = g => lock'[l] = g
<1>1. StepTypeOK
  BY DEF StepInv
<1>2. /\ lock' \in [Lockable -> Editors \cup {None}]
      /\ \A l \in ls : lock'[l] = g
      /\ \A h \in Editors, l \in Lockable : lock[l] = h => lock'[l] = h
  BY <1>1, Taking
<1>3. /\ call' \in [Editors -> Call] /\ call'[g] = new
      /\ \A h \in Editors \ {g} : call'[h] = call[h]
  BY <1>1 DEF StepTypeOK
<1> QED BY <1>2, <1>3 DEF Others, StepTypeOK, vars

\* A statement that takes no lock takes the empty set of locks.
LEMMA NoLock ==
  ASSUME StepInv, NEW g \in Editors, UNCHANGED lock
  PROVE  Take(g, {})
BY DEF Take, StepInv, StepTypeOK

LEMMA AdvanceIs ==
  ASSUME StepInv, NEW g \in Editors, NEW pc \in {"receipt", "profile", "row", "default", "commit"},
         Advance(g, pc)
  PROVE  /\ [call[g] EXCEPT !.pc = pc] \in Call
         /\ call' = [call EXCEPT ![g] = [call[g] EXCEPT !.pc = pc]]
<1>1. call[g] \in Call
  BY DEF StepInv, StepTypeOK
<1> QED BY <1>1 DEF Call, Advance

LEMMA LockScopeStep ==
  ASSUME IInv, StepInv, NEW g \in Editors, LockScope(g) PROVE StepInv'
<1> DEFINE new == [call[g] EXCEPT !.pc = "receipt"]
           c == editor[g].command
<1>1. /\ Sending(g) /\ c.action = "CONFIGURE" /\ UNCHANGED vars
      /\ Free(g, Scope(c)) /\ Take(g, {Scope(c)}) /\ Advance(g, "receipt")
  BY DEF LockScope
<1>2. Scope(c) \in Lockable
  BY <1>1, LocksOf
<1>3. new \in Call /\ call' = [call EXCEPT ![g] = new]
  BY <1>1, AdvanceIs
<1>4. Others(g) /\ StepTypeOK' /\ call'[g] = new /\ lock'[Scope(c)] = g
  <2> DEFINE ls == {Scope(c)}
  <2>1. ls \in SUBSET Lockable /\ (\A l \in ls : Free(g, l)) /\ Take(g, ls)
    BY <1>1, <1>2
  <2> HIDE DEF new, ls
  <2>2. /\ Others(g) /\ StepTypeOK' /\ call'[g] = new /\ \A l \in ls : lock'[l] = g
        /\ \A l \in Lockable : lock[l] = g => lock'[l] = g
    BY <1>1, <1>3, <2>1, Advancing
  <2> QED BY <2>2 DEF ls
<1>5. call'[g].pc = "receipt"
  BY <1>4 DEF StepInv, StepTypeOK, Call
<1>6. editor'[g] = editor[g] /\ Sending(g)'
  BY <1>1 DEF vars, Sending
<1>7. CallSound(g)'
  BY <1>1, <1>4, <1>5, <1>6 DEF CallSound, Inside, Scope
<1> QED BY <1>1, <1>4, <1>7, Quiet DEF vars

LEMMA LockProfileStep ==
  ASSUME IInv, StepInv, NEW g \in Editors, LockProfile(g) PROVE StepInv'
<1> DEFINE pc == IF editor[g].command.action = "CONFIGURE" THEN "row" ELSE "receipt"
           new == [call[g] EXCEPT !.pc = pc]
           c == editor[g].command
<1>1. /\ Sending(g) /\ AtProfile(g) /\ enabled /\ UNCHANGED vars
      /\ Free(g, Profile) /\ Take(g, {Profile}) /\ Advance(g, pc)
  BY DEF LockProfile
<1>2. Profile \in Lockable /\ Scope(c) \in Lockable
  BY <1>1, LocksOf
<1>3. new \in Call /\ call' = [call EXCEPT ![g] = new]
  BY <1>1, AdvanceIs
<1>4. /\ Others(g) /\ StepTypeOK' /\ call'[g] = new /\ lock'[Profile] = g
      /\ \A l \in Lockable : lock[l] = g => lock'[l] = g
  <2>1. {Profile} \in SUBSET Lockable /\ \A l \in {Profile} : Free(g, l)
    BY <1>1, <1>2
  <2> HIDE DEF new
  <2> QED BY <1>1, <1>3, <2>1, Advancing
<1>5. call'[g].pc = pc
  BY <1>4 DEF StepInv, StepTypeOK, Call
<1>6. editor'[g] = editor[g] /\ enabled' /\ Sending(g)' /\ InScope(c)' = InScope(c)
  BY <1>1 DEF vars, Sending, InScope
<1>7. CallSound(g)'
  <2>1. CASE c.action = "CONFIGURE"
    <3>1. lock[Scope(c)] = g /\ InScope(c) = {}
      BY <1>1, <2>1 DEF AtProfile, StepInv, CallSound
    <3>2. lock'[Scope(c)] = g
      BY <1>2, <1>4, <3>1
    <3> QED BY <1>4, <1>5, <1>6, <2>1, <3>1, <3>2 DEF CallSound, Scope, Changes
  <2>2. CASE c.action # "CONFIGURE"
    BY <1>4, <1>5, <1>6, <2>2 DEF CallSound
  <2> QED BY <2>1, <2>2
<1> QED BY <1>1, <1>4, <1>7, Quiet DEF vars

LEMMA FindNoReceiptStep ==
  ASSUME IInv, StepInv, NEW g \in Editors, FindNoReceipt(g) PROVE StepInv'
<1> DEFINE pc == IF editor[g].command.action = "CONFIGURE" THEN "profile" ELSE "row"
           new == [call[g] EXCEPT !.pc = pc]
           c == editor[g].command
<1>1. call[g].pc = "receipt" /\ InScope(c) = {} /\ Advance(g, pc) /\ UNCHANGED lock /\ UNCHANGED vars
  BY DEF FindNoReceipt, vars
<1>2. new \in Call /\ call' = [call EXCEPT ![g] = new]
  BY <1>1, AdvanceIs
<1>3. Others(g) /\ StepTypeOK' /\ call'[g] = new
  <2>1. Take(g, {}) /\ {} \in SUBSET Lockable
    BY <1>1, NoLock
  <2> HIDE DEF new
  <2> QED BY <1>1, <1>2, <2>1, Advancing
<1>4. call'[g].pc = pc
  BY <1>3 DEF StepInv, StepTypeOK, Call
<1>5. Sending(g) /\ (c.action # "CONFIGURE" => lock[Profile] = g /\ enabled)
      /\ (c.action = "CONFIGURE" => lock[Scope(c)] = g)
  BY <1>1 DEF StepInv, CallSound, Inside
<1>6. editor'[g] = editor[g] /\ enabled' = enabled /\ Sending(g)' /\ InScope(c)' = InScope(c)
  BY <1>1, <1>5 DEF vars, Sending, InScope
<1>7. CallSound(g)'
  BY <1>1, <1>4, <1>5, <1>6 DEF CallSound, Inside, Scope
<1> QED BY <1>1, <1>3, <1>7, Quiet DEF vars

LEMMA ReadRowStep ==
  ASSUME IInv, StepInv, NEW g \in Editors, ReadRow(g) PROVE StepInv'
<1> DEFINE c == editor[g].command
           pc == IF c.action = "CONFIGURE" THEN "commit" ELSE "default"
           row == IF c.action = "CONFIGURE" THEN mapping[c.position] ELSE positions[c.position]
           new == [call[g] EXCEPT !.pc = pc, !.row = row]
<1>1. /\ call[g].pc = "row" /\ c.action # "CREATE" /\ Usable(c) /\ UNCHANGED vars
      /\ Free(g, RowOf(c.position)) /\ Take(g, {RowOf(c.position)})
      /\ call' = [call EXCEPT ![g].pc = pc, ![g].row = row]
  BY DEF ReadRow
<1>2. /\ Sending(g) /\ lock[Profile] = g /\ enabled /\ InScope(c) = {}
      /\ c.action = "CONFIGURE" => lock[Scope(c)] = g
  BY <1>1 DEF StepInv, CallSound, Inside
<1>3. /\ Profile \in Lockable /\ Scope(c) \in Lockable
      /\ c.position \in Ids /\ RowOf(c.position) \in Lockable
  BY <1>1, <1>2, LocksOf
<1>4. call[g] \in Call /\ row \in Position \cup Mapping \cup {None}
  BY <1>3 DEF StepInv, StepTypeOK, IInv, TypeOK
<1>5. new \in Call /\ call' = [call EXCEPT ![g] = new]
  BY <1>1, <1>4 DEF Call
<1>6. /\ Others(g) /\ StepTypeOK' /\ call'[g] = new
      /\ \A l \in Lockable : lock[l] = g => lock'[l] = g
  <2> DEFINE ls == {RowOf(c.position)}
  <2>1. ls \in SUBSET Lockable /\ (\A l \in ls : Free(g, l)) /\ Take(g, ls)
    BY <1>1, <1>3
  <2> HIDE DEF new, ls
  <2>2. /\ Others(g) /\ StepTypeOK' /\ call'[g] = new /\ \A l \in ls : lock'[l] = g
        /\ \A l \in Lockable : lock[l] = g => lock'[l] = g
    BY <1>1, <1>5, <2>1, Advancing
  <2> QED BY <2>2 DEF ls
<1>7. call'[g].pc = pc /\ call'[g].row = row
  BY <1>4, <1>6 DEF Call
<1>8. /\ editor'[g] = editor[g] /\ enabled' /\ Sending(g)' /\ InScope(c)' = InScope(c)
      /\ positions' = positions /\ mapping' = mapping
  BY <1>1, <1>2 DEF vars, Sending, InScope
<1>9. lock'[Profile] = g /\ (c.action = "CONFIGURE" => lock'[Scope(c)] = g)
  BY <1>2, <1>3, <1>6
<1>10. CallSound(g)'
  <2>1. CASE c.action = "CONFIGURE"
    <3>1. positions[c.position].status = "ENABLED" /\ Version(mapping[c.position]) = c.version
      BY <1>1, <2>1 DEF Usable
    <3>2. Version(mapping[c.position])' = Version(mapping[c.position])
      BY <1>8 DEF Version
    <3> QED BY <1>2, <1>7, <1>8, <1>9, <2>1, <3>1, <3>2 DEF CallSound, Scope, Changes
  <2>2. CASE c.action # "CONFIGURE"
    BY <1>1, <1>2, <1>7, <1>8, <1>9, <2>2 DEF CallSound, Usable, Changeable
  <2> QED BY <2>1, <2>2
<1> QED BY <1>1, <1>6, <1>10, Quiet DEF vars

LEMMA MakeRowStep ==
  ASSUME IInv, StepInv, NEW g \in Editors, MakeRow(g) PROVE StepInv'
<1> DEFINE new == [call[g] EXCEPT !.pc = "default"]
           c == editor[g].command
<1>1. /\ call[g].pc = "row" /\ c.action = "CREATE" /\ Advance(g, "default")
      /\ UNCHANGED lock /\ UNCHANGED vars
  BY DEF MakeRow, vars
<1>2. new \in Call /\ call' = [call EXCEPT ![g] = new]
  BY <1>1, AdvanceIs
<1>3. Others(g) /\ StepTypeOK' /\ call'[g] = new
  <2>1. Take(g, {}) /\ {} \in SUBSET Lockable
    BY <1>1, NoLock
  <2> HIDE DEF new
  <2> QED BY <1>1, <1>2, <2>1, Advancing
<1>4. call'[g].pc = "default"
  BY <1>3 DEF StepInv, StepTypeOK, Call
<1>5. Sending(g) /\ lock[Profile] = g /\ enabled /\ InScope(c) = {}
  BY <1>1 DEF StepInv, CallSound, Inside
<1>6. editor'[g] = editor[g] /\ enabled' /\ Sending(g)' /\ InScope(c)' = InScope(c)
  BY <1>1, <1>5 DEF vars, Sending, InScope
<1>7. CallSound(g)'
  BY <1>1, <1>4, <1>5, <1>6 DEF CallSound, Changes
<1> QED BY <1>1, <1>3, <1>7, Quiet DEF vars

LEMMA TakeDefaultStep ==
  ASSUME IInv, StepInv, NEW g \in Editors, TakeDefault(g) PROVE StepInv'
<1> DEFINE ls == {RowOf(q) : q \in Stripped(g)}
           c == editor[g].command
           new == [call[g] EXCEPT !.pc = "commit", !.losing = Stripped(g)]
<1>1. /\ call[g].pc = "default" /\ UNCHANGED vars
      /\ \A q \in Stripped(g) : Free(g, RowOf(q))
      /\ Take(g, ls)
      /\ call' = [call EXCEPT ![g].pc = "commit", ![g].losing = Stripped(g)]
  BY DEF TakeDefault, Stripped
<1>2. /\ Sending(g) /\ lock[Profile] = g /\ enabled /\ InScope(c) = {}
      /\ c.action # "CONFIGURE"
      /\ c.action \in Changes => call[g].row = positions[c.position] /\ Changeable(call[g].row, c)
  BY <1>1 DEF StepInv, CallSound, Inside
<1>3. Profile \in Lockable /\ ls \in SUBSET Lockable /\ \A l \in ls : Free(g, l)
  <2>1. Stripped(g) \subseteq Ids
    BY DEF Stripped
  <2> QED BY <1>1, <1>2, <2>1, LocksOf
<1>4. call[g] \in Call /\ Stripped(g) \in SUBSET Ids
  BY DEF StepInv, StepTypeOK, Stripped
<1>5. new \in Call /\ call' = [call EXCEPT ![g] = new]
  BY <1>1, <1>4 DEF Call
<1>6. /\ Others(g) /\ StepTypeOK' /\ call'[g] = new
      /\ \A l \in Lockable : lock[l] = g => lock'[l] = g
  <2> HIDE DEF new, ls
  <2> QED BY <1>1, <1>3, <1>5, Advancing
<1>7. call'[g].pc = "commit" /\ call'[g].row = call[g].row /\ call'[g].losing = Stripped(g)
  BY <1>4, <1>6 DEF Call
<1>8. /\ editor'[g] = editor[g] /\ enabled' /\ Sending(g)' /\ InScope(c)' = InScope(c)
      /\ positions' = positions
  BY <1>1, <1>2 DEF vars, Sending, InScope
<1>9. lock'[Profile] = g
  BY <1>2, <1>3, <1>6
<1>10. Stripped(g)' = Stripped(g)
  BY <1>7, <1>8 DEF Stripped, Result
<1>11. CallSound(g)'
  BY <1>2, <1>7, <1>8, <1>9, <1>10 DEF CallSound, Changeable
<1> QED BY <1>1, <1>6, <1>11, Quiet DEF vars

-----------------------------------------------------------------------------
(* The ends of a transaction, and what happens beside it.                  *)

\* Nothing of the transaction is left, and nobody else's is disturbed.
LEMMA EndStep ==
  ASSUME IInv, StepInv, NEW g \in Editors, End(g),
         UNCHANGED <<enabled, positions, mapping, receipts>>,
         \A h \in Editors \ {g} : editor'[h] = editor[h]
  PROVE  StepInv'
<1>1. StepTypeOK' /\ Others(g) /\ call'[g].pc = "none"
  BY Ending DEF StepInv, Others
<1>2. CallSound(g)'
  BY <1>1 DEF CallSound
<1> QED BY <1>1, <1>2, Quiet

\* What a commit stores is not under another call's lock, nor in its scope.
LEMMA CommitStep ==
  ASSUME IInv, StepInv, NEW g \in Editors, call[g].pc = "commit", End(g),
         NEW p, NEW row, Answered(g, p, row), receipts' = receipts \cup {Receipt(g, p, row)}
  PROVE  StepInv'
<1> DEFINE c == editor[g].command
<1>1. /\ StepTypeOK' /\ call'[g].pc = "none"
      /\ \A h \in Editors \ {g} :
           call'[h] = call[h] /\ \A l \in Lockable : lock[l] = h => lock'[l] = h
  BY Ending DEF StepInv
<1>2. \A h \in Editors \ {g} : editor'[h] = editor[h]
  BY AnsweredOthers
<1>3. Inside(g) /\ (c.action = "CONFIGURE" => lock[Scope(c)] = g)
  BY DEF Inside, StepInv, CallSound
<1>4. ASSUME NEW h \in Editors \ {g} PROVE CallSound(h)'
  <2> DEFINE d == editor[h].command
  <2>1. ~Inside(h)
    BY <1>3, OneInside
  <2>2. ASSUME call[h].pc # "none", InScope(d) = {} PROVE InScope(d)' = {}
    <3>1. call[h].pc \in {"receipt", "profile"}
      BY <2>1, <2>2 DEF Inside, StepInv, StepTypeOK, Call
    <3>2. d.action = "CONFIGURE" /\ lock[Scope(d)] = h
      BY <2>1, <3>1 DEF Inside, StepInv, CallSound
    <3>3. c.action # d.action \/ c.key # d.key
      BY <1>3, <3>2 DEF Scope
    <3>4. Receipt(g, p, row).command = c
      BY DEF Receipt
    <3>5. \A r \in receipts' : ~(r.command.action = d.action /\ r.command.key = d.key)
      BY <2>2, <3>3, <3>4 DEF InScope
    <3> QED BY <1>2, <3>5 DEF InScope
  <2>3. \A l \in Lockable : lock[l] = h => lock'[l] = h
    BY <1>1
  <2> QED BY <1>1, <1>2, <2>1, <2>2, <2>3, Undisturbed
<1>5. CallSound(g)'
  BY <1>1 DEF CallSound
<1> QED BY <1>1, <1>4, <1>5 DEF StepInv

LEMMA CommitPositionStep ==
  ASSUME IInv, StepInv, NEW g \in Editors, CommitPosition(g)
  PROVE  StepInv' /\ Next
<1> DEFINE c == editor[g].command
<1>1. PICK p \in IF c.action = "CREATE" THEN {q \in Ids : positions[q] = None} ELSE {c.position} :
        /\ positions' = Committed(g, p)
        /\ receipts' = receipts \cup {Receipt(g, p, Result(g))}
        /\ Answered(g, p, Result(g))
  BY DEF CommitPosition
<1>2. /\ call[g].pc = "commit" /\ c.action # "CONFIGURE" /\ End(g)
      /\ Cardinality(receipts) < MaxReceipts /\ UNCHANGED <<enabled, mapping>>
  BY DEF CommitPosition
<1>3. StepInv'
  BY <1>1, <1>2, CommitStep
<1>4. /\ Sending(g) /\ enabled /\ InScope(c) = {} /\ call[g].losing = Stripped(g)
      /\ c.action \in Changes =>
           call[g].row = positions[c.position] /\ Changeable(call[g].row, c)
  BY <1>2 DEF StepInv, CallSound, Inside
<1>5. c \in Command /\ WellFormed(c, editor[g].seen)
  BY <1>4, Sent
<1>6. c.action = "CREATE" \/ c.action \in Changes
  BY <1>2, <1>5 DEF Command, Changes
<1>7. p \in Ids
  BY <1>1, <1>5, <1>6 DEF WellFormed
<1>8. ASSUME \A q \in Ids : q # p => (q \in Stripped(g) <=> Losing(q, p, Result(g)))
      PROVE  positions' = Saved(p, Result(g))
  BY <1>1, <1>4, <1>8 DEF Committed, Saved
<1>9. CASE c.action = "CREATE"
  <2>1. Result(g) = Created(c) /\ positions[p] = None /\ c.position = None
    BY <1>1, <1>5, <1>9 DEF Result, WellFormed
  <2>2. positions' = Saved(p, Created(c))
    <3>1. \A q \in Ids : q # p => (q \in Stripped(g) <=> Losing(q, p, Result(g)))
      BY <2>1, PositionsAssumption DEF Stripped, Losing
    <3> QED BY <1>8, <2>1, <3>1
  <2>3. CreatePosition(g, p)
    BY <1>1, <1>2, <1>4, <1>9, <2>1, <2>2 DEF CreatePosition, New
  <2> QED BY <1>3, <1>7, <2>3 DEF Next
<1>10. CASE c.action \in Changes
  <2>1. p = c.position /\ c.action # "CREATE"
    BY <1>1, <1>10 DEF Changes
  <2>2. Result(g) = Changed(positions[p], c)
    BY <1>4, <1>10, <2>1 DEF Result
  <2>3. positions' = Saved(p, Changed(positions[p], c))
    <3>1. \A q \in Ids : q # p => (q \in Stripped(g) <=> Losing(q, p, Result(g)))
      BY <2>1 DEF Stripped, Losing
    <3> QED BY <1>8, <2>2, <3>1
  <2>4. ChangePosition(g)
    BY <1>1, <1>2, <1>4, <1>10, <2>1, <2>2, <2>3 DEF ChangePosition, New, Changes
  <2> QED BY <1>3, <2>4 DEF Next
<1> QED BY <1>6, <1>9, <1>10

LEMMA CommitMappingStep ==
  ASSUME IInv, StepInv, NEW g \in Editors, CommitMapping(g)
  PROVE  StepInv' /\ Next
<1> DEFINE c == editor[g].command
<1>1. /\ call[g].pc = "commit" /\ c.action = "CONFIGURE" /\ End(g)
      /\ Cardinality(receipts) < MaxReceipts /\ Unshared(c)
      /\ mapping' = [mapping EXCEPT ![c.position] = Configured(c)]
      /\ receipts' = receipts \cup {Receipt(g, c.position, Configured(c))}
      /\ Answered(g, c.position, Configured(c))
      /\ UNCHANGED <<enabled, positions>>
  BY DEF CommitMapping
<1>2. StepInv'
  BY <1>1, CommitStep
<1>3. /\ Sending(g) /\ enabled /\ InScope(c) = {}
      /\ positions[c.position].status = "ENABLED" /\ Version(mapping[c.position]) = c.version
  BY <1>1 DEF StepInv, CallSound, Inside
<1>4. ConfigureChannelPosition(g)
  BY <1>1, <1>3 DEF ConfigureChannelPosition, New, Configurable, Unshared
<1> QED BY <1>2, <1>4 DEF Next

LEMMA FindReceiptStep ==
  ASSUME IInv, StepInv, NEW g \in Editors, FindReceipt(g)
  PROVE  StepInv' /\ Next
<1> DEFINE c == editor[g].command
<1>1. PICK r \in InScope(c) : r.command = c /\ Answered(g, r.position, r.row)
  BY DEF FindReceipt
<1>2. call[g].pc = "receipt" /\ End(g) /\ UNCHANGED <<enabled, positions, mapping, receipts>>
  BY DEF FindReceipt, Unwritten
<1>3. StepInv'
  BY <1>1, <1>2, EndStep, AnsweredOthers
<1>4. Sending(g) /\ (c.action # "CONFIGURE" => enabled)
  BY <1>2 DEF StepInv, CallSound, Inside
<1>5. Replay(g)
  BY <1>1, <1>2, <1>4 DEF Replay
<1> QED BY <1>3, <1>5 DEF Next

LEMMA RefuseCallStep ==
  ASSUME IInv, StepInv, NEW g \in Editors, RefuseCall(g)
  PROVE  StepInv' /\ Next
<1>1. Sending(g) /\ Refused(g) /\ End(g)
  BY DEF RefuseCall
<1>2. /\ UNCHANGED <<enabled, positions, mapping, receipts>>
      /\ \A h \in Editors \ {g} : editor'[h] = editor[h]
  BY <1>1 DEF Refused, IInv, TypeOK
<1>3. StepInv'
  BY <1>1, <1>2, EndStep
<1> QED BY <1>1, <1>3 DEF Next, GiveUp

LEMMA AbortStep ==
  ASSUME IInv, StepInv, NEW g \in Editors, Abort(g) PROVE StepInv'
BY EndStep DEF Abort, vars

\* An editor without a transaction does something else.
LEMMA EditorStep ==
  ASSUME IInv, StepInv, NEW g \in Editors, call[g].pc = "none", Elsewhere,
         UNCHANGED <<enabled, positions, mapping, receipts>>,
         \A h \in Editors \ {g} : editor'[h] = editor[h]
  PROVE  StepInv'
<1>1. StepTypeOK' /\ Others(g)
  BY DEF Elsewhere, StepInv, StepTypeOK, Others
<1>2. CallSound(g)'
  BY DEF Elsewhere, CallSound
<1> QED BY <1>1, <1>2, Quiet

LEMMA ComposingStep ==
  ASSUME IInv, StepInv, NEW g \in Editors, NEW command, NEW seen,
         Compose(g, command, seen), Elsewhere
  PROVE  StepInv'
<1>1. call[g].pc = "none"
  BY DEF Compose, StepInv, CallSound
<1>2. \A h \in Editors \ {g} : editor'[h] = editor[h]
  BY DEF Compose, IInv, TypeOK
<1> QED BY <1>1, <1>2, EditorStep DEF Compose

\* The profile is not disabled under a transaction that holds it.
LEMMA DisablingStep ==
  ASSUME IInv, StepInv, lock[Profile] = None, DisableProfile, Elsewhere
  PROVE  StepInv'
<1>1. StepTypeOK'
  BY DEF Elsewhere, StepInv, StepTypeOK
<1>2. ASSUME NEW h \in Editors PROVE CallSound(h)'
  <2>1. ~Inside(h)
    <3>1. Inside(h) => call[h].pc # "none"
      BY DEF Inside
    <3> QED BY <3>1, StepsAssumption DEF StepInv, CallSound
  <2>2. call'[h] = call[h] /\ lock' = lock /\ editor'[h] = editor[h] /\ receipts' = receipts
    BY DEF Elsewhere, DisableProfile
  <2>3. InScope(editor[h].command)' = InScope(editor[h].command)
    BY <2>2 DEF InScope
  <2> QED BY <2>1, <2>2, <2>3, Undisturbed
<1> QED BY <1>1, <1>2 DEF StepInv

-----------------------------------------------------------------------------
(* The commands are atomic.                                                *)

LEMMA StepEstablished == StepInit => StepInv
<1> SUFFICES ASSUME StepInit PROVE StepInv
  OBVIOUS
<1>1. NoCall \in Call
  BY DEF NoCall, Call
<1>2. StepTypeOK
  BY <1>1 DEF StepInit, StepTypeOK
<1>3. \A g \in Editors : call[g].pc = "none"
  BY DEF StepInit, NoCall
<1> QED BY <1>2, <1>3 DEF StepInv, CallSound

LEMMA StepPreserved == IInv /\ StepInv /\ [StepNext]_stepVars => StepInv' /\ [Next]_vars
<1> SUFFICES ASSUME IInv, StepInv, [StepNext]_stepVars PROVE StepInv' /\ [Next]_vars
  OBVIOUS
<1>1. ASSUME NEW g \in Editors, NEW k \in Keys,
             \/ \E c \in Contents, default \in BOOLEAN :
                  ComposeCreate(g, k, c, default) /\ Elsewhere
             \/ \E p \in Ids :
                  \/ \E c \in Contents : ComposeChange(g, k, p, "EDIT", c) /\ Elsewhere
                  \/ \E action \in {"DEFAULT", "DISABLE"} :
                       ComposeChange(g, k, p, action, None) /\ Elsewhere
                  \/ \E x \in Externals : ComposeConfigure(g, k, p, x) /\ Elsewhere
      PROVE  StepInv' /\ Next
  <2>1. StepInv'
    BY <1>1, ComposingStep DEF ComposeCreate, ComposeChange, ComposeConfigure
  <2>2. Next
    BY <1>1 DEF Next
  <2> QED BY <2>1, <2>2
<1>2. ASSUME NEW g \in Editors,
             \/ LockScope(g) \/ LockProfile(g) \/ FindNoReceipt(g)
             \/ ReadRow(g) \/ MakeRow(g) \/ TakeDefault(g) \/ Abort(g)
      PROVE  StepInv' /\ UNCHANGED vars
  <2>1. StepInv'
    BY <1>2, LockScopeStep, LockProfileStep, FindNoReceiptStep, ReadRowStep, MakeRowStep,
       TakeDefaultStep, AbortStep
  <2>2. UNCHANGED vars
    BY <1>2 DEF LockScope, LockProfile, FindNoReceipt, ReadRow, MakeRow, TakeDefault, Abort, vars
  <2> QED BY <2>1, <2>2
<1>3. ASSUME NEW g \in Editors,
             FindReceipt(g) \/ RefuseCall(g) \/ CommitPosition(g) \/ CommitMapping(g)
      PROVE  StepInv' /\ Next
  BY <1>3, FindReceiptStep, RefuseCallStep, CommitPositionStep, CommitMappingStep
<1>4. ASSUME NEW g \in Editors, call[g].pc = "none", GiveUp(g), Elsewhere
      PROVE  StepInv' /\ Next
  <2>1. \A h \in Editors \ {g} : editor'[h] = editor[h]
    BY <1>4 DEF GiveUp, Refused, IInv, TypeOK
  <2>2. StepInv'
    BY <1>4, <2>1, EditorStep DEF GiveUp, Refused
  <2> QED BY <1>4, <2>2 DEF Next
<1>5. ASSUME lock[Profile] = None, DisableProfile, Elsewhere PROVE StepInv' /\ Next
  BY <1>5, DisablingStep DEF Next
<1>6. ASSUME UNCHANGED stepVars PROVE StepInv' /\ UNCHANGED vars
  <2>1. StepTypeOK'
    BY <1>6 DEF stepVars, StepInv, StepTypeOK
  <2>2. ASSUME NEW h \in Editors PROVE CallSound(h)'
    <3>1. InScope(editor[h].command)' = InScope(editor[h].command)
      BY <1>6 DEF stepVars, InScope
    <3> QED BY <1>6, <3>1, Undisturbed DEF stepVars
  <2> QED BY <1>6, <2>1, <2>2 DEF stepVars, vars, StepInv
<1> QED BY <1>1, <1>2, <1>3, <1>4, <1>5, <1>6 DEF StepNext

\* However many editors, positions and keys, and however their statements meet: each
\* command takes effect in its commit, as the one action it is in Positions.
THEOREM Atomic == StepSpec => CommandsAreAtomic
<1>1. StepInit => Init /\ IInv /\ StepInv
  BY Established, StepEstablished DEF StepInit
<1>2. IInv /\ StepInv /\ [StepNext]_stepVars => (IInv /\ StepInv)' /\ [Next]_vars
  BY Preserved, StepPreserved
<1> QED BY <1>1, <1>2, PTL DEF StepSpec, CommandsAreAtomic, Spec
=============================================================================
