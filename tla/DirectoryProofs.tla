--------------------------- MODULE DirectoryProofs ---------------------------
(***************************************************************************)
(* Companies and contacts for any number of clients, rows, codes and       *)
(* states: types, distinct codes, edits that rest on the row as it is, and *)
(* an audit log that tells each change; and for any number of submissions  *)
(* beside them, requests that were admissible while they were entered.     *)
(***************************************************************************)
EXTENDS Submission, TLAPS

-----------------------------------------------------------------------------
(* Payloads and contents.                                                  *)
Value == Key \cup {None} \cup Status

LEMMA PayloadFields ==
  ASSUME NEW p
  PROVE  p \in Payload <=>
           \E F \in SUBSET Field :
             /\ p \in [F -> Value]
             /\ "key" \in F => p["key"] \in Key \cup {None}
             /\ "status" \in F => p["status"] \in Status
<1>1. ASSUME NEW F \in SUBSET Field, p \in [F -> Value] PROVE DOMAIN p = F
  BY <1>1
<1>2. p \in Payload =>
        \E F \in SUBSET Field :
             /\ p \in [F -> Value]
             /\ "key" \in F => p["key"] \in Key \cup {None}
             /\ "status" \in F => p["status"] \in Status
  <2>1. ASSUME p \in Payload
        PROVE  \E F \in SUBSET Field : p \in [F -> Value]
    BY <2>1 DEF Payload, Value
  <2> QED
    BY <1>1, <2>1 DEF Payload, Value
<1>3. ASSUME NEW F \in SUBSET Field, p \in [F -> Value],
             "key" \in F => p["key"] \in Key \cup {None},
             "status" \in F => p["status"] \in Status
      PROVE  p \in Payload
  BY <1>1, <1>3 DEF Payload, Value
<1> QED
  BY <1>2, <1>3

LEMMA NothingIsPayload == Nothing \in Payload
<1>1. Nothing \in [{} -> Value]
  BY DEF Nothing
<1> QED
  BY <1>1, PayloadFields DEF Field

(* What a content holds, and that it is not None.                          *)
LEMMA ContentFields ==
  ASSUME NEW p
  PROVE  p \in Content <=> /\ p \in [Field -> Value]
                           /\ p["key"] \in Key \cup {None} /\ p["status"] \in Status
<1>1. p \in Content => p \in Payload /\ DOMAIN p = Field
  BY DEF Content
<1>2. ASSUME p \in Payload, DOMAIN p = Field
      PROVE  /\ p \in [Field -> Value]
             /\ p["key"] \in Key \cup {None} /\ p["status"] \in Status
  BY <1>2, PayloadFields DEF Field
<1>3. ASSUME p \in [Field -> Value], p["key"] \in Key \cup {None}, p["status"] \in Status
      PROVE  p \in Payload /\ DOMAIN p = Field
  BY <1>3, PayloadFields DEF Field
<1> QED
  BY <1>1, <1>2, <1>3 DEF Content

LEMMA CutIsPayload ==
  ASSUME NEW p \in Payload, NEW F
  PROVE  /\ Cut(p, F) \in Payload
         /\ DOMAIN Cut(p, F) = DOMAIN p \cap F
         /\ \A f \in DOMAIN p \cap F : Cut(p, F)[f] = p[f]
<1>1. PICK G \in SUBSET Field : /\ p \in [G -> Value]
                                /\ "key" \in G => p["key"] \in Key \cup {None}
                                /\ "status" \in G => p["status"] \in Status
  BY PayloadFields
<1>2. /\ DOMAIN Cut(p, F) = DOMAIN p \cap F
      /\ \A f \in DOMAIN p \cap F : Cut(p, F)[f] = p[f]
  BY DEF Cut
<1>3. Cut(p, F) \in [G \cap F -> Value]
  BY <1>1 DEF Cut
<1> QED
  BY <1>1, <1>2, <1>3, PayloadFields

LEMMA OverIsContent ==
  ASSUME NEW p \in Payload, NEW b \in Content
  PROVE  /\ Over(p, b) \in Content
         /\ \A f \in Field : Over(p, b)[f] = IF f \in DOMAIN p THEN p[f] ELSE b[f]
<1>1. PICK G \in SUBSET Field : /\ p \in [G -> Value]
                                /\ "key" \in G => p["key"] \in Key \cup {None}
                                /\ "status" \in G => p["status"] \in Status
  BY PayloadFields
<1>2. /\ b \in [Field -> Value] /\ b["key"] \in Key \cup {None} /\ b["status"] \in Status
  BY ContentFields
<1>3. Over(p, b) \in [Field -> Value]
  BY <1>1, <1>2 DEF Over
<1>4. \A f \in Field : Over(p, b)[f] = IF f \in DOMAIN p THEN p[f] ELSE b[f]
  BY DEF Over
<1>5. Over(p, b)["key"] \in Key \cup {None} /\ Over(p, b)["status"] \in Status
  BY <1>1, <1>2, <1>4 DEF Field
<1> QED
  BY <1>3, <1>4, <1>5, ContentFields

LEMMA NewMainIsContent ==
  ASSUME NEW x \in Company
  PROVE  NewMain(x) \in Content /\ NewMain(x)["key"] # None
<1>1. Lower[MainEmail[x]] \in Key /\ None \notin Key /\ "ACTIVE" \in Status
  BY DirectoryAssumption
<1>2. /\ NewMain(x)["key"] = Lower[MainEmail[x]] /\ NewMain(x)["status"] = "ACTIVE"
      /\ DOMAIN NewMain(x) = Field
  BY DEF NewMain, Field
<1>3. NewMain(x) \in [Field -> Value]
  BY <1>1 DEF NewMain, Field, Value
<1> QED
  BY <1>1, <1>2, <1>3, ContentFields

-----------------------------------------------------------------------------
(* What holds of every request while it is served.                         *)

(* An edit's row stays; under the lock it is as the edit read it, and what *)
(* is left of the payload differs from it.                                 *)
Edits(c) ==
  /\ tx[c].base # None /\ Exists(tx[c].row)
  /\ tx[c].pc # "found" => tx[c].base = rows[tx[c].row]
  /\ tx[c].pc \in {"checked", "writing", "written"} =>
       \A f \in DOMAIN tx[c].payload : tx[c].payload[f] # tx[c].base[f]

(* A creation's row is not there yet.                                      *)
Creates(c) ==
  /\ tx[c].base = None /\ tx[c].pc \notin {"found", "locked"}
  /\ tx[c].row \in Company \cup Extra /\ ~Exists(tx[c].row)
  /\ tx[c].payload \in Content

Good(c) ==
  \/ tx[c] = Idle
  \/ tx[c].pc # "idle" /\ tx[c].row \in Row /\ (Edits(c) \/ Creates(c))

(* Two clients do not create one row, nor hold one.                        *)
Apart(c, d) ==
  tx[c].row = tx[d].row /\ tx[c].row # None =>
    /\ tx[c].base = None => tx[d].base # None
    /\ tx[c].pc = "found" \/ tx[d].pc = "found"

(* A main contact comes with its company.                                  *)
MainsFollow == \A x \in Company : Exists(MainContact[x]) => Exists(x)

Records == newest \subseteq [row : Row, before : Payload, after : Payload]
Served == [pc : Phase, row : Row \cup {None}, payload : Payload, base : Content \cup {None}]
Calls == tx \in [Client -> Served]
Contents == rows \in [Row -> Content \cup {None}]

Inv ==
  /\ Contents /\ Records /\ Calls /\ MainsFollow
  /\ \A c \in Client : Good(c)
  /\ \A c \in Client : \A d \in Client \ {c} : Apart(c, d)

LEMMA InitInv == Init => Inv
<1> SUFFICES ASSUME Init PROVE Inv
  OBVIOUS
<1>1. \A x \in Company : MainContact[x] \in Row
  BY DirectoryAssumption DEF Row
<1>2. MainsFollow /\ Contents /\ Records
  BY <1>1 DEF Init, MainsFollow, Exists, Contents, Records
<1>3. Calls
  BY NothingIsPayload DEF Init, Calls, Served, Idle, Phase
<1>4. \A c \in Client : Good(c) /\ \A d \in Client \ {c} : Apart(c, d)
  BY DEF Init, Good, Apart, Idle
<1> QED
  BY <1>2, <1>3, <1>4 DEF Inv

(* A step of one client that leaves the rows alone.                        *)
LEMMA QuietStep ==
  ASSUME Inv, NEW c \in Client, UNCHANGED rows, Records', Calls', Good(c)',
         \A d \in Client \ {c} : tx'[d] = tx[d] /\ Apart(c, d)' /\ Apart(d, c)'
  PROVE  Inv'
<1>1. Contents' /\ MainsFollow'
  BY DEF Inv, Contents, MainsFollow, Exists
<1>2. ASSUME NEW d \in Client PROVE Good(d)'
  <2>1. CASE d = c
    BY <2>1
  <2>2. CASE d # c
    BY <2>2 DEF Inv, Good, Edits, Creates, Exists, Idle
  <2> QED
    BY <2>1, <2>2
<1>3. ASSUME NEW d \in Client, NEW e \in Client \ {d} PROVE Apart(d, e)'
  BY DEF Inv, Apart
<1> QED
  BY <1>1, <1>2, <1>3 DEF Inv

(* A client that gives its request up, or is idle.                         *)
LEMMA IdleStep ==
  ASSUME Inv, NEW c \in Client, UNCHANGED <<rows, newest>>, tx' = [tx EXCEPT ![c] = Idle]
  PROVE  Inv'
<1>1. Records' /\ Calls'
  BY NothingIsPayload DEF Inv, Records, Calls, Served, Idle, Phase
<1>2. tx'[c] = Idle /\ Good(c)'
  BY DEF Inv, Calls, Served, Good
<1>3. None \notin Row
  BY DirectoryAssumption
<1>4. \A d \in Client \ {c} : tx'[d] = tx[d] /\ Apart(c, d)' /\ Apart(d, c)'
  BY <1>2, <1>3 DEF Inv, Calls, Served, Apart, Idle
<1> QED
  BY <1>1, <1>2, <1>4, QuietStep

LEMMA BeginCreates ==
  ASSUME Inv, NEW c \in Client, NEW x \in Company \cup Extra, NEW p \in Content,
         ~Exists(x), ~Creating(x), Begin(c, x, p, None, "checked")
  PROVE  Inv'
<1>1. p \in Payload /\ x \in Row /\ x # None
  BY DirectoryAssumption DEF Content, Row, Extra
<1>2. /\ tx' = [tx EXCEPT ![c] = [pc |-> "checked", row |-> x, payload |-> p, base |-> None]]
      /\ UNCHANGED <<rows, newest>>
  BY DEF Begin
<1>3. Records' /\ Calls'
  BY <1>1, <1>2 DEF Inv, Records, Calls, Served, Phase
<1>4. Good(c)'
  BY <1>1, <1>2 DEF Inv, Calls, Served, Good, Creates, Exists
<1>5. ASSUME NEW d \in Client \ {c} PROVE tx'[d] = tx[d] /\ Apart(c, d)' /\ Apart(d, c)'
  <2>1. tx[d].row = x => FALSE
    <3>1. tx[d].row = x => tx[d].base # None
      BY DEF Creating
    <3>2. Good(d)
      BY DEF Inv
    <3> QED
      BY <1>1, <3>1, <3>2 DEF Good, Edits, Creates, Idle
  <2> QED
    BY <1>2, <2>1 DEF Apart, Inv, Calls
<1> QED
  BY <1>2, <1>3, <1>4, <1>5, QuietStep

LEMMA BeginEdits ==
  ASSUME Inv, NEW c \in Client, NEW x \in Row, NEW p \in Payload,
         Exists(x), Begin(c, x, p, rows[x], "found")
  PROVE  Inv'
<1>1. x # None /\ rows[x] \in Content /\ rows[x] # None
  BY DirectoryAssumption DEF Inv, Contents, Exists
<1>2. /\ tx' = [tx EXCEPT ![c] = [pc |-> "found", row |-> x, payload |-> p, base |-> rows[x]]]
      /\ UNCHANGED <<rows, newest>>
  BY DEF Begin
<1>3. Records' /\ Calls'
  BY <1>1, <1>2 DEF Inv, Records, Calls, Served, Phase
<1>4. tx'[c] = [pc |-> "found", row |-> x, payload |-> p, base |-> rows[x]]
  BY <1>2 DEF Inv, Calls, Served
<1>5. Good(c)'
  BY <1>1, <1>2, <1>4 DEF Good, Edits, Exists
<1>6. \A d \in Client \ {c} : tx'[d] = tx[d] /\ Apart(c, d)' /\ Apart(d, c)'
  BY <1>1, <1>2, <1>4 DEF Inv, Calls, Served, Apart
<1> QED
  BY <1>2, <1>3, <1>5, <1>6, QuietStep

(* What a client that is served is doing.                                  *)
LEMMA WhileServed ==
  ASSUME Inv, NEW c \in Client, tx[c].pc # "idle"
  PROVE  /\ tx[c] \in Served
         /\ tx[c].row \in Row /\ tx[c].row # None
         /\ Edits(c) \/ Creates(c)
         /\ tx[c].base # None => Edits(c) /\ tx[c].base \in Content
         /\ tx[c].pc = "found" \/ tx[c].pc = "locked" => tx[c].base # None
  BY DirectoryAssumption DEF Inv, Calls, Served, Good, Idle, Edits, Creates

(* The locking read waits for whoever holds the row.                       *)
LEMMA LockInv ==
  ASSUME Inv, NEW c \in Client, Lock(c)
  PROVE  Inv'
<1>1. tx[c].pc = "found" /\ BlockedBy(c) = {}
  BY DEF Lock
<1> DEFINE x == tx[c].row
<1>2. /\ x \in Row /\ tx[c].base # None /\ Edits(c) /\ rows[x] \in Content /\ rows[x] # None
  BY <1>1, WhileServed DEF Edits, Exists, Inv, Contents
<1>3. /\ tx' = [tx EXCEPT ![c].pc = "locked", ![c].base = rows[x]] /\ UNCHANGED <<rows, newest>>
  BY DEF Lock
<1>4. /\ tx'[c].pc = "locked" /\ tx'[c].base = rows[x] /\ tx'[c].row = x
      /\ tx'[c].payload = tx[c].payload
  BY <1>1, <1>3, WhileServed DEF Inv, Calls, Served
<1>5. Records' /\ Calls'
  <2>1. tx[c] \in Served
    BY <1>1, WhileServed
  <2>2. tx'[c] = [tx[c] EXCEPT !.pc = "locked", !.base = rows[x]]
    BY <1>3 DEF Inv, Calls
  <2>. HIDE DEF x
  <2>3. tx'[c] \in Served
    BY <1>2, <2>1, <2>2 DEF Served, Phase
  <2> QED
    BY <1>3, <2>3 DEF Inv, Records, Calls
<1>6. Good(c)'
  BY <1>2, <1>3, <1>4 DEF Good, Edits, Exists
<1>7. ASSUME NEW d \in Client \ {c} PROVE tx'[d] = tx[d] /\ Apart(c, d)' /\ Apart(d, c)'
  <2>1. tx'[d] = tx[d]
    BY <1>3 DEF Inv, Calls, Served
  <2>2. tx[d].row = x => tx[d].pc = "found"
    <3> SUFFICES ASSUME tx[d].row = x PROVE tx[d].pc = "found"
      OBVIOUS
    <3>1. tx[d].pc # "idle" /\ tx[d].base # None
      BY <1>2, DirectoryAssumption, WhileServed DEF Inv, Good, Idle, Edits, Creates
    <3>2. ~Holds(d, x)
      BY <1>1 DEF BlockedBy
    <3> QED
      BY <3>1, <3>2 DEF Holds, Updates
  <2>3. tx[d].row = x => tx[d].base # None
    BY <1>2, DirectoryAssumption, WhileServed DEF Inv, Good, Idle, Edits, Creates
  <2> QED
    BY <1>2, <1>4, <2>1, <2>2, <2>3 DEF Apart
<1> QED
  BY <1>3, <1>5, <1>6, <1>7, QuietStep

LEMMA ChangesDiffer ==
  ASSUME Inv, NEW c \in Client, tx[c].pc = "locked"
  PROVE  /\ Changes(c) \in Payload
         /\ \A f \in DOMAIN Changes(c) : Changes(c)[f] # tx[c].base[f]
<1>1. tx[c].payload \in Payload
  BY WhileServed DEF Served
<1> DEFINE p == tx[c].payload
           F == {f \in DOMAIN p : p[f] # tx[c].base[f]}
<1>2. Changes(c) = Cut(p, F)
  BY DEF Changes
<1>3. /\ Cut(p, F) \in Payload
      /\ DOMAIN Cut(p, F) = DOMAIN p \cap F
      /\ \A f \in DOMAIN p \cap F : Cut(p, F)[f] = p[f]
  BY <1>1, CutIsPayload
<1> QED
  BY <1>2, <1>3

LEMMA CheckInv ==
  ASSUME Inv, NEW c \in Client, Check(c)
  PROVE  Inv'
<1>1. tx[c].pc = "locked" /\ UNCHANGED <<rows, newest>>
  BY DEF Check
<1>2. CASE tx' = [tx EXCEPT ![c] = Idle]
  BY <1>1, <1>2, IdleStep
<1>3. CASE tx' = [tx EXCEPT ![c].pc = "checked", ![c].payload = Changes(c)]
  <2>1. /\ tx'[c].pc = "checked" /\ tx'[c].base = tx[c].base /\ tx'[c].row = tx[c].row
        /\ tx'[c].payload = Changes(c)
    BY <1>1, <1>3, WhileServed DEF Inv, Calls, Served
  <2>2. Records' /\ Calls'
    <3>1. tx'[c] = [pc |-> "checked", row |-> tx[c].row, payload |-> Changes(c), base |-> tx[c].base]
      BY <1>1, <1>3, WhileServed DEF Inv, Calls, Served
    <3>2. tx'[c] \in Served
      BY <1>1, <3>1, ChangesDiffer, WhileServed DEF Served, Phase
    <3> QED
      BY <1>1, <1>3, <3>2 DEF Inv, Records, Calls
  <2>3. Good(c)'
    BY <1>1, <2>1, WhileServed, ChangesDiffer DEF Good, Edits, Exists
  <2>4. \A d \in Client \ {c} : tx'[d] = tx[d] /\ Apart(c, d)' /\ Apart(d, c)'
    BY <1>1, <1>3, <2>1 DEF Inv, Calls, Served, Apart
  <2> QED
    BY <1>1, <2>2, <2>3, <2>4, QuietStep
<1> QED
  BY <1>2, <1>3 DEF Check

(* The steps of the write itself.                                          *)
LEMMA MoveInv ==
  ASSUME Inv, NEW c \in Client, UNCHANGED <<rows, newest>>,
         NEW from \in {"checked", "writing"}, NEW to \in {"writing", "written"},
         Step(c, from, to)
  PROVE  Inv'
<1>1. tx[c].pc = from /\ tx' = [tx EXCEPT ![c].pc = to]
  BY DEF Step
<1>2. /\ tx'[c].pc = to /\ tx'[c].base = tx[c].base /\ tx'[c].row = tx[c].row
      /\ tx'[c].payload = tx[c].payload
  BY <1>1, WhileServed DEF Inv, Calls, Served
<1>3. Records' /\ Calls'
  BY <1>1, WhileServed DEF Inv, Records, Calls, Served, Phase
<1>4. Good(c)'
  BY <1>1, <1>2, WhileServed DEF Good, Edits, Creates, Exists
<1>5. \A d \in Client \ {c} : tx'[d] = tx[d] /\ Apart(c, d)' /\ Apart(d, c)'
  BY <1>1, <1>2 DEF Inv, Calls, Served, Apart
<1> QED
  BY <1>3, <1>4, <1>5, QuietStep

-----------------------------------------------------------------------------
(* What a commit makes of the rows.                                        *)
LEMMA CommitContents ==
  ASSUME Inv, NEW c \in Client, tx[c].pc = "written"
  PROVE  /\ Added(c) \subseteq Row /\ tx[c].row \in Added(c)
         /\ \A x \in Added(c) : Committed(c, x) \in Content
         /\ \A x \in Added(c) : AuditRecord(c, x) \in
              [row : Row, before : Payload, after : Payload]
<1>1. /\ tx[c].row \in Row /\ tx[c].payload \in Payload
      /\ Updates(c) => Edits(c) /\ rows[tx[c].row] \in Content
      /\ ~Updates(c) => Creates(c) /\ tx[c].payload \in Content
  BY WhileServed DEF Served, Updates, Edits, Creates, Inv, Contents, Exists
<1>2. \A x \in Added(c) : x = tx[c].row \/ (tx[c].row \in Company /\ x = MainContact[tx[c].row])
  BY DEF Added
<1>3. tx[c].row \in Company => NewMain(tx[c].row) \in Content
  BY NewMainIsContent
<1>4. Updates(c) => Over(tx[c].payload, rows[tx[c].row]) \in Content
  BY <1>1, OverIsContent
<1>5. \A x \in Added(c) : Committed(c, x) \in Content
  BY <1>1, <1>2, <1>3, <1>4 DEF Committed
<1>6. Added(c) \subseteq Row /\ tx[c].row \in Added(c)
  BY <1>1, DirectoryAssumption DEF Added, Row
<1>7. ASSUME NEW x \in Added(c)
      PROVE  AuditRecord(c, x) \in [row : Row, before : Payload, after : Payload]
  <2>1. CASE Updates(c)
    <3>1. tx[c].base \in Payload
      BY <1>1, <2>1 DEF Edits, Content, Updates
    <3>2. Cut(tx[c].base, DOMAIN tx[c].payload) \in Payload
      BY <3>1, CutIsPayload
    <3> QED
      BY <1>1, <1>6, <2>1, <3>2 DEF AuditRecord
  <2>2. CASE ~Updates(c)
    <3>1. tx[c].row \in Company => Cut(NewMain(tx[c].row), {"key"}) \in Payload
      BY <1>3, CutIsPayload DEF Content
    <3> QED
      BY <1>1, <1>2, <1>6, <2>2, <3>1, NothingIsPayload DEF AuditRecord
  <2> QED
    BY <2>1, <2>2
<1> QED
  BY <1>5, <1>6, <1>7

LEMMA CommitInv ==
  ASSUME Inv, NEW c \in Client, Commit(c)
  PROVE  Inv'
<1> DEFINE x == tx[c].row
<1>1. /\ tx[c].pc = "written" /\ tx' = [tx EXCEPT ![c] = Idle]
      /\ rows' = [y \in Row |-> IF y \in Added(c) THEN Committed(c, y) ELSE rows[y]]
  BY DEF Commit
<1>2. /\ Added(c) \subseteq Row /\ x \in Added(c)
      /\ \A y \in Added(c) : Committed(c, y) \in Content /\ rows'[y] = Committed(c, y)
      /\ \A y \in Row \ Added(c) : rows'[y] = rows[y]
  BY <1>1, CommitContents
<1>3. Contents'
  BY <1>1, CommitContents DEF Inv, Contents
<1>4. Records' /\ Calls'
  BY <1>1, CommitContents, NothingIsPayload DEF Commit, Inv, Records, Calls, Served, Idle, Phase
<1>5. \A y \in Row : Exists(y)' <=> Exists(y) \/ y \in Added(c)
  <2>1. None \notin Content
    BY DirectoryAssumption
  <2> QED
    BY <1>2, <2>1 DEF Exists
<1>6. MainsFollow'
  <2> SUFFICES ASSUME NEW y \in Company, Exists(MainContact[y])' PROVE Exists(y)'
    BY DEF MainsFollow
  <2>1. y \in Row /\ MainContact[y] \in Contact /\ MainContact[y] \in Row
    BY DirectoryAssumption DEF Row
  <2>2. CASE Exists(MainContact[y])
    BY <1>5, <2>1, <2>2 DEF Inv, MainsFollow
  <2>3. CASE MainContact[y] \in Added(c) /\ ~Exists(MainContact[y])
    <3>1. Creates(c)
      BY <1>1, <2>3, WhileServed DEF Added, Updates, Edits
    <3>2. x \in Company \cup Extra
      BY <3>1 DEF Creates
    <3>3. MainContact[y] \notin Extra /\ MainContact[y] \notin Company
      BY <2>1, DirectoryAssumption DEF Extra
    <3>4. x \in Company /\ MainContact[y] = MainContact[x]
      BY <2>3, <3>2, <3>3 DEF Added
    <3>5. x = y
      BY <3>4, DirectoryAssumption
    <3> QED
      BY <1>2, <1>5, <2>1, <3>5
  <2> QED
    BY <1>5, <2>1, <2>2, <2>3
<1>7. tx'[c] = Idle /\ \A d \in Client \ {c} : tx'[d] = tx[d]
  BY <1>1 DEF Inv, Calls
<1>8. ASSUME NEW d \in Client PROVE Good(d)'
  <2>1. CASE d = c \/ tx[d] = Idle
    BY <1>7, <2>1 DEF Good
  <2>2. CASE d # c /\ tx[d] # Idle
    <3>1. /\ tx'[d] = tx[d] /\ tx[d].pc # "idle" /\ tx[d].row \in Row /\ tx[d].row # None
          /\ Edits(d) \/ Creates(d)
          /\ Apart(c, d) /\ Apart(d, c)
      BY <1>7, <2>2, DirectoryAssumption DEF Inv, Good
    <3>2. ASSUME Edits(d) PROVE Edits(d)'
      <4>1. Exists(tx[d].row)'
        BY <1>5, <3>1, <3>2 DEF Edits
      <4>2. CASE tx[d].pc = "found"
        BY <3>1, <3>2, <4>1, <4>2 DEF Edits, Exists
      <4>3. CASE tx[d].pc # "found"
        <5>1. tx[d].row # x
          BY <1>1, <3>1, <4>3 DEF Apart
        <5>2. tx[d].row \notin Added(c)
          <6>1. CASE tx[d].row = x
            BY <5>1, <6>1
          <6>2. CASE tx[d].row # x /\ tx[d].row \in Added(c)
            <7>1. x \in Company /\ tx[d].row = MainContact[x] /\ ~Updates(c)
              BY <6>2 DEF Added
            <7>2. Creates(c) /\ Exists(MainContact[x])
              BY <1>1, <3>2, <7>1, WhileServed DEF Updates, Edits
            <7> QED
              BY <7>1, <7>2 DEF Creates, Inv, MainsFollow
          <6> QED
            BY <6>1, <6>2
        <5> QED
          BY <1>2, <3>1, <3>2, <4>1, <5>2 DEF Edits, Exists
      <4> QED
        BY <4>2, <4>3
    <3>3. ASSUME Creates(d) PROVE Creates(d)'
      <4>1. tx[d].row # x
        <5>1. tx[d].row = x => ~Updates(c)
          BY <1>1, <3>3, WhileServed DEF Updates, Edits, Creates
        <5> QED
          BY <1>1, <3>1, <3>3, <5>1 DEF Apart, Updates, Creates
      <4>2. tx[d].row \notin Added(c)
        <5>1. x \in Company => MainContact[x] \notin Company \cup Extra
          BY DirectoryAssumption DEF Extra
        <5> QED
          BY <3>3, <4>1, <5>1 DEF Added, Creates
      <4> QED
        BY <1>2, <3>1, <3>3, <4>2 DEF Creates, Exists
    <3> QED
      BY <3>1, <3>2, <3>3 DEF Good
  <2> QED
    BY <2>1, <2>2
<1>9. ASSUME NEW d \in Client, NEW e \in Client \ {d} PROVE Apart(d, e)'
  <2>1. None \notin Row
    BY DirectoryAssumption
  <2>2. CASE d = c \/ e = c
    BY <1>7, <2>2 DEF Apart, Idle
  <2>3. CASE d # c /\ e # c
    BY <1>7, <2>3 DEF Apart, Inv
  <2> QED
    BY <2>2, <2>3
<1> QED
  BY <1>3, <1>4, <1>6, <1>8, <1>9 DEF Inv

LEMMA NextInv == Inv /\ [Next]_vars => Inv'
<1> SUFFICES ASSUME Inv, [Next]_vars PROVE Inv'
  OBVIOUS
<1>1. CASE UNCHANGED vars
  BY <1>1 DEF vars, Inv, Contents, Records, Calls, MainsFollow, Good, Apart, Edits, Creates, Exists
<1>2. ASSUME NEW c \in Client, CreateCompany(c) \/ CreateContact(c) PROVE Inv'
  BY <1>2, BeginCreates DEF CreateCompany, CreateContact
<1>3. ASSUME NEW c \in Client, UpdateCompany(c) \/ UpdateContact(c) PROVE Inv'
  BY <1>3, BeginEdits DEF UpdateCompany, UpdateContact, Row
<1>4. ASSUME NEW c \in Client, StartWrite(c) PROVE Inv'
  BY <1>4, MoveInv DEF StartWrite
<1>5. ASSUME NEW c \in Client, Write(c) PROVE Inv'
  <2>1. UNCHANGED <<rows, newest>>
    BY <1>5 DEF Write
  <2>2. CASE Step(c, "writing", "written")
    BY <2>1, <2>2, MoveInv
  <2>3. CASE tx' = [tx EXCEPT ![c] = Idle]
    BY <2>1, <2>3, IdleStep
  <2> QED
    BY <1>5, <2>2, <2>3 DEF Write
<1>6. ASSUME NEW c \in Client, Rollback(c) PROVE Inv'
  BY <1>6, IdleStep DEF Rollback
<1> QED
  BY <1>1, <1>2, <1>3, <1>4, <1>5, <1>6, LockInv, CheckInv, CommitInv DEF Next, Proceed

LEMMA InvHolds == Spec => []Inv
  BY InitInv, NextInv, PTL DEF Spec

-----------------------------------------------------------------------------
(* Every row, request and audit record keeps its type.                     *)
THEOREM TypeCorrect == Spec => []TypeOK
<1>1. Inv => TypeOK
  BY DEF Inv, TypeOK, Contents, Records, Calls, Served
<1> QED
  BY <1>1, InvHolds, PTL

(* What an edit read under its lock is the row until it commits, for any   *)
(* number of editors: none overwrites what it has not seen.                *)
THEOREM EditsAreSerial == Spec => []LockedReadHolds
<1>1. Inv => LockedReadHolds
  BY WhileServed DEF LockedReadHolds, Updates, Edits
<1> QED
  BY <1>1, InvHolds, PTL

-----------------------------------------------------------------------------
(* A code that is written and not committed yet is in nobody's way: no     *)
(* other company has it, and no other client has written it.               *)
Entered(c, k) == tx[c].pc = "written" /\ WritesCode(c) /\ tx[c].payload["key"] = k /\ k # None

CodesReserved ==
  \A c \in Client, k \in Key : Entered(c, k) =>
    /\ \A y \in Company \ {tx[c].row} : Exists(y) => rows[y]["key"] # k
    /\ \A d \in Client \ {c} : ~Entered(d, k)

Codes == CodesDistinct /\ CodesReserved

LEMMA CodesKept == Inv /\ Codes /\ [Next]_vars => Codes'
<1> SUFFICES ASSUME Inv, Codes, [Next]_vars PROVE Codes'
  OBVIOUS
<1> DEFINE Fewer == \A d \in Client, k \in Key :
                      Entered(d, k)' => Entered(d, k) /\ tx'[d].row = tx[d].row
<1>1. ASSUME UNCHANGED rows, Fewer PROVE Codes'
  BY <1>1 DEF Codes, CodesDistinct, CodesReserved, Exists
<1>2. ASSUME NEW c \in Client, UNCHANGED rows, tx'[c].pc # "written",
             \A d \in Client \ {c} : tx'[d] = tx[d]
      PROVE  Codes'
  <2>1. Fewer
    BY <1>2 DEF Entered, WritesCode
  <2> QED
    BY <1>1, <1>2, <2>1
<1>3. CASE UNCHANGED vars
  BY <1>1, <1>3 DEF vars, Entered, WritesCode
<1>4. ASSUME NEW c \in Client,
             \/ CreateCompany(c) \/ CreateContact(c) \/ UpdateCompany(c) \/ UpdateContact(c)
             \/ Lock(c) \/ Check(c) \/ StartWrite(c) \/ Rollback(c)
      PROVE  Codes'
  <2>1. UNCHANGED rows /\ \A d \in Client \ {c} : tx'[d] = tx[d]
    BY <1>4 DEF CreateCompany, CreateContact, UpdateCompany, UpdateContact, Begin, Lock, Check,
       StartWrite, Step, Rollback, Inv, Calls
  <2>2. tx'[c].pc # "written"
    BY <1>4 DEF CreateCompany, CreateContact, UpdateCompany, UpdateContact, Begin, Lock, Check,
       StartWrite, Step, Rollback, Inv, Calls, Served, Idle
  <2> QED
    BY <1>2, <2>1, <2>2
<1>5. ASSUME NEW c \in Client, Write(c) PROVE Codes'
  <2>1. UNCHANGED rows /\ BlockedBy(c) = {}
    BY <1>5 DEF Write
  <2>2. CASE tx' = [tx EXCEPT ![c] = Idle]
    BY <1>2, <2>1, <2>2 DEF Inv, Calls, Idle
  <2>3. CASE ~CodeConflict(c) /\ Step(c, "writing", "written")
    <3>1. tx[c].pc = "writing" /\ tx[c] \in Served
      BY <2>3 DEF Step, Inv, Calls
    <3>2. /\ tx'[c].row = tx[c].row /\ tx'[c].payload = tx[c].payload
          /\ \A d \in Client \ {c} : tx'[d] = tx[d]
      BY <2>3, <3>1 DEF Step, Inv, Calls, Served
    <3>3. ASSUME NEW k \in Key, Entered(c, k)'
          PROVE  /\ \A y \in Company \ {tx[c].row} : Exists(y) => rows[y]["key"] # k
                 /\ \A d \in Client \ {c} : ~Entered(d, k)
      <4>1. WritesCode(c) /\ tx[c].payload["key"] = k /\ k # None
        BY <3>2, <3>3 DEF Entered, WritesCode
      <4>2. \A y \in Company \ {tx[c].row} : Exists(y) => rows[y]["key"] # k
        BY <2>3, <4>1 DEF CodeConflict
      <4>3. \A d \in Client \ {c} : k \notin Unsettled(d)
        BY <2>1, <3>1, <4>1 DEF BlockedBy
      <4> QED
        BY <4>2, <4>3 DEF Entered, Unsettled
    <3>4. \A d \in Client \ {c}, k \in Key : Entered(d, k)' <=> Entered(d, k)
      BY <3>2 DEF Entered, WritesCode
    <3>5. CodesDistinct'
      BY <2>1 DEF Codes, CodesDistinct, Exists
    <3>6. CodesReserved'
      <4> SUFFICES ASSUME NEW d \in Client, NEW k \in Key, Entered(d, k)'
                   PROVE  /\ \A y \in Company \ {tx'[d].row} : Exists(y)' => rows'[y]["key"] # k
                          /\ \A e \in Client \ {d} : ~Entered(e, k)'
        BY DEF CodesReserved
      <4>1. CASE d = c
        BY <2>1, <3>2, <3>3, <3>4, <4>1 DEF Exists
      <4>2. CASE d # c
        BY <2>1, <3>2, <3>3, <3>4, <4>2 DEF Exists, Codes, CodesReserved
      <4> QED
        BY <4>1, <4>2
    <3> QED
      BY <3>5, <3>6 DEF Codes
  <2> QED
    BY <1>5, <2>2, <2>3 DEF Write
<1>6. ASSUME NEW c \in Client, Commit(c) PROVE Codes'
  <2> DEFINE x == tx[c].row
  <2>1. /\ tx[c].pc = "written" /\ tx' = [tx EXCEPT ![c] = Idle]
        /\ rows' = [y \in Row |-> IF y \in Added(c) THEN Committed(c, y) ELSE rows[y]]
    BY <1>6 DEF Commit
  <2>2. tx'[c] = Idle /\ \A d \in Client \ {c} : tx'[d] = tx[d]
    BY <2>1 DEF Inv, Calls
  <2>3. /\ x \in Row /\ tx[c].payload \in Payload
        /\ Updates(c) => /\ Exists(x) /\ rows[x] \in Content
        /\ ~Updates(c) => tx[c].payload \in Content
    BY <2>1, WhileServed DEF Served, Updates, Edits, Creates, Exists, Inv, Contents
  <2>4. \A y \in Company \ {x} : rows'[y] = rows[y]
    BY <2>1, DirectoryAssumption DEF Added, Row
  <2>5. ASSUME x \in Company
        PROVE  /\ Entered(c, rows'[x]["key"]) \/ rows'[x]["key"] = None
                  \/ (Exists(x) /\ rows'[x]["key"] = rows[x]["key"])
               /\ rows'[x]["key"] \in Key \cup {None}
    <3>1. rows'[x] = IF Updates(c) THEN Over(tx[c].payload, rows[x]) ELSE tx[c].payload
      BY <2>1, <2>3 DEF Added, Committed
    <3>2. CASE Updates(c)
      <4>1. /\ rows'[x] \in Content
            /\ rows'[x]["key"] = IF "key" \in DOMAIN tx[c].payload
                                    THEN tx[c].payload["key"] ELSE rows[x]["key"]
        BY <2>3, <3>1, <3>2, OverIsContent DEF Field
      <4> QED
        BY <2>1, <2>3, <2>5, <3>2, <4>1, ContentFields DEF Entered, WritesCode
    <3>3. CASE ~Updates(c)
      <4>1. "key" \in DOMAIN tx[c].payload /\ tx[c].payload["key"] \in Key \cup {None}
        BY <2>3, <3>3, ContentFields DEF Content, Field
      <4> QED
        BY <2>1, <2>5, <3>1, <3>3, <4>1 DEF Entered, WritesCode
    <3> QED
      BY <3>2, <3>3
  <2>6. \A d \in Client, k \in Key : Entered(d, k)' <=> d # c /\ Entered(d, k)
    BY <2>2 DEF Entered, WritesCode, Idle
  <2>7. \A d \in Client \ {c} : tx[d].pc = "written" => tx[d].row # x
    BY <2>1, <2>3, DirectoryAssumption DEF Inv, Apart
  <2>8. ASSUME NEW y \in Company \ {x}, Exists(y), x \in Company, rows'[x]["key"] # None
        PROVE  rows[y]["key"] # rows'[x]["key"]
    <3>1. CASE Entered(c, rows'[x]["key"])
      BY <2>5, <2>8, <3>1 DEF Codes, CodesReserved
    <3>2. CASE Exists(x) /\ rows'[x]["key"] = rows[x]["key"]
      BY <2>8, <3>2 DEF Codes, CodesDistinct
    <3> QED
      BY <2>5, <2>8, <3>1, <3>2
  <2>9. CodesDistinct'
    <3> SUFFICES ASSUME NEW y \in Company, NEW z \in Company, y # z,
                        Exists(y)', Exists(z)', rows'[y]["key"] # None
                 PROVE  rows'[y]["key"] # rows'[z]["key"]
      BY DEF CodesDistinct
    <3>1. CASE y # x /\ z # x
      BY <2>4, <3>1 DEF Codes, CodesDistinct, Exists
    <3>2. CASE y = x
      BY <2>4, <2>8, <3>2 DEF Exists
    <3>3. CASE z = x
      BY <2>4, <2>8, <3>3 DEF Exists
    <3> QED
      BY <3>1, <3>2, <3>3
  <2>10. CodesReserved'
    <3> SUFFICES ASSUME NEW d \in Client, NEW k \in Key, Entered(d, k)'
                 PROVE  /\ \A y \in Company \ {tx'[d].row} : Exists(y)' => rows'[y]["key"] # k
                        /\ \A e \in Client \ {d} : ~Entered(e, k)'
      BY DEF CodesReserved
    <3>1. d # c /\ Entered(d, k) /\ tx'[d].row = tx[d].row
      BY <2>2, <2>6
    <3>2. \A y \in Company \ {tx[d].row, x} : Exists(y)' => rows'[y]["key"] # k
      BY <2>4, <3>1 DEF Codes, CodesReserved, Exists
    <3>3. x \in Company => rows'[x]["key"] # k
      <4>1. ~Entered(c, k) /\ k # None
        BY <3>1 DEF Codes, CodesReserved, Entered
      <4>2. x \in Company /\ Exists(x) => rows[x]["key"] # k
        <5>1. tx[d].row # x
          BY <2>7, <3>1 DEF Entered
        <5> QED
          BY <3>1, <5>1 DEF Codes, CodesReserved
      <4> QED
        BY <2>5, <4>1, <4>2
    <3> QED
      BY <2>6, <3>1, <3>2, <3>3 DEF Codes, CodesReserved
  <2> QED
    BY <2>9, <2>10 DEF Codes
<1> QED
  BY <1>3, <1>4, <1>5, <1>6 DEF Next, Proceed

(* Committed companies never share a code, however many clients create and *)
(* edit them at once and whatever their look-ups saw: the unique index     *)
(* alone is enough for codes that are equal letter by letter.              *)
THEOREM CompaniesDistinct == Spec => []CodesDistinct
<1>1. Init => Codes
  BY DEF Init, Codes, CodesDistinct, CodesReserved, Entered, Exists, Idle, Row
<1>2. Codes => CodesDistinct
  BY DEF Codes
<1> QED
  BY <1>1, <1>2, CodesKept, InvHolds, PTL DEF Spec

-----------------------------------------------------------------------------
(* A commit logs what changed in each row, and nothing else.               *)
LEMMA RecordsTellChange ==
  ASSUME Inv, NEW c \in Client, Commit(c)
  PROVE  IF rows' = rows THEN newest' = newest
         ELSE newest' = {TrueRecord(x, rows[x], rows'[x]) :
                           x \in {y \in Row : rows'[y] # rows[y]}}
<1> DEFINE x == tx[c].row
           p == tx[c].payload
<1>1. /\ tx[c].pc = "written"
      /\ rows' = [y \in Row |-> IF y \in Added(c) THEN Committed(c, y) ELSE rows[y]]
      /\ newest' = IF DOMAIN p = {} THEN newest ELSE {AuditRecord(c, y) : y \in Added(c)}
  BY DEF Commit
<1>2. /\ Added(c) \subseteq Row /\ x \in Added(c)
      /\ \A y \in Added(c) : rows'[y] = Committed(c, y) /\ Committed(c, y) \in Content
      /\ \A y \in Row \ Added(c) : rows'[y] = rows[y]
  BY <1>1, CommitContents
<1>3. CASE Updates(c)
  <2>1. /\ p \in Payload /\ rows[x] \in Content /\ rows[x] # None /\ tx[c].base = rows[x]
        /\ \A f \in DOMAIN p : p[f] # rows[x][f]
    BY <1>1, <1>3, WhileServed DEF Served, Updates, Edits, Exists, Inv, Contents
  <2>2. Added(c) = {x}
    BY <1>3 DEF Added
  <2>3. rows'[x] = Over(p, rows[x])
    BY <1>2, <1>3 DEF Committed
  <2>4. DOMAIN p \subseteq Field /\ DOMAIN rows[x] = Field
    BY <2>1, PayloadFields DEF Content
  <2>5. {f \in Field : rows'[x][f] # rows[x][f]} = DOMAIN p
    BY <2>1, <2>3, <2>4, OverIsContent
  <2>6. Cut(rows'[x], DOMAIN p) = p
    <3>1. DOMAIN rows'[x] = Field
      BY <2>3 DEF Over
    <3>2. \A f \in DOMAIN p : rows'[x][f] = p[f]
      BY <2>1, <2>3, <2>4, OverIsContent
    <3>3. p = [f \in DOMAIN p |-> p[f]]
      BY <2>1, PayloadFields
    <3> QED
      BY <2>4, <3>1, <3>2, <3>3 DEF Cut
  <2>7. AuditRecord(c, x) = TrueRecord(x, rows[x], rows'[x])
    BY <1>3, <2>1, <2>5, <2>6 DEF AuditRecord, TrueRecord
  <2>8. CASE DOMAIN p = {}
    <3>1. rows'[x] = rows[x]
      <4>1. \A f \in Field : rows'[x][f] = rows[x][f]
        BY <2>1, <2>3, <2>8, OverIsContent
      <4>2. rows'[x] \in [Field -> Value] /\ rows[x] \in [Field -> Value]
        BY <2>1, <2>3, OverIsContent, ContentFields
      <4> QED
        BY <4>1, <4>2
    <3>2. rows' = rows
      BY <1>1, <1>2, <2>2, <3>1 DEF Inv, Contents
    <3> QED
      BY <1>1, <2>8, <3>2
  <2>9. CASE DOMAIN p # {}
    <3>1. rows'[x] # rows[x]
      BY <2>4, <2>5, <2>9
    <3>2. rows' # rows
      BY <3>1
    <3>3. {y \in Row : rows'[y] # rows[y]} = {x}
      BY <1>2, <2>2, <3>1
    <3> QED
      BY <1>1, <2>2, <2>7, <2>9, <3>2, <3>3
  <2> QED
    BY <2>8, <2>9
<1>4. CASE ~Updates(c)
  <2>a. Creates(c)
    BY <1>1, <1>4, WhileServed DEF Updates, Edits
  <2>1. /\ p \in Content /\ x \in Company \cup Extra /\ ~Exists(x) /\ Creates(c)
    BY <2>a DEF Creates
  <2>2. DOMAIN p = Field /\ "key" \in Field /\ None \notin Content
    BY <2>1, DirectoryAssumption DEF Content, Field
  <2>3. \A y \in Added(c) : rows[y] = None
    BY <2>1, <1>2 DEF Added, Exists, Inv, MainsFollow
  <2>4. {y \in Row : rows'[y] # rows[y]} = Added(c)
    BY <1>2, <2>2, <2>3
  <2>5. rows' # rows
    BY <1>2, <2>4
  <2>6. ASSUME NEW y \in Added(c) PROVE AuditRecord(c, y) = TrueRecord(y, rows[y], rows'[y])
    <3>1. rows'[y] = Committed(c, y) /\ rows[y] = None
      BY <1>2, <2>3
    <3>2. CASE y = x
      <4>1. rows'[y] = p /\ AuditRecord(c, y) = [row |-> y, before |-> Nothing, after |-> p]
        BY <1>4, <3>1, <3>2 DEF Committed, AuditRecord
      <4>2. Cut(p, Field) = p
        BY <2>1, <2>2, ContentFields DEF Cut
      <4> QED
        BY <2>1, <3>1, <3>2, <4>1, <4>2 DEF TrueRecord
    <3>3. CASE y # x
      <4>1. x \in Company /\ y = MainContact[x]
        BY <1>4, <3>3 DEF Added
      <4>2. y \notin Company \cup Extra
        BY <4>1, DirectoryAssumption DEF Extra
      <4>3. rows'[y] = NewMain(x)
        BY <3>1, <3>3 DEF Committed
      <4> QED
        BY <1>4, <3>1, <3>3, <4>2, <4>3 DEF AuditRecord, TrueRecord
    <3> QED
      BY <3>2, <3>3
  <2> QED
    BY <1>1, <2>2, <2>4, <2>5, <2>6
<1> QED
  BY <1>3, <1>4

(* The audit log can be replayed: whoever edits at the same time, each     *)
(* transaction logs the columns it changed, from their committed values to *)
(* their new ones, and a change is never without its record.               *)
THEOREM AuditReplays == Spec => AuditTellsTheChange
<1> DEFINE Told == IF rows' = rows THEN newest' = newest
                   ELSE newest' = {TrueRecord(x, rows[x], rows'[x]) :
                                     x \in {y \in Row : rows'[y] # rows[y]}}
<1>1. ASSUME Inv, [Next]_vars PROVE [Told]_vars
  <2>1. ASSUME NEW c \in Client, Commit(c) PROVE Told
    BY <1>1, <2>1, RecordsTellChange
  <2>2. CASE rows' = rows /\ newest' = newest
    BY <2>2
  <2>3. CASE UNCHANGED vars
    BY <2>3
  <2>4. ASSUME NEW c \in Client,
               \/ CreateCompany(c) \/ CreateContact(c) \/ UpdateCompany(c) \/ UpdateContact(c)
               \/ Lock(c) \/ Check(c) \/ StartWrite(c) \/ Write(c) \/ Rollback(c)
        PROVE  rows' = rows /\ newest' = newest
    BY <2>4 DEF CreateCompany, CreateContact, UpdateCompany, UpdateContact, Begin, Lock, Check,
       StartWrite, Write, Rollback
  <2> QED
    BY <1>1, <2>1, <2>2, <2>3, <2>4 DEF Next, Proceed
<1> QED
  BY <1>1, InvHolds, PTL DEF Spec, AuditTellsTheChange

-----------------------------------------------------------------------------
(* Submissions beside the editors.                                         *)
Submitted == [pc : SubPhase, company : Company \cup {None}, host : Contact \cup {None},
              visit : 0..MaxDay, n : 0..sequence, day : 0..today]
Subs == sub \in [Submitter -> Submitted]
Clock == today \in 0..MaxDay /\ sequence \in 0..MaxNumber
Numbered == \A s \in Submitter : sub[s].pc \in {"numbered", "inserted"} => sub[s].n # 0
Entries == requests \subseteq [n : 1..sequence, day : 0..today]

(* The rules a submission has passed held at some moment since it began.   *)
Passed(s) ==
  /\ sub[s].pc \notin {"idle", "asked"} => "company" \in held[s] /\ "date" \in held[s]
  /\ sub[s].pc \notin {"idle", "asked", "company_read"} => "host" \in held[s]

SubInv ==
  /\ Clock /\ Subs /\ Numbered /\ Entries
  /\ held \in [Submitter -> SUBSET Rule]
  /\ \A s \in Submitter : Passed(s)

(* What a step records of a submission that goes on.                       *)
LEMMA Recorded ==
  ASSUME SubInv, held' = [s \in Submitter |->
                IF sub'[s].pc = "idle" THEN {} ELSE held[s] \cup HoldsNow(s)']
  PROVE  /\ held' \in [Submitter -> SUBSET Rule]
         /\ \A s \in Submitter : sub'[s].pc # "idle" =>
              /\ held[s] \subseteq held'[s]
              /\ Active(sub[s].company)' => "company" \in held'[s]
              /\ (Active(sub[s].host) /\ CompanyOf[sub[s].host] = sub[s].company)'
                   => "host" \in held'[s]
              /\ (sub[s].visit >= today)' => "date" \in held'[s]
<1>1. \A s \in Submitter : HoldsNow(s)' \subseteq Rule
  BY DEF HoldsNow
<1>2. held' \in [Submitter -> SUBSET Rule]
  BY <1>1 DEF SubInv
<1>3. \A s \in Submitter : sub'[s].pc # "idle" => held'[s] = held[s] \cup HoldsNow(s)'
  OBVIOUS
<1>4. ASSUME NEW s \in Submitter
      PROVE  /\ Active(sub[s].company)' => "company" \in HoldsNow(s)'
             /\ (Active(sub[s].host) /\ CompanyOf[sub[s].host] = sub[s].company)'
                   => "host" \in HoldsNow(s)'
             /\ (sub[s].visit >= today)' => "date" \in HoldsNow(s)'
  BY DEF HoldsNow, Rule
<1> QED
  BY <1>2, <1>3, <1>4

(* A submission that keeps its place has passed what it had passed.        *)
LEMMA SubKept ==
  ASSUME SubInv, SubNext, NEW s \in Submitter,
         sub'[s] = sub[s] \/ sub'[s].pc \in {"idle", "asked"}
  PROVE  Passed(s)'
  BY Recorded DEF SubNext, SubInv, Passed

LEMMA SubMoves ==
  ASSUME SubInv, SubNext, NEW s \in Submitter, UNCHANGED vars,
         Submit(s) \/ ProceedSub(s) \/ Abort(s)
  PROVE  SubInv'
<1>1. /\ sub \in [Submitter -> Submitted] /\ sub[s] \in Submitted
      /\ today \in 0..MaxDay /\ sequence \in 0..MaxNumber /\ MaxDay \in Nat /\ MaxNumber \in Nat
  BY SubmissionAssumption DEF SubInv, Subs, Clock
<1>2. ASSUME sub'[s] \in Submitted', UNCHANGED today, sequence' \in sequence..MaxNumber,
             sub' = [sub EXCEPT ![s] = sub'[s]],
             sub'[s].pc \in {"numbered", "inserted"} => sub'[s].n # 0,
             Entries', Passed(s)'
      PROVE  SubInv'
  <2>1. Clock'
    BY <1>1, <1>2 DEF Clock
  <2>2. \A t \in Submitter \ {s} : sub'[t] = sub[t] /\ sub'[t] \in Submitted'
    BY <1>1, <1>2 DEF Submitted
  <2>3. Subs' /\ Numbered'
    BY <1>1, <1>2, <2>2 DEF Subs, Numbered, SubInv
  <2>4. \A t \in Submitter : Passed(t)'
    BY <1>2, <2>2, SubKept
  <2> QED
    BY <1>2, <2>1, <2>3, <2>4, Recorded DEF SubInv, SubNext
<1>3. UNCHANGED <<today, sequence, requests>> => Entries' /\ sequence' \in sequence..MaxNumber
  BY <1>1 DEF SubInv, Entries
<1>4. ASSUME End(s), UNCHANGED <<today, sequence, requests>> PROVE SubInv'
  <2>1. sub'[s] = NoSub /\ sub' = [sub EXCEPT ![s] = sub'[s]]
    BY <1>1, <1>4 DEF End
  <2>2. sub'[s] \in Submitted'
    BY <1>1, <1>4, <2>1 DEF Submitted, NoSub, SubPhase
  <2>3. sub'[s].pc = "idle"
    BY <2>1 DEF NoSub
  <2> QED
    BY <1>2, <1>3, <1>4, <2>1, <2>2, <2>3, SubKept
<1>5. CASE Submit(s)
  <2>1. PICK x \in Company, h \in Contact, d \in 0..MaxDay :
          sub' = [sub EXCEPT ![s] = [NoSub EXCEPT !.pc = "asked", !.company = x,
                                                  !.host = h, !.visit = d]]
    BY <1>5 DEF Submit
  <2>2. /\ sub'[s] = [pc |-> "asked", company |-> x, host |-> h, visit |-> d, n |-> 0, day |-> 0]
        /\ sub' = [sub EXCEPT ![s] = sub'[s]]
    BY <1>1, <2>1 DEF NoSub
  <2>3. UNCHANGED <<today, sequence, requests>>
    BY <1>5 DEF Submit
  <2>4. 0 \in 0..sequence /\ 0 \in 0..today
    BY <1>1
  <2>5. sub'[s] \in Submitted'
    BY <2>2, <2>3, <2>4 DEF Submitted, SubPhase
  <2>6. sub'[s].pc = "asked"
    BY <2>2
  <2> QED
    BY <1>2, <1>3, <2>2, <2>3, <2>5, <2>6, SubKept
<1>6. ASSUME NEW pc \in SubPhase, Go(s, pc), UNCHANGED <<today, sequence, requests>>,
             pc # "numbered", pc = "inserted" => sub[s].n # 0, Passed(s)'
      PROVE  SubInv'
  <2>1. /\ sub'[s] = [sub[s] EXCEPT !.pc = pc] /\ sub' = [sub EXCEPT ![s] = sub'[s]]
    BY <1>1, <1>6 DEF Go
  <2>2. sub'[s] \in Submitted' /\ sub'[s].pc = pc /\ sub'[s].n = sub[s].n
    BY <1>1, <1>6, <2>1 DEF Submitted
  <2> QED
    BY <1>2, <1>3, <1>6, <2>1, <2>2
<1>7. CASE ReadCompany(s)
  <2>1. sub[s].pc = "asked" /\ UNCHANGED <<today, sequence, requests>>
    BY <1>7 DEF ReadCompany
  <2>2. CASE Active(sub[s].company) /\ sub[s].visit >= today /\ Go(s, "company_read")
    <3>1. /\ sub'[s].pc = "company_read" /\ sub'[s].company = sub[s].company
          /\ sub'[s].visit = sub[s].visit
      BY <1>1, <2>2 DEF Go, Submitted
    <3>2. Active(sub[s].company)' /\ (sub[s].visit >= today)'
      BY <2>1, <2>2, <3>1 DEF Active, Exists, vars
    <3>3. Passed(s)'
      BY <3>1, <3>2, Recorded DEF Passed, SubNext
    <3> QED
      BY <1>6, <2>1, <2>2, <3>3 DEF SubPhase
  <2> QED
    BY <1>4, <1>7, <2>1, <2>2 DEF ReadCompany
<1>8. CASE ReadHosts(s)
  <2>1. sub[s].pc = "company_read" /\ UNCHANGED <<today, sequence, requests>>
    BY <1>8 DEF ReadHosts
  <2>2. CASE Active(sub[s].host) /\ CompanyOf[sub[s].host] = sub[s].company /\ Go(s, "host_read")
    <3>1. /\ sub'[s].pc = "host_read" /\ sub'[s].company = sub[s].company
          /\ sub'[s].host = sub[s].host
      BY <1>1, <2>2 DEF Go, Submitted
    <3>2. (Active(sub[s].host) /\ CompanyOf[sub[s].host] = sub[s].company)'
      BY <2>1, <2>2, <3>1 DEF Active, Exists, vars
    <3>3. Passed(s)'
      BY <2>1, <3>1, <3>2, Recorded DEF Passed, SubNext, SubInv
    <3> QED
      BY <1>6, <2>1, <2>2, <3>3 DEF SubPhase
  <2> QED
    BY <1>4, <1>8, <2>1, <2>2 DEF ReadHosts
<1>9. CASE TakeNumber(s)
  <2>1. /\ sub[s].pc = "host_read" /\ sequence < MaxNumber /\ sequence' = sequence + 1
        /\ sub' = [sub EXCEPT ![s].pc = "numbered", ![s].n = sequence + 1]
        /\ UNCHANGED <<today, requests>>
    BY <1>9 DEF TakeNumber
  <2>2. sub'[s] = [pc |-> "numbered", company |-> sub[s].company, host |-> sub[s].host,
                   visit |-> sub[s].visit, n |-> sequence + 1, day |-> sub[s].day]
    BY <1>1, <2>1 DEF Submitted
  <2>3. sub'[s] \in Submitted' /\ sequence' \in sequence..MaxNumber /\ sequence + 1 # 0
    BY <1>1, <2>1, <2>2 DEF Submitted, SubPhase
  <2>4. Entries'
    BY <1>1, <2>1 DEF SubInv, Entries
  <2>5. Passed(s)'
    BY <2>1, <2>2, Recorded DEF Passed, SubNext, SubInv
  <2>6. sub' = [sub EXCEPT ![s] = sub'[s]]
    BY <1>1, <2>1
  <2> QED
    BY <1>2, <2>1, <2>2, <2>3, <2>4, <2>5, <2>6
<1>10. CASE Insert(s)
  <2>1. /\ sub[s].pc = "numbered" /\ UNCHANGED <<today, sequence, requests>>
        /\ sub' = [sub EXCEPT ![s].pc = "inserted", ![s].day = today]
    BY <1>10 DEF Insert
  <2>2. sub'[s] = [pc |-> "inserted", company |-> sub[s].company, host |-> sub[s].host,
                   visit |-> sub[s].visit, n |-> sub[s].n, day |-> today]
    BY <1>1, <2>1 DEF Submitted
  <2>3. sub'[s] \in Submitted' /\ sub[s].n # 0
    BY <1>1, <2>1, <2>2 DEF Submitted, SubPhase, SubInv, Numbered
  <2>4. Passed(s)'
    BY <2>1, <2>2, Recorded DEF Passed, SubNext, SubInv
  <2>5. sub' = [sub EXCEPT ![s] = sub'[s]]
    BY <1>1, <2>1
  <2> QED
    BY <1>2, <1>3, <2>1, <2>2, <2>3, <2>4, <2>5
<1>11. CASE CommitRequest(s)
  <2>1. /\ sub[s].pc = "inserted" /\ End(s) /\ UNCHANGED <<today, sequence>>
        /\ requests' = requests \cup {[n |-> sub[s].n, day |-> sub[s].day]}
    BY <1>11 DEF CommitRequest
  <2>2. sub[s].n \in 1..sequence /\ sub[s].day \in 0..today
    BY <1>1, <2>1 DEF SubInv, Numbered, Submitted
  <2>3. Entries' /\ sequence' \in sequence..MaxNumber
    BY <1>1, <2>1, <2>2 DEF SubInv, Entries
  <2>4. sub'[s] = NoSub /\ sub' = [sub EXCEPT ![s] = sub'[s]]
    BY <1>1, <2>1 DEF End
  <2>5. sub'[s] \in Submitted' /\ sub'[s].pc = "idle"
    BY <1>1, <2>1, <2>4 DEF Submitted, NoSub, SubPhase
  <2> QED
    BY <1>2, <2>1, <2>3, <2>4, <2>5, SubKept
<1>12. CASE Abort(s)
  BY <1>4, <1>12 DEF Abort
<1> QED
  BY <1>5, <1>7, <1>8, <1>9, <1>10, <1>11, <1>12 DEF ProceedSub

LEMMA SubNextInv == SubInv /\ [SubNext]_<<vars, subVars>> => SubInv'
<1> SUFFICES ASSUME SubInv, [SubNext]_<<vars, subVars>> PROVE SubInv'
  OBVIOUS
<1>1. CASE UNCHANGED <<vars, subVars>>
  BY <1>1 DEF subVars, SubInv, Clock, Subs, Submitted, Numbered, Entries, Passed
<1>2. CASE SubNext /\ Edit
  <2>1. UNCHANGED <<today, sequence, sub, requests>>
    BY <1>2 DEF Edit
  <2>2. Clock' /\ Subs' /\ Numbered' /\ Entries'
    BY <2>1 DEF SubInv, Clock, Subs, Submitted, Numbered, Entries
  <2> QED
    BY <1>2, <2>1, <2>2, SubKept, Recorded DEF SubInv, SubNext
<1>3. CASE SubNext /\ UNCHANGED vars /\ Midnight
  <2>1. today < MaxDay /\ today' = today + 1 /\ UNCHANGED <<sequence, sub, requests>>
    BY <1>3 DEF Midnight
  <2>2. today \in Nat /\ MaxDay \in Nat /\ today' \in 0..MaxDay /\ 0..today \subseteq 0..today'
    BY <2>1, SubmissionAssumption DEF SubInv, Clock
  <2>3. Clock' /\ Numbered' /\ Entries'
    BY <2>1, <2>2 DEF SubInv, Clock, Numbered, Entries
  <2>4. Subs'
    BY <2>1, <2>2 DEF SubInv, Subs, Submitted
  <2> QED
    BY <1>3, <2>1, <2>3, <2>4, SubKept, Recorded DEF SubInv, SubNext
<1>4. ASSUME NEW s \in Submitter, SubNext, UNCHANGED vars, Submit(s) \/ ProceedSub(s) \/ Abort(s)
      PROVE  SubInv'
  BY <1>4, SubMoves
<1> QED
  BY <1>1, <1>2, <1>3, <1>4 DEF SubNext

LEMMA SubInvHolds == SubSpec => []SubInv
<1>1. SubInit => SubInv
  <2> SUFFICES ASSUME SubInit PROVE SubInv
    OBVIOUS
  <2>1. NoSub \in Submitted /\ Clock
    BY SubmissionAssumption DEF SubInit, Submitted, NoSub, SubPhase, Clock
  <2> QED
    BY <2>1 DEF SubInit, SubInv, Subs, Numbered, Entries, Passed, NoSub
<1> QED
  BY <1>1, SubNextInv, PTL DEF SubSpec

(* A request is inserted only if, at some moment of its call, its company  *)
(* was active, its host an active contact of it and its date not past, for *)
(* any number of submissions, editors and midnights in between.            *)
THEOREM EligibleThen == SubSpec => []EligibleDuringCall
<1>1. SubInv => EligibleDuringCall
  BY DEF SubInv, Passed, EligibleDuringCall, Rule
<1> QED
  BY <1>1, SubInvHolds, PTL

(* Editors and submissions side by side keep every variable in its type,   *)
(* and no request has a number that the sequence has not given.            *)
THEOREM SubmissionTypes == SubSpec => []SubTypeOK
<1>1. Inv /\ [SubNext]_<<vars, subVars>> => Inv'
  <2>1. [SubNext]_<<vars, subVars>> => [Next]_vars
    BY DEF SubNext, Edit
  <2> QED
    BY <2>1, NextInv
<1>2. SubSpec => []Inv
  BY <1>1, InitInv, PTL DEF SubSpec, SubInit
<1>3. Inv /\ SubInv => SubTypeOK
  BY DEF Inv, Contents, Records, Calls, Served, TypeOK, SubInv, Clock, Subs, Submitted, Entries,
     SubTypeOK
<1> QED
  BY <1>2, <1>3, SubInvHolds, PTL
=============================================================================
