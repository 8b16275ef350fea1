------------------------------ MODULE Directory ------------------------------
(***************************************************************************)
(* Companies and their contacts: creation and editing by concurrent        *)
(* clients, over a database at READ COMMITTED.  A company and a contact    *)
(* are edited by the same protocol (an unlocked read, a locking read, a    *)
(* look for duplicates, the write, the commit), so one set of actions      *)
(* serves both; what differs is which rows a key is looked for among, and  *)
(* that only customer codes have a unique constraint.                      *)
(*                                                                         *)
(* Of a row's columns two are kept: its key (customer code, e-mail         *)
(* address), whose duplicates are refused, and its status, which stands    *)
(* for every column without a rule.  Of the audit log the records of the   *)
(* newest transaction are kept.                                            *)
(***************************************************************************)
EXTENDS Naturals, FiniteSets

CONSTANTS Client,        \* threads serving requests
          Company,       \* ids of companies
          Contact,       \* ids of contacts
          CompanyOf,     \* the company of each contact
          MainContact,   \* the contact created along with each company
          Key,           \* codes and addresses, as typed
          MainEmail,     \* main_email of each company's creation
          Lower,         \* lower-cased form of each key
          Status,
          Edited,        \* bound: the rows that clients edit
          None

Row == Company \cup Contact
Extra == Contact \ {MainContact[x] : x \in Company}
Field == {"key", "status"}

(* What a request body names: some columns, and a value for each.          *)
Payload ==
  {p \in UNION {[F -> Key \cup {None} \cup Status] : F \in SUBSET Field} :
     /\ "key" \in DOMAIN p => p["key"] \in Key \cup {None}
     /\ "status" \in DOMAIN p => p["status"] \in Status}

Content == {p \in Payload : DOMAIN p = Field}
Nothing == [f \in {} |-> None]

ASSUME DirectoryAssumption ==
  /\ Company \cap Contact = {}
  /\ None \notin Row \cup Key \cup Status \cup Content
  /\ CompanyOf \in [Contact -> Company]
  /\ MainContact \in [Company -> Contact]
  /\ \A x \in Company : CompanyOf[MainContact[x]] = x
  /\ Lower \in [Key -> Key]
  /\ MainEmail \in [Company -> Key]
  /\ "ACTIVE" \in Status

VARIABLES rows,      \* committed content of each row, None before it exists
          newest,    \* audit records of the newest transaction that left any
          tx         \* the request each client is serving

vars == <<rows, newest, tx>>

Idle == [pc |-> "idle", row |-> None, payload |-> Nothing, base |-> None]

Phase == {"idle", "found", "locked", "checked", "writing", "written"}

Over(p, b) == [f \in Field |-> IF f \in DOMAIN p THEN p[f] ELSE b[f]]
Cut(p, F) == [f \in DOMAIN p \cap F |-> p[f]]

TypeOK ==
  /\ rows \in [Row -> Content \cup {None}]
  /\ newest \subseteq [row : Row, before : Payload, after : Payload]
  /\ tx \in [Client -> [pc : Phase, row : Row \cup {None},
                        payload : Payload, base : Content \cup {None}]]

Init ==
  /\ rows = [x \in Row |-> None]
  /\ newest = {}
  /\ tx = [c \in Client |-> Idle]

-----------------------------------------------------------------------------
(* What the database lets a statement see and do.                          *)

Exists(x) == rows[x] # None
Creating(x) == \E c \in Client : tx[c].row = x /\ tx[c].base = None
Updates(c) == tx[c].pc # "idle" /\ tx[c].base # None

(* FOR UPDATE is held from the locking read to the end of the transaction; *)
(* an inserted contact's foreign key shares the company's row till then.   *)
Holds(c, x) == Updates(c) /\ tx[c].row = x /\ tx[c].pc # "found"
Shares(c, x) ==
  /\ ~Updates(c) /\ tx[c].pc = "written"
  /\ tx[c].row \in Extra /\ CompanyOf[tx[c].row] = x

(* The rows among which a key must not repeat, letter case aside.          *)
Peers(x) ==
  IF x \in Company THEN Company \ {x}
  ELSE {y \in Contact \ {x} : CompanyOf[y] = CompanyOf[x]}

KeyTaken(x, k) ==
  k # None /\ \E y \in Peers(x) :
                /\ Exists(y) /\ rows[y]["key"] # None
                /\ Lower[rows[y]["key"]] = Lower[k]

WritesCode(c) == tx[c].row \in Company /\ "key" \in DOMAIN tx[c].payload

(* Codes of company rows that c's open transaction is replacing, from the  *)
(* start of its UPDATE, or has entered in the unique index.                *)
Unsettled(c) ==
  IF ~WritesCode(c) THEN {}
  ELSE (IF Updates(c) /\ tx[c].pc \in {"writing", "written"}
          THEN {tx[c].base["key"]} ELSE {})
       \cup (IF tx[c].pc = "written" THEN {tx[c].payload["key"]} ELSE {})

(* The clients whose transactions c's next statement has to wait for.      *)
BlockedBy(c) ==
  {d \in Client \ {c} :
     \/ tx[c].pc = "found" /\ (Holds(d, tx[c].row) \/ Shares(d, tx[c].row))
     \/ /\ tx[c].pc = "writing" /\ WritesCode(c)
        /\ tx[c].payload["key"] \in Unsettled(d) \ {None}
     \/ /\ tx[c].pc = "writing" /\ ~Updates(c) /\ tx[c].row \in Extra
        /\ Holds(d, CompanyOf[tx[c].row])}

(* Another committed company has exactly this code.                        *)
CodeConflict(c) ==
  /\ WritesCode(c) /\ tx[c].payload["key"] # None
  /\ \E y \in Company \ {tx[c].row} :
       Exists(y) /\ rows[y]["key"] = tx[c].payload["key"]

Step(c, from, to) ==
  /\ tx[c].pc = from
  /\ tx' = [tx EXCEPT ![c].pc = to]

-----------------------------------------------------------------------------
Begin(c, x, p, base, pc) ==
  /\ tx[c] = Idle
  /\ tx' = [tx EXCEPT ![c] = [pc |-> pc, row |-> x, payload |-> p, base |-> base]]
  /\ UNCHANGED <<rows, newest>>

(* create_company and create_contact look for a duplicate among committed  *)
(* rows and refuse, or go on to insert.                                    *)
CreateCompany(c) ==
  \E x \in Company, p \in Content :
    /\ ~Exists(x) /\ ~Creating(x)
    /\ p["key"] # None /\ ~KeyTaken(x, p["key"])
    /\ Begin(c, x, p, None, "checked")

CreateContact(c) ==
  \E x \in Extra, p \in Content :
    /\ ~Exists(x) /\ ~Creating(x) /\ Exists(CompanyOf[x])
    /\ p["key"] # None /\ ~KeyTaken(x, p["key"])
    /\ Begin(c, x, p, None, "checked")

(* The router reads the row without a lock before the service is called.   *)
UpdateCompany(c) ==
  \E x \in Company \cap Edited, p \in Payload :
    Exists(x) /\ Begin(c, x, p, rows[x], "found")

UpdateContact(c) ==
  \E x \in Contact \cap Edited, p \in Payload :
    Exists(x) /\ Begin(c, x, p, rows[x], "found")

(* Mutant: the locking read leaves the columns as the router read them.    *)
LockKeepingStale(c) ==
  /\ tx[c].pc = "found" /\ BlockedBy(c) = {}
  /\ tx' = [tx EXCEPT ![c].pc = "locked"]
  /\ UNCHANGED <<rows, newest>>

(* db.refresh(row, with_for_update=True)                                   *)
Lock(c) ==
  /\ tx[c].pc = "found" /\ BlockedBy(c) = {}
  /\ tx' = [tx EXCEPT ![c].pc = "locked", ![c].base = rows[tx[c].row]]
  /\ UNCHANGED <<rows, newest>>

Changes(c) == Cut(tx[c].payload, {f \in DOMAIN tx[c].payload :
                                    tx[c].payload[f] # tx[c].base[f]})

(* Mutant: an edit does not look for another row with its key.             *)
CheckNothing(c) ==
  /\ tx[c].pc = "locked"
  /\ tx' = [tx EXCEPT ![c].pc = "checked", ![c].payload = Changes(c)]
  /\ UNCHANGED <<rows, newest>>

(* Only columns that differ are changes; a changed key is looked for.      *)
Check(c) ==
  /\ tx[c].pc = "locked"
  /\ IF "key" \in DOMAIN Changes(c) /\ KeyTaken(tx[c].row, Changes(c)["key"])
       THEN tx' = [tx EXCEPT ![c] = Idle]
       ELSE tx' = [tx EXCEPT ![c].pc = "checked", ![c].payload = Changes(c)]
  /\ UNCHANGED <<rows, newest>>

(* The INSERT or UPDATE is sent, waits, and conflicts or goes through.     *)
StartWrite(c) == Step(c, "checked", "writing") /\ UNCHANGED <<rows, newest>>

(* Mutant: no unique constraint on customer codes.                         *)
WriteUnconstrained(c) ==
  /\ Step(c, "writing", "written")
  /\ UNCHANGED <<rows, newest>>

Write(c) ==
  /\ BlockedBy(c) = {}
  /\ IF CodeConflict(c)
       THEN tx[c].pc = "writing" /\ tx' = [tx EXCEPT ![c] = Idle]
       ELSE Step(c, "writing", "written")
  /\ UNCHANGED <<rows, newest>>

NewMain(x) == [key |-> Lower[MainEmail[x]], status |-> "ACTIVE"]

Added(c) ==
  IF tx[c].row \in Company /\ ~Updates(c)
    THEN {tx[c].row, MainContact[tx[c].row]} ELSE {tx[c].row}

(* The content of row x once c's transaction commits.                      *)
Committed(c, x) ==
  IF x # tx[c].row THEN NewMain(tx[c].row)
  ELSE IF Updates(c) THEN Over(tx[c].payload, rows[x]) ELSE tx[c].payload

(* The changes, and what they replace in the row as it was locked; of a    *)
(* main contact its address only.                                          *)
AuditRecord(c, x) ==
  IF Updates(c) THEN [row |-> x, before |-> Cut(tx[c].base, DOMAIN tx[c].payload),
                      after |-> tx[c].payload]
  ELSE [row |-> x, before |-> Nothing,
        after |-> IF x = tx[c].row THEN tx[c].payload ELSE Cut(NewMain(tx[c].row), {"key"})]

(* Rows and audit records become visible together; an edit that changes    *)
(* nothing leaves no record.                                               *)
Commit(c) ==
  /\ tx[c].pc = "written"
  /\ rows' = [x \in Row |-> IF x \in Added(c) THEN Committed(c, x) ELSE rows[x]]
  /\ newest' = IF DOMAIN tx[c].payload = {} THEN newest
               ELSE {AuditRecord(c, x) : x \in Added(c)}
  /\ tx' = [tx EXCEPT ![c] = Idle]

(* The connection is lost before the commit: the database rolls back.      *)
Rollback(c) ==
  /\ tx[c].pc # "idle"
  /\ tx' = [tx EXCEPT ![c] = Idle]
  /\ UNCHANGED <<rows, newest>>

Proceed(c) == Lock(c) \/ Check(c) \/ StartWrite(c) \/ Write(c) \/ Commit(c)

Next == \E c \in Client :
  \/ CreateCompany(c) \/ CreateContact(c)
  \/ UpdateCompany(c) \/ UpdateContact(c)
  \/ Proceed(c) \/ Rollback(c)

Spec == Init /\ [][Next]_vars

(* A thread runs on once its statement may; a blocked statement is in the  *)
(* database's queue for the lock, so it is not passed over for ever.       *)
FairSpec ==
  Spec /\ \A c \in Client :
            WF_vars(Proceed(c)) /\ SF_vars(Lock(c)) /\ SF_vars(Write(c))

-----------------------------------------------------------------------------
(* What an edit read under its lock is still the row when it commits: the  *)
(* locking read of update_company and update_contact serialises editors.   *)
LockedReadHolds ==
  \A c \in Client : Updates(c) /\ tx[c].pc # "found" => tx[c].base = rows[tx[c].row]

(* No two committed companies carry the same code, whatever races the      *)
(* look-ups of create_company and update_company lost.                     *)
CodesDistinct ==
  \A x, y \in Company :
    x # y /\ Exists(x) /\ Exists(y) /\ rows[x]["key"] # None
      => rows[x]["key"] # rows[y]["key"]

(* The record of a change from old to new content of row x: the columns    *)
(* that differ; all of a new row, or the address of a new main contact.    *)
TrueRecord(x, old, new) ==
  LET changed == IF old # None THEN {f \in Field : new[f] # old[f]}
                 ELSE IF x \in Company \cup Extra THEN Field ELSE {"key"}
  IN [row |-> x, before |-> IF old = None THEN Nothing ELSE Cut(old, changed),
      after |-> Cut(new, changed)]

(* The audit trail can be replayed: the transaction that changes rows logs *)
(* exactly the columns that changed, with their committed values before    *)
(* and after it, and one that changes nothing logs nothing.                *)
AuditTellsTheChange ==
  [][IF rows' = rows THEN newest' = newest
     ELSE newest' = {TrueRecord(x, rows[x], rows'[x]) :
                       x \in {y \in Row : rows'[y] # rows[y]}}]_vars

(* Every request that was begun ends: answered, refused or rolled back.    *)
RequestsEnd == \A c \in Client : tx[c].pc # "idle" ~> tx[c].pc = "idle"
=============================================================================
