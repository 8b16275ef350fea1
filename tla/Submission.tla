------------------------------ MODULE Submission ------------------------------
(***************************************************************************)
(* create_visitor_access_request beside the editors of Directory: the      *)
(* company's status, the active contacts and the date are read without     *)
(* locks, each at its own moment; a sequence that no rollback turns back   *)
(* gives the number; inserting the request shares the company's row until  *)
(* the commit.  Midnight may come anywhere in between.                     *)
(***************************************************************************)
EXTENDS Directory

CONSTANTS Submitter,    \* threads serving submissions
          MaxNumber,    \* bound: submissions that are given a number
          MaxDay        \* bound: the last day

ASSUME SubmissionAssumption ==
  /\ MaxNumber \in Nat /\ MaxDay \in Nat

VARIABLES today,
          sequence,     \* request_number_seq
          sub,          \* the submission each thread is serving
          requests,     \* numbers of the committed requests, with their dates
          held          \* history variable: rules that held since it began

subVars == <<today, sequence, sub, requests, held>>

NoSub == [pc |-> "idle", company |-> None, host |-> None, visit |-> 0, n |-> 0, day |-> 0]

SubPhase == {"idle", "asked", "company_read", "host_read", "numbered", "inserted"}
Rule == {"company", "host", "date"}

SubTypeOK ==
  /\ TypeOK
  /\ today \in 0..MaxDay /\ sequence \in 0..MaxNumber
  /\ sub \in [Submitter -> [pc : SubPhase, company : Company \cup {None},
                            host : Contact \cup {None}, visit : 0..MaxDay,
                            n : 0..sequence, day : 0..today]]
  /\ requests \subseteq [n : 1..sequence, day : 0..today]
  /\ held \in [Submitter -> SUBSET Rule]

SubInit ==
  /\ Init /\ today = 0 /\ sequence = 0 /\ requests = {}
  /\ sub = [s \in Submitter |-> NoSub] /\ held = [s \in Submitter |-> {}]

Active(x) == Exists(x) /\ rows[x]["status"] = "ACTIVE"

(* Refused, or rolled back: a number taken is not given back.              *)
End(s) == sub' = [sub EXCEPT ![s] = NoSub]
Go(s, pc) == sub' = [sub EXCEPT ![s].pc = pc]

Submit(s) ==
  /\ sub[s].pc = "idle"
  /\ \E x \in Company, h \in Contact, d \in 0..MaxDay :
       sub' = [sub EXCEPT ![s] = [NoSub EXCEPT !.pc = "asked", !.company = x,
                                               !.host = h, !.visit = d]]
  /\ UNCHANGED <<today, sequence, requests>>

ReadCompany(s) ==
  /\ sub[s].pc = "asked"
  /\ IF Active(sub[s].company) /\ sub[s].visit >= today
       THEN Go(s, "company_read") ELSE End(s)
  /\ UNCHANGED <<today, sequence, requests>>

(* Mutant: the host is looked for among contacts of any status.            *)
ReadAnyHost(s) ==
  /\ sub[s].pc = "company_read"
  /\ IF Exists(sub[s].host) /\ CompanyOf[sub[s].host] = sub[s].company
       THEN Go(s, "host_read") ELSE End(s)
  /\ UNCHANGED <<today, sequence, requests>>

ReadHosts(s) ==
  /\ sub[s].pc = "company_read"
  /\ IF Active(sub[s].host) /\ CompanyOf[sub[s].host] = sub[s].company
       THEN Go(s, "host_read") ELSE End(s)
  /\ UNCHANGED <<today, sequence, requests>>

(* SELECT nextval('request_number_seq')                                    *)
TakeNumber(s) ==
  /\ sub[s].pc = "host_read" /\ sequence < MaxNumber
  /\ sequence' = sequence + 1
  /\ sub' = [sub EXCEPT ![s].pc = "numbered", ![s].n = sequence + 1]
  /\ UNCHANGED <<today, requests>>

(* The number's date is read after the number; the flush waits for an      *)
(* editor that holds the company's row.                                    *)
Insert(s) ==
  /\ sub[s].pc = "numbered"
  /\ \A c \in Client : ~Holds(c, sub[s].company)
  /\ sub' = [sub EXCEPT ![s].pc = "inserted", ![s].day = today]
  /\ UNCHANGED <<today, sequence, requests>>

CommitRequest(s) ==
  /\ sub[s].pc = "inserted" /\ End(s)
  /\ requests' = requests \cup {[n |-> sub[s].n, day |-> sub[s].day]}
  /\ UNCHANGED <<today, sequence>>

(* The connection is lost before the commit.                               *)
Abort(s) ==
  /\ sub[s].pc # "idle" /\ End(s)
  /\ UNCHANGED <<today, sequence, requests>>

Midnight ==
  /\ today < MaxDay /\ today' = today + 1
  /\ UNCHANGED <<sequence, sub, requests>>

ProceedSub(s) ==
  ReadCompany(s) \/ ReadHosts(s) \/ TakeNumber(s) \/ Insert(s) \/ CommitRequest(s)

(* A company's editor waits for requests inserted but not committed.       *)
Edit ==
  /\ Next
  /\ \A c \in Client, s \in Submitter :
       tx[c].pc = "found" /\ tx'[c].pc = "locked" /\ sub[s].pc = "inserted"
         => sub[s].company # tx[c].row
  /\ UNCHANGED <<today, sequence, sub, requests>>

HoldsNow(s) ==
  {r \in Rule : CASE r = "company" -> Active(sub[s].company)
                  [] r = "host" -> /\ Active(sub[s].host)
                                    /\ CompanyOf[sub[s].host] = sub[s].company
                  [] r = "date" -> sub[s].visit >= today}

SubNext ==
  /\ \/ Edit
     \/ /\ UNCHANGED vars
        /\ Midnight \/ \E s \in Submitter : Submit(s) \/ ProceedSub(s) \/ Abort(s)
  /\ held' = [s \in Submitter |->
                IF sub'[s].pc = "idle" THEN {} ELSE held[s] \cup HoldsNow(s)']

SubSpec == SubInit /\ [][SubNext]_<<vars, subVars>>

-----------------------------------------------------------------------------
(* A request is entered only if during its call the company was active,    *)
(* the host was an active contact of it, and the date was not past; the    *)
(* three need not have held together, nor at the commit.                   *)
EligibleDuringCall ==
  \A s \in Submitter : sub[s].pc \in {"numbered", "inserted"} => held[s] = Rule
=============================================================================
