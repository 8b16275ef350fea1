------------------------- MODULE BrowserSessionProofs -------------------------
(***************************************************************************)
(* The session of a browser tab for any session ids, idle time and report  *)
(* gap: a session given up never comes back, nothing is sent about it, and *)
(* the page never counts activity that the server lacks unless a report of *)
(* it is due or its failure shown.                                         *)
(***************************************************************************)
EXTENDS BrowserSession, TLAPS

-----------------------------------------------------------------------------
(* The inductive invariant.                                                *)

(* Nothing is remembered from the future.                                  *)
TimesPassed ==
  /\ \A s \in Session : server[s].activity <= now
  /\ open.asked <= now /\ idle.last <= now

(* A bootstrap that resumes names its session from the first, one that     *)
(* starts has it from the answer, and an answer leaves no more of the idle *)
(* time than the server's clock does; no session is left from an earlier   *)
(* bootstrap.                                                              *)
OpeningFits ==
  /\ open.at = "idle" => open.sid = None
  /\ ~open.start /\ open.at # "idle" => open.sid \in Session
  /\ open.at = "ok" =>
       /\ open.sid \in Session
       /\ open.left + open.asked - Timeout <= server[open.sid].activity

(* Only a page that is signed in makes calls, about its own session; the   *)
(* end call and what it cut short remain when it has ended.                *)
CallsFit ==
  /\ \A k \in Kind : call[k].at # "idle" => call[k].sid \in Session
  /\ SignedIn => \A k \in Kind : call[k].at # "idle" => call[k].sid = page.sid
  /\ page.stage \in {"login", "opening"} => \A k \in Kind : call[k].at = "idle"
  /\ queued \/ idle.pending => SignedIn

(* What the page counts is reported, or about to be, or shown as failed;   *)
(* when a report has been answered the server has it.                      *)
Counted ==
  SignedIn /\ ~idle.pending /\ ~queued =>
    \/ call["report"].at \in {"token", "sent", "refused"}
    \/ page.error /\ call["report"].at = "idle"
    \/ idle.last <= server[page.sid].activity

(* Sessions in use here, or once in use, are known to the server, so none  *)
(* of them is given out again; those given up are not named any more.      *)
NeverBack ==
  /\ \A s \in over \cup ({page.sid, tab.sid, open.sid} \ {None}) : server[s].state # "none"
  /\ {page.sid, tab.sid, open.sid} \cap over = {}

IInv == TypeOK /\ TimesPassed /\ OpeningFits /\ CallsFit /\ Counted /\ NeverBack

-----------------------------------------------------------------------------
LEMMA TimeIsInt ==
  /\ Timeout \in Int /\ Timeout > 0 /\ ReportGap \in Int /\ ReportGap > 0
  /\ Time \subseteq Int /\ Clock \subseteq Int /\ 0..Timeout \subseteq Int
  /\ 0 \in Time /\ 0 \in Clock /\ 0 \in 0..Timeout
  BY TabAssumption DEF Time, Clock

(* The type invariant part by part.                                        *)
Rows == [Session -> [state : {"none", "open", "ended"}, activity : Time]]
TabType == [locked : BOOLEAN, sid : Session \cup {None}]
PageType == [stage : {"login", "opening", "signed_in", "ended"},
             sid : Session \cup {None}, error : BOOLEAN]
OpenType == [at : {"idle", "verify", "sent", "ok", "refused"}, start : BOOLEAN,
             sid : Session \cup {None}, asked : Time, left : 0..Timeout]
IdleType == [last : Clock, reported : Clock, pending : BOOLEAN]
CallType == [Kind -> [at : Stages, sid : Session \cup {None}]]
AdriftType == SUBSET [kind : {"report", "end"}, sid : Session]
Types ==
  /\ now \in Time /\ server \in Rows /\ tab \in TabType /\ page \in PageType
  /\ open \in OpenType /\ idle \in IdleType /\ call \in CallType
  /\ queued \in BOOLEAN /\ over \subseteq Session /\ adrift \in AdriftType

(* The page is opening while a bootstrap runs, and has a session while it  *)
(* is signed in.                                                           *)
Phases == (page.stage = "opening" <=> open.at # "idle") /\ (page.sid # None <=> SignedIn)

LEMMA TypeParts == TypeOK <=> Types /\ Phases
  BY DEF TypeOK, Types, Phases, Rows, TabType, PageType, OpenType, IdleType, CallType,
     AdriftType, SignedIn

(* The server's side: rows are never forgotten, and activity only grows.   *)
Later(rows) ==
  /\ rows \in Rows
  /\ \A s \in Session : /\ server[s].state # "none" => rows[s].state # "none"
                        /\ server[s].activity <= rows[s].activity
                        /\ rows[s].activity <= now

LEMMA TypePartsNext == TypeOK' <=> Types' /\ Phases'
  BY DEF TypeOK, Types, Phases, Rows, TabType, PageType, OpenType, IdleType, CallType,
     AdriftType, SignedIn

LEMMA ServerGrows ==
  ASSUME TypeOK, TimesPassed
  PROVE  /\ Later(server) /\ Later(Swept)
         /\ \A s \in Session : Later(Checked(s)) /\ Later(Renewed(s)) /\ Later(Closed(s))
<1> USE TimeIsInt
<1>1. server \in Rows /\ now \in Time
  BY DEF TypeOK, Rows
<1>2. \A t \in Session : server[t].activity \in Int
  BY <1>1 DEF Rows
<1>3. Later(server)
  BY <1>1, <1>2 DEF Later, TimesPassed
<1>4. Swept \in Rows
  BY <1>1 DEF Rows, Swept
<1>5. \A t \in Session : /\ server[t].state # "none" => Swept[t].state # "none"
                         /\ Swept[t].activity = server[t].activity
  BY <1>1 DEF Rows, Swept
<1>6. Later(Swept)
  BY <1>2, <1>4, <1>5 DEF Later, TimesPassed
<1>7. ASSUME NEW s \in Session
      PROVE  Later(Checked(s)) /\ Later(Renewed(s)) /\ Later(Closed(s))
  <2>1. Later(Checked(s))
    BY <1>1, <1>2, <1>3 DEF Later, Checked, Rows, TimesPassed
  <2>2. Later([server EXCEPT ![s].activity = now])
    BY <1>1, <1>2 DEF Later, Rows, TimesPassed
  <2>3. Later(Renewed(s))
    BY <2>1, <2>2 DEF Renewed
  <2>4. Later(Closed(s))
    BY <1>2, <1>4, <1>5 DEF Later, Closed, Rows, TimesPassed
  <2> QED
    BY <2>1, <2>3, <2>4
<1> QED
  BY <1>3, <1>6, <1>7

(* A step of the server or the clock that leaves the tab alone.            *)
LEMMA ServerStep ==
  ASSUME IInv, now' \in Time, now <= now', server' \in Rows,
         \A s \in Session : /\ server[s].state # "none" => server'[s].state # "none"
                            /\ server[s].activity <= server'[s].activity
                            /\ server'[s].activity <= now',
         adrift' \subseteq adrift, UNCHANGED <<tab, pageVars, over>>
  PROVE  IInv'
<1> USE TimeIsInt DEF pageVars
<1>1. Types /\ Phases /\ Types' /\ Phases'
  BY TypeParts DEF IInv, Types, Phases, AdriftType, SignedIn
<1>2. /\ now \in Int /\ now' \in Int /\ open.asked \in Int /\ open.left \in Int /\ idle.last \in Int
      /\ \A s \in Session : server[s].activity \in Int /\ server'[s].activity \in Int
      /\ {page.sid, tab.sid, open.sid} \subseteq Session \cup {None}
      /\ SignedIn => page.sid \in Session
  BY <1>1 DEF Types, Phases, Rows, TabType, PageType, OpenType, IdleType
<1>3. TimesPassed'
  BY <1>2 DEF IInv, TimesPassed
<1>4. OpeningFits'
  BY <1>2 DEF IInv, OpeningFits
<1>5. CallsFit'
  BY DEF IInv, CallsFit, SignedIn
<1>6. Counted'
  <2>1. SignedIn' <=> SignedIn
    BY DEF SignedIn
  <2>2. SignedIn /\ idle.last <= server[page.sid].activity => idle.last <= server'[page.sid].activity
    BY <1>2
  <2> QED
    BY <2>1, <2>2 DEF IInv, Counted
<1>7. NeverBack'
  BY <1>1, <1>2 DEF IInv, NeverBack, Types
<1> QED
  BY TypePartsNext, <1>1, <1>3, <1>4, <1>5, <1>6, <1>7 DEF IInv

LEMMA InitInv == Init => IInv
<1> SUFFICES ASSUME Init PROVE IInv
  OBVIOUS
<1> USE TabAssumption, TimeIsInt
<1>1. Types
  <2>1. now \in Time /\ server \in Rows
    BY DEF Init, Rows
  <2>2. tab \in TabType /\ page \in PageType /\ idle \in IdleType
    BY DEF Init, TabType, PageType, IdleType, AtLogin, NoIdle
  <2>3. open \in OpenType
    BY DEF Init, OpenType, NotOpening
  <2>4. call \in CallType
    BY DEF Init, CallType, NoCalls, NoCall, Stages
  <2> QED
    BY <2>1, <2>2, <2>3, <2>4 DEF Init, Types, AdriftType
<1>2. Phases
  BY DEF Init, Phases, SignedIn, AtLogin, NotOpening
<1> QED
  BY <1>1, <1>2, TypeParts DEF Init, IInv, TimesPassed, OpeningFits, CallsFit, Counted, NeverBack, SignedIn,
     AtLogin, NotOpening, NoIdle, NoCalls, NoCall

-----------------------------------------------------------------------------
(* The steps, those of the server and the clock first.                     *)
LEMMA Facts ==
  ASSUME IInv
  PROVE  /\ Types /\ Phases
         /\ now \in Int /\ open.asked \in Int /\ open.left \in Int /\ idle.last \in Int
         /\ \A s \in Session : server[s].activity \in Int
         /\ {page.sid, tab.sid, open.sid} \subseteq Session \cup {None}
         /\ SignedIn => page.sid \in Session
<1>1. Types /\ Phases
  BY TypeParts DEF IInv
<1> QED
  BY <1>1, TimeIsInt DEF Types, Phases, Rows, TabType, PageType, OpenType, IdleType

LEMMA ServeKindLater ==
  ASSUME IInv, NEW k \in Kind, NEW s \in Session, ServeKind(k, s)
  PROVE  Later(server')
  BY ServerGrows DEF IInv, ServeKind, Kind

LEMMA TickStep == IInv /\ Tick => IInv'
<1> SUFFICES ASSUME IInv, Tick PROVE IInv'
  OBVIOUS
<1>1. Types /\ now \in Int /\ Later(server)
  BY Facts, ServerGrows DEF IInv
<1>2. now' \in Time /\ now <= now'
  BY <1>1, TabAssumption DEF Tick, Types, Time
<1> QED
  BY <1>1, <1>2, ServerStep, Facts DEF Tick, Types, IInv, TimesPassed

LEMMA SweepStep == IInv /\ Sweep => IInv'
  BY ServerStep, ServerGrows, Facts, TimeIsInt DEF IInv, Sweep, Later, Types

LEMMA ServeAdriftStep == IInv /\ ServeAdrift => IInv'
<1> SUFFICES ASSUME IInv, NEW m \in adrift, ServeKind(m.kind, m.sid), adrift' = adrift \ {m},
                    UNCHANGED <<now, tab, pageVars, over>>
             PROVE  IInv'
  BY DEF ServeAdrift
<1>1. m.kind \in Kind /\ m.sid \in Session
  BY Facts DEF Types, AdriftType, Kind
<1>2. Later(server')
  BY <1>1, ServeKindLater
<1> QED
  BY <1>2, ServerStep, Facts DEF Later, Types

-----------------------------------------------------------------------------
(* The steps of a bootstrap: no call of the page is under way then.        *)
LEMMA LoadStep == ASSUME IInv, NEW fresh \in BOOLEAN, Load(fresh) PROVE IInv'
<1> USE TabAssumption, TimeIsInt, Facts
<1>1. /\ call' = NoCalls /\ idle' = NoIdle /\ queued' = FALSE
      /\ adrift' = adrift \cup UNION {Abandoned(k) : k \in Kind}
      /\ UNCHANGED <<now, server, tab, over>>
  BY DEF Load
<1>2. \/ page' = AtLogin /\ open' = NotOpening
      \/ /\ page' = [stage |-> "opening", sid |-> None, error |-> FALSE]
         /\ \/ open' = [at |-> "verify", start |-> TRUE, sid |-> None, asked |-> 0, left |-> 0]
            \/ /\ tab.sid # None
               /\ open' = [at |-> "verify", start |-> FALSE, sid |-> tab.sid, asked |-> 0, left |-> 0]
  BY DEF Load, BootstrapAction, NotOpening, AtLogin
<1>3. \A k \in Kind : Abandoned(k) \subseteq [kind : {"report", "end"}, sid : Session]
  BY DEF IInv, CallsFit, Abandoned, Kind
<1>4. Types'
  <2>1. call' \in CallType
    BY <1>1 DEF CallType, NoCalls, NoCall, Stages
  <2>2. page' \in PageType
    <3>1. AtLogin \in PageType /\ [stage |-> "opening", sid |-> None, error |-> FALSE] \in PageType
      BY DEF PageType, AtLogin
    <3> QED
      BY <1>2, <3>1
  <2>3. open' \in OpenType
    <3>1. ASSUME NEW start \in BOOLEAN, NEW sid \in Session \cup {None}, NEW at \in {"idle", "verify"}
          PROVE  [at |-> at, start |-> start, sid |-> sid, asked |-> 0, left |-> 0] \in OpenType
      BY DEF OpenType
    <3>2. NotOpening \in OpenType
      BY <3>1 DEF NotOpening
    <3>3. tab.sid \in Session \cup {None}
      OBVIOUS
    <3> QED
      BY <1>2, <3>1, <3>2, <3>3
  <2>4. idle' \in IdleType /\ adrift' \in AdriftType
    BY <1>1, <1>3 DEF IdleType, NoIdle, AdriftType, Types
  <2> QED
    BY <1>1, <2>1, <2>2, <2>3, <2>4 DEF Types
<1>5. Phases' /\ ~SignedIn'
  BY <1>2 DEF Phases, SignedIn, AtLogin, NotOpening
<1>6. 0 <= now /\ 0 \in Int
  BY DEF Types, Time
<1>7. TimesPassed'
  BY <1>1, <1>2, <1>6 DEF IInv, TimesPassed, NoIdle, NotOpening
<1>8. OpeningFits' /\ NeverBack'
  BY <1>1, <1>2 DEF IInv, TimesPassed, OpeningFits, NeverBack, Types, Time, NoIdle, AtLogin, NotOpening
<1>9. CallsFit' /\ Counted'
  BY <1>1, <1>5 DEF CallsFit, Counted, SignedIn, NoCalls, NoCall, NoIdle
<1> QED
  BY TypePartsNext, <1>4, <1>5, <1>7, <1>8, <1>9 DEF IInv

LEMMA GiveUpStep == IInv /\ page.stage = "opening" /\ GiveUpOpening => IInv'
<1> SUFFICES ASSUME IInv, page.stage = "opening", GiveUpOpening PROVE IInv'
  OBVIOUS
<1> USE TabAssumption, TimeIsInt, Facts DEF GiveUpOpening
<1>1. Types' /\ Phases' /\ ~SignedIn'
  BY DEF Types, Phases, PageType, OpenType, TabType, SignedIn, AtLogin, NotOpening, Locked
<1>2. TimesPassed' /\ OpeningFits' /\ NeverBack'
  BY DEF IInv, TimesPassed, OpeningFits, NeverBack, Types, Time, AtLogin, NotOpening, Locked
<1>3. CallsFit' /\ Counted'
  BY <1>1 DEF IInv, CallsFit, Counted, SignedIn
<1> QED
  BY TypePartsNext, <1>1, <1>2, <1>3 DEF IInv

(* A step that leaves page, idle monitor and calls alone while a page      *)
(* opens.                                                                  *)
LEMMA OpeningStep ==
  ASSUME IInv, page.stage = "opening", open' \in OpenType, open'.at # "idle", Later(server'),
         open'.asked <= now, OpeningFits', open'.sid \in Session => server'[open'.sid].state # "none",
         open'.sid \notin over,
         UNCHANGED <<now, tab, page, idle, call, queued, adrift, over>>
  PROVE  IInv'
<1> USE TabAssumption, TimeIsInt, Facts
<1>1. Types' /\ Phases' /\ ~SignedIn'
  BY DEF Types, Phases, SignedIn, Later
<1>2. TimesPassed' /\ NeverBack'
  BY DEF IInv, TimesPassed, NeverBack, Types, Later, OpenType
<1>3. CallsFit' /\ Counted'
  BY <1>1 DEF IInv, CallsFit, Counted, SignedIn
<1> QED
  BY TypePartsNext, <1>1, <1>2, <1>3 DEF IInv

LEMMA OpenSessionStep == IInv /\ OpenSession => IInv'
<1> SUFFICES ASSUME IInv, OpenSession PROVE IInv'
  OBVIOUS
<1> USE TabAssumption, TimeIsInt, Facts DEF OpenSession
<1>1. page.stage = "opening"
  BY DEF Phases
<1>2. open \in OpenType /\ now \in Time
  BY DEF Types
<1>3. /\ open' \in OpenType
      /\ open'.at = "sent" /\ open'.asked = now /\ open'.sid = open.sid /\ open'.start = open.start
  BY <1>2 DEF OpenType
<1>4. OpeningFits'
  BY <1>3 DEF IInv, OpeningFits
<1>5. Later(server')
  BY ServerGrows DEF IInv
<1> QED
  BY <1>1, <1>3, <1>4, <1>5, OpeningStep DEF IInv, NeverBack

LEMMA NoAccountStep == IInv /\ NoAccount => IInv'
<1> SUFFICES ASSUME IInv, NoAccount PROVE IInv'
  OBVIOUS
<1> USE TabAssumption, TimeIsInt, Facts DEF NoAccount
<1>1. page.stage = "opening"
  BY DEF Phases
<1>2. Types' /\ Phases' /\ ~SignedIn'
  BY DEF Types, Phases, PageType, OpenType, SignedIn, AtLogin, NotOpening
<1>3. TimesPassed' /\ OpeningFits' /\ NeverBack'
  BY DEF IInv, TimesPassed, OpeningFits, NeverBack, Types, Time, AtLogin, NotOpening
<1>4. CallsFit' /\ Counted'
  BY <1>1, <1>2 DEF IInv, CallsFit, Counted, SignedIn
<1> QED
  BY TypePartsNext, <1>2, <1>3, <1>4 DEF IInv

LEMMA ServeOpenStep == IInv /\ ServeOpen => IInv'
<1> SUFFICES ASSUME IInv, ServeOpen PROVE IInv'
  OBVIOUS
<1> USE TabAssumption, TimeIsInt, Facts
<1>1. page.stage = "opening" /\ open.at = "sent"
  BY DEF Phases, ServeOpen
<1>2. open \in OpenType /\ now \in Time /\ server \in Rows
  BY DEF Types
<1>3. Later(Swept) /\ Later(server) /\ \A s \in Session : Later(Checked(s))
  BY ServerGrows DEF IInv
<1>4. UNCHANGED <<now, tab, page, idle, call, queued, adrift, over>>
  BY DEF ServeOpen
<1>5. ASSUME NEW s \in Session, open.start, server[s].state = "none",
             server' = [Swept EXCEPT ![s] = [state |-> "open", activity |-> now]],
             open' = [open EXCEPT !.at = "ok", !.sid = s, !.left = Timeout]
      PROVE  IInv'
  <2>1. /\ open' \in OpenType /\ open'.at = "ok" /\ open'.sid = s /\ open'.left = Timeout
        /\ open'.asked = open.asked /\ open'.start = open.start
    <3>1. Timeout \in 0..Timeout
      OBVIOUS
    <3> QED
      BY <1>2, <1>5, <3>1 DEF OpenType
  <2>2. Later(server') /\ server'[s].state = "open" /\ server'[s].activity = now
    BY <1>2, <1>3, <1>5 DEF Later, Rows, IInv, TimesPassed
  <2>3. OpeningFits'
    BY <2>1, <2>2 DEF OpeningFits, IInv, TimesPassed
  <2>4. s \notin over
    BY <1>5 DEF IInv, NeverBack
  <2> QED
    BY <1>1, <1>4, <2>1, <2>2, <2>3, <2>4, OpeningStep DEF IInv, TimesPassed
<1>6. ASSUME ~open.start, Refuses(open.sid), server' = Checked(open.sid),
             open' = [open EXCEPT !.at = "refused"]
      PROVE  IInv'
  <2>1. open.sid \in Session
    BY <1>1, <1>6 DEF IInv, OpeningFits
  <2>2. /\ open' \in OpenType /\ open'.at = "refused" /\ open'.sid = open.sid
        /\ open'.asked = open.asked /\ open'.start = open.start
    BY <1>2, <1>6 DEF OpenType
  <2>3. Later(server')
    BY <1>3, <1>6, <2>1
  <2>4. OpeningFits'
    BY <2>1, <2>2 DEF OpeningFits
  <2> QED
    BY <1>1, <1>4, <2>1, <2>2, <2>3, <2>4, OpeningStep DEF IInv, TimesPassed, NeverBack, Later
<1>7. ASSUME ~open.start, ~Refuses(open.sid), UNCHANGED server,
             open' = [open EXCEPT !.at = "ok", !.left = server[open.sid].activity + Timeout - now]
      PROVE  IInv'
  <2>1. open.sid \in Session
    BY <1>1, <1>7 DEF IInv, OpeningFits
  <2>2. server[open.sid].activity + Timeout - now \in 0..Timeout
    BY <1>7, <2>1 DEF Refuses, Stale, IInv, TimesPassed
  <2>3. /\ open' \in OpenType /\ open'.at = "ok" /\ open'.sid = open.sid
        /\ open'.left = server[open.sid].activity + Timeout - now
        /\ open'.asked = open.asked /\ open'.start = open.start
    BY <1>2, <1>7, <2>2 DEF OpenType
  <2>4. OpeningFits'
    BY <1>7, <2>1, <2>3 DEF OpeningFits, IInv, TimesPassed
  <2> QED
    BY <1>1, <1>3, <1>4, <1>7, <2>1, <2>3, <2>4, OpeningStep DEF IInv, TimesPassed, NeverBack
<1> QED
  BY <1>5, <1>6, <1>7 DEF ServeOpen

LEMMA OpenAnsweredStep == IInv /\ OpenAnswered => IInv'
<1> SUFFICES ASSUME IInv, OpenAnswered PROVE IInv'
  OBVIOUS
<1> USE TabAssumption, TimeIsInt, Facts
<1>1. page.stage = "opening" /\ open.at = "ok"
  BY DEF Phases, OpenAnswered
<1>2. CASE Remaining <= 0
  BY <1>1, <1>2, GiveUpStep DEF OpenAnswered
<1>3. CASE ~(Remaining <= 0)
  <2>1. /\ tab' = [locked |-> FALSE, sid |-> open.sid]
        /\ page' = [stage |-> "signed_in", sid |-> open.sid, error |-> FALSE]
        /\ idle' = [last |-> now - Timeout + Remaining, reported |-> 0 - ReportGap, pending |-> FALSE]
        /\ open' = NotOpening /\ UNCHANGED <<now, server, call, queued, adrift, over>>
    BY <1>3 DEF OpenAnswered
  <2>2. open.sid \in Session /\ open.sid # None
    BY <1>1 DEF IInv, OpeningFits
  <2>3. /\ idle'.last <= server[open.sid].activity /\ idle'.last <= now
        /\ idle'.last \in Clock /\ 0 - ReportGap \in Clock
    <3>1. now - Timeout + Remaining = open.left + open.asked - Timeout
      BY DEF Remaining
    <3>2. open.left + open.asked - Timeout <= server[open.sid].activity /\ server[open.sid].activity <= now
      BY <1>1, <2>2 DEF IInv, OpeningFits, TimesPassed
    <3>3. now - Timeout + Remaining > 0 - Timeout /\ now <= MaxNow
      BY <1>3, <3>1 DEF Remaining, Types, Time
    <3> QED
      BY <2>1, <2>2, <3>1, <3>2, <3>3 DEF Clock
  <2>4. Types'
    <3>1. tab' \in TabType /\ page' \in PageType /\ idle' \in IdleType
      BY <2>1, <2>2, <2>3 DEF TabType, PageType, IdleType
    <3>2. open' \in OpenType
      BY <2>1 DEF OpenType, NotOpening
    <3> QED
      BY <2>1, <3>1, <3>2 DEF Types
  <2>5. Phases' /\ SignedIn'
    BY <2>1, <2>2 DEF Phases, SignedIn, NotOpening
  <2>6. TimesPassed'
    BY <2>1, <2>3 DEF IInv, TimesPassed, NotOpening, Types, Time
  <2>7. OpeningFits' /\ NeverBack'
    <3>1. None \notin over
      BY DEF Types
    <3> QED
      BY <1>1, <2>1, <2>2, <3>1 DEF IInv, OpeningFits, NeverBack, NotOpening
  <2>8. CallsFit' /\ Counted'
    BY <1>1, <2>1, <2>3, <2>5 DEF IInv, CallsFit, Counted, SignedIn
  <2> QED
    BY TypePartsNext, <2>4, <2>5, <2>6, <2>7, <2>8 DEF IInv
<1> QED
  BY <1>2, <1>3

-----------------------------------------------------------------------------
(* The end of a session, as finishSession leaves the page.                 *)
LEMMA EndStep ==
  ASSUME IInv, SignedIn, Later(server'), NEW calls \in CallType,
         \A k \in Kind : calls[k].at # "idle" => calls[k].sid \in Session,
         page' = Ended, tab' = Locked, over' = over \cup {page.sid}, idle' = NoIdle, queued' = FALSE,
         call' = [calls EXCEPT !["end"] = [at |-> "token", sid |-> page.sid]],
         UNCHANGED <<now, open, adrift>>
  PROVE  IInv'
<1> USE TabAssumption, TimeIsInt, Facts
<1>1. page.sid \in Session /\ open.at = "idle" /\ open.sid = None
  BY DEF Phases, SignedIn, IInv, OpeningFits
<1>2. page' \in PageType /\ tab' \in TabType /\ idle' \in IdleType
  BY DEF PageType, TabType, IdleType, Ended, AtLogin, Locked, NoIdle
<1>3. call' \in CallType /\ \A k \in Kind : call'[k].at # "idle" => call'[k].sid \in Session
  BY <1>1 DEF CallType, Kind, Stages
<1>4. Types'
  BY <1>1, <1>2, <1>3 DEF Types, Later
<1>5. Phases' /\ page'.stage = "ended" /\ page'.sid = None /\ ~SignedIn'
  BY <1>1 DEF Phases, SignedIn, Ended, AtLogin
<1>6. TimesPassed'
  <2>1. 0 <= now
    BY DEF Types, Time
  <2> QED
    BY <2>1 DEF IInv, TimesPassed, Later, NoIdle
<1>7. OpeningFits'
  BY <1>1 DEF IInv, OpeningFits
<1>8. NeverBack'
  <2>1. server[page.sid].state # "none" /\ None \notin over
    BY <1>1 DEF IInv, NeverBack, Types
  <2> QED
    BY <1>1, <1>5, <2>1 DEF IInv, NeverBack, Types, Later, Locked
<1>9. CallsFit' /\ Counted'
  BY <1>3, <1>5 DEF CallsFit, Counted, SignedIn, NoIdle
<1> QED
  BY TypePartsNext, <1>4, <1>5, <1>6, <1>7, <1>8, <1>9 DEF IInv

LEMMA FinishStep ==
  ASSUME IInv, SignedIn, NEW calls \in CallType, Finish(calls),
         \A k \in Kind : calls[k].at # "idle" => calls[k].sid \in Session
  PROVE  IInv'
<1>1. Later(server')
  BY ServerGrows DEF IInv, Finish
<1> QED
  BY <1>1, EndStep DEF Finish

LEMMA EndingSteps == IInv /\ (SignOut \/ Check \/ CallRefused) => IInv'
<1> SUFFICES ASSUME IInv, SignOut \/ Check \/ CallRefused PROVE IInv'
  OBVIOUS
<1>1. call \in CallType /\ \A k \in Kind : call[k].at # "idle" => call[k].sid \in Session
  BY Facts DEF IInv, CallsFit, Types
<1>2. CASE SignOut \/ Check
  BY <1>1, <1>2, FinishStep DEF SignOut, Check
<1>3. CASE CallRefused
  <2>1. Later(server')
    BY <1>3, ServerGrows, Facts DEF IInv, CallRefused
  <2> QED
    BY <1>1, <1>3, <2>1, EndStep DEF CallRefused, Asked
<1> QED
  BY <1>2, <1>3

-----------------------------------------------------------------------------
(* The steps of a page that stays what it is, each about one call.         *)
CallRecord == [at : Stages, sid : Session \cup {None}]

LEMMA Restaged ==
  ASSUME Types, NEW k \in Kind, NEW a \in Stages
  PROVE  /\ [at |-> a, sid |-> call[k].sid] \in CallRecord
         /\ [call EXCEPT ![k].at = a] = [call EXCEPT ![k] = [at |-> a, sid |-> call[k].sid]]
<1>1. call[k] \in CallRecord
  BY DEF Types, CallType, CallRecord
<1>2. [call[k] EXCEPT !.at = a] = [at |-> a, sid |-> call[k].sid]
  BY <1>1 DEF CallRecord
<1> QED
  BY <1>1, <1>2 DEF CallRecord

LEMMA OneCall ==
  ASSUME IInv, NEW k \in Kind, NEW c \in CallRecord, call' = [call EXCEPT ![k] = c],
         \/ c.at = "idle"
         \/ call[k].at # "idle" /\ c.sid = call[k].sid
         \/ SignedIn /\ c.sid = page.sid,
         page'.stage = page.stage, page'.sid = page.sid, queued' \/ idle'.pending => SignedIn
  PROVE  /\ call' \in CallType /\ CallsFit' /\ call'[k] = c
         /\ \A j \in Kind \ {k} : call'[j] = call[j]
<1> USE Facts
<1>1. /\ call' \in CallType /\ call'[k] = c
      /\ \A j \in Kind \ {k} : call'[j] = call[j]
  BY DEF CallType, CallRecord, Types
<1>2. SignedIn' <=> SignedIn
  BY DEF SignedIn
<1>3. c.at # "idle" => c.sid \in Session /\ (SignedIn => c.sid = page.sid)
                       /\ page.stage \notin {"login", "opening"}
  BY DEF IInv, CallsFit, SignedIn
<1>4. CallsFit'
  BY <1>1, <1>2, <1>3 DEF IInv, CallsFit
<1> QED
  BY <1>1, <1>4

LEMMA PageStep ==
  ASSUME IInv, Later(server'), page' \in PageType, page'.stage = page.stage, page'.sid = page.sid,
         idle' \in IdleType, idle'.last <= now, call' \in CallType, queued' \in BOOLEAN,
         adrift' \in AdriftType, CallsFit', Counted', UNCHANGED <<now, tab, open, over>>
  PROVE  IInv'
<1> USE TimeIsInt, Facts
<1>1. Types' /\ Phases'
  BY DEF Types, Phases, SignedIn, Later
<1>2. TimesPassed' /\ OpeningFits' /\ NeverBack'
  <2>1. TimesPassed'
    BY DEF IInv, TimesPassed, Later
  <2>2. OpeningFits'
    <3>1. open.sid \in Session => server[open.sid].activity <= server'[open.sid].activity
                                  /\ server'[open.sid].activity \in Int
      BY DEF Later, Rows
    <3> QED
      BY <3>1 DEF IInv, OpeningFits
  <2>3. NeverBack'
    BY DEF IInv, NeverBack, Later, Types
  <2> QED
    BY <2>1, <2>2, <2>3
<1> QED
  BY TypePartsNext, <1>1, <1>2 DEF IInv

LEMMA BeatStep == IInv /\ Beat => IInv'
<1> SUFFICES ASSUME IInv, Beat PROVE IInv'
  OBVIOUS
<1> USE Facts DEF Beat
<1> DEFINE c == [at |-> "token", sid |-> page.sid]
<1>1. c \in CallRecord /\ call' = [call EXCEPT !["beat"] = c]
  BY DEF CallRecord, Stages, Asked
<1>2. /\ call' \in CallType /\ CallsFit'
      /\ \A j \in Kind \ {"beat"} : call'[j] = call[j]
  BY <1>1, OneCall DEF Kind, IInv, CallsFit
<1>3. Counted'
  BY <1>2 DEF IInv, Counted, SignedIn, Kind
<1> QED
  BY <1>2, <1>3, PageStep, ServerGrows DEF Types, IInv, TimesPassed

LEMMA SendStep == ASSUME IInv, NEW k \in Kind, Send(k) PROVE IInv'
<1> USE Facts DEF Send
<1> DEFINE c == IF k = "end" \/ SignedIn THEN [at |-> "sent", sid |-> call[k].sid] ELSE NoCall
<1>1. c \in CallRecord /\ call' = [call EXCEPT ![k] = c]
  <2>1. "sent" \in Stages /\ NoCall \in CallRecord
    BY DEF CallRecord, Stages, NoCall
  <2> QED
    BY <2>1, Restaged DEF Done
<1>2. /\ call' \in CallType /\ CallsFit' /\ call'[k] = c
      /\ \A j \in Kind \ {k} : call'[j] = call[j]
  BY <1>1, OneCall DEF Kind, IInv, CallsFit, NoCall
<1>3. Counted'
  BY <1>2 DEF IInv, Counted, SignedIn, Kind
<1> QED
  BY <1>2, <1>3, PageStep, ServerGrows DEF Types, IInv, TimesPassed

(* A report that is answered well has renewed the session.                 *)
LEMMA ServeStep == ASSUME IInv, NEW k \in Kind, Serve(k) PROVE IInv'
<1> USE Facts DEF Serve
<1> DEFINE a == IF k # "end" /\ Refuses(call[k].sid) THEN "refused" ELSE "ok"
           c == [at |-> a, sid |-> call[k].sid]
<1>1. call[k].sid \in Session
  BY DEF IInv, CallsFit
<1>2. c \in CallRecord /\ call' = [call EXCEPT ![k] = c]
  <2>1. a \in Stages
    BY DEF Stages
  <2> QED
    BY <2>1, Restaged
<1>3. /\ call' \in CallType /\ CallsFit' /\ call'[k] = c
      /\ \A j \in Kind \ {k} : call'[j] = call[j]
  BY <1>2, OneCall DEF Kind, IInv, CallsFit
<1>4. Later(server')
  BY <1>1, ServeKindLater
<1>5. Counted'
  <2>1. SUFFICES ASSUME SignedIn, ~idle.pending, ~queued
                 PROVE  \/ call'["report"].at \in {"token", "sent", "refused"}
                        \/ page.error /\ call'["report"].at = "idle"
                        \/ idle.last <= server'[page.sid].activity
    BY DEF Counted, SignedIn
  <2>2. CASE k = "report" /\ ~Refuses(call[k].sid)
    <3>1. server' = [server EXCEPT ![page.sid].activity = now]
      BY <2>1, <2>2, <1>1 DEF ServeKind, Renewed, IInv, CallsFit
    <3>2. server'[page.sid].activity = now
      BY <2>1, <3>1 DEF Types, Rows
    <3> QED
      BY <3>2 DEF IInv, TimesPassed
  <2>3. CASE k = "report" /\ Refuses(call[k].sid)
    BY <2>3, <1>3
  <2>4. CASE k # "report"
    <3>1. call'["report"] = call["report"]
      BY <2>4, <1>3 DEF Kind
    <3>2. /\ server[page.sid].activity <= server'[page.sid].activity
          /\ server'[page.sid].activity \in Int
      <4>1. page.sid \in Session /\ server' \in Rows
        BY <2>1, <1>4 DEF Later
      <4>2. server'[page.sid].activity \in Int
        BY <4>1, TimeIsInt DEF Rows
      <4> QED
        BY <4>1, <4>2, <1>4 DEF Later
    <3>3. \/ call["report"].at \in {"token", "sent", "refused"}
          \/ page.error /\ call["report"].at = "idle"
          \/ idle.last <= server[page.sid].activity
      BY <2>1 DEF IInv, Counted
    <3>4. server[page.sid].activity \in Int
      BY <2>1
    <3>5. idle.last <= server[page.sid].activity => idle.last <= server'[page.sid].activity
      BY <3>2, <3>4
    <3> QED
      BY <3>1, <3>3, <3>5
  <2> QED
    BY <2>2, <2>3, <2>4
<1> QED
  BY <1>3, <1>4, <1>5, PageStep DEF Types, IInv, TimesPassed

(* Activity is reported, or queued behind the report under way.            *)
LEMMA ActivityStep ==
  ASSUME IInv, SignedIn, ReportActivity, idle' \in IdleType, idle'.last <= now,
         UNCHANGED <<now, server, tab, page, open, adrift, over>>
  PROVE  IInv'
<1> USE Facts
<1> DEFINE c == [at |-> "token", sid |-> page.sid]
<1>1. c \in CallRecord /\ "report" \in Kind
  BY DEF CallRecord, Stages, Kind
<1>2. CASE call["report"].at = "idle"
  <2>1. call' = [call EXCEPT !["report"] = c] /\ UNCHANGED queued
    BY <1>2 DEF ReportActivity, Asked
  <2>2. call' \in CallType /\ CallsFit' /\ call'["report"] = c
    BY <1>1, <2>1, OneCall
  <2>3. Counted'
    BY <2>2 DEF Counted
  <2> QED
    BY <2>1, <2>2, <2>3, PageStep, ServerGrows DEF Types, IInv
<1>3. CASE call["report"].at # "idle"
  <2>1. queued' = TRUE /\ UNCHANGED call
    BY <1>3 DEF ReportActivity
  <2>2. CallsFit' /\ Counted'
    BY <2>1 DEF IInv, CallsFit, Counted, SignedIn
  <2> QED
    BY <2>1, <2>2, PageStep, ServerGrows DEF Types, IInv
<1> QED
  BY <1>2, <1>3

LEMMA StayActiveStep == IInv /\ StayActive => IInv'
<1> SUFFICES ASSUME IInv, StayActive PROVE IInv'
  OBVIOUS
<1> USE Facts
<1>1. SignedIn /\ call \in CallType /\ \A k \in Kind : call[k].at # "idle" => call[k].sid \in Session
  BY DEF IInv, CallsFit, Types, StayActive
<1>2. CASE Lapsed
  BY <1>1, <1>2, FinishStep DEF StayActive
<1>3. CASE ~Lapsed /\ now - idle.reported >= ReportGap
  <2>1. idle' = [last |-> now, reported |-> now, pending |-> FALSE]
    BY <1>3 DEF StayActive
  <2>2. idle' \in IdleType /\ idle'.last <= now
    BY <2>1, TabAssumption DEF IdleType, Types, Time, Clock
  <2> QED
    BY <1>1, <1>3, <2>2, ActivityStep DEF StayActive
<1>4. CASE ~Lapsed /\ ~(now - idle.reported >= ReportGap)
  <2>1. idle' = [idle EXCEPT !.last = now, !.pending = TRUE] /\ UNCHANGED <<call, queued>>
        /\ UNCHANGED <<now, server, tab, page, open, adrift, over>>
    BY <1>4 DEF StayActive
  <2>2. now \in Clock
    BY TabAssumption DEF Types, Time, Clock
  <2>3. idle' \in IdleType /\ idle'.last = now /\ idle'.pending = TRUE
    BY <2>1, <2>2 DEF IdleType, Types
  <2>4. CallsFit' /\ Counted'
    BY <1>1, <2>1, <2>3 DEF IInv, CallsFit, Counted, SignedIn
  <2> QED
    BY <2>1, <2>3, <2>4, PageStep, ServerGrows DEF Types, IInv
<1> QED
  BY <1>2, <1>3, <1>4

LEMMA ReportStep == IInv /\ Report => IInv'
<1> SUFFICES ASSUME IInv, Report PROVE IInv'
  OBVIOUS
<1> USE Facts
<1>1. SignedIn /\ call \in CallType /\ \A k \in Kind : call[k].at # "idle" => call[k].sid \in Session
  BY DEF IInv, CallsFit, Types, Report
<1>2. CASE Lapsed
  BY <1>1, <1>2, FinishStep DEF Report
<1>3. CASE ~Lapsed
  <2>1. idle' = [idle EXCEPT !.reported = now, !.pending = FALSE]
    BY <1>3 DEF Report
  <2>2. now \in Clock
    BY TabAssumption DEF Types, Time, Clock
  <2>3. idle' \in IdleType /\ idle'.last <= now
    BY <2>1, <2>2 DEF IdleType, Types, IInv, TimesPassed
  <2> QED
    BY <1>1, <1>3, <2>3, ActivityStep DEF Report
<1> QED
  BY <1>2, <1>3

(* A report is settled, well or as failed: the queued one follows, or what *)
(* was counted is with the server, or the failure is shown.                *)
LEMMA ReportEndsStep ==
  ASSUME IInv, NEW failed \in BOOLEAN, ReportEnds(Done("report"), failed),
         failed \/ ~SignedIn \/ call["report"].at = "ok", adrift' \in AdriftType,
         UNCHANGED <<now, server, tab, open, idle, over>>
  PROVE  IInv'
<1> USE Facts DEF ReportEnds
<1> DEFINE c == IF queued THEN [at |-> "token", sid |-> page.sid] ELSE NoCall
<1>1. c \in CallRecord /\ "report" \in Kind /\ call' = [call EXCEPT !["report"] = c]
  BY DEF CallRecord, Stages, Kind, NoCall, Asked, Done
<1>2. /\ page' \in PageType /\ page'.stage = page.stage /\ page'.sid = page.sid
      /\ SignedIn => page'.error = failed
  BY DEF Types, PageType
<1>3. queued => SignedIn
  BY DEF IInv, CallsFit
<1>4. queued' = FALSE /\ (idle'.pending => SignedIn)
  BY DEF IInv, CallsFit
<1>5. call' \in CallType /\ CallsFit' /\ call'["report"] = c
  BY <1>1, <1>2, <1>3, <1>4, OneCall DEF NoCall
<1>6. Counted'
  <2>1. SUFFICES ASSUME SignedIn, ~idle.pending, ~queued
                 PROVE  \/ page'.error /\ call'["report"].at = "idle"
                        \/ idle.last <= server[page.sid].activity
    BY <1>2, <1>5 DEF Counted, SignedIn
  <2>2. CASE failed
    BY <1>2, <1>5, <2>1, <2>2 DEF NoCall
  <2>3. CASE call["report"].at = "ok"
    BY <2>1, <2>3 DEF IInv, Counted
  <2> QED
    BY <2>1, <2>2, <2>3
<1> QED
  BY <1>2, <1>4, <1>5, <1>6, PageStep, ServerGrows DEF Types, IInv, TimesPassed

LEMMA CallDoneStep ==
  ASSUME IInv, NEW k \in Kind \ {"report"}, call' = Done(k), adrift' \in AdriftType,
         UNCHANGED <<now, server, tab, page, open, idle, queued, over>>
  PROVE  IInv'
<1> USE Facts
<1>1. NoCall \in CallRecord /\ call' = [call EXCEPT ![k] = NoCall] /\ "report" \in Kind \ {k}
  BY DEF CallRecord, Stages, NoCall, Done, Kind
<1>2. /\ call' \in CallType /\ CallsFit'
      /\ \A j \in Kind \ {k} : call'[j] = call[j]
  BY <1>1, OneCall DEF NoCall, IInv, CallsFit
<1>3. Counted'
  BY <1>1, <1>2 DEF IInv, Counted, SignedIn
<1> QED
  BY <1>2, <1>3, PageStep, ServerGrows DEF Types, IInv, TimesPassed

LEMMA AnsweredStep == ASSUME IInv, NEW k \in Kind, Answered(k) PROVE IInv'
<1> USE Facts
<1>1. CASE call[k].at = "refused" /\ SignedIn /\ Finish(Done(k))
  <2>1. /\ Done(k) \in CallType
        /\ \A j \in Kind : Done(k)[j].at # "idle" => Done(k)[j].sid \in Session
    BY DEF Done, NoCall, CallType, Stages, Types, IInv, CallsFit
  <2> QED
    BY <1>1, <2>1, FinishStep
<1>2. CASE ~(call[k].at = "refused" /\ SignedIn /\ Finish(Done(k)))
  <2>1. /\ call[k].at = "ok" \/ ~SignedIn
        /\ IF k = "report" THEN ReportEnds(Done(k), FALSE)
           ELSE call' = Done(k) /\ UNCHANGED <<page, queued>>
        /\ UNCHANGED <<now, server, tab, open, idle, adrift, over>>
    BY <1>2 DEF Answered
  <2>2. adrift' \in AdriftType
    BY <2>1 DEF Types
  <2> QED
    BY <2>1, <2>2, ReportEndsStep, CallDoneStep
<1> QED
  BY <1>1, <1>2

LEMMA CallFailsStep == ASSUME IInv, NEW k \in Kind, CallFails(k) PROVE IInv'
<1> USE Facts
<1>1. adrift' \in AdriftType
  BY DEF CallFails, Abandoned, AdriftType, Kind, Types, IInv, CallsFit
<1> QED
  BY <1>1, ReportEndsStep, CallDoneStep DEF CallFails

-----------------------------------------------------------------------------
(* Every step keeps the invariant.                                         *)
LEMMA NextInv == IInv /\ [Next]_vars => IInv'
<1> SUFFICES ASSUME IInv, [Next]_vars PROVE IInv'
  OBVIOUS
<1>1. CASE Tick \/ Sweep
  BY <1>1, TickStep, SweepStep
<1>2. CASE Input
  BY <1>2, StayActiveStep, EndingSteps, LoadStep DEF Input
<1>3. CASE Opening
  BY <1>3, OpenSessionStep, NoAccountStep, ServeOpenStep, OpenAnsweredStep, GiveUpStep
     DEF Opening, FailOpening
<1>4. CASE Timers
  BY <1>4, EndingSteps, ReportStep, BeatStep DEF Timers
<1>5. CASE Calls
  BY <1>5, EndingSteps, ServeAdriftStep, SendStep, ServeStep, AnsweredStep, CallFailsStep DEF Calls
<1>6. CASE UNCHANGED vars
  BY <1>6 DEF vars, pageVars, IInv, TypeOK, TimesPassed, OpeningFits, CallsFit, Counted, NeverBack,
     SignedIn
<1> QED
  BY <1>1, <1>2, <1>3, <1>4, <1>5, <1>6 DEF Next

LEMMA Invariance == Spec => []IInv
<1> QED
  BY InitInv, NextInv, PTL DEF Spec

(* Every variable keeps its type, a page is opening exactly while its      *)
(* bootstrap runs, and has a session exactly while it is signed in.        *)
THEOREM TypeCorrect == Spec => []TypeOK
<1>1. IInv => TypeOK
  BY DEF IInv
<1> QED
  BY <1>1, Invariance, PTL

(* While nothing is reported or about to be, and no failure is shown, the  *)
(* server has counted at least the activity the page counts.               *)
THEOREM ClocksAgree == Spec => []IdleClocksAgree
<1>1. IInv => IdleClocksAgree
  BY DEF IInv, Counted, IdleClocksAgree, Outstanding
<1> QED
  BY <1>1, Invariance, PTL

(* A session the tab has given up is never again the page's or the tab's.  *)
THEOREM NeverBackInUse == Spec => []GivenUpStaysSo
<1>1. IInv => GivenUpStaysSo
  BY DEF IInv, NeverBack, GivenUpStaysSo
<1> QED
  BY <1>1, Invariance, PTL

(* A call leaves for the server, its token in hand, only while its page is *)
(* signed in, unless it is the end call.                                   *)
LEMMA SentSignedIn ==
  ASSUME IInv, [Next]_vars, NEW k \in Kind \ {"end"}, call[k].at = "token", call'[k].at = "sent"
  PROVE  SignedIn
<1> USE Facts
<1>1. call \in CallType
  BY DEF Types
<1>2. CASE Tick \/ Sweep \/ ServeAdrift \/ UNCHANGED vars
  BY <1>2 DEF Tick, Sweep, ServeAdrift, pageVars, vars
<1>3. CASE Input
  <2>1. CASE \E fresh \in BOOLEAN : Load(fresh)
    BY <2>1 DEF Load, NoCalls, NoCall
  <2> QED
    BY <1>3, <2>1 DEF Input, StayActive, SignOut
<1>4. CASE Opening
  BY <1>4 DEF Opening, OpenSession, NoAccount, ServeOpen, OpenAnswered, FailOpening, GiveUpOpening
<1>5. CASE Timers \/ CallRefused
  BY <1>5 DEF Timers, Check, Report, Beat, CallRefused, IInv, CallsFit
<1>6. ASSUME NEW j \in Kind, Send(j) \/ Serve(j) \/ Answered(j) \/ CallFails(j)
      PROVE  SignedIn
  <2>1. CASE Send(j)
    <3>1. CASE j = k
      BY <2>1, <3>1, <1>1 DEF Send, Done, NoCall, CallType
    <3>2. CASE j # k
      <4>1. call' \in {[call EXCEPT ![j].at = "sent"], Done(j)}
        BY <2>1 DEF Send
      <4>2. call'[k] = call[k]
        BY <3>2, <4>1, <1>1 DEF Done, CallType
      <4> QED
        BY <4>2
    <3> QED
      BY <3>1, <3>2
  <2>2. CASE Serve(j)
    BY <2>2, <1>1 DEF Serve, CallType
  <2>3. CASE Answered(j)
    BY <2>3, <1>1 DEF Answered, Done, Asked, NoCall, CallType, ReportEnds
  <2>4. CASE CallFails(j)
    BY <2>4, <1>1 DEF CallFails, Done, Asked, NoCall, CallType, ReportEnds
  <2> QED
    BY <1>6, <2>1, <2>2, <2>3, <2>4
<1> QED
  BY <1>2, <1>3, <1>4, <1>5, <1>6 DEF Next, Calls

(* No heartbeat or report is sent about a session the tab has given up     *)
(* while the call waited for its token.                                    *)
THEOREM NothingSentLater == Spec => NothingSentOnceOver
<1>1. ASSUME IInv, [Next]_vars
      PROVE  \A k \in Kind \ {"end"} :
               call[k].at = "token" /\ call'[k].at = "sent" => call[k].sid \notin over
  BY <1>1, SentSignedIn DEF IInv, CallsFit, NeverBack
<1> QED
  BY <1>1, Invariance, PTL DEF Spec, NothingSentOnceOver
=============================================================================
