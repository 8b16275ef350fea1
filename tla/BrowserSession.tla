---------------------------- MODULE BrowserSession ----------------------------
(***************************************************************************)
(* One browser tab: App.tsx with the idle monitor, through sign-in,        *)
(* reloads and the end of its session.  The tab's storage survives a       *)
(* reload, the page's state and its calls do not.  Timers and answers come *)
(* late without bound, as in a suspended tab, and any call may be lost on  *)
(* its way out or back.  One clock measures time for the tab and the       *)
(* server; the server's rules are those of AppSession, call by call.       *)
(***************************************************************************)
EXTENDS Integers

CONSTANTS Session,      \* ids the server may give out
          Timeout,      \* SESSION_TIMEOUT
          ReportGap,    \* 30 s: an activity is reported at once when the last report is older
          MaxNow,       \* bound of the clock
          None

ASSUME TabAssumption ==
  /\ None \notin Session
  /\ Timeout \in Nat \ {0} /\ ReportGap \in Nat \ {0} /\ MaxNow \in Nat

VARIABLES now,
          server,    \* session rows: last_activity_at, and whether open or ended
          tab,       \* sessionStorage: the signed-out mark and the session id
          page,      \* auth, sessionIdRef, endingRef and activityError
          open,      \* the bootstrap: checkAuth
          idle,      \* the inactivity monitor
          call,      \* the page's heartbeat, activity report and end call
          queued,    \* queuedActivity
          adrift,    \* calls nobody waits for that may still reach the server
          over       \* history variable: sessions this tab has given up

pageVars == <<page, open, idle, call, queued>>
vars == <<now, server, tab, pageVars, adrift, over>>

Time == 0..MaxNow
Clock == (0 - Timeout - ReportGap)..MaxNow
Kind == {"beat", "report", "end"}
Stages == {"idle", "token", "sent", "ok", "refused"}

TypeOK ==
  /\ now \in Time
  /\ server \in [Session -> [state : {"none", "open", "ended"}, activity : Time]]
  /\ tab \in [locked : BOOLEAN, sid : Session \cup {None}]
  /\ page \in [stage : {"login", "opening", "signed_in", "ended"},
               sid : Session \cup {None}, error : BOOLEAN]
  /\ open \in [at : {"idle", "verify", "sent", "ok", "refused"}, start : BOOLEAN,
               sid : Session \cup {None}, asked : Time, left : 0..Timeout]
  /\ idle \in [last : Clock, reported : Clock, pending : BOOLEAN]
  /\ call \in [Kind -> [at : Stages, sid : Session \cup {None}]]
  /\ queued \in BOOLEAN /\ over \subseteq Session
  /\ adrift \subseteq [kind : {"report", "end"}, sid : Session]
  /\ page.stage = "opening" <=> open.at # "idle"
  /\ page.sid # None <=> page.stage = "signed_in"

-----------------------------------------------------------------------------
(* The server.                                                             *)
Stale(s) == server[s].state = "open" /\ server[s].activity + Timeout <= now
Refuses(s) == server[s].state # "open" \/ Stale(s)
Swept == [s \in Session |-> IF Stale(s) THEN [server[s] EXCEPT !.state = "ended"] ELSE server[s]]

(* require_active_session ends the row it finds stale.                     *)
Checked(s) == IF Stale(s) THEN [server EXCEPT ![s].state = "ended"] ELSE server
Renewed(s) == IF Refuses(s) THEN Checked(s) ELSE [server EXCEPT ![s].activity = now]
Closed(s) == [Swept EXCEPT ![s].state = "ended"]

Tick == now < MaxNow /\ now' = now + 1 /\ UNCHANGED <<server, tab, pageVars, adrift, over>>
Sweep == server' = Swept /\ UNCHANGED <<now, tab, pageVars, adrift, over>>

-----------------------------------------------------------------------------
(* A page.                                                                 *)
NoCall == [at |-> "idle", sid |-> None]
NoCalls == [k \in Kind |-> NoCall]
NotOpening == [at |-> "idle", start |-> FALSE, sid |-> None, asked |-> 0, left |-> 0]
NoIdle == [last |-> 0, reported |-> 0, pending |-> FALSE]
Locked == [locked |-> TRUE, sid |-> None]
AtLogin == [stage |-> "login", sid |-> None, error |-> FALSE]
Ended == [AtLogin EXCEPT !.stage = "ended"]

(* A heartbeat that arrives late leaves no trace but last_seen_at.         *)
Abandoned(k) ==
  IF call[k].at = "sent" /\ k # "beat" THEN {[kind |-> k, sid |-> call[k].sid]} ELSE {}

Init ==
  /\ now = 0 /\ server = [s \in Session |-> [state |-> "none", activity |-> 0]]
  /\ tab = [locked |-> FALSE, sid |-> None] /\ page = AtLogin /\ open = NotOpening
  /\ idle = NoIdle /\ call = NoCalls /\ queued = FALSE /\ adrift = {} /\ over = {}

(* sessionBootstrapAction                                                  *)
BootstrapAction(fresh) ==
  IF fresh THEN "start" ELSE IF tab.locked \/ tab.sid = None THEN "sign-in" ELSE "resume"

(* A reload, or the return from Microsoft's sign-in, which the login page  *)
(* offers.                                                                 *)
Load(fresh) ==
  /\ fresh => page.stage \in {"login", "ended"}
  /\ LET action == BootstrapAction(fresh)
     IN IF action = "sign-in"
        THEN page' = AtLogin /\ open' = NotOpening
        ELSE /\ page' = [AtLogin EXCEPT !.stage = "opening"]
             /\ open' = [NotOpening EXCEPT !.at = "verify", !.start = action = "start",
                                           !.sid = IF action = "start" THEN None ELSE tab.sid]
  /\ idle' = NoIdle /\ call' = NoCalls /\ queued' = FALSE
  /\ adrift' = adrift \cup UNION {Abandoned(k) : k \in Kind}
  /\ UNCHANGED <<now, server, tab, over>>

(* Token, identity and site settings are there: the session is asked for.  *)
OpenSession ==
  /\ open.at = "verify"
  /\ open' = [open EXCEPT !.at = "sent", !.asked = now]
  /\ UNCHANGED <<now, server, tab, page, idle, call, queued, adrift, over>>

(* Microsoft's library no longer knows the account: sign in, nothing locked. *)
NoAccount ==
  /\ open.at = "verify" /\ ~open.start /\ page' = AtLogin /\ open' = NotOpening
  /\ UNCHANGED <<now, server, tab, idle, call, queued, adrift, over>>

(* start_user_session, or a heartbeat; session_response tells what remains. *)
ServeOpen ==
  /\ open.at = "sent"
  /\ \/ \E s \in Session :
          /\ open.start /\ server[s].state = "none"
          /\ server' = [Swept EXCEPT ![s] = [state |-> "open", activity |-> now]]
          /\ open' = [open EXCEPT !.at = "ok", !.sid = s, !.left = Timeout]
     \/ /\ ~open.start /\ Refuses(open.sid)
        /\ server' = Checked(open.sid)
        /\ open' = [open EXCEPT !.at = "refused"]
     \/ /\ ~open.start /\ ~Refuses(open.sid)
        /\ open' = [open EXCEPT !.at = "ok", !.left = server[open.sid].activity + Timeout - now]
        /\ UNCHANGED server
  /\ UNCHANGED <<now, tab, page, idle, call, queued, adrift, over>>

GiveUpOpening ==
  /\ tab' = Locked /\ page' = AtLogin /\ open' = NotOpening
  /\ over' = over \cup ({open.sid} \ {None})
  /\ UNCHANGED <<now, server, idle, call, queued, adrift>>

(* Mutant: a failed bootstrap leaves the stored session in place.          *)
FailOpeningUnlocked ==
  /\ page.stage = "opening" /\ page' = AtLogin /\ open' = NotOpening
  /\ over' = over \cup ({open.sid} \ {None})
  /\ UNCHANGED <<now, server, tab, idle, call, queued, adrift>>

(* Mutant: what still runs after the deadline goes on.                     *)
FailOpeningRunsOn ==
  /\ page.stage = "opening" /\ tab' = Locked /\ page' = AtLogin
  /\ UNCHANGED <<now, server, open, idle, call, queued, adrift, over>>

(* Any step of the bootstrap fails, or its deadline strikes: assertActive  *)
(* and the aborted signal keep what still runs from going on.              *)
FailOpening == page.stage = "opening" /\ GiveUpOpening

(* Mutant: the page allows itself what the server counted.                 *)
RemainingAsSent == open.left

(* What is left of the idle time when the answer is here.                  *)
Remaining == open.left - (now - open.asked)

OpenAnswered ==
  /\ open.at = "ok"
  /\ IF Remaining <= 0
     THEN GiveUpOpening
     ELSE /\ tab' = [locked |-> FALSE, sid |-> open.sid]
          /\ page' = [stage |-> "signed_in", sid |-> open.sid, error |-> FALSE]
          /\ idle' = [last |-> now - Timeout + Remaining, reported |-> 0 - ReportGap,
                      pending |-> FALSE]
          /\ open' = NotOpening
          /\ UNCHANGED <<now, server, call, queued, adrift, over>>

-----------------------------------------------------------------------------
(* The end of a session in the page: finishSession, and what stops with it. *)
(* Mutant: the page is locked but the tab keeps the session.               *)
FinishPageOnly(calls) ==
  /\ page' = Ended
  /\ over' = over \cup {page.sid}
  /\ idle' = NoIdle /\ queued' = FALSE
  /\ call' = [calls EXCEPT !["end"] = [at |-> "token", sid |-> page.sid]]
  /\ UNCHANGED <<now, server, tab, open, adrift>>

Finish(calls) ==
  /\ page' = Ended
  /\ tab' = Locked /\ over' = over \cup {page.sid}
  /\ idle' = NoIdle /\ queued' = FALSE
  /\ call' = [calls EXCEPT !["end"] = [at |-> "token", sid |-> page.sid]]
  /\ UNCHANGED <<now, server, open, adrift>>

SignedIn == page.stage = "signed_in"
Asked(k) == [call EXCEPT ![k] = [at |-> "token", sid |-> page.sid]]
Done(k) == [call EXCEPT ![k] = NoCall]

(* Sign out, or a token that Microsoft will not renew silently.            *)
SignOut == SignedIn /\ Finish(call)

(* A protected call of a page comes back 401.                              *)
CallRefused ==
  /\ SignedIn /\ Refuses(page.sid)
  /\ page' = Ended
  /\ tab' = Locked /\ over' = over \cup {page.sid}
  /\ idle' = NoIdle /\ queued' = FALSE
  /\ call' = Asked("end") /\ server' = Checked(page.sid)
  /\ UNCHANGED <<now, open, adrift>>

-----------------------------------------------------------------------------
(* The idle monitor.                                                       *)
Lapsed == idle.last + Timeout <= now

(* check, by its timer or as the tab comes into view.                      *)
Check == SignedIn /\ Lapsed /\ Finish(call)

(* Mutant: activity while a report is on its way is forgotten.             *)
ReportActivityOnce ==
  call' = (IF call["report"].at = "idle" THEN Asked("report") ELSE call) /\ UNCHANGED queued

(* reportActivity: one report at a time, and one more after it.            *)
ReportActivity ==
  IF call["report"].at = "idle"
  THEN call' = Asked("report") /\ UNCHANGED queued
  ELSE queued' = TRUE /\ UNCHANGED call

(* Mutant: the activity counts before the elapsed time is looked at.       *)
StayActiveFirst ==
  /\ SignedIn
  /\ IF now - idle.reported >= ReportGap
     THEN idle' = [last |-> now, reported |-> now, pending |-> FALSE] /\ ReportActivity
     ELSE idle' = [idle EXCEPT !.last = now, !.pending = TRUE] /\ UNCHANGED <<call, queued>>
  /\ UNCHANGED <<now, server, tab, page, open, adrift, over>>

(* stayActive, by trusted input in a visible tab or by the button.         *)
StayActive ==
  /\ SignedIn
  /\ IF Lapsed THEN Finish(call)
     ELSE /\ IF now - idle.reported >= ReportGap
             THEN idle' = [last |-> now, reported |-> now, pending |-> FALSE] /\ ReportActivity
             ELSE idle' = [idle EXCEPT !.last = now, !.pending = TRUE]
                  /\ UNCHANGED <<call, queued>>
          /\ UNCHANGED <<now, server, tab, page, open, adrift, over>>

(* report, 500 ms after the last of a series of inputs.                    *)
Report ==
  /\ idle.pending
  /\ IF Lapsed THEN Finish(call)
     ELSE /\ idle' = [idle EXCEPT !.reported = now, !.pending = FALSE] /\ ReportActivity
          /\ UNCHANGED <<now, server, tab, page, open, adrift, over>>

-----------------------------------------------------------------------------
(* The calls: token, request, answer; each may fail instead.               *)
Beat ==
  /\ SignedIn /\ call["beat"].at = "idle" /\ call' = Asked("beat")
  /\ UNCHANGED <<now, server, tab, page, open, idle, queued, adrift, over>>

(* Mutant: the session is not looked at again after the token.             *)
SendUnchecked(k) ==
  /\ call[k].at = "token"
  /\ call' = [call EXCEPT ![k].at = "sent"]
  /\ UNCHANGED <<now, server, tab, page, open, idle, queued, adrift, over>>

(* After the token the page looks again, unless it is the end call.        *)
Send(k) ==
  /\ call[k].at = "token"
  /\ call' = IF k = "end" \/ SignedIn THEN [call EXCEPT ![k].at = "sent"] ELSE Done(k)
  /\ UNCHANGED <<now, server, tab, page, open, idle, queued, adrift, over>>

ServeKind(k, s) ==
  server' = CASE k = "beat" -> Checked(s) [] k = "report" -> Renewed(s) [] k = "end" -> Closed(s)

Serve(k) ==
  /\ call[k].at = "sent" /\ ServeKind(k, call[k].sid)
  /\ call' = [call EXCEPT ![k].at = IF k # "end" /\ Refuses(call[k].sid) THEN "refused" ELSE "ok"]
  /\ UNCHANGED <<now, tab, page, open, idle, queued, adrift, over>>

ServeAdrift ==
  \E m \in adrift :
    /\ ServeKind(m.kind, m.sid) /\ adrift' = adrift \ {m}
    /\ UNCHANGED <<now, tab, pageVars, over>>

(* Mutant: a failed report is taken for a renewal.                         *)
ReportEndsWell(calls, failed) ==
  /\ call' = IF queued THEN Asked("report") ELSE calls
  /\ page' = [page EXCEPT !.error = FALSE] /\ queued' = FALSE

(* The report is settled; a queued one follows.                            *)
ReportEnds(calls, failed) ==
  /\ call' = IF queued THEN Asked("report") ELSE calls
  /\ page' = IF SignedIn THEN [page EXCEPT !.error = failed] ELSE page
  /\ queued' = FALSE

Answered(k) ==
  /\ \/ call[k].at = "refused" /\ SignedIn /\ Finish(Done(k))
     \/ /\ call[k].at = "ok" \/ (call[k].at = "refused" /\ ~SignedIn)
        /\ IF k = "report" THEN ReportEnds(Done(k), FALSE)
           ELSE call' = Done(k) /\ UNCHANGED <<page, queued>>
        /\ UNCHANGED <<now, server, tab, open, idle, adrift, over>>

(* No token, no answer, or the deadline first: the call may still arrive.  *)
CallFails(k) ==
  /\ call[k].at # "idle"
  /\ IF k = "report" THEN ReportEnds(Done(k), TRUE)
     ELSE call' = Done(k) /\ UNCHANGED <<page, queued>>
  /\ adrift' = adrift \cup Abandoned(k)
  /\ UNCHANGED <<now, server, tab, open, idle, over>>

-----------------------------------------------------------------------------
Input == StayActive \/ SignOut \/ \E fresh \in BOOLEAN : Load(fresh)
Opening == OpenSession \/ NoAccount \/ ServeOpen \/ OpenAnswered \/ FailOpening
Timers == Check \/ Report \/ Beat
Calls == CallRefused \/ ServeAdrift
         \/ \E k \in Kind : Send(k) \/ Serve(k) \/ Answered(k) \/ CallFails(k)

Next == Tick \/ Sweep \/ Input \/ Opening \/ Timers \/ Calls

Spec == Init /\ [][Next]_vars

(* The monitor's timer runs again and again while the page lives.          *)
FairSpec == Spec /\ WF_vars(Check)

-----------------------------------------------------------------------------
(* While nothing is reported or about to be, and no failure is shown, the  *)
(* server has counted at least the activity the page counts: a reload does *)
(* not win time, no input is forgotten, and a user who sees no warning is  *)
(* not cut off early (inactivity.ts:59, App.tsx:233).                      *)
Outstanding == idle.pending \/ queued \/ call["report"].at # "idle"
IdleClocksAgree ==
  SignedIn /\ ~Outstanding /\ ~page.error => idle.last <= server[page.sid].activity

(* A session that the tab has given up never comes back into use, however  *)
(* often the page is reloaded and whether or not the server heard of the   *)
(* end (App.tsx:84, applicationSession.ts:4).                              *)
GivenUpStaysSo == {page.sid, tab.sid} \cap over = {}

(* No heartbeat or report is sent about a session that the tab has given   *)
(* up while the call waited for its token (App.tsx:212, 241).              *)
NothingSentOnceOver ==
  [][\A k \in Kind \ {"end"} :
       call[k].at = "token" /\ call'[k].at = "sent" => call[k].sid \notin over]_vars

(* Once the idle time is over no input brings the page back, also in a tab *)
(* that was suspended meanwhile: it ends (inactivity.ts:53).               *)
IdlePageEnds == SignedIn /\ Lapsed ~> ~SignedIn
=============================================================================
