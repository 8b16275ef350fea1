------------------------------- MODULE ListPage -------------------------------
(***************************************************************************)
(* A list page of the browser (RequestsPage, SecurityPage) with its action *)
(* dialog: reads whose answers come in any order or not at all, one action *)
(* at a time, each call bounded by withDeadline.  The server holds items,  *)
(* each awaiting an action or not; other staff act as well.  The version   *)
(* of a read is kept as whether it is still the newest.  A 401, which      *)
(* locks the session and leaves the page, is left out.                     *)
(***************************************************************************)
EXTENDS Integers, FiniteSets

CONSTANTS Item,         \* ids, in the order of the list
          PageSize,
          MaxReads,     \* bound: reads under way when the user asks for another
          MaxPosts,     \* bound: actions under way when the user confirms another
          None

ASSUME ListAssumption ==
  /\ Item \subseteq Int /\ IsFiniteSet(Item) /\ None \notin Item
  /\ PageSize \in Nat \ {0} /\ MaxReads \in Nat /\ MaxPosts \in Nat

VARIABLES server,    \* the items that await an action
          page,      \* what the page asks for and shows; the field answered
                     \* is history: the query these rows were the answer to
          reads,     \* list calls under way
          dialog,    \* the action being confirmed
          busy,      \* mutationBusy
          posts,     \* action calls under way, answered or given up
          acked      \* history variable: items whose action succeeded here

vars == <<server, page, reads, dialog, busy, posts, acked>>

Filter == {"all", "open"}
Query == [filter : Filter, n : 1..(Cardinality(Item) + 1)]
Shown == [item : Item, open : BOOLEAN]
PageType == [query : Query, answered : Query \cup {None}, rows : SUBSET Shown,
             loading : BOOLEAN, error : BOOLEAN]
NoDialog == [item |-> None, inFlight |-> FALSE]

TypeOK ==
  /\ server \subseteq Item /\ acked \subseteq Item /\ busy \in BOOLEAN
  /\ page \in PageType
  /\ reads \subseteq [query : Query, newest : BOOLEAN, at : {"asked", "counted", "served"},
                      rows : SUBSET Shown, total : 0..Cardinality(Item)]
  /\ dialog \in [item : Item \cup {None}, inFlight : BOOLEAN]
  /\ posts \subseteq [item : Item, stage : {"token", "sent", "ok", "refused"},
                      told : {"nothing", "unsent", "sent"}]
  /\ page.loading <=> \E r \in reads : r.newest
  /\ busy <=> dialog.inFlight

-----------------------------------------------------------------------------
(* The newest read: earlier ones will be ignored, and the rows go.         *)
Superseded == {[r EXCEPT !.newest = FALSE] : r \in reads}
NewRead(q) == [query |-> q, newest |-> TRUE, at |-> "asked", rows |-> {}, total |-> 0]
Loading(q) == [query |-> q, answered |-> None, rows |-> {}, loading |-> TRUE, error |-> FALSE]
Load(q) == page' = Loading(q) /\ reads' = Superseded \cup {NewRead(q)}

Init ==
  LET first == [filter |-> "all", n |-> 1]
  IN /\ server \in SUBSET Item /\ page = Loading(first) /\ reads = {NewRead(first)}
     /\ dialog = NoDialog /\ busy = FALSE /\ posts = {} /\ acked = {}

(* Other filters or another page, with no dialog in front of them; or the  *)
(* same again, by button or timer, when nothing is being read or saved.    *)
ChangeQuery(q) ==
  /\ q # page.query /\ dialog = NoDialog /\ Cardinality(reads) < MaxReads /\ Load(q)
  /\ UNCHANGED <<server, dialog, busy, posts, acked>>

Refresh ==
  /\ ~page.loading /\ ~busy /\ dialog = NoDialog /\ Cardinality(reads) < MaxReads
  /\ Load(page.query)
  /\ UNCHANGED <<server, dialog, busy, posts, acked>>

-----------------------------------------------------------------------------
OtherActs(i) ==
  /\ i \in server /\ server' = server \ {i}
  /\ UNCHANGED <<page, reads, dialog, busy, posts, acked>>

Listed(q) == {i \in Item : q.filter = "all" \/ i \in server}

(* The server counts in one statement and reads the page in another.       *)
CountRead(r) ==
  /\ r.at = "asked"
  /\ reads' = (reads \ {r}) \cup
       {[r EXCEPT !.at = "counted", !.total = Cardinality(Listed(r.query))]}
  /\ UNCHANGED <<server, page, dialog, busy, posts, acked>>

ServeRead(r) ==
  LET L == Listed(r.query)
      rank(i) == Cardinality({j \in L : j < i})
      chunk == {i \in L : rank(i) \div PageSize = r.query.n - 1}
  IN /\ r.at = "counted"
     /\ reads' = (reads \ {r}) \cup
          {[r EXCEPT !.at = "served",
                     !.rows = {[item |-> i, open |-> i \in server] : i \in chunk}]}
     /\ UNCHANGED <<server, page, dialog, busy, posts, acked>>

LastPage(total) == IF total = 0 THEN 1 ELSE (total + PageSize - 1) \div PageSize

(* The refresh after an action has ended: the dialog closes.               *)
EndAction == busy' = FALSE /\ dialog' = IF busy THEN NoDialog ELSE dialog

Showing(r) == [page EXCEPT !.answered = r.query, !.rows = r.rows, !.loading = FALSE]

(* An answer is shown; a page that has gone is left for the last.          *)
Take(r) ==
  /\ IF r.query.n > LastPage(r.total)
       THEN LET q == [r.query EXCEPT !.n = LastPage(r.total)]
            IN page' = Loading(q) /\ reads' = (Superseded \ {[r EXCEPT !.newest = FALSE]})
                                                \cup {NewRead(q)}
       ELSE page' = Showing(r) /\ reads' = reads \ {r}
  /\ EndAction
  /\ UNCHANGED <<server, posts, acked>>

(* Mutant: the answer is shown whichever read it belongs to.               *)
DeliverAny(r) == r.at = "served" /\ Take(r)

(* Only the answer to the newest read is looked at.                        *)
Deliver(r) == r.at = "served" /\ r.newest /\ Take(r)

(* The read fails or runs out of time: an error, also after an action.     *)
FailRead(r) ==
  /\ r.newest /\ reads' = reads \ {r}
  /\ page' = [page EXCEPT !.loading = FALSE, !.error = TRUE]
  /\ EndAction
  /\ UNCHANGED <<server, posts, acked>>

Ignore(r) ==
  /\ ~r.newest /\ reads' = reads \ {r}
  /\ UNCHANGED <<server, page, dialog, busy, posts, acked>>

-----------------------------------------------------------------------------
OpenAction(i) ==
  /\ ~busy /\ ~page.loading /\ dialog = NoDialog
  /\ [item |-> i, open |-> TRUE] \in page.rows
  /\ dialog' = [NoDialog EXCEPT !.item = i]
  /\ UNCHANGED <<server, page, reads, busy, posts, acked>>

Close ==
  /\ dialog # NoDialog /\ ~dialog.inFlight /\ dialog' = NoDialog
  /\ UNCHANGED <<server, page, reads, busy, posts, acked>>

(* Mutant: a second confirmation is not held back.                         *)
ConfirmHeedless ==
  /\ dialog.item # None /\ Cardinality(posts) < MaxPosts
  /\ dialog' = [dialog EXCEPT !.inFlight = TRUE] /\ busy' = TRUE
  /\ posts' = posts \cup {[item |-> dialog.item, stage |-> "token", told |-> "nothing"]}
  /\ UNCHANGED <<server, page, reads, acked>>

Confirm ==
  /\ dialog.item # None /\ ~dialog.inFlight /\ ~busy /\ Cardinality(posts) < MaxPosts
  /\ dialog' = [dialog EXCEPT !.inFlight = TRUE] /\ busy' = TRUE
  /\ posts' = posts \cup {[item |-> dialog.item, stage |-> "token", told |-> "nothing"]}
  /\ UNCHANGED <<server, page, reads, acked>>

Becomes(p, stage) == posts' = (posts \ {p}) \cup {[p EXCEPT !.stage = stage]}

(* Mutant: the call goes on after the token whatever became of it.         *)
SendAnyway(p) ==
  /\ p.stage = "token" /\ Becomes(p, "sent")
  /\ UNCHANGED <<server, page, reads, dialog, busy, acked>>

(* The access token is there: the call is sent unless it was given up.     *)
Send(p) ==
  /\ p.stage = "token"
  /\ IF p.told = "nothing" THEN Becomes(p, "sent") ELSE posts' = posts \ {p}
  /\ UNCHANGED <<server, page, reads, dialog, busy, acked>>

(* The server applies the action, or refuses one already taken; it may do  *)
(* so after the browser has given the call up.                             *)
Serve(p) ==
  /\ p.stage = "sent" /\ Becomes(p, IF p.item \in server THEN "ok" ELSE "refused")
  /\ server' = server \ {p.item}
  /\ UNCHANGED <<page, reads, dialog, busy, acked>>

(* Mutant: the list is not read again after an action.                     *)
AnswerWithoutRefresh(p) ==
  /\ p.stage \in {"ok", "refused"} /\ posts' = posts \ {p}
  /\ IF p.told # "nothing" THEN UNCHANGED <<dialog, busy, acked>>
     ELSE /\ acked' = IF p.stage = "ok" THEN acked \cup {p.item} ELSE acked
          /\ busy' = FALSE /\ dialog' = NoDialog
  /\ UNCHANGED <<server, page, reads>>

(* After a success the list is read again before the dialog closes; after  *)
(* a refusal the dialog stays.  Nobody hears the answer to a call given up.*)
Answer(p) ==
  /\ p.stage \in {"ok", "refused"} /\ posts' = posts \ {p}
  /\ IF p.told # "nothing" THEN UNCHANGED <<page, reads, dialog, busy, acked>>
     ELSE IF p.stage = "ok"
       THEN /\ acked' = acked \cup {p.item} /\ Load(page.query)
            /\ UNCHANGED <<dialog, busy>>
       ELSE /\ busy' = FALSE /\ dialog' = [dialog EXCEPT !.inFlight = FALSE]
            /\ UNCHANGED <<page, reads, acked>>
  /\ UNCHANGED server

(* Mutant: the deadline does not cover the wait for the token.             *)
GiveUpSent(p) ==
  /\ p.told = "nothing" /\ p.stage # "token"
  /\ posts' = (posts \ {p}) \cup {[p EXCEPT !.told = "sent"]}
  /\ busy' = FALSE /\ dialog' = [dialog EXCEPT !.inFlight = FALSE]
  /\ UNCHANGED <<server, page, reads, acked>>

(* The deadline, or a network failure: the dialog offers a repetition.     *)
GiveUp(p) ==
  /\ p.told = "nothing"
  /\ posts' = (posts \ {p}) \cup
       {[p EXCEPT !.told = IF p.stage = "token" THEN "unsent" ELSE "sent"]}
  /\ busy' = FALSE /\ dialog' = [dialog EXCEPT !.inFlight = FALSE]
  /\ UNCHANGED <<server, page, reads, acked>>

Next ==
  \/ \E q \in Query : ChangeQuery(q)
  \/ Refresh \/ Close \/ Confirm
  \/ \E i \in Item : OtherActs(i) \/ OpenAction(i)
  \/ \E r \in reads : CountRead(r) \/ ServeRead(r) \/ Deliver(r) \/ FailRead(r) \/ Ignore(r)
  \/ \E p \in posts : Send(p) \/ Serve(p) \/ Answer(p) \/ GiveUp(p)

Spec == Init /\ [][Next]_vars
(* Timers go off: a call that is under way is answered or given up.        *)
FairSpec ==
  Spec /\ WF_vars(\E p \in posts : GiveUp(p)) /\ WF_vars(\E r \in reads : FailRead(r))

-----------------------------------------------------------------------------
(* The rows shown are never older than an action that succeeded here,      *)
(* however late the answers to earlier reads come: a completed action is   *)
(* not offered again.                                                      *)
ShownIncludesOwnActions ==
  \A row \in page.rows : row.item \in acked => ~row.open

(* Whatever the page shows, an empty list included, is the answer to the   *)
(* filter and page number in force, whatever order the answers came in;    *)
(* and a page of open items shows open items.  Results are shown when      *)
(* nothing is loading and no error stands (RequestsPage.tsx:109).          *)
ShownFitsTheQuery ==
  page.rows # {} \/ (~page.loading /\ ~page.error) =>
    /\ page.answered = page.query
    /\ page.query.filter = "open" => \A row \in page.rows : row.open

(* One action at a time waits for its answer, and none for an item whose   *)
(* action has succeeded here.                                              *)
OneActionAtATime ==
  LET waiting == {p \in posts : p.told = "nothing"}
  IN Cardinality(waiting) <= 1 /\ \A p \in waiting : p.item \notin acked

(* "Cancelling never retries a write": a call that was reported as given   *)
(* up before it was sent is never sent.                                    *)
GivenUpNeverSent == \A p \in posts : p.told = "unsent" => p.stage = "token"

(* A confirmed action is answered, refused or given up: no wait, for the   *)
(* token, the server or the list, lasts for ever.                          *)
ActionEnds == busy ~> ~busy
=============================================================================
