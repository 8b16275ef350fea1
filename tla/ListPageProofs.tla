---------------------------- MODULE ListPageProofs ----------------------------
(***************************************************************************)
(* The list page for any list, page size and number of calls: what it      *)
(* shows answers the query in force and its own actions, one action at a   *)
(* time waits for its answer, and a call given up unsent is never sent.    *)
(* Proved without fairness, which the runs' FairSpec only adds to.         *)
(***************************************************************************)
EXTENDS ListPage, FiniteSetTheorems, TLAPS

-----------------------------------------------------------------------------
(* The invariant.  An answer read before an action succeeded is no longer  *)
(* the newest read's, so the rows that will be shown offer no such item;   *)
(* while a call waits or a dialog asks, no read is awaited.                *)
OneNewest == \A r, s \in reads : r.newest /\ s.newest => r = s

AsksTheQuery == \A r \in reads : r.newest => r.query = page.query

Fits(rows, q) ==
  \A row \in rows : /\ row.open => row.item \notin acked
                    /\ q.filter = "open" => row.open

RowsFit ==
  /\ Fits(page.rows, page.query)
  /\ \A r \in reads : r.newest => Fits(r.rows, r.query)
  /\ page.rows # {} \/ (~page.loading /\ ~page.error) => page.answered = page.query

ActedOn == /\ acked \cap server = {}
           /\ \A p \in posts : p.stage = "ok" => p.item \notin server

Waiting == {p \in posts : p.told = "nothing"}

Waits ==
  /\ \A p, q \in Waiting : p = q
  /\ \A p \in Waiting : /\ busy /\ ~page.loading
                        /\ dialog.item = p.item /\ p.item \notin acked

Asks == dialog.item # None /\ ~dialog.inFlight => dialog.item \notin acked /\ ~page.loading

Inv ==
  /\ TypeOK /\ OneNewest /\ AsksTheQuery /\ RowsFit
  /\ ActedOn /\ Waits /\ Asks /\ GivenUpNeverSent

-----------------------------------------------------------------------------
(* The records of the state.                                               *)
Read == [query : Query, newest : BOOLEAN, at : {"asked", "counted", "served"},
         rows : SUBSET Shown, total : 0..Cardinality(Item)]
Post == [item : Item, stage : {"token", "sent", "ok", "refused"},
         told : {"nothing", "unsent", "sent"}]

LEMMA ItemCount == Cardinality(Item) \in Nat
  BY ListAssumption, FS_CardinalityType

LEMMA LastPageIsPage ==
  ASSUME NEW total \in 0..Cardinality(Item)
  PROVE  LastPage(total) \in 1..(Cardinality(Item) + 1)
<1>1. PageSize \in Nat \ {0} /\ Cardinality(Item) \in Nat /\ total \in Nat
  BY ItemCount, ListAssumption
<1>2. CASE total = 0
  BY <1>1, <1>2 DEF LastPage
<1>3. CASE total # 0
  <2>1. LastPage(total) = (total + PageSize - 1) \div PageSize
    BY <1>3 DEF LastPage
  <2>2. (total + PageSize - 1) \div PageSize \in 1..total
    BY <1>1, <1>3
  <2> QED
    BY <1>1, <2>1, <2>2
<1> QED
  BY <1>2, <1>3

LEMMA ListedCount ==
  ASSUME NEW q
  PROVE  Listed(q) \subseteq Item /\ Cardinality(Listed(q)) \in 0..Cardinality(Item)
<1>1. Listed(q) \subseteq Item
  BY DEF Listed
<1> QED
  BY <1>1, ItemCount, ListAssumption, FS_Subset, FS_CardinalityType

(* A new reading: nothing is shown, and only its answer will be.           *)
LEMMA LoadKeeps ==
  ASSUME TypeOK, NEW q \in Query, NEW R, R \subseteq Superseded,
         page' = Loading(q), reads' = R \cup {NewRead(q)}
  PROVE  /\ page' \in PageType
         /\ reads' \subseteq Read
         /\ page'.loading /\ (\E r \in reads' : r.newest)
         /\ OneNewest' /\ AsksTheQuery' /\ RowsFit'
<1>1. page' = [query |-> q, answered |-> None, rows |-> {}, loading |-> TRUE, error |-> FALSE]
  BY DEF Loading
<1>2. \A r \in R : r \in Read /\ ~r.newest
  <2> SUFFICES ASSUME NEW r \in R PROVE r \in Read /\ ~r.newest
    OBVIOUS
  <2>1. PICK s \in reads : r = [s EXCEPT !.newest = FALSE]
    BY DEF Superseded
  <2>2. s \in Read
    BY DEF TypeOK, Read
  <2> QED
    BY <2>1, <2>2 DEF Read
<1>3. NewRead(q) \in Read /\ NewRead(q).newest /\ NewRead(q).query = q /\ NewRead(q).rows = {}
  BY ItemCount DEF NewRead, Read
<1>4. \A r \in reads' : r.newest => r = NewRead(q)
  BY <1>2
<1> QED
  BY <1>1, <1>2, <1>3, <1>4 DEF PageType, OneNewest, AsksTheQuery, RowsFit, Fits

LEMMA InitInv == Init => Inv
<1> SUFFICES ASSUME Init PROVE Inv
  OBVIOUS
<1> DEFINE first == [filter |-> "all", n |-> 1]
<1>1. first \in Query
  BY ItemCount DEF Query, Filter
<1>2. /\ server \subseteq Item /\ page = Loading(first) /\ reads = {NewRead(first)}
      /\ dialog = NoDialog /\ busy = FALSE /\ posts = {} /\ acked = {}
  BY DEF Init
<1>3. page = [query |-> first, answered |-> None, rows |-> {}, loading |-> TRUE, error |-> FALSE]
  BY <1>2 DEF Loading
<1>4. \A r \in reads : r \in Read /\ r.newest /\ r.query = first /\ r.rows = {} /\ r = NewRead(first)
  <2> HIDE DEF first
  <2>1. /\ NewRead(first) \in Read /\ NewRead(first).newest
        /\ NewRead(first).query = first /\ NewRead(first).rows = {}
    BY <1>1, ItemCount DEF NewRead, Read
  <2> QED
    BY <1>2, <2>1
<1>5. dialog = [item |-> None, inFlight |-> FALSE]
  BY <1>2 DEF NoDialog
<1>6. TypeOK
  <2>1. page \in PageType
    BY <1>1, <1>3 DEF PageType
  <2>2. reads \subseteq Read /\ \E r \in reads : r.newest
    BY <1>2, <1>4
  <2>3. page.loading /\ ~busy /\ ~dialog.inFlight
    BY <1>2, <1>3, <1>5
  <2>4. server \subseteq Item /\ acked = {} /\ posts = {} /\ busy \in BOOLEAN
    BY <1>2
  <2>5. dialog \in [item : Item \cup {None}, inFlight : BOOLEAN]
    BY <1>5
  <2> QED
    BY <2>1, <2>2, <2>3, <2>4, <2>5 DEF TypeOK, Read
<1> QED
  BY <1>2, <1>3, <1>4, <1>5, <1>6
     DEF Inv, OneNewest, AsksTheQuery, RowsFit, Fits, ActedOn, Waits, Waiting, Asks, GivenUpNeverSent

-----------------------------------------------------------------------------
(* The user asks for a list, or for the same again.                        *)
LEMMA AskInv ==
  ASSUME Inv, Refresh \/ \E q \in Query : ChangeQuery(q)
  PROVE  Inv'
<1>1. PICK q \in Query : dialog = NoDialog /\ Load(q) /\ UNCHANGED <<server, dialog, busy, posts, acked>>
  BY DEF Refresh, ChangeQuery, Inv, TypeOK, PageType
<1>2. page' = Loading(q) /\ reads' = Superseded \cup {NewRead(q)}
  BY <1>1 DEF Load
<1>3. /\ page' \in PageType
      /\ reads' \subseteq Read
      /\ page'.loading /\ (\E r \in reads' : r.newest)
      /\ OneNewest' /\ AsksTheQuery' /\ RowsFit'
  BY <1>2, LoadKeeps DEF Inv
<1>4. ~dialog.inFlight /\ dialog.item = None
  BY <1>1 DEF NoDialog
<1>5. TypeOK'
  BY <1>1, <1>3 DEF Inv, TypeOK, Read
<1>6. Waiting = {}
  BY <1>4 DEF Inv, TypeOK, Waits
<1> QED
  BY <1>1, <1>3, <1>4, <1>5, <1>6 DEF Inv, ActedOn, Waits, Waiting, Asks, GivenUpNeverSent

(* Other staff take items from the list.                                   *)
LEMMA OthersInv ==
  ASSUME Inv, NEW i \in Item, OtherActs(i)
  PROVE  Inv'
<1>1. server' = server \ {i} /\ UNCHANGED <<page, reads, dialog, busy, posts, acked>>
  BY DEF OtherActs
<1>2. TypeOK'
  BY <1>1 DEF Inv, TypeOK
<1> QED
  BY <1>1, <1>2
     DEF Inv, OneNewest, AsksTheQuery, RowsFit, Fits, ActedOn, Waits, Waiting, Asks, GivenUpNeverSent

(* The server works on a read: it becomes another of the same query.       *)
LEMMA WorkInv ==
  ASSUME Inv, NEW r \in reads, NEW s \in Read,
         s.newest = r.newest, s.query = r.query, r.newest => Fits(s.rows, r.query),
         reads' = (reads \ {r}) \cup {s},
         UNCHANGED <<server, page, dialog, busy, posts, acked>>
  PROVE  Inv'
<1>1. reads' \subseteq Read
  BY DEF Inv, TypeOK, Read
<1>2. (\E t \in reads' : t.newest) <=> (\E t \in reads : t.newest)
  OBVIOUS
<1>3. TypeOK'
  BY <1>1, <1>2 DEF Inv, TypeOK, Read
<1>4. OneNewest' /\ AsksTheQuery'
  BY DEF Inv, OneNewest, AsksTheQuery
<1>5. RowsFit'
  BY DEF Inv, RowsFit, Fits
<1> QED
  BY <1>3, <1>4, <1>5 DEF Inv, ActedOn, Waits, Waiting, Asks, GivenUpNeverSent

LEMMA CountInv ==
  ASSUME Inv, NEW r \in reads, CountRead(r)
  PROVE  Inv'
<1> DEFINE s == [r EXCEPT !.at = "counted", !.total = Cardinality(Listed(r.query))]
<1>1. r \in Read
  BY DEF Inv, TypeOK, Read
<1>2. s \in Read /\ s.newest = r.newest /\ s.query = r.query /\ s.rows = r.rows
  BY <1>1, ListedCount DEF Read
<1>3. reads' = (reads \ {r}) \cup {s} /\ UNCHANGED <<server, page, dialog, busy, posts, acked>>
  BY DEF CountRead
<1>4. r.newest => Fits(s.rows, r.query)
  BY <1>2 DEF Inv, RowsFit
<1> QED
  BY <1>2, <1>3, <1>4, WorkInv

LEMMA ServeReadInv ==
  ASSUME Inv, NEW r \in reads, ServeRead(r)
  PROVE  Inv'
<1>1. r \in Read
  BY DEF Inv, TypeOK, Read
<1>2. PICK C \in SUBSET Listed(r.query) :
        /\ reads' = (reads \ {r}) \cup
             {[r EXCEPT !.at = "served",
                        !.rows = {[item |-> i, open |-> i \in server] : i \in C}]}
        /\ UNCHANGED <<server, page, dialog, busy, posts, acked>>
  BY DEF ServeRead
<1> DEFINE rows == {[item |-> i, open |-> i \in server] : i \in C}
           s == [r EXCEPT !.at = "served", !.rows = rows]
<1>3. C \subseteq Item
  BY ListedCount
<1>4. rows \subseteq Shown
  <2> SUFFICES ASSUME NEW i \in C PROVE [item |-> i, open |-> i \in server] \in Shown
    OBVIOUS
  <2>1. (i \in server) \in BOOLEAN /\ i \in Item
    BY <1>3
  <2> QED
    BY <2>1 DEF Shown
<1>5. Fits(rows, r.query)
  <2> SUFFICES ASSUME NEW i \in C
               PROVE  /\ i \in server => i \notin acked
                      /\ r.query.filter = "open" => i \in server
    <3>1. ASSUME NEW row \in rows
          PROVE  \E i \in C : row.item = i /\ (row.open <=> i \in server)
      <4>1. PICK i \in C : row = [item |-> i, open |-> i \in server]
        BY <3>1
      <4>2. row.item = i
        BY <4>1
      <4>3. row.open = (i \in server)
        BY <4>1
      <4> QED
        BY <4>2, <4>3
    <3> HIDE DEF rows
    <3> QED
      BY <3>1 DEF Fits
  <2>1. i \in Listed(r.query) /\ acked \cap server = {}
    BY DEF Inv, ActedOn
  <2>2. r.query.filter = "all" \/ i \in server
    BY <2>1 DEF Listed
  <2> QED
    BY <2>1, <2>2
<1>6. s \in Read /\ s.newest = r.newest /\ s.query = r.query /\ s.rows = rows
  <2> HIDE DEF rows
  <2> QED
    BY <1>1, <1>4 DEF Read
<1>7. r.newest => Fits(s.rows, r.query)
  BY <1>5, <1>6
<1>8. reads' = (reads \ {r}) \cup {s} /\ UNCHANGED <<server, page, dialog, busy, posts, acked>>
  BY <1>2
<1> HIDE DEF s
<1> QED
  BY <1>6, <1>7, <1>8, WorkInv

-----------------------------------------------------------------------------
(* The end of a read.  While one is awaited nothing else is.               *)
LEMMA ReadAwaited ==
  ASSUME Inv, NEW r \in reads, r.newest
  PROVE  page.loading /\ Waiting = {} /\ (dialog.item = None \/ dialog.inFlight)
BY DEF Inv, TypeOK, Waits, Asks

LEMMA EndActionEnds ==
  ASSUME Inv, dialog.item = None \/ dialog.inFlight, EndAction
  PROVE  /\ busy' = FALSE /\ dialog' \in [item : Item \cup {None}, inFlight : BOOLEAN]
         /\ ~dialog'.inFlight /\ dialog'.item = None
<1>1. dialog \in [item : Item \cup {None}, inFlight : BOOLEAN] /\ (busy <=> dialog.inFlight)
  BY DEF Inv, TypeOK
<1>2. NoDialog = [item |-> None, inFlight |-> FALSE]
  BY DEF NoDialog
<1> QED
  BY <1>1, <1>2 DEF EndAction

LEMMA DeliverInv ==
  ASSUME Inv, NEW r \in reads, Deliver(r)
  PROVE  Inv'
<1>1. /\ r.newest /\ EndAction /\ UNCHANGED <<server, posts, acked>>
      /\ r \in Read /\ r.query \in Query /\ r.query = page.query
  BY DEF Deliver, Take, Inv, TypeOK, Read, AsksTheQuery
<1>2. page.loading /\ Waiting = {} /\ (dialog.item = None \/ dialog.inFlight)
  BY <1>1, ReadAwaited
<1>3. /\ busy' = FALSE /\ dialog' \in [item : Item \cup {None}, inFlight : BOOLEAN]
      /\ ~dialog'.inFlight /\ dialog'.item = None
  BY <1>1, <1>2, EndActionEnds
<1>4. /\ page' \in PageType
      /\ reads' \subseteq Read
      /\ page'.loading <=> \E s \in reads' : s.newest
      /\ OneNewest' /\ AsksTheQuery' /\ RowsFit'
  <2>1. CASE r.query.n > LastPage(r.total)
    <3> DEFINE q == [r.query EXCEPT !.n = LastPage(r.total)]
               R == Superseded \ {[r EXCEPT !.newest = FALSE]}
    <3>1. q \in Query
      <4>1. LastPage(r.total) \in 1..(Cardinality(Item) + 1)
        BY <1>1, LastPageIsPage DEF Read
      <4> QED
        BY <1>1, <4>1 DEF Query
    <3>2. page' = Loading(q) /\ reads' = R \cup {NewRead(q)}
      BY <2>1 DEF Deliver, Take
    <3>3. R \subseteq Superseded
      OBVIOUS
    <3> HIDE DEF q, R
    <3> QED
      BY <3>1, <3>2, <3>3, LoadKeeps DEF Inv
  <2>2. CASE ~(r.query.n > LastPage(r.total))
    <3>1. /\ page' = [page EXCEPT !.answered = r.query, !.rows = r.rows, !.loading = FALSE]
          /\ reads' = reads \ {r}
      BY <2>2 DEF Deliver, Take, Showing
    <3>2. /\ page' \in PageType
          /\ page'.query = page.query /\ page'.answered = page'.query
          /\ page'.rows = r.rows /\ ~page'.loading
      BY <1>1, <3>1 DEF Inv, TypeOK, Read, PageType
    <3>3. \A s \in reads' : s \in Read /\ ~s.newest
      BY <1>1, <3>1 DEF Inv, TypeOK, Read, OneNewest
    <3>4. Fits(r.rows, page.query)
      BY <1>1 DEF Inv, RowsFit
    <3>5. RowsFit'
      BY <1>1, <3>2, <3>3, <3>4 DEF RowsFit, Fits
    <3> QED
      BY <3>2, <3>3, <3>5 DEF OneNewest, AsksTheQuery
  <2> QED
    BY <2>1, <2>2
<1>5. TypeOK'
  BY <1>1, <1>3, <1>4 DEF Inv, TypeOK, Read
<1> QED
  BY <1>1, <1>2, <1>3, <1>4, <1>5 DEF Inv, ActedOn, Waits, Waiting, Asks, GivenUpNeverSent

LEMMA FailReadInv ==
  ASSUME Inv, NEW r \in reads, FailRead(r)
  PROVE  Inv'
<1>1. /\ r.newest /\ reads' = reads \ {r} /\ EndAction /\ UNCHANGED <<server, posts, acked>>
      /\ page' = [page EXCEPT !.loading = FALSE, !.error = TRUE]
  BY DEF FailRead
<1>2. page.loading /\ Waiting = {} /\ (dialog.item = None \/ dialog.inFlight)
  BY <1>1, ReadAwaited
<1>3. /\ busy' = FALSE /\ dialog' \in [item : Item \cup {None}, inFlight : BOOLEAN]
      /\ ~dialog'.inFlight /\ dialog'.item = None
  BY <1>1, <1>2, EndActionEnds
<1>4. /\ page' \in PageType
      /\ page'.query = page.query /\ page'.answered = page.answered
      /\ page'.rows = page.rows /\ ~page'.loading /\ page'.error
  BY <1>1 DEF Inv, TypeOK, PageType
<1>5. \A s \in reads' : s \in Read /\ ~s.newest
  BY <1>1 DEF Inv, TypeOK, Read, OneNewest
<1>6. TypeOK'
  BY <1>1, <1>3, <1>4, <1>5 DEF Inv, TypeOK, Read
<1>7. OneNewest' /\ AsksTheQuery' /\ RowsFit'
  BY <1>1, <1>4, <1>5 DEF Inv, OneNewest, AsksTheQuery, RowsFit, Fits
<1> QED
  BY <1>1, <1>2, <1>3, <1>4, <1>6, <1>7 DEF Inv, ActedOn, Waits, Waiting, Asks, GivenUpNeverSent

LEMMA IgnoreInv ==
  ASSUME Inv, NEW r \in reads, Ignore(r)
  PROVE  Inv'
<1>1. ~r.newest /\ reads' = reads \ {r} /\ UNCHANGED <<server, page, dialog, busy, posts, acked>>
  BY DEF Ignore
<1>2. TypeOK'
  BY <1>1 DEF Inv, TypeOK
<1> QED
  BY <1>1, <1>2
     DEF Inv, OneNewest, AsksTheQuery, RowsFit, Fits, ActedOn, Waits, Waiting, Asks, GivenUpNeverSent

-----------------------------------------------------------------------------
(* The dialog.                                                             *)
LEMMA DialogInv ==
  ASSUME Inv, Close \/ \E i \in Item : OpenAction(i)
  PROVE  Inv'
<1>1. /\ ~dialog.inFlight /\ UNCHANGED <<server, page, reads, busy, posts, acked>>
  BY DEF Close, OpenAction, NoDialog
<1>2. ASSUME NEW i \in Item, OpenAction(i)
      PROVE  dialog' = [item |-> i, inFlight |-> FALSE] /\ i \notin acked /\ ~page.loading
  <2>1. [item |-> i, open |-> TRUE] \in page.rows /\ dialog' = [NoDialog EXCEPT !.item = i]
        /\ ~page.loading
    BY <1>2 DEF OpenAction
  <2>2. i \notin acked
    BY <2>1 DEF Inv, RowsFit, Fits
  <2> QED
    BY <2>1, <2>2 DEF NoDialog
<1>3. /\ dialog' \in [item : Item \cup {None}, inFlight : BOOLEAN] /\ ~dialog'.inFlight
      /\ dialog'.item # None => dialog'.item \notin acked /\ ~page.loading
  <2>1. CASE Close
    BY <2>1 DEF Close, NoDialog
  <2>2. ASSUME NEW i \in Item, OpenAction(i)
        PROVE  /\ dialog' \in [item : Item \cup {None}, inFlight : BOOLEAN] /\ ~dialog'.inFlight
               /\ dialog'.item # None => dialog'.item \notin acked /\ ~page.loading
    <3>1. dialog' = [item |-> i, inFlight |-> FALSE] /\ i \notin acked /\ ~page.loading
      BY <1>2, <2>2
    <3>2. dialog'.item = i /\ ~dialog'.inFlight
      BY <3>1
    <3>3. dialog' \in [item : Item \cup {None}, inFlight : BOOLEAN]
      BY <3>1
    <3> QED
      BY <3>1, <3>2, <3>3
  <2> QED
    BY <2>1, <2>2
<1>4. Waiting = {}
  BY <1>1 DEF Inv, TypeOK, Waits
<1>5. TypeOK'
  BY <1>1, <1>3 DEF Inv, TypeOK
<1> QED
  BY <1>1, <1>3, <1>4, <1>5
     DEF Inv, OneNewest, AsksTheQuery, RowsFit, Fits, ActedOn, Waits, Waiting, Asks, GivenUpNeverSent

LEMMA ConfirmInv ==
  ASSUME Inv, Confirm
  PROVE  Inv'
<1> DEFINE p == [item |-> dialog.item, stage |-> "token", told |-> "nothing"]
<1>1. /\ dialog.item # None /\ ~dialog.inFlight /\ ~busy
      /\ dialog' = [dialog EXCEPT !.inFlight = TRUE] /\ busy' = TRUE
      /\ posts' = posts \cup {p} /\ UNCHANGED <<server, page, reads, acked>>
  BY DEF Confirm
<1>2. dialog' = [item |-> dialog.item, inFlight |-> TRUE] /\ dialog.item \in Item
  BY <1>1 DEF Inv, TypeOK
<1>3. p \in Post
  BY <1>2 DEF Post
<1>4. TypeOK'
  BY <1>1, <1>2, <1>3 DEF Inv, TypeOK, Post
<1>5. Waiting = {} /\ dialog.item \notin acked /\ ~page.loading
  BY <1>1 DEF Inv, Waits, Asks
<1>6. Waiting' = {p}
  BY <1>1, <1>5 DEF Waiting
<1>7. Waits'
  BY <1>1, <1>2, <1>5, <1>6 DEF Waits
<1> QED
  BY <1>1, <1>2, <1>4, <1>7
     DEF Inv, OneNewest, AsksTheQuery, RowsFit, Fits, ActedOn, Asks, GivenUpNeverSent

-----------------------------------------------------------------------------
(* A call moves on.  Replacing one leaves at most one that waits.          *)
LEMMA PostMoves ==
  ASSUME Inv, NEW p \in posts, NEW q \in Post,
         q.item = p.item, q.told = p.told,
         q.told = "unsent" => q.stage = "token",
         q.stage = "ok" => q.item \notin server',
         server' \subseteq server,
         posts' = (posts \ {p}) \cup {q},
         UNCHANGED <<page, reads, dialog, busy, acked>>
  PROVE  Inv'
<1>1. posts' \subseteq Post /\ server' \subseteq Item
  BY DEF Inv, TypeOK, Post
<1>2. TypeOK'
  BY <1>1 DEF Inv, TypeOK, Post
<1>3. Waits'
  <2>1. CASE q.told = "nothing"
    <3>1. Waiting = {p}
      BY <2>1 DEF Inv, Waits, Waiting
    <3>2. Waiting' = {q}
      BY <2>1, <3>1 DEF Waiting
    <3> QED
      BY <3>1, <3>2 DEF Inv, Waits
  <2>2. CASE q.told # "nothing"
    <3>1. Waiting' = Waiting
      BY <2>2 DEF Waiting
    <3> QED
      BY <3>1 DEF Inv, Waits
  <2> QED
    BY <2>1, <2>2
<1>4. ActedOn' /\ GivenUpNeverSent'
  BY DEF Inv, ActedOn, GivenUpNeverSent
<1> QED
  BY <1>2, <1>3, <1>4 DEF Inv, OneNewest, AsksTheQuery, RowsFit, Fits, Asks

LEMMA PostGoes ==
  ASSUME Inv, NEW p \in posts, p.told # "nothing", posts' = posts \ {p},
         UNCHANGED <<server, page, reads, dialog, busy, acked>>
  PROVE  Inv'
<1>1. TypeOK'
  BY DEF Inv, TypeOK
<1>2. Waiting' = Waiting
  BY DEF Waiting
<1> QED
  BY <1>1, <1>2
     DEF Inv, OneNewest, AsksTheQuery, RowsFit, Fits, ActedOn, Waits, Asks, GivenUpNeverSent

LEMMA SendInv ==
  ASSUME Inv, NEW p \in posts, Send(p)
  PROVE  Inv'
<1> DEFINE q == [p EXCEPT !.stage = "sent"]
<1>1. p \in Post /\ UNCHANGED <<server, page, reads, dialog, busy, acked>>
  BY DEF Inv, TypeOK, Post, Send
<1>2. CASE p.told = "nothing"
  <2>1. posts' = (posts \ {p}) \cup {q}
    BY <1>2 DEF Send, Becomes
  <2>2. q \in Post /\ q.item = p.item /\ q.told = p.told /\ q.stage = "sent"
    BY <1>1 DEF Post
  <2> HIDE DEF q
  <2> QED
    BY <1>1, <1>2, <2>1, <2>2, PostMoves
<1>3. CASE p.told # "nothing"
  BY <1>1, <1>3, PostGoes DEF Send
<1> QED
  BY <1>2, <1>3

LEMMA ServeInv ==
  ASSUME Inv, NEW p \in posts, Serve(p)
  PROVE  Inv'
<1> DEFINE stage == IF p.item \in server THEN "ok" ELSE "refused"
           q == [p EXCEPT !.stage = stage]
<1>1. /\ p \in Post /\ p.stage = "sent" /\ p.told # "unsent"
      /\ server' = server \ {p.item} /\ UNCHANGED <<page, reads, dialog, busy, acked>>
  BY DEF Inv, TypeOK, Post, Serve, GivenUpNeverSent
<1>2. posts' = (posts \ {p}) \cup {q}
  BY DEF Serve, Becomes
<1>3. q \in Post /\ q.item = p.item /\ q.told = p.told
  BY <1>1 DEF Post
<1> HIDE DEF q
<1> QED
  BY <1>1, <1>2, <1>3, PostMoves

LEMMA AnswerInv ==
  ASSUME Inv, NEW p \in posts, Answer(p)
  PROVE  Inv'
<1>1. /\ p \in Post /\ p.stage \in {"ok", "refused"}
      /\ posts' = posts \ {p} /\ UNCHANGED server
  BY DEF Inv, TypeOK, Post, Answer
<1>2. CASE p.told # "nothing"
  BY <1>1, <1>2, PostGoes DEF Answer
<1>3. CASE p.told = "nothing"
  <2>1. Waiting' = {}
    BY <1>1, <1>3 DEF Inv, Waits, Waiting
  <2>2. /\ busy /\ ~page.loading /\ dialog.item = p.item /\ p.item \notin acked
    BY <1>3 DEF Inv, Waits, Waiting
  <2>3. Waits' /\ GivenUpNeverSent'
    BY <1>1, <2>1 DEF Inv, Waits, GivenUpNeverSent
  <2>4. CASE p.stage = "ok"
    <3>1. acked' = acked \cup {p.item} /\ Load(page.query) /\ UNCHANGED <<dialog, busy>>
      BY <1>3, <2>4 DEF Answer
    <3>2. /\ page.query \in Query /\ page' = Loading(page.query)
          /\ reads' = Superseded \cup {NewRead(page.query)}
      BY <3>1 DEF Load, Inv, TypeOK, PageType
    <3>3. /\ page' \in PageType
          /\ reads' \subseteq Read
          /\ page'.loading /\ (\E r \in reads' : r.newest)
          /\ OneNewest' /\ AsksTheQuery' /\ RowsFit'
      BY <3>2, LoadKeeps DEF Inv
    <3>4. p.item \in Item /\ p.item \notin server
      BY <1>1, <2>4 DEF Inv, ActedOn, Post
    <3>5. TypeOK'
      BY <1>1, <3>1, <3>3, <3>4 DEF Inv, TypeOK, Read
    <3>6. ActedOn'
      BY <1>1, <3>1, <3>4 DEF Inv, ActedOn
    <3>7. Asks'
      BY <2>2, <3>1 DEF Inv, TypeOK, Asks
    <3> QED
      BY <2>3, <3>3, <3>5, <3>6, <3>7 DEF Inv
  <2>5. CASE p.stage = "refused"
    <3>1. /\ busy' = FALSE /\ dialog' = [dialog EXCEPT !.inFlight = FALSE]
          /\ UNCHANGED <<page, reads, acked>>
      BY <1>3, <2>5 DEF Answer
    <3>2. TypeOK'
      BY <1>1, <3>1 DEF Inv, TypeOK
    <3>3. ActedOn'
      BY <1>1, <3>1 DEF Inv, ActedOn
    <3>4. Asks'
      BY <2>2, <3>1 DEF Inv, TypeOK, Asks
    <3> QED
      BY <2>3, <3>1, <3>2, <3>3, <3>4 DEF Inv, OneNewest, AsksTheQuery, RowsFit, Fits
  <2> QED
    BY <1>1, <2>4, <2>5
<1> QED
  BY <1>2, <1>3

LEMMA GiveUpInv ==
  ASSUME Inv, NEW p \in posts, GiveUp(p)
  PROVE  Inv'
<1> DEFINE told == IF p.stage = "token" THEN "unsent" ELSE "sent"
           q == [p EXCEPT !.told = told]
<1>1. /\ p \in Post /\ p.told = "nothing" /\ posts' = (posts \ {p}) \cup {q}
      /\ busy' = FALSE /\ dialog' = [dialog EXCEPT !.inFlight = FALSE]
      /\ UNCHANGED <<server, page, reads, acked>>
  BY DEF Inv, TypeOK, Post, GiveUp
<1>2. /\ q \in Post /\ q.item = p.item /\ q.stage = p.stage /\ q.told # "nothing"
      /\ q.told = "unsent" => q.stage = "token"
  BY <1>1 DEF Post
<1> HIDE DEF q
<1>3. ~page.loading /\ dialog.item = p.item /\ p.item \notin acked
  BY <1>1 DEF Inv, Waits, Waiting
<1>4. Waiting' = {}
  BY <1>1, <1>2 DEF Inv, Waits, Waiting
<1>5. TypeOK'
  BY <1>1, <1>2 DEF Inv, TypeOK, Post
<1>6. ActedOn' /\ GivenUpNeverSent'
  BY <1>1, <1>2 DEF Inv, ActedOn, GivenUpNeverSent
<1>7. Asks'
  BY <1>1, <1>3 DEF Inv, TypeOK, Asks
<1> QED
  BY <1>1, <1>4, <1>5, <1>6, <1>7 DEF Inv, OneNewest, AsksTheQuery, RowsFit, Fits, Waits

-----------------------------------------------------------------------------
LEMMA NextInv == Inv /\ [Next]_vars => Inv'
<1> SUFFICES ASSUME Inv, [Next]_vars PROVE Inv'
  OBVIOUS
<1>1. CASE Refresh \/ \E q \in Query : ChangeQuery(q)
  BY <1>1, AskInv
<1>2. ASSUME NEW i \in Item, OtherActs(i) PROVE Inv'
  BY <1>2, OthersInv
<1>3. CASE Close \/ \E i \in Item : OpenAction(i)
  BY <1>3, DialogInv
<1>4. CASE Confirm
  BY <1>4, ConfirmInv
<1>5. ASSUME NEW r \in reads,
             CountRead(r) \/ ServeRead(r) \/ Deliver(r) \/ FailRead(r) \/ Ignore(r)
      PROVE  Inv'
  BY <1>5, CountInv, ServeReadInv, DeliverInv, FailReadInv, IgnoreInv
<1>6. ASSUME NEW p \in posts, Send(p) \/ Serve(p) \/ Answer(p) \/ GiveUp(p) PROVE Inv'
  BY <1>6, SendInv, ServeInv, AnswerInv, GiveUpInv
<1>7. CASE UNCHANGED vars
  BY <1>7 DEF vars, Inv, TypeOK, OneNewest, AsksTheQuery, RowsFit, Fits, ActedOn, Waits,
              Waiting, Asks, GivenUpNeverSent
<1> QED
  BY <1>1, <1>2, <1>3, <1>4, <1>5, <1>6, <1>7 DEF Next

LEMMA Invariance == Spec => []Inv
BY InitInv, NextInv, PTL DEF Spec

(* The page's state, its calls and its dialog stay what they are declared  *)
(* to be; loading and busy say what is under way.                          *)
THEOREM TypeCorrect == Spec => []TypeOK
<1>1. Inv => TypeOK
  BY DEF Inv
<1> QED
  BY <1>1, Invariance, PTL

(* However late answers come, the rows shown offer no action that has      *)
(* succeeded here.                                                         *)
THEOREM ShowsOwnActions == Spec => []ShownIncludesOwnActions
<1>1. Inv => ShownIncludesOwnActions
  BY DEF Inv, RowsFit, Fits, ShownIncludesOwnActions
<1> QED
  BY <1>1, Invariance, PTL

(* However late answers come, what is shown is the answer to the filter    *)
(* and page number in force.                                               *)
THEOREM ShowsTheQuery == Spec => []ShownFitsTheQuery
<1>1. Inv => ShownFitsTheQuery
  BY DEF Inv, RowsFit, Fits, ShownFitsTheQuery
<1> QED
  BY <1>1, Invariance, PTL

(* One call at a time waits for its answer, none for an item done here.    *)
THEOREM ActsOnceAtATime == Spec => []OneActionAtATime
<1>1. Inv => OneActionAtATime
  <2> SUFFICES ASSUME Inv PROVE Cardinality(Waiting) <= 1 /\ \A p \in Waiting : p.item \notin acked
    BY DEF OneActionAtATime, Waiting
  <2>1. CASE Waiting = {}
    BY <2>1, FS_EmptySet
  <2>2. ASSUME NEW p \in Waiting PROVE Cardinality(Waiting) <= 1
    <3>1. Waiting = {p}
      BY DEF Inv, Waits
    <3>2. Cardinality({p}) = 1
      BY FS_Singleton
    <3> QED
      BY <3>1, <3>2
  <2> QED
    BY <2>1, <2>2 DEF Inv, Waits
<1> QED
  BY <1>1, Invariance, PTL

(* A call given up while it waited for the token is never sent.            *)
THEOREM NeverSentLater == Spec => []GivenUpNeverSent
<1>1. Inv => GivenUpNeverSent
  BY DEF Inv
<1> QED
  BY <1>1, Invariance, PTL
=============================================================================
