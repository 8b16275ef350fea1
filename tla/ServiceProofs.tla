---------------------------- MODULE ServiceProofs ----------------------------
(***************************************************************************)
(* The service around the visits: its worker threads through any number of *)
(* restarts, the gate of its requests for any number of threads, keys,     *)
(* tokens and routes, and the schema and the data of its database through  *)
(* any order of upgrades, downgrades, failures and releases.               *)
(***************************************************************************)
EXTENDS WorkerLifecycle, TokenGate, Migrations, FiniteSetTheorems, WellFoundedInduction, TLAPS

-----------------------------------------------------------------------------
(* The worker threads.                                                     *)
(* A worker's handle names its only thread that is still alive.            *)
HandleNamesThread == \A k \in Kind : Live(k) \subseteq {worker[k]}

WorkerInv == WorkerTypeOK /\ HandleNamesThread /\ SessionWorkerWhileUp

LEMMA WorkerInitInv == WorkerInit => WorkerInv
BY DEF WorkerInit, WorkerInv, WorkerTypeOK, Main, Loop, HandleNamesThread, Live, SessionWorkerWhileUp

(* A thread is launched only when none of its kind is alive.               *)
LEMMA LaunchInv ==
  ASSUME WorkerTypeOK, HandleNamesThread, NEW k \in Kind, NEW first \in Loop \ {"unstarted", "exited"},
         ~IsAlive(k), Launch(k, first), main' \in Main
  PROVE  /\ WorkerTypeOK' /\ HandleNamesThread' /\ IsAlive(k)' /\ ~stop'[k]
         /\ \A j \in Kind \ {k} : Live(j)' = Live(j) /\ worker'[j] = worker[j] /\ stop'[j] = stop[j]
<1>1. PICK t \in WorkerThread : /\ stop' = [stop EXCEPT ![k] = FALSE]
                          /\ worker' = [worker EXCEPT ![k] = t]
                          /\ loop' = [loop EXCEPT ![k][t] = first]
  BY DEF Launch
<1>2. WorkerTypeOK'
  BY <1>1 DEF WorkerTypeOK
<1>3. Live(k) = {}
  BY DEF HandleNamesThread, IsAlive
<1>4. Live(k)' = {t} /\ worker'[k] = t
  BY <1>1, <1>3 DEF WorkerTypeOK, Live
<1>5. \A j \in Kind \ {k} : Live(j)' = Live(j) /\ worker'[j] = worker[j] /\ stop'[j] = stop[j]
  BY <1>1 DEF WorkerTypeOK, Live
<1>6. HandleNamesThread'
  BY <1>4, <1>5 DEF HandleNamesThread
<1>7. IsAlive(k)' /\ ~stop'[k]
  BY <1>1, <1>4 DEF WorkerTypeOK, IsAlive
<1>. QED
  BY <1>2, <1>5, <1>6, <1>7

LEMMA MoveInv ==
  ASSUME WorkerInv, NEW k \in Kind, NEW t \in WorkerThread, NEW from \in Loop \ {"unstarted", "exited"},
         NEW to \in Loop \ {"unstarted"}, Move(k, t, from, to), to = "exited" => stop[k]
  PROVE  WorkerInv'
<1>1. WorkerTypeOK'
  BY DEF WorkerInv, WorkerTypeOK, Move
<1>2. \A j \in Kind : Live(j)' \subseteq Live(j)
  BY DEF WorkerInv, WorkerTypeOK, Move, Live
<1>3. HandleNamesThread'
  BY <1>2 DEF WorkerInv, HandleNamesThread, Move
<1>4. ~stop["session"] => Live("session")' = Live("session")
  BY DEF WorkerInv, WorkerTypeOK, Move, Live
<1>5. SessionWorkerWhileUp'
  <2>. SUFFICES ASSUME main' \in {"start_visit", "up"}
                PROVE  IsAlive("session")' /\ ~stop'["session"]
    BY DEF SessionWorkerWhileUp
  <2>1. IsAlive("session") /\ ~stop["session"] /\ stop' = stop /\ worker' = worker
    BY DEF WorkerInv, SessionWorkerWhileUp, Move
  <2>. QED
    BY <2>1, <1>4 DEF IsAlive
<1>. QED
  BY <1>1, <1>3, <1>5 DEF WorkerInv

(* The steps of the main thread that launch nothing.                       *)
LEMMA MainInv ==
  ASSUME WorkerInv,
         \/ Startup \/ Shutdown \/ StopSession \/ JoinSession \/ StopVisit \/ JoinVisit
         \/ NewProcess
  PROVE  WorkerInv'
<1>1. main' \in Main \ {"start_visit", "up"}
  BY DEF Main, Startup, Shutdown, StopSession, JoinSession, StopVisit, JoinVisit, NewProcess
<1>2. WorkerTypeOK'
  <2>1. CASE Startup \/ Shutdown \/ JoinVisit
    BY <1>1, <2>1 DEF WorkerInv, WorkerTypeOK, Startup, Shutdown, JoinVisit
  <2>2. CASE StopSession \/ StopVisit
    BY <1>1, <2>2 DEF WorkerInv, WorkerTypeOK, StopSession, StopVisit
  <2>3. CASE JoinSession
    BY <1>1, <2>3 DEF WorkerInv, WorkerTypeOK, JoinSession, Kind
  <2>4. CASE NewProcess
    BY <1>1, <2>4 DEF WorkerTypeOK, NewProcess, Loop
  <2>. QED
    BY <2>1, <2>2, <2>3, <2>4
<1>3. HandleNamesThread'
  <2>1. CASE NewProcess
    BY <2>1 DEF NewProcess, HandleNamesThread, Live
  <2>2. CASE JoinSession
    <3>1. ~IsAlive("session") => Live("session") = {}
      BY DEF WorkerInv, HandleNamesThread, IsAlive, Kind
    <3>2. \A k \in Kind : Live(k)' = Live(k)
      BY <2>2 DEF JoinSession, Live
    <3>3. \A k \in Kind : worker'[k] = worker[k] \/ (k = "session" /\ ~IsAlive("session"))
      BY <2>2 DEF JoinSession, WorkerInv, WorkerTypeOK
    <3>. QED
      BY <3>1, <3>2, <3>3 DEF WorkerInv, HandleNamesThread
  <2>3. CASE Startup \/ Shutdown \/ StopSession \/ StopVisit \/ JoinVisit
    BY <2>3 DEF Startup, Shutdown, StopSession, StopVisit, JoinVisit, WorkerInv, HandleNamesThread, Live
  <2>. QED
    BY <2>1, <2>2, <2>3
<1>. QED
  BY <1>1, <1>2, <1>3 DEF WorkerInv, SessionWorkerWhileUp

LEMMA StartInv ==
  ASSUME WorkerInv, StartSession \/ StartVisit
  PROVE  WorkerInv'
<1>1. main' \in Main
  BY DEF StartSession, StartVisit, Main
<1>2. CASE StartSession /\ IsAlive("session")
  BY <1>1, <1>2 DEF StartSession, WorkerInv, WorkerTypeOK, HandleNamesThread, SessionWorkerWhileUp, IsAlive,
     Live
<1>3. CASE StartSession /\ ~IsAlive("session")
  <2>1. Launch("session", "waiting")
    BY <1>3 DEF StartSession
  <2>. QED
    BY <1>1, <1>3, <2>1, LaunchInv DEF WorkerInv, Kind, Loop, SessionWorkerWhileUp
<1>4. CASE StartVisit /\ IsAlive("visit")
  BY <1>1, <1>4 DEF StartVisit, WorkerInv, WorkerTypeOK, HandleNamesThread, SessionWorkerWhileUp, IsAlive,
     Live
<1>5. CASE StartVisit /\ ~IsAlive("visit")
  <2>1. Launch("visit", "checking") /\ main = "start_visit"
    BY <1>5 DEF StartVisit
  <2>2. /\ WorkerTypeOK' /\ HandleNamesThread'
        /\ Live("session")' = Live("session") /\ worker'["session"] = worker["session"]
        /\ stop'["session"] = stop["session"]
    BY <1>1, <1>5, <2>1, LaunchInv DEF WorkerInv, Kind, Loop
  <2>. QED
    BY <2>1, <2>2 DEF WorkerInv, SessionWorkerWhileUp, IsAlive
<1>. QED
  BY <1>2, <1>3, <1>4, <1>5

LEMMA WorkerNextInv == WorkerInv /\ [WorkerNext]_workerVars => WorkerInv'
<1>. SUFFICES ASSUME WorkerInv, [WorkerNext]_workerVars PROVE WorkerInv'
  OBVIOUS
<1>1. CASE StartSession \/ StartVisit
  BY <1>1, StartInv
<1>2. CASE \/ Startup \/ Shutdown \/ StopSession \/ JoinSession \/ StopVisit \/ JoinVisit
           \/ NewProcess
  BY <1>2, MainInv
<1>3. ASSUME NEW k \in Kind, NEW t \in WorkerThread, EndSweep(k, t) PROVE WorkerInv'
  BY <1>3, MoveInv DEF EndSweep, Loop
<1>4. ASSUME NEW k \in Kind, NEW t \in WorkerThread, EndWait(k, t) PROVE WorkerInv'
  BY <1>4, MoveInv DEF EndWait, Loop
<1>5. ASSUME NEW t \in WorkerThread, Check(t) PROVE WorkerInv'
  BY <1>5, MoveInv DEF Check, Loop, Kind
<1>6. CASE UNCHANGED workerVars
  BY <1>6 DEF workerVars, WorkerInv, WorkerTypeOK, HandleNamesThread, SessionWorkerWhileUp, IsAlive, Live
<1>. QED
  BY <1>1, <1>2, <1>3, <1>4, <1>5, <1>6 DEF WorkerNext

-----------------------------------------------------------------------------
(* Events, handles and threads stay what they are declared to be.          *)
THEOREM WorkerTypeCorrect == WorkerSpec => []WorkerTypeOK
BY WorkerInitInv, WorkerNextInv, PTL DEF WorkerSpec, WorkerInv

(* No start, however it follows a stop that gave up waiting, leaves two    *)
(* live threads of a kind.                                                 *)
THEOREM NeverTwoWorkers == WorkerSpec => []OneWorkerEach
<1>1. WorkerInv => OneWorkerEach
  <2>. SUFFICES ASSUME WorkerInv, NEW k \in Kind PROVE Cardinality(Live(k)) <= 1
    BY DEF OneWorkerEach
  <2>1. Live(k) = {} \/ Live(k) = {worker[k]}
    BY DEF WorkerInv, HandleNamesThread
  <2>2. CASE Live(k) = {}
    BY <2>2, FS_EmptySet
  <2>3. CASE Live(k) = {worker[k]}
    <3>1. Cardinality({worker[k]}) = 1
      BY FS_Singleton
    <3>. QED
      BY <2>3, <3>1
  <2>. QED
    BY <2>1, <2>2, <2>3
<1>. QED
  BY <1>1, WorkerInitInv, WorkerNextInv, PTL DEF WorkerSpec

(* A process that has come up has a session-timeout worker that no earlier *)
(* stop signal will end.                                                   *)
THEOREM SessionWorkerServes == WorkerSpec => []SessionWorkerWhileUp
BY WorkerInitInv, WorkerNextInv, PTL DEF WorkerSpec, WorkerInv

-----------------------------------------------------------------------------
(* The gate.  A published key is found unless an answer from before its    *)
(* publication was on its way when the request came.                       *)
(* A call of one thread changes the others' calls in nothing.              *)
GateCalls == [pc : Phase \cup Answer, again : BOOLEAN, token : Tokens,
          route : Routes, doc : SUBSET published]
CallOK(t) ==
  \/ call[t] = Idle
  \/ /\ call[t] \in GateCalls
     /\ call[t].pc \notin Phase \cup {"unknown_key", "no_metadata"}
          => call[t].token.kid \in published

GateTypes ==
  /\ published \subseteq Kid
  /\ cache = None \/ cache \subseteq published
  /\ settled \subseteq Thread
  /\ DOMAIN call = Thread
  /\ call = [t \in Thread |-> call[t]]
  /\ \A t \in Thread : CallOK(t)

LEMMA GateTypesAreTypeOK == GateTypes => GateTypeOK
  BY DEF GateTypes, GateTypeOK, CallOK, GateCalls

LEMMA CheckedAnswers ==
  ASSUME NEW token, NEW route
  PROVE  /\ Checked(token, route) \in Answer
         /\ Checked(token, route) \notin Phase \cup {"unknown_key", "no_metadata"}
  BY DEF Checked, Answer, Phase

(* What a search of doc answers.                                           *)
LEMMA SearchAnswers ==
  ASSUME NEW t, NEW doc
  PROVE  /\ Search(t, doc) \in Phase \cup Answer
         /\ Search(t, doc) \notin Phase \cup {"unknown_key", "no_metadata"}
              => call[t].token.kid \in doc
         /\ call[t].token.kid \in doc => Search(t, doc) \notin Phase \cup {"unknown_key"}
         /\ Search(t, doc) = "unknown_key" => call[t].again
  BY CheckedAnswers DEF Search, Answer, Phase

LEMMA GateInitTypes == GateInit => GateTypes
  BY DEF GateInit, GateTypes, CallOK

LEMMA GateTypesKept == GateTypes /\ [GateNext]_gateVars => GateTypes'
<1> SUFFICES ASSUME GateTypes, [GateNext]_gateVars PROVE GateTypes'
  OBVIOUS
<1> USE DEF GateTypes, CallOK, GateCalls
<1>1. CASE UNCHANGED gateVars
  BY <1>1 DEF gateVars
<1>2. CASE \E k \in Kid : Publish(k)
  BY <1>2 DEF Publish
<1>3. ASSUME NEW t \in Thread, NEW token \in Tokens, NEW route \in Routes,
             Begin(t, token, route)
      PROVE  GateTypes'
  BY <1>3 DEF Begin, Phase, Answer
<1>4. ASSUME NEW t \in Thread, Look(t) PROVE GateTypes'
  <2>1. call[t].pc \in Phase /\ call[t] # Idle /\ call[t] \in GateCalls
    BY <1>4 DEF Look, Idle, Phase
  <2>2. CASE cache = None
    BY <1>4, <2>1, <2>2 DEF Look, Phase
  <2>3. CASE cache # None
    <3>1. call' = [call EXCEPT ![t].pc = Search(t, cache)]
      BY <1>4, <2>3 DEF Look
    <3>2. cache \subseteq published
      BY <2>3
    <3> QED
      BY <1>4, <2>1, <3>1, <3>2, SearchAnswers DEF Look
  <2> QED
    BY <2>2, <2>3
<1>5. ASSUME NEW t \in Thread, ProviderAnswers(t) PROVE GateTypes'
  BY <1>5 DEF ProviderAnswers, Idle, Phase
<1>6. ASSUME NEW t \in Thread, Store(t) PROVE GateTypes'
  <2>1. call[t].pc \in Phase /\ call[t] \in GateCalls
    BY <1>6 DEF Store, Idle, Phase
  <2> DEFINE found == Search(t, call[t].doc)
  <2>2. /\ found \in Phase \cup Answer
        /\ found \notin Phase \cup {"unknown_key", "no_metadata"}
             => call[t].token.kid \in published
    BY <2>1, SearchAnswers
  <2>3. /\ call' = [call EXCEPT ![t].pc = found, ![t].doc = {}]
        /\ published' = published /\ settled' = settled
        /\ cache' = None \/ cache' \subseteq published'
    BY <1>6, <2>1 DEF Store
  <2> HIDE DEF found
  <2>4. CallOK(t)'
    BY <2>1, <2>2, <2>3
  <2>5. \A u \in Thread \ {t} : CallOK(u)'
    BY <2>3
  <2>6. \A u \in Thread : CallOK(u)'
    BY <2>4, <2>5
  <2>7. DOMAIN call' = Thread /\ call' = [u \in Thread |-> call'[u]]
    BY <2>3
  <2> HIDE DEF CallOK
  <2> QED
    BY <2>3, <2>6, <2>7
<1>7. ASSUME NEW t \in Thread, Clear(t) PROVE GateTypes'
  BY <1>7 DEF Clear, Idle, Phase
<1>8. ASSUME NEW t \in Thread, FetchFails(t) PROVE GateTypes'
  BY <1>8 DEF FetchFails, Idle, Phase, Answer
<1> QED
  BY <1>1, <1>2, <1>3, <1>4, <1>5, <1>6, <1>7, <1>8 DEF GateNext, Proceed

LEMMA GateTypesHold == GateSpec => []GateTypes
  BY GateInitTypes, GateTypesKept, PTL DEF GateSpec

(* Every variable keeps its type, and no token is served, nor refused for  *)
(* its claims, unless its key is published.                                *)
THEOREM GateTypeCorrect == GateSpec => []GateTypeOK
  BY GateTypesHold, GateTypesAreTypeOK, PTL

-----------------------------------------------------------------------------
(* While a settled call is served no answer without its key is under way,  *)
(* and once it has cleared the cache, the cache has its key when it has    *)
(* anything.                                                               *)
SettledCall(t) ==
  /\ call[t].pc # "unknown_key"
  /\ Serving(t) =>
       /\ call[t].token.kid \in published
       /\ \A u \in Thread : ~Lacking(u, call[t].token.kid)
       /\ call[t].again => cache = None \/ call[t].token.kid \in cache

Settled == \A t \in settled : SettledCall(t)

LEMMA SettledKept == GateTypes /\ Settled /\ [GateNext]_gateVars => Settled'
<1> SUFFICES ASSUME GateTypes, Settled, [GateNext]_gateVars, NEW t \in settled'
             PROVE  SettledCall(t)'
  BY DEF Settled
<1> USE DEF SettledCall, Serving, Lacking
<1>1. CASE UNCHANGED gateVars
  BY <1>1 DEF gateVars, Settled
<1>2. CASE \E k \in Kid : Publish(k)
  BY <1>2 DEF Publish, Settled
<1>3. ASSUME NEW u \in Thread, NEW token \in Tokens, NEW route \in Routes,
             Begin(u, token, route)
      PROVE  SettledCall(t)'
  BY <1>3 DEF Begin, Settled, Phase, GateTypes
<1> DEFINE Typed(u) == call[u] \in GateCalls
<1>a. \A u \in Thread : call[u].pc \in Phase => Typed(u)
  BY DEF GateTypes, CallOK, Idle, Phase
<1> HIDE DEF Typed
<1>4. ASSUME NEW u \in Thread, Look(u) PROVE SettledCall(t)'
  <2>1. t \in settled /\ t \in Thread /\ SettledCall(t)
    BY <1>4 DEF Look, Settled, GateTypes
  <2>2. call'[u].doc = call[u].doc /\ call'[u].pc # "answered"
    BY <1>4, <1>a, SearchAnswers, CheckedAnswers DEF Look, GateTypes, Typed, GateCalls, Phase, Search, Answer
  <2>3. CASE t = u
    <3>1. CASE cache = None
      BY <1>4, <1>a, <2>1, <2>2, <2>3, <3>1 DEF Look, GateTypes, Typed, GateCalls, Phase
    <3>2. CASE cache # None
      <4>1. /\ call[t].pc = "look" /\ call[t] \in GateCalls
            /\ call[t].again => call[t].token.kid \in cache
        BY <1>4, <1>a, <2>1, <2>3, <3>2 DEF Look, Typed, Phase
      <4>2. Search(t, cache) # "unknown_key"
        BY <4>1, SearchAnswers DEF Phase
      <4>3. call' = [call EXCEPT ![t].pc = Search(t, cache)] /\ published' = published /\ cache' = cache
        BY <1>4, <2>3, <3>2 DEF Look
      <4>4. /\ call'[t].pc # "unknown_key" /\ call'[t].again = call[t].again
            /\ call'[t].token = call[t].token
        BY <2>1, <4>1, <4>2, <4>3 DEF GateTypes, GateCalls
      <4>5. \A v \in Thread : ~Lacking(v, call[t].token.kid)'
        BY <2>1, <2>2, <2>3, <4>1, <4>3, <4>4 DEF GateTypes, Phase
      <4> QED
        BY <2>1, <4>1, <4>3, <4>4, <4>5 DEF Phase
    <3> QED
      BY <3>1, <3>2
  <2>4. CASE t # u
    BY <1>4, <1>a, <2>1, <2>2, <2>4 DEF Look, GateTypes, Typed, GateCalls, Phase
  <2> QED
    BY <2>3, <2>4
<1>5. ASSUME NEW u \in Thread, ProviderAnswers(u) PROVE SettledCall(t)'
  BY <1>5, <1>a DEF ProviderAnswers, Settled, GateTypes, Typed, GateCalls, Phase
<1>6. ASSUME NEW u \in Thread, Store(u) PROVE SettledCall(t)'
  <2>1. t \in settled /\ t \in Thread /\ SettledCall(t)
    BY <1>6 DEF Store, Settled, GateTypes
  <2>2. call'[u].pc = Search(u, call[u].doc) /\ call'[u].pc # "answered"
    BY <1>6, <1>a, CheckedAnswers, ZenonT(30) DEF Store, GateTypes, Typed, GateCalls, Phase, Search, Answer
  <2>3. CASE t = u
    <3>1. call[t].token.kid \in call[t].doc
      BY <1>6, <2>1, <2>3 DEF Store, Phase
    <3> QED
      BY <1>6, <2>1, <2>2, <2>3, <3>1, SearchAnswers DEF Store, GateTypes
  <2>4. CASE t # u
    <3>1. call'[t] = call[t] /\ published' = published
      BY <1>6, <2>1, <2>4 DEF Store, GateTypes
    <3>2. Serving(t) => call[t].token.kid \in call[u].doc
      BY <1>6, <2>1 DEF Store
    <3>3. Serving(t) => \A v \in Thread : ~Lacking(v, call[t].token.kid)'
      BY <1>6, <2>1, <2>2, <2>4, <3>1 DEF Store, GateTypes
    <3>4. Serving(t) /\ call[t].again => cache' = None \/ call[t].token.kid \in cache'
      BY <1>6, <2>1, <3>2 DEF Store
    <3>5. Serving(t)' <=> Serving(t)
      BY <3>1
    <3> QED
      BY <2>1, <3>1, <3>3, <3>4, <3>5
  <2> QED
    BY <2>3, <2>4
<1>7. ASSUME NEW u \in Thread, Clear(u) PROVE SettledCall(t)'
  BY <1>7, <1>a DEF Clear, Settled, GateTypes, Typed, GateCalls, Phase
<1>8. ASSUME NEW u \in Thread, FetchFails(u) PROVE SettledCall(t)'
  BY <1>8, <1>a DEF FetchFails, Settled, GateTypes, Typed, GateCalls, Phase
<1> QED
  BY <1>1, <1>2, <1>3, <1>4, <1>5, <1>6, <1>7, <1>8 DEF GateNext, Proceed

LEMMA InitSettled == GateInit => Settled
  BY DEF GateInit, Settled

(* A token whose key is published is never refused for its key, however    *)
(* many threads clear and refill the cache, unless it came while an answer *)
(* from before the publication was under way.                              *)
THEOREM SettledFound == GateSpec => []SettledKeyFound
<1>1. GateTypes /\ Settled => SettledKeyFound
  BY DEF GateTypes, Settled, SettledKeyFound, SettledCall
<1> QED
  BY <1>1, GateTypesHold, InitSettled, SettledKept, PTL DEF GateSpec

-----------------------------------------------------------------------------
(* The schema's revisions: the data they pass on.                          *)

(* A database as one record: its requests and session rows are finite.     *)
Shaped(d) ==
  /\ d = [rev |-> d.rev, cols |-> d.cols, marks |-> d.marks, requests |-> d.requests,
          rows |-> d.rows, next |-> d.next]
  /\ d.rev \in 0..Newest
  /\ d.requests \subseteq [n : Nat \ {0}, visitors : {1, 2}] /\ IsFiniteSet(d.requests)
  /\ d.rows \subseteq Row /\ IsFiniteSet(d.rows)
  /\ d.next \in (Nat \ {0}) \cup {Null} /\ (d.next # Null <=> d.rev >= 22)

(* A heartbeat row that a login could take over is no earlier than what    *)
(* the login has taken over already.                                       *)
BeatsInOrder(rows) ==
  \A e, x \in rows :
    e.login # Null /\ e.beat # Null /\ x.login = Null /\ x.user = e.user /\ x.beat # Null
      /\ x.beat >= e.login => x.beat >= e.beat

(* DataFitsRevision, of any database record: that of the transaction, and  *)
(* that to which a failed chain returns.                                   *)
Fit(d) ==
  /\ d.rev < 8 => \A q \in d.requests : q.visitors = 1
  /\ d.rev >= 22 /\ ~mixed => \A q \in d.requests : q.n < d.next
  /\ \A e \in d.rows : e.owner # Null => d.rev >= 23 /\ e.born >= 23
  /\ ~mixed => \A e \in d.rows :
       e.reason \in (IF d.rev >= 21 THEN NewReasons ELSE OldReasons) \cup {Null}
  /\ BeatsInOrder(d.rows)

(* A chain goes one way, from what it would return to towards its target.  *)
ChainOK ==
  run # Null =>
    /\ run.target \in 0..Newest /\ Shaped(run.saved) /\ Fit(run.saved)
    /\ \/ run.saved.rev <= db.rev /\ db.rev <= run.target
       \/ run.target <= db.rev /\ db.rev <= run.saved.rev
    /\ db.rev = run.saved.rev => db = run.saved
    /\ run.saved.rev = 15 /\ db.rev = 14 => db.rows = run.saved.rows

SchemaInv ==
  /\ Shaped(db) /\ Fit(db) /\ ChainOK
  /\ release \in 0..Newest /\ trouble \in {"", "schema", "data"} /\ mixed \in BOOLEAN

LEMMA RevisionCount == Newest = 24
  BY DEF Newest, Ups

LEMMA ImageFinite ==
  ASSUME NEW Dom, IsFiniteSet(Dom), NEW f, DOMAIN f = Dom
  PROVE  IsFiniteSet({f[x] : x \in Dom})
<1> DEFINE Img == {f[x] : x \in Dom}
           g == [x \in Dom |-> f[x]]
<1>1. g \in Surjection(Dom, Img)
  BY DEF Surjection
<1> QED
  BY <1>1, FS_Surjection

(* Finite sets of integers have a greatest element.                        *)
LEMMA GreatestExists ==
  ASSUME NEW Dom \in SUBSET Int, IsFiniteSet(Dom), Dom # {}
  PROVE  Max(Dom) \in Dom /\ \A y \in Dom : y <= Max(Dom)
<1> DEFINE Above(x) == {y \in Dom : y > x}
           Sets == {Above(x) : x \in Dom}
<1>1. Sets \subseteq FiniteSubsetsOf(Dom) /\ Sets # {}
  <2>1. \A x \in Dom : Above(x) \in SUBSET Dom /\ IsFiniteSet(Above(x))
    BY FS_Subset
  <2>2. \E x : x \in Dom
    OBVIOUS
  <2> HIDE DEF Above
  <2> QED
    BY <2>1, <2>2 DEF FiniteSubsetsOf
<1>2. PICK Least \in Sets : \A U \in Sets : <<U, Least>> \notin StrictSubsetOrdering(Dom)
  BY <1>1, FS_StrictSubsetOrderingWellFounded, WFMin
<1>3. PICK r \in Dom : Least = Above(r)
  BY <1>2
<1>4. ASSUME NEW s \in Above(r) PROVE FALSE
  <2>1. s \in Dom /\ s > r
    BY <1>4
  <2>2. Above(s) \subseteq Above(r) /\ s \notin Above(s)
    <3>1. s \in Int /\ r \in Int /\ ~(s > s)
      BY <2>1
    <3>2. ASSUME NEW y \in Dom, y > s PROVE y > r
      BY <2>1, <3>1, <3>2
    <3> QED
      BY <3>1, <3>2
  <2>3. Above(s) \in SUBSET Dom /\ Above(r) \in SUBSET Dom /\ Above(s) # Above(r)
    BY <1>4, <2>2
  <2>4. <<Above(s), Above(r)>> \in StrictSubsetOrdering(Dom)
    BY <2>2, <2>3 DEF StrictSubsetOrdering
  <2> QED
    BY <1>2, <1>3, <2>1, <2>4
<1>5. \E x \in Dom : \A y \in Dom : x >= y
  BY <1>4
<1>6. Max(Dom) \in Dom /\ \A y \in Dom : Max(Dom) >= y
  BY <1>5 DEF Max
<1> QED
  BY <1>6

-----------------------------------------------------------------------------
(* What the revisions do to the session rows.                              *)
LEMMA RowFields ==
  ASSUME NEW e \in Row
  PROVE  /\ e = [user |-> e.user, login |-> e.login, beat |-> e.beat, reason |-> e.reason,
                 owner |-> e.owner, born |-> e.born]
         /\ e.login # Null => e.login \in Time /\ e.login \in Int
         /\ e.beat # Null => e.beat \in Time /\ e.beat \in Int
         /\ e.user \in User /\ e.born \in Int
<1>1. e = [user |-> e.user, login |-> e.login, beat |-> e.beat, reason |-> e.reason,
           owner |-> e.owner, born |-> e.born]
  BY DEF Row
<1>2. e.user \in User /\ e.login \in Time \cup {Null} /\ e.beat \in Time \cup {Null}
  BY DEF Row
<1>3. Time \subseteq Int
  BY MigrationAssumption
<1>4. e.born \in Int
  BY RevisionCount DEF Row
<1> QED
  BY <1>1, <1>2, <1>3, <1>4

(* The heartbeats since a login, and the last of them.                     *)
LEMMA SinceLoginMax ==
  ASSUME NEW rows \in SUBSET Row, IsFiniteSet(rows), NEW e \in rows, e.login # Null
  PROVE  /\ SinceLogin(rows, e) \subseteq Time
         /\ SinceLogin(rows, e) # {} =>
              /\ Max(SinceLogin(rows, e)) \in SinceLogin(rows, e)
              /\ \A t \in SinceLogin(rows, e) : t <= Max(SinceLogin(rows, e))
<1> DEFINE B == {x \in rows : x.login = Null /\ x.user = e.user /\ x.beat # Null /\ x.beat >= e.login}
           f == [x \in B |-> x.beat]
<1>1. SinceLogin(rows, e) = {f[x] : x \in B}
  BY DEF SinceLogin
<1>2. IsFiniteSet(B)
  BY FS_Subset
<1>3. IsFiniteSet({f[x] : x \in B})
  <2>1. DOMAIN f = B
    OBVIOUS
  <2> HIDE DEF B, f
  <2> QED
    BY <1>2, <2>1, ImageFinite
<1>4. SinceLogin(rows, e) \subseteq Time /\ SinceLogin(rows, e) \subseteq Int
  <2>1. \A x \in B : x.beat \in Time /\ x.beat \in Int
    BY RowFields
  <2> QED
    BY <2>1 DEF SinceLogin
<1> QED
  BY <1>1, <1>3, <1>4, GreatestExists

RowsOK(rows) == rows \subseteq Row /\ IsFiniteSet(rows) /\ BeatsInOrder(rows)

(* A rewriting that leaves times as they are, or takes the heartbeat off a *)
(* login.                                                                  *)
LEMMA Rewritten ==
  ASSUME NEW rows, RowsOK(rows), NEW f, DOMAIN f = rows,
         \A e \in rows : /\ f[e] \in Row /\ f[e].user = e.user /\ f[e].login = e.login
                         /\ f[e].beat = e.beat \/ (e.login # Null /\ f[e].beat = Null)
  PROVE  RowsOK({f[e] : e \in rows})
<1>1. IsFiniteSet({f[e] : e \in rows})
  BY ImageFinite DEF RowsOK
<1>2. BeatsInOrder({f[e] : e \in rows})
  BY DEF RowsOK, BeatsInOrder
<1> QED
  BY <1>1, <1>2 DEF RowsOK

LEMMA SplitRows == ASSUME NEW rows, RowsOK(rows) PROVE RowsOK(Split(rows))
<1> DEFINE f == [e \in rows |-> IF e.login # Null THEN [e EXCEPT !.beat = Null] ELSE e]
<1>1. \A e \in rows : /\ f[e] \in Row /\ f[e].user = e.user /\ f[e].login = e.login
                      /\ f[e].beat = e.beat \/ (e.login # Null /\ f[e].beat = Null)
  BY DEF RowsOK, Row
<1>2. Split(rows) = {f[e] : e \in rows} /\ DOMAIN f = rows
  BY DEF Split
<1> HIDE DEF f
<1> QED
  BY <1>1, <1>2, Rewritten

LEMMA DisownedRows == ASSUME NEW rows, RowsOK(rows) PROVE RowsOK(Disowned(rows))
<1> DEFINE f == [e \in rows |-> [e EXCEPT !.owner = Null]]
<1>1. \A e \in rows : /\ f[e] \in Row /\ f[e].user = e.user /\ f[e].login = e.login
                      /\ f[e].beat = e.beat
  BY DEF RowsOK, Row
<1>2. Disowned(rows) = {f[e] : e \in rows} /\ DOMAIN f = rows
  BY DEF Disowned
<1> HIDE DEF f
<1> QED
  BY <1>1, <1>2, Rewritten

LEMMA RewordedRows ==
  ASSUME NEW rows, RowsOK(rows), NEW words,
         \A w \in DOMAIN words : words[w] \in OldReasons \cup NewReasons
  PROVE  RowsOK(Reworded(rows, words))
<1> DEFINE f == [e \in rows |-> IF e.reason \in DOMAIN words THEN [e EXCEPT !.reason = words[e.reason]]
                                ELSE e]
<1>1. \A e \in rows : /\ f[e] \in Row /\ f[e].user = e.user /\ f[e].login = e.login
                      /\ f[e].beat = e.beat
  BY DEF RowsOK, Row
<1>2. Reworded(rows, words) = {f[e] : e \in rows} /\ DOMAIN f = rows
  BY DEF Reworded
<1> HIDE DEF f
<1> QED
  BY <1>1, <1>2, Rewritten

(* A login row after the merge.                                            *)
MergedRow(rows, e) ==
  IF SinceLogin(rows, e) = {} THEN e ELSE [e EXCEPT !.beat = Max(SinceLogin(rows, e))]

LEMMA MergedRowIs ==
  ASSUME NEW rows, RowsOK(rows), NEW e \in rows, e.login # Null
  PROVE  /\ MergedRow(rows, e) \in Row
         /\ MergedRow(rows, e).user = e.user /\ MergedRow(rows, e).login = e.login
         /\ MergedRow(rows, e).reason = e.reason /\ MergedRow(rows, e).owner = e.owner
         /\ MergedRow(rows, e).born = e.born
         /\ MergedRow(rows, e).beat =
              IF SinceLogin(rows, e) = {} THEN e.beat ELSE Max(SinceLogin(rows, e))
<1>1. SinceLogin(rows, e) # {} => Max(SinceLogin(rows, e)) \in Time
  BY SinceLoginMax DEF RowsOK
<1> QED
  BY <1>1 DEF MergedRow, RowsOK, Row

Logins(rows) == {e \in rows : e.login # Null}
Orphan(rows, b) == ~\E e \in Logins(rows) : e.user = b.user /\ e.login <= b.beat

LEMMA MergeIs ==
  ASSUME NEW rows
  PROVE  Merge(rows) = {MergedRow(rows, e) : e \in Logins(rows)}
                         \cup {b \in rows \ Logins(rows) : Orphan(rows, b)}
  BY DEF Merge, MergedRow, Logins, Orphan

LEMMA MergeRows == ASSUME NEW rows, RowsOK(rows) PROVE RowsOK(Merge(rows))
<1> DEFINE f == [e \in Logins(rows) |-> MergedRow(rows, e)]
           M == {f[e] : e \in Logins(rows)}
           O == {b \in rows \ Logins(rows) : Orphan(rows, b)}
<1>1. Merge(rows) = M \cup O
  BY MergeIs
<1>2. \A e \in Logins(rows) : /\ f[e] \in Row /\ f[e].login # Null /\ f[e].user = e.user
                              /\ f[e].login = e.login
  BY MergedRowIs DEF Logins
<1>3. IsFiniteSet(M) /\ IsFiniteSet(O)
  <2>1. IsFiniteSet(Logins(rows)) /\ IsFiniteSet(O)
    BY FS_Subset DEF Logins, RowsOK
  <2>2. DOMAIN f = Logins(rows)
    OBVIOUS
  <2> HIDE DEF f
  <2> QED
    BY <2>1, <2>2, ImageFinite
<1>4. IsFiniteSet(Merge(rows))
  BY <1>1, <1>3, FS_Union
<1> HIDE DEF f
<1>5. Merge(rows) \subseteq Row
  BY <1>1, <1>2 DEF RowsOK
<1>6. \A b \in O : b.login = Null /\ Orphan(rows, b)
  BY DEF Logins
<1>7. BeatsInOrder(Merge(rows))
  <2> SUFFICES ASSUME NEW m \in Merge(rows), NEW x \in Merge(rows),
                      m.login # Null, x.login = Null, x.user = m.user, x.beat # Null,
                      x.beat >= m.login
               PROVE  FALSE
    BY DEF BeatsInOrder
  <2>1. PICK e \in Logins(rows) : m.user = e.user /\ m.login = e.login
    BY <1>1, <1>2, <1>6
  <2>2. Orphan(rows, x)
    BY <1>1, <1>2, <1>6
  <2>3. m.login \in Int /\ x.beat \in Int
    BY <1>5, RowFields
  <2> QED
    BY <2>1, <2>2, <2>3 DEF Orphan
<1> QED
  BY <1>4, <1>5, <1>7 DEF RowsOK

(* When a user was seen: a finite set of moments, with one before them all. *)
Seen(rows, u) == {-1} \cup UNION {Moments(e) : e \in {x \in rows : x.user = u}}

LEMMA SeenFinite ==
  ASSUME NEW rows, RowsOK(rows), NEW u
  PROVE  /\ Seen(rows, u) \subseteq Int /\ IsFiniteSet(Seen(rows, u))
         /\ \A t : t \in Seen(rows, u) <=>
                     t = -1 \/ \E e \in rows : e.user = u /\ t # Null /\ (t = e.login \/ t = e.beat)
<1> DEFINE f == [e \in rows |-> e.login]
           g == [e \in rows |-> e.beat]
           F == {f[e] : e \in rows}
           G == {g[e] : e \in rows}
<1>1. \A t : t \in Seen(rows, u) <=>
               t = -1 \/ \E e \in rows : e.user = u /\ t # Null /\ (t = e.login \/ t = e.beat)
  BY DEF Seen, Moments
<1>2. IsFiniteSet(F) /\ IsFiniteSet(G)
  <2>1. DOMAIN f = rows /\ DOMAIN g = rows
    OBVIOUS
  <2> HIDE DEF f, g
  <2> QED
    BY <2>1, ImageFinite DEF RowsOK
<1>3. IsFiniteSet(F \cup G \cup {-1})
  BY <1>2, FS_Union, FS_Singleton
<1>4. Seen(rows, u) \in SUBSET (F \cup G \cup {-1})
  BY <1>1
<1>5. Seen(rows, u) \subseteq Int
  BY <1>1, RowFields DEF RowsOK
<1> QED
  BY <1>1, <1>3, <1>4, <1>5, FS_Subset

LEMMA SameGreatest ==
  ASSUME NEW A \in SUBSET Int, IsFiniteSet(A), A # {}, NEW B \in SUBSET Int, IsFiniteSet(B), B # {},
         \A a \in A : \E b \in B : a <= b, \A b \in B : \E a \in A : b <= a
  PROVE  Max(A) = Max(B)
<1>1. Max(A) \in A /\ Max(B) \in B /\ (\A a \in A : a <= Max(A)) /\ (\A b \in B : b <= Max(B))
  BY GreatestExists
<1>2. PICK b \in B : Max(A) <= b
  BY <1>1
<1>3. PICK a \in A : Max(B) <= a
  BY <1>1
<1>4. Max(A) \in Int /\ Max(B) \in Int /\ a \in Int /\ b \in Int /\ a <= Max(A) /\ b <= Max(B)
  BY <1>1
<1> QED
  BY <1>2, <1>3, <1>4

(* The merge keeps when each user was last seen.                           *)
LEMMA MergeSeen ==
  ASSUME NEW rows, RowsOK(rows), NEW u
  PROVE  LastSeen(Merge(rows), u) = LastSeen(rows, u)
<1> DEFINE A == Seen(Merge(rows), u)
           B == Seen(rows, u)
           O == {b \in rows \ Logins(rows) : Orphan(rows, b)}
<1>1. RowsOK(Merge(rows))
  BY MergeRows
<1>2. /\ A \subseteq Int /\ IsFiniteSet(A) /\ A # {}
      /\ B \subseteq Int /\ IsFiniteSet(B) /\ B # {}
  BY <1>1, SeenFinite
<1>3. ASSUME NEW t \in A PROVE t \in B
  <2>1. CASE t = -1
    BY <2>1, SeenFinite
  <2>2. ASSUME NEW m \in Merge(rows), m.user = u, t # Null, t = m.login \/ t = m.beat
        PROVE  t \in B
    <3>1. CASE m \in O
      BY <2>2, <3>1, SeenFinite
    <3>2. ASSUME NEW e \in Logins(rows), m = MergedRow(rows, e) PROVE t \in B
      <4>1. m.user = e.user /\ m.login = e.login
            /\ m.beat = IF SinceLogin(rows, e) = {} THEN e.beat ELSE Max(SinceLogin(rows, e))
        BY <3>2, MergedRowIs DEF Logins
      <4>2. CASE t = e.login \/ t = e.beat
        BY <2>2, <4>1, <4>2, SeenFinite DEF Logins
      <4>3. CASE SinceLogin(rows, e) # {} /\ t = Max(SinceLogin(rows, e))
        <5>1. t \in SinceLogin(rows, e)
          BY <4>3, SinceLoginMax DEF RowsOK, Logins
        <5>2. PICK x \in rows : x.user = e.user /\ t = x.beat
          BY <5>1 DEF SinceLogin
        <5> QED
          BY <2>2, <4>1, <5>2, SeenFinite
      <4> QED
        BY <2>2, <4>1, <4>2, <4>3
    <3> QED
      BY <3>1, <3>2, MergeIs
  <2> QED
    BY <1>1, <2>1, <2>2, SeenFinite
<1>4. ASSUME NEW e \in Logins(rows)
      PROVE  /\ MergedRow(rows, e) \in Merge(rows) /\ MergedRow(rows, e).user = e.user
             /\ MergedRow(rows, e).login = e.login
             /\ MergedRow(rows, e).beat = IF SinceLogin(rows, e) = {} THEN e.beat
                                          ELSE Max(SinceLogin(rows, e))
             /\ \A x \in SinceLogin(rows, e) : /\ x <= Max(SinceLogin(rows, e))
                                               /\ Max(SinceLogin(rows, e)) \in Time
  BY MergedRowIs, MergeIs, SinceLoginMax DEF Logins, RowsOK
<1>5. ASSUME NEW e \in Logins(rows), e.user = u, NEW x \in SinceLogin(rows, e)
      PROVE  \E a \in A : x <= a
  <2>1. Max(SinceLogin(rows, e)) \in A
    <3>1. Max(SinceLogin(rows, e)) # Null
      BY <1>4, <1>5, MigrationAssumption
    <3> QED
      BY <1>1, <1>4, <1>5, <3>1, SeenFinite
  <2> QED
    BY <1>4, <2>1
<1>6. ASSUME NEW t \in B PROVE \E a \in A : t <= a
  <2>1. CASE t = -1
    <3>1. -1 \in A
      BY <1>1, SeenFinite
    <3> QED
      BY <2>1, <3>1
  <2>2. ASSUME NEW e \in rows, e.user = u, t # Null, t = e.login \/ t = e.beat
        PROVE  \E a \in A : t <= a
    <3>a. t \in Int
      BY <1>2
    <3>1. CASE t = e.login
      <4>1. e \in Logins(rows)
        BY <2>2, <3>1 DEF Logins
      <4>2. t \in A
        BY <1>1, <1>4, <2>2, <3>1, <4>1, SeenFinite
      <4> QED
        BY <3>a, <4>2
    <3>2. CASE t = e.beat /\ e \in Logins(rows)
      <4>1. CASE SinceLogin(rows, e) = {}
        <5>1. t \in A
          BY <1>1, <1>4, <2>2, <3>2, <4>1, SeenFinite
        <5> QED
          BY <3>a, <5>1
      <4>2. CASE SinceLogin(rows, e) # {}
        <5>1. PICK x \in rows : /\ x.login = Null /\ x.user = e.user /\ x.beat # Null
                                /\ x.beat >= e.login
          BY <4>2 DEF SinceLogin
        <5>2. x.beat \in SinceLogin(rows, e)
          BY <5>1 DEF SinceLogin
        <5>3. t <= x.beat
          BY <2>2, <3>2, <5>1 DEF RowsOK, BeatsInOrder, Logins
        <5>4. PICK a \in A : x.beat <= a
          BY <1>5, <2>2, <3>2, <5>2
        <5>5. a \in Int /\ x.beat \in Int
          BY <1>2, <5>1, RowFields DEF RowsOK
        <5> QED
          BY <3>a, <5>3, <5>4, <5>5
      <4> QED
        BY <4>1, <4>2
    <3>3. CASE t = e.beat /\ e \notin Logins(rows)
      <4>1. CASE Orphan(rows, e)
        <5>1. e \in Merge(rows)
          BY <3>3, <4>1, MergeIs
        <5>2. t \in A
          BY <1>1, <2>2, <5>1, SeenFinite
        <5> QED
          BY <3>a, <5>2
      <4>2. CASE ~Orphan(rows, e)
        <5>1. PICK l \in Logins(rows) : l.user = e.user /\ l.login <= e.beat
          BY <4>2 DEF Orphan
        <5>2. l.login \in Int /\ e.beat \in Int
          BY <2>2, <3>3, <5>1, RowFields DEF Logins, RowsOK
        <5>3. t \in SinceLogin(rows, l)
          BY <2>2, <3>3, <5>1, <5>2 DEF SinceLogin, Logins
        <5> QED
          BY <1>5, <2>2, <5>1, <5>3
      <4> QED
        BY <4>1, <4>2
    <3> QED
      BY <2>2, <3>1, <3>2, <3>3
  <2> QED
    BY <2>1, <2>2, SeenFinite
<1>7. \A a \in A : \E b \in B : a <= b
  BY <1>2, <1>3
<1>8. Max(A) = Max(B)
  <2> HIDE DEF A, B
  <2> QED
    BY <1>2, <1>6, <1>7, SameGreatest
<1> QED
  BY <1>8 DEF LastSeen, Seen


-----------------------------------------------------------------------------
(* One revision up or down, on a database that is in order.                *)
IsDb(d) ==
  d = [rev |-> d.rev, cols |-> d.cols, marks |-> d.marks, requests |-> d.requests,
       rows |-> d.rows, next |-> d.next]
Stepped(d, ch, r) == [Applied(d, ch) EXCEPT !.rev = r]

LEMMA SteppedIs ==
  ASSUME NEW d, IsDb(d), NEW ch, NEW r
  PROVE  /\ IsDb(Stepped(d, ch, r)) /\ Stepped(d, ch, r).rev = r
         /\ Stepped(d, ch, r).requests = d.requests
         /\ Stepped(d, ch, r).rows = d.rows /\ Stepped(d, ch, r).next = d.next
<1> DEFINE C == Kept(d, ch) \cup ch.add
           M == KeptMarks(d, ch) \cup ch.on
<1>1. Stepped(d, ch, r) = [[d EXCEPT !.cols = C, !.marks = M] EXCEPT !.rev = r]
  BY DEF Stepped, Applied
<1> HIDE DEF C, M
<1> QED
  BY <1>1 DEF IsDb

(* A record whose rows, requests and counter fit its revision.             *)
LEMMA FitParts ==
  ASSUME NEW d, IsDb(d), d.rev \in 0..Newest,
         d.requests \subseteq [n : Nat \ {0}, visitors : {1, 2}], IsFiniteSet(d.requests),
         RowsOK(d.rows), d.next \in (Nat \ {0}) \cup {Null}, d.next # Null <=> d.rev >= 22,
         d.rev < 8 => \A q \in d.requests : q.visitors = 1,
         d.rev >= 22 /\ ~mixed => \A q \in d.requests : q.n < d.next,
         \A e \in d.rows : e.owner # Null => d.rev >= 23 /\ e.born >= 23,
         ~mixed => \A e \in d.rows :
           e.reason \in (IF d.rev >= 21 THEN NewReasons ELSE OldReasons) \cup {Null}
  PROVE  Shaped(d) /\ Fit(d)
  BY DEF IsDb, Shaped, Fit, RowsOK

LEMMA PartsOfFit ==
  ASSUME NEW d, Shaped(d), Fit(d)
  PROVE  IsDb(d) /\ RowsOK(d.rows)
  BY DEF IsDb, Shaped, Fit, RowsOK

(* The rows of a merge or a split carry the words and the owner of a row   *)
(* that was there.                                                         *)
LEMMA MergeCarries ==
  ASSUME NEW rows, RowsOK(rows), NEW m \in Merge(rows)
  PROVE  \E e \in rows : m.reason = e.reason /\ m.owner = e.owner /\ m.born = e.born
  BY MergeIs, MergedRowIs DEF Logins

LEMMA SplitCarries ==
  ASSUME NEW rows, RowsOK(rows), NEW m \in Split(rows)
  PROVE  \E e \in rows : m.reason = e.reason /\ m.owner = e.owner /\ m.born = e.born
<1>1. PICK e \in rows : m = IF e.login # Null THEN [e EXCEPT !.beat = Null] ELSE e
  BY DEF Split
<1>2. e \in Row
  BY DEF RowsOK
<1> QED
  BY <1>1, <1>2 DEF Row

LEMMA DisownedCarries ==
  ASSUME NEW rows, RowsOK(rows), NEW m \in Disowned(rows)
  PROVE  m.owner = Null /\ \E e \in rows : m.reason = e.reason
<1>1. PICK e \in rows : m = [e EXCEPT !.owner = Null]
  BY DEF Disowned
<1>2. e \in Row
  BY DEF RowsOK
<1> QED
  BY <1>1, <1>2 DEF Row

LEMMA RewordedCarries ==
  ASSUME NEW rows, RowsOK(rows), NEW words, NEW m \in Reworded(rows, words)
  PROVE  \E e \in rows :
           /\ m.owner = e.owner /\ m.born = e.born
           /\ m.reason = IF e.reason \in DOMAIN words THEN words[e.reason] ELSE e.reason
<1>1. PICK e \in rows :
        m = IF e.reason \in DOMAIN words THEN [e EXCEPT !.reason = words[e.reason]] ELSE e
  BY DEF Reworded
<1>2. e \in Row
  BY DEF RowsOK
<1> QED
  BY <1>1, <1>2 DEF Row

(* Reading the reasons anew, and back.                                     *)
LEMMA WordsChange ==
  /\ DOMAIN Readable = OldReasons /\ \A w \in OldReasons : Readable[w] \in NewReasons
  /\ DOMAIN Former = NewReasons /\ \A w \in NewReasons : Former[w] \in OldReasons
  BY DEF Readable, Former, OldReasons, NewReasons

(* The sequence starts after every number there is.                        *)
LEMMA FirstNumberAhead ==
  ASSUME NEW Q, Q \subseteq [n : Nat \ {0}, visitors : {1, 2}], IsFiniteSet(Q)
  PROVE  FirstNumber(Q) \in Nat \ {0} /\ \A q \in Q : q.n < FirstNumber(Q)
<1> DEFINE f == [q \in Q |-> q.n]
           F == {f[q] : q \in Q}
           All == F \cup {0}
<1>1. IsFiniteSet(F)
  <2>1. DOMAIN f = Q
    OBVIOUS
  <2> HIDE DEF f
  <2> QED
    BY <2>1, ImageFinite
<1>2. IsFiniteSet(All)
  BY <1>1, FS_Union, FS_Singleton
<1>3. All \subseteq Int /\ All \subseteq Nat /\ All # {}
  OBVIOUS
<1>4. Max(All) \in All /\ \A y \in All : y <= Max(All)
  <2> HIDE DEF All
  <2> QED
    BY <1>2, <1>3, GreatestExists
<1>5. {q.n : q \in Q} \cup {0} = All
  OBVIOUS
<1>6. FirstNumber(Q) = Max(All) + 1
  BY <1>5 DEF FirstNumber
<1>7. \A q \in Q : q.n \in All
  OBVIOUS
<1> HIDE DEF All
<1>8. Max(All) \in Nat /\ FirstNumber(Q) \in Nat \ {0}
  <2>1. Max(All) \in Nat
    BY <1>3, <1>4
  <2>2. \A m \in Nat : m + 1 \in Nat \ {0}
    OBVIOUS
  <2> QED
    BY <1>6, <2>1, <2>2
<1>9. ASSUME NEW q \in Q PROVE q.n < FirstNumber(Q)
  <2>1. q.n \in Nat /\ q.n <= Max(All)
    BY <1>4, <1>7 DEF All
  <2> QED
    BY <1>6, <1>8, <2>1
<1> QED
  BY <1>8, <1>9

(* What a revision does to the data, by its number.                        *)
LEMMA UpDataIs ==
  ASSUME NEW d, IsDb(d), NEW r \in 1..Newest
  PROVE  /\ IsDb(UpData(d, r)) /\ UpData(d, r).requests = d.requests
         /\ UpData(d, r).rows = IF r = 15 THEN Merge(d.rows) ELSE IF r = 18 THEN {}
                                ELSE IF r = 21 THEN Reworded(d.rows, Readable)
                                ELSE IF r = 23 THEN Disowned(d.rows) ELSE d.rows
         /\ UpData(d, r).next = IF r = 22 THEN FirstNumber(d.requests) ELSE d.next
<1> DEFINE A == Merge(d.rows)
           B == Reworded(d.rows, Readable)
           C == Disowned(d.rows)
           N == FirstNumber(d.requests)
<1>1. r \in Int
  BY RevisionCount
<1>2. UpData(d, r) = CASE r = 15 -> [d EXCEPT !.rows = A]
                       [] r = 18 -> [d EXCEPT !.rows = {}]
                       [] r = 21 -> [d EXCEPT !.rows = B]
                       [] r = 22 -> [d EXCEPT !.next = N]
                       [] r = 23 -> [d EXCEPT !.rows = C]
                       [] OTHER -> d
  BY DEF UpData, Unowned
<1> HIDE DEF A, B, C, N
<1>3. CASE r = 15
  BY <1>2, <1>3 DEF IsDb, A
<1>4. CASE r = 18
  BY <1>2, <1>4 DEF IsDb
<1>5. CASE r = 21
  BY <1>2, <1>5 DEF IsDb, B
<1>6. CASE r = 22
  BY <1>2, <1>6 DEF IsDb, N
<1>7. CASE r = 23
  BY <1>2, <1>7 DEF IsDb, C
<1>8. CASE r \notin {15, 18, 21, 22, 23}
  BY <1>2, <1>8 DEF IsDb
<1> QED
  BY <1>3, <1>4, <1>5, <1>6, <1>7, <1>8

LEMMA DownDataIs ==
  ASSUME NEW d, IsDb(d), NEW r \in 1..Newest
  PROVE  /\ IsDb(DownData(d, r))
         /\ DownData(d, r).requests = IF r = 3 THEN {} ELSE d.requests
         /\ DownData(d, r).rows = IF r \in {12, 18} THEN {} ELSE IF r = 14 THEN Split(d.rows)
                                  ELSE IF r = 21 THEN Reworded(d.rows, Former)
                                  ELSE IF r = 23 THEN Disowned(d.rows) ELSE d.rows
         /\ DownData(d, r).next = IF r = 22 THEN Null ELSE d.next
<1> DEFINE A == Split(d.rows)
           B == Reworded(d.rows, Former)
           C == Disowned(d.rows)
<1>1. r \in Int
  BY RevisionCount
<1>2. DownData(d, r) = CASE r = 3 -> [d EXCEPT !.requests = {}]
                         [] r = 12 -> [d EXCEPT !.rows = {}]
                         [] r = 14 -> [d EXCEPT !.rows = A]
                         [] r = 18 -> [d EXCEPT !.rows = {}]
                         [] r = 21 -> [d EXCEPT !.rows = B]
                         [] r = 22 -> [d EXCEPT !.next = Null]
                         [] r = 23 -> [d EXCEPT !.rows = C]
                         [] OTHER -> d
  BY DEF DownData
<1> HIDE DEF A, B, C
<1>3. CASE r = 3
  BY <1>2, <1>3 DEF IsDb
<1>4. CASE r = 12
  BY <1>2, <1>4 DEF IsDb
<1>5. CASE r = 14
  BY <1>2, <1>5 DEF IsDb, A
<1>6. CASE r = 18
  BY <1>2, <1>6 DEF IsDb
<1>7. CASE r = 21
  BY <1>2, <1>7 DEF IsDb, B
<1>8. CASE r = 22
  BY <1>2, <1>8 DEF IsDb
<1>9. CASE r = 23
  BY <1>2, <1>9 DEF IsDb, C
<1>10. CASE r \notin {3, 12, 14, 18, 21, 22, 23}
  BY <1>2, <1>10 DEF IsDb
<1> QED
  BY <1>3, <1>4, <1>5, <1>6, <1>7, <1>8, <1>9, <1>10

(* An upgrade hands on a database in order.                                *)
LEMMA UpStep ==
  ASSUME NEW d, Shaped(d), Fit(d), NEW r \in 1..Newest, d.rev + 1 = r, NEW ch
  PROVE  LET x == Stepped(UpData(d, r), ch, r) IN Shaped(x) /\ Fit(x) /\ x.rev = r
<1> DEFINE x == Stepped(UpData(d, r), ch, r)
<1>1. IsDb(d) /\ RowsOK(d.rows)
  BY PartsOfFit
<1>2. /\ IsDb(x) /\ x.rev = r /\ x.requests = d.requests
      /\ x.rows = IF r = 15 THEN Merge(d.rows) ELSE IF r = 18 THEN {}
                  ELSE IF r = 21 THEN Reworded(d.rows, Readable)
                  ELSE IF r = 23 THEN Disowned(d.rows) ELSE d.rows
      /\ x.next = IF r = 22 THEN FirstNumber(d.requests) ELSE d.next
  BY <1>1, UpDataIs, SteppedIs
<1>3. r \in 1..24 /\ d.rev = r - 1 /\ d.rev \in 0..23
  BY RevisionCount DEF Shaped
<1> HIDE DEF x
<1>4. RowsOK(x.rows)
  <2>1. RowsOK({})
    BY FS_EmptySet DEF RowsOK, BeatsInOrder
  <2>2. \A w \in DOMAIN Readable : Readable[w] \in OldReasons \cup NewReasons
    BY WordsChange
  <2> QED
    BY <1>1, <1>2, <2>1, <2>2, MergeRows, RewordedRows, DisownedRows
<1>5. /\ x.next \in (Nat \ {0}) \cup {Null} /\ (x.next # Null <=> r >= 22)
      /\ r >= 22 /\ ~mixed => \A q \in x.requests : q.n < x.next
  <2>1. FirstNumber(d.requests) \in Nat \ {0} /\ \A q \in d.requests : q.n < FirstNumber(d.requests)
    BY FirstNumberAhead DEF Shaped
  <2>2. Null \notin Nat
    BY MigrationAssumption
  <2>3. CASE r = 22
    BY <1>2, <2>1, <2>2, <2>3
  <2>4. CASE r # 22
    <3>1. x.next = d.next /\ (r >= 22 <=> d.rev >= 22)
      BY <1>2, <1>3, <2>4
    <3> QED
      BY <1>2, <3>1 DEF Shaped, Fit
  <2> QED
    BY <2>3, <2>4
<1>6. \A e \in x.rows : e.owner # Null => r >= 23 /\ e.born >= 23
  <2> SUFFICES ASSUME NEW m \in x.rows, m.owner # Null PROVE r >= 23 /\ m.born >= 23
    OBVIOUS
  <2>1. CASE r = 15
    BY <1>1, <1>2, <1>3, <2>1, MergeCarries DEF Fit
  <2>2. CASE r = 21
    BY <1>1, <1>2, <1>3, <2>2, RewordedCarries DEF Fit
  <2>3. CASE r = 23
    BY <1>1, <1>2, <2>3, DisownedCarries
  <2>4. CASE r \notin {15, 18, 21, 23}
    BY <1>2, <1>3, <2>4 DEF Fit
  <2> QED
    BY <1>2, <2>1, <2>2, <2>3, <2>4
<1>7. ~mixed => \A e \in x.rows : e.reason \in (IF r >= 21 THEN NewReasons ELSE OldReasons) \cup {Null}
  <2> SUFFICES ASSUME ~mixed, NEW m \in x.rows
               PROVE  m.reason \in (IF r >= 21 THEN NewReasons ELSE OldReasons) \cup {Null}
    OBVIOUS
  <2>a. \A e \in d.rows : e.reason \in (IF d.rev >= 21 THEN NewReasons ELSE OldReasons) \cup {Null}
    BY DEF Fit
  <2>1. CASE r = 15
    BY <1>1, <1>2, <1>3, <2>a, <2>1, MergeCarries
  <2>2. CASE r = 21
    <3>1. PICK e \in d.rows :
            m.reason = IF e.reason \in DOMAIN Readable THEN Readable[e.reason] ELSE e.reason
      BY <1>1, <1>2, <2>2, RewordedCarries
    <3>2. e.reason \in OldReasons \cup {Null}
      BY <1>3, <2>a, <2>2
    <3> QED
      BY <2>2, <3>1, <3>2, WordsChange
  <2>3. CASE r = 23
    BY <1>1, <1>2, <1>3, <2>a, <2>3, DisownedCarries
  <2>4. CASE r \notin {15, 18, 21, 23}
    BY <1>2, <1>3, <2>a, <2>4
  <2> QED
    BY <1>2, <2>1, <2>2, <2>3, <2>4
<1>8. r < 8 => \A q \in x.requests : q.visitors = 1
  BY <1>2, <1>3 DEF Fit
<1>9. x.requests \subseteq [n : Nat \ {0}, visitors : {1, 2}] /\ IsFiniteSet(x.requests)
  BY <1>2 DEF Shaped
<1>10. Shaped(x) /\ Fit(x)
  BY <1>2, <1>4, <1>5, <1>6, <1>7, <1>8, <1>9, FitParts
<1> QED
  BY <1>2, <1>10 DEF x


(* And so does a downgrade that the data allow.                            *)
LEMMA DownStep ==
  ASSUME NEW d, Shaped(d), Fit(d), NEW r \in 1..Newest, d.rev = r, Fits(d, r), NEW ch
  PROVE  LET x == Stepped(DownData(d, r), ch, r - 1) IN Shaped(x) /\ Fit(x) /\ x.rev = r - 1
<1> DEFINE x == Stepped(DownData(d, r), ch, r - 1)
<1>1. IsDb(d) /\ RowsOK(d.rows)
  BY PartsOfFit
<1>2. /\ IsDb(x) /\ x.rev = r - 1 /\ x.requests = IF r = 3 THEN {} ELSE d.requests
      /\ x.rows = IF r \in {12, 18} THEN {} ELSE IF r = 14 THEN Split(d.rows)
                  ELSE IF r = 21 THEN Reworded(d.rows, Former)
                  ELSE IF r = 23 THEN Disowned(d.rows) ELSE d.rows
      /\ x.next = IF r = 22 THEN Null ELSE d.next
  BY <1>1, DownDataIs, SteppedIs
<1>3. r \in 1..24 /\ d.rev = r /\ x.rev \in 0..23 /\ x.rev \in 0..Newest
  BY <1>2, RevisionCount DEF Shaped
<1> HIDE DEF x
<1>4. RowsOK(x.rows)
  <2>1. RowsOK({})
    BY FS_EmptySet DEF RowsOK, BeatsInOrder
  <2>2. \A w \in DOMAIN Former : Former[w] \in OldReasons \cup NewReasons
    BY WordsChange
  <2> QED
    BY <1>1, <1>2, <2>1, <2>2, SplitRows, RewordedRows, DisownedRows
<1>5. /\ x.next \in (Nat \ {0}) \cup {Null} /\ (x.next # Null <=> x.rev >= 22)
      /\ x.rev >= 22 /\ ~mixed => \A q \in x.requests : q.n < x.next
  <2>1. CASE r = 22
    BY <1>2, <2>1
  <2>2. CASE r # 22
    <3>1. x.next = d.next /\ (x.rev >= 22 <=> d.rev >= 22)
      BY <1>2, <1>3, <2>2
    <3> QED
      BY <1>2, <1>3, <3>1 DEF Shaped, Fit
  <2> QED
    BY <2>1, <2>2
<1>6. \A e \in x.rows : e.owner # Null => x.rev >= 23 /\ e.born >= 23
  <2> SUFFICES ASSUME NEW m \in x.rows, m.owner # Null PROVE x.rev >= 23 /\ m.born >= 23
    OBVIOUS
  <2>1. CASE r = 14
    BY <1>1, <1>2, <1>3, <2>1, SplitCarries DEF Fit
  <2>2. CASE r = 21
    BY <1>1, <1>2, <1>3, <2>2, RewordedCarries DEF Fit
  <2>3. CASE r = 23
    BY <1>1, <1>2, <2>3, DisownedCarries
  <2>4. CASE r \notin {12, 14, 18, 21, 23}
    BY <1>2, <1>3, <2>4 DEF Fit
  <2> QED
    BY <1>2, <2>1, <2>2, <2>3, <2>4
<1>7. ~mixed => \A e \in x.rows :
        e.reason \in (IF x.rev >= 21 THEN NewReasons ELSE OldReasons) \cup {Null}
  <2> SUFFICES ASSUME ~mixed, NEW m \in x.rows
               PROVE  m.reason \in (IF x.rev >= 21 THEN NewReasons ELSE OldReasons) \cup {Null}
    OBVIOUS
  <2>a. \A e \in d.rows : e.reason \in (IF d.rev >= 21 THEN NewReasons ELSE OldReasons) \cup {Null}
    BY DEF Fit
  <2>1. CASE r = 14
    BY <1>1, <1>2, <1>3, <2>a, <2>1, SplitCarries
  <2>2. CASE r = 21
    <3>1. PICK e \in d.rows :
            m.reason = IF e.reason \in DOMAIN Former THEN Former[e.reason] ELSE e.reason
      BY <1>1, <1>2, <2>2, RewordedCarries
    <3>2. e.reason \in NewReasons \cup {Null}
      BY <1>3, <2>a, <2>2
    <3> QED
      BY <1>2, <2>2, <3>1, <3>2, WordsChange
  <2>3. CASE r = 23
    BY <1>1, <1>2, <1>3, <2>a, <2>3, DisownedCarries
  <2>4. CASE r \notin {12, 14, 18, 21, 23}
    BY <1>2, <1>3, <2>a, <2>4
  <2> QED
    BY <1>2, <2>1, <2>2, <2>3, <2>4
<1>8. x.rev < 8 => \A q \in x.requests : q.visitors = 1
  BY <1>2, <1>3 DEF Fit, Fits
<1>9. x.requests \subseteq [n : Nat \ {0}, visitors : {1, 2}] /\ IsFiniteSet(x.requests)
  BY <1>2, FS_EmptySet DEF Shaped
<1>10. Shaped(x) /\ Fit(x)
  BY <1>2, <1>3, <1>4, <1>5, <1>6, <1>7, <1>8, <1>9, FitParts
<1> QED
  BY <1>2, <1>10 DEF x


-----------------------------------------------------------------------------
(* The invariant under each action.                                        *)
LEMMA InitSchema == Init => SchemaInv
<1> SUFFICES ASSUME Init PROVE SchemaInv
  OBVIOUS
<1>1. db = [rev |-> 0, cols |-> {}, marks |-> {}, requests |-> {}, rows |-> {}, next |-> Null]
  BY DEF Init, Empty
<1>2. Shaped(db)
  BY <1>1, RevisionCount, FS_EmptySet DEF Shaped
<1>3. Fit(db)
  BY <1>1 DEF Fit, BeatsInOrder
<1>4. ChainOK /\ trouble \in {"", "schema", "data"}
  BY DEF Init, ChainOK
<1>5. release \in 0..Newest
  <2>1. release = 0
    BY Zenon DEF Init
  <2> QED
    BY <2>1, RevisionCount
<1>6. mixed \in BOOLEAN
  BY Zenon DEF Init
<1> QED
  BY <1>2, <1>3, <1>4, <1>5, <1>6 DEF SchemaInv

(* A step that leaves mixed alone leaves what fits.                        *)
LEMMA StillFit ==
  ASSUME NEW x, Shaped(x), Fit(x), mixed' = mixed, db' = x
  PROVE  Shaped(db)' /\ Fit(db)'
<1>1. Shaped(db)'
  BY DEF Shaped
<1>2. Fit(db)'
  BY DEF Fit
<1> QED
  BY <1>1, <1>2

LEMMA StartRunSchema ==
  ASSUME SchemaInv, NEW target \in Targets, StartRun(target)
  PROVE  SchemaInv'
<1>1. /\ run' = [target |-> target, saved |-> db] /\ db' = db /\ mixed' = mixed
      /\ release' = release /\ trouble' = ""
  BY DEF StartRun
<1>2. Shaped(db) /\ Fit(db)
  BY DEF SchemaInv
<1>3. Shaped(db)' /\ Fit(db)'
  BY <1>1, <1>2, StillFit
<1>4. target \in 0..Newest /\ db.rev \in 0..Newest
  BY <1>2, MigrationAssumption DEF Shaped
<1>5. run'.target = target /\ run'.saved = db
  BY <1>1
<1>6. Shaped(run.saved)' /\ Fit(run.saved)'
  <2>1. Shaped(run'.saved)
    BY <1>2, <1>5 DEF Shaped
  <2>2. Fit(run.saved)'
    BY <1>1, <1>2, <1>5 DEF Fit
  <2> QED
    BY <2>1, <2>2 DEF Shaped
<1>7. ChainOK'
  <2>1. target \in Int /\ db.rev \in Int
    BY <1>4, RevisionCount
  <2>2. \/ run'.saved.rev <= db'.rev /\ db'.rev <= run'.target
        \/ run'.target <= db'.rev /\ db'.rev <= run'.saved.rev
    <3>1. run'.saved.rev = db.rev /\ db'.rev = db.rev /\ run'.target = target
      BY <1>1, <1>5
    <3>2. db.rev <= target \/ target <= db.rev
      BY <2>1
    <3>3. db.rev <= db.rev
      BY <2>1
    <3> QED
      BY <3>1, <3>2, <3>3, Zenon
  <2>3. run'.saved = db' /\ run'.saved.rev = db'.rev /\ run'.target \in 0..Newest
    BY <1>1, <1>4, <1>5
  <2> QED
    BY <1>6, <2>2, <2>3 DEF ChainOK
<1> QED
  BY <1>1, <1>3, <1>7 DEF SchemaInv

(* Undoing a chain returns to what it began with.                          *)
LEMMA UndoSchema ==
  ASSUME SchemaInv, run # Null, NEW why \in {"", "schema", "data"}, Undo(why),
         UNCHANGED <<release, mixed>>
  PROVE  SchemaInv' /\ db' = run.saved
<1>1. Shaped(run.saved) /\ Fit(run.saved)
  BY DEF SchemaInv, ChainOK
<1>2. db' = run.saved /\ run' = Null /\ trouble' = why
  BY DEF Undo
<1>3. Shaped(db)' /\ Fit(db)'
  BY <1>1, <1>2, StillFit
<1> QED
  BY <1>2, <1>3 DEF SchemaInv, ChainOK

LEMMA UpgradeStep ==
  ASSUME SchemaInv, Upgrade
  PROVE  \/ Undo("schema") /\ run # Null
         \/ /\ db' = Stepped(UpData(db, db.rev + 1), Ups[db.rev + 1], db.rev + 1)
            /\ db.rev + 1 \in 1..Newest /\ db.rev + 1 <= run.target
            /\ Shaped(db') /\ Fit(db') /\ db'.rev = db.rev + 1
            /\ run # Null /\ UNCHANGED <<run, trouble, release, mixed>>
<1> DEFINE r == db.rev + 1
           x == Stepped(UpData(db, r), Ups[r], r)
<1>1. run # Null /\ db.rev < run.target
  BY DEF Upgrade
<1>2. r \in 1..Newest /\ r <= run.target /\ Shaped(db) /\ Fit(db)
  <2>1. Shaped(db) /\ Fit(db) /\ run.target \in 0..24 /\ db.rev \in 0..24
    BY <1>1, RevisionCount DEF SchemaInv, ChainOK, Shaped
  <2> QED
    BY <1>1, <2>1, RevisionCount
<1>3. Shaped(x) /\ Fit(x) /\ x.rev = r
  BY <1>2, UpStep
<1>4. CASE ~Applicable(db, Ups[r])
  BY <1>1, <1>4 DEF Upgrade
<1>5. CASE Applicable(db, Ups[r])
  <2>1. db' = x /\ UNCHANGED <<run, trouble, release, mixed>>
    BY <1>5 DEF Upgrade, Stepped
  <2> HIDE DEF x
  <2>2. Shaped(db') /\ Fit(db')
    BY <1>3, <2>1
  <2> QED
    BY <1>1, <1>2, <1>3, <2>1, <2>2 DEF x
<1> QED
  BY <1>4, <1>5

LEMMA UpgradeSchema == ASSUME SchemaInv, Upgrade PROVE SchemaInv'
<1>1. CASE Undo("schema")
  BY <1>1, UndoSchema, UpgradeStep DEF Upgrade
<1>2. CASE ~Undo("schema")
  <2>1. /\ db.rev + 1 \in 1..Newest /\ db.rev + 1 <= run.target
        /\ Shaped(db') /\ Fit(db') /\ db'.rev = db.rev + 1
        /\ run # Null /\ UNCHANGED <<run, trouble, release, mixed>>
    BY <1>2, UpgradeStep
  <2>2. Shaped(db)' /\ Fit(db)'
    BY <2>1, StillFit
  <2>3. Shaped(run.saved)' /\ Fit(run.saved)'
    BY <2>1 DEF SchemaInv, ChainOK, Shaped, Fit
  <2>4. /\ run.target \in 0..24 /\ run.saved.rev \in 0..24 /\ db.rev \in 0..24
        /\ run.saved.rev <= db.rev
    <3>1. run.target \in 0..24 /\ run.saved.rev \in 0..24 /\ db.rev \in 0..24
      BY <2>1, RevisionCount DEF SchemaInv, ChainOK, Shaped
    <3>2. \/ run.saved.rev <= db.rev
          \/ run.target <= db.rev
      BY <2>1 DEF SchemaInv, ChainOK
    <3> QED
      BY <2>1, <3>1, <3>2
  <2>5. ChainOK'
    BY <2>1, <2>3, <2>4, RevisionCount DEF ChainOK
  <2> QED
    BY <2>1, <2>2, <2>5 DEF SchemaInv
<1> QED
  BY <1>1, <1>2


LEMMA DowngradeSchema == ASSUME SchemaInv, Downgrade PROVE SchemaInv'
<1> DEFINE r == db.rev
           x == Stepped(DownData(db, r), Downs[r], r - 1)
<1>1. run # Null /\ r > run.target /\ UNCHANGED <<release, mixed>>
  BY DEF Downgrade
<1>2. CASE ~(Applicable(db, Downs[r]) /\ Fits(db, r))
  <2>1. PICK why \in {"", "schema", "data"} : Undo(why)
    BY <1>2 DEF Downgrade
  <2> QED
    BY <1>1, <2>1, UndoSchema
<1>3. CASE Applicable(db, Downs[r]) /\ Fits(db, r)
  <2>1. db' = x /\ UNCHANGED <<run, trouble, release, mixed>>
    BY <1>3 DEF Downgrade, Stepped
  <2>2. /\ run.target \in 0..24 /\ run.saved.rev \in 0..24 /\ r \in 0..24
        /\ Shaped(db) /\ Fit(db)
    BY <1>1, RevisionCount DEF SchemaInv, ChainOK, Shaped
  <2>3. r \in 1..Newest
    BY <1>1, <2>2, RevisionCount
  <2>4. Shaped(x) /\ Fit(x) /\ x.rev = r - 1
    BY <1>3, <2>2, <2>3, DownStep
  <2>5. r = 15 => x.rows = db.rows
    <3>1. IsDb(db)
      BY <2>2, PartsOfFit
    <3> QED
      BY <2>3, <3>1, DownDataIs, SteppedIs
  <2> HIDE DEF x
  <2>6. Shaped(db)' /\ Fit(db)'
    BY <2>1, <2>4, StillFit
  <2>7. Shaped(run.saved)' /\ Fit(run.saved)'
    <3>1. Shaped(run.saved) /\ Fit(run.saved) /\ run' = run /\ mixed' = mixed
      BY <1>1, <2>1 DEF SchemaInv, ChainOK
    <3>2. Shaped(run.saved)'
      BY <3>1 DEF Shaped
    <3>3. Fit(run.saved)'
      BY <3>1 DEF Fit
    <3> QED
      BY <3>2, <3>3
  <2>8. run.target <= r /\ r <= run.saved.rev
    <3>1. \/ r <= run.target
          \/ r <= run.saved.rev
      BY <1>1 DEF SchemaInv, ChainOK
    <3> QED
      BY <1>1, <2>2, <3>1
  <2>9. run.target <= db'.rev /\ db'.rev < run.saved.rev /\ db'.rev = r - 1
    BY <1>1, <2>1, <2>2, <2>4, <2>8
  <2>10. run.saved.rev = 15 /\ db'.rev = 14 => db'.rows = run.saved.rows
    <3> SUFFICES ASSUME run.saved.rev = 15, db'.rev = 14 PROVE db'.rows = run.saved.rows
      OBVIOUS
    <3>1. r = 15
      BY <2>2, <2>9
    <3>2. db = run.saved
      BY <1>1, <3>1 DEF SchemaInv, ChainOK
    <3> QED
      BY <2>1, <2>5, <3>1, <3>2
  <2>11. ChainOK'
    <3>1. run.target \in 0..Newest /\ db'.rev # run.saved.rev /\ db'.rev <= run.saved.rev
      BY <2>2, <2>9, RevisionCount
    <3> QED
      BY <2>1, <2>7, <2>9, <2>10, <3>1, Zenon DEF ChainOK
  <2> QED
    BY <2>1, <2>6, <2>11 DEF SchemaInv
<1> QED
  BY <1>2, <1>3

LEMMA RunEndSchema ==
  ASSUME SchemaInv, CommitRun \/ LoseRun \/ Restart \/ UNCHANGED vars
  PROVE  SchemaInv'
<1>1. Shaped(db) /\ Fit(db)
  BY DEF SchemaInv
<1>2. CASE CommitRun
  <2>1. Shaped(db)' /\ Fit(db)'
    BY <1>1, <1>2, StillFit DEF CommitRun
  <2> QED
    BY <1>2, <2>1 DEF CommitRun, SchemaInv, ChainOK
<1>3. CASE LoseRun
  BY <1>3, UndoSchema DEF LoseRun
<1>4. CASE Restart
  <2>1. Shaped(db)' /\ Fit(db)'
    BY <1>1, <1>4, StillFit DEF Restart
  <2>2. release' \in 0..Newest /\ run' = Null
    BY <1>1, <1>4 DEF Restart, Shaped
  <2> QED
    BY <1>4, <2>1, <2>2 DEF Restart, SchemaInv, ChainOK
<1>5. CASE UNCHANGED vars
  BY <1>5 DEF vars, SchemaInv, ChainOK, Shaped, Fit
<1> QED
  BY <1>2, <1>3, <1>4, <1>5

-----------------------------------------------------------------------------
(* What the application writes between the chains.                         *)

(* A write marks the database if it is not the release's own.              *)
LEMMA WritesMark ==
  ASSUME SchemaInv, Writes
  PROVE  /\ run = Null /\ mixed' \in BOOLEAN
         /\ ~mixed' => ~mixed /\ release = db.rev
  BY Zenon DEF Writes, SchemaInv

LEMMA SubmitSchema ==
  ASSUME SchemaInv, NEW visitors \in {1, 2}, Submit(visitors)
  PROVE  SchemaInv'
<1> DEFINE q == [n |-> Number, visitors |-> visitors]
<1>a. Shaped(db) /\ Fit(db) /\ run' = Null /\ release' = release /\ trouble' = trouble
      /\ release \in 0..24 /\ db.rev \in 0..24 /\ Null \notin Nat
  BY WritesMark, MigrationAssumption, RevisionCount DEF Submit, SchemaInv, Shaped
<1>b. mixed' \in BOOLEAN /\ (~mixed' => ~mixed /\ release = db.rev)
  BY WritesMark DEF Submit
<1>c. (release >= 22 => db.rev >= 22) /\ (visitors > 1 => db.rev >= 8)
  BY DEF Submit
<1>1. Number \in Nat \ {0} /\ (release >= 22 => Number = db.next /\ db.next \in Nat \ {0})
  <2>1. CASE release >= 22
    BY <1>a, <1>c, <2>1 DEF Number, Shaped
  <2>2. CASE ~(release >= 22)
    BY <1>a, <2>2, FS_CardinalityType DEF Number, Shaped
  <2> QED
    BY <2>1, <2>2
<1>2. q \in [n : Nat \ {0}, visitors : {1, 2}] /\ q.n = Number /\ q.visitors = visitors
  BY <1>1
<1> HIDE DEF q
<1>3. PICK stored \in SUBSET {q} :
        db' = [db EXCEPT !.requests = db.requests \cup stored,
                         !.next = IF release >= 22 THEN db.next + 1 ELSE db.next]
  BY DEF Submit, q
<1>4. /\ db' = [rev |-> db.rev, cols |-> db.cols, marks |-> db.marks,
                requests |-> db.requests \cup stored, rows |-> db.rows,
                next |-> IF release >= 22 THEN db.next + 1 ELSE db.next]
  BY <1>a, <1>3 DEF Shaped
<1>5. IsFiniteSet(db.requests \cup stored)
  <2>1. IsFiniteSet({q})
    BY FS_Singleton
  <2> QED
    BY <1>a, <2>1, FS_Subset, FS_Union DEF Shaped
<1>6. Shaped(db)'
  <2>1. db'.requests \subseteq [n : Nat \ {0}, visitors : {1, 2}]
    BY <1>a, <1>2, <1>4 DEF Shaped
  <2>2. db'.next \in (Nat \ {0}) \cup {Null} /\ (db'.next # Null <=> db'.rev >= 22)
    BY <1>a, <1>c, <1>1, <1>4 DEF Shaped
  <2>3. /\ db' = [rev |-> db'.rev, cols |-> db'.cols, marks |-> db'.marks, requests |-> db'.requests,
                  rows |-> db'.rows, next |-> db'.next]
        /\ db'.rev \in 0..Newest /\ IsFiniteSet(db'.requests)
        /\ db'.rows \subseteq Row /\ IsFiniteSet(db'.rows)
    BY <1>a, <1>4, <1>5 DEF Shaped
  <2> QED
    BY <2>1, <2>2, <2>3 DEF Shaped
<1>7. db'.rev < 8 => \A p \in db'.requests : p.visitors = 1
  BY <1>a, <1>c, <1>2, <1>4 DEF Fit
<1>8. db'.rev >= 22 /\ ~mixed' => \A p \in db'.requests : p.n < db'.next
  <2> SUFFICES ASSUME db.rev >= 22, ~mixed', NEW p \in db.requests \cup stored
               PROVE  p.n < db.next + 1 /\ release >= 22
    BY <1>4
  <2>1. release >= 22 /\ db.next \in Nat
    BY <1>b, <1>1
  <2>2. CASE p = q
    BY <1>1, <1>2, <2>1, <2>2
  <2>3. CASE p \in db.requests
    <3>1. p.n < db.next /\ p.n \in Nat
      BY <1>a, <1>b, <2>3 DEF Fit, Shaped
    <3> QED
      BY <2>1, <3>1
  <2> QED
    BY <2>1, <2>2, <2>3
<1>9. Fit(db)'
  <2>1. db'.rows = db.rows /\ db'.rev = db.rev
    BY <1>4
  <2>2. \A e \in db'.rows : e.owner # Null => db'.rev >= 23 /\ e.born >= 23
    BY <1>a, <2>1 DEF Fit
  <2>3. ~mixed' => \A e \in db'.rows :
          e.reason \in (IF db'.rev >= 21 THEN NewReasons ELSE OldReasons) \cup {Null}
    BY <1>a, <1>b, <2>1 DEF Fit
  <2>4. BeatsInOrder(db'.rows)
    BY <1>a, <2>1 DEF Fit
  <2> QED
    BY <1>7, <1>8, <2>2, <2>3, <2>4 DEF Fit, BeatsInOrder
<1> QED
  BY <1>a, <1>b, <1>6, <1>9 DEF SchemaInv, ChainOK


(* A row written later than all there are keeps the heartbeats in order.   *)
LEMMA RowWritten ==
  ASSUME SchemaInv, NEW e \in Row, WriteRow(e), e.reason = Null,
         e.owner # Null => db.rev >= 23 /\ e.born >= 23,
         e.login # Null /\ e.beat # Null => e.beat = e.login
  PROVE  SchemaInv'
<1>a. Shaped(db) /\ Fit(db) /\ run' = Null /\ release' = release /\ trouble' = trouble
      /\ release \in 0..Newest
  BY WritesMark DEF WriteRow, SchemaInv
<1>b. mixed' \in BOOLEAN /\ (~mixed' => ~mixed)
  BY WritesMark DEF WriteRow
<1>1. db' = [rev |-> db.rev, cols |-> db.cols, marks |-> db.marks, requests |-> db.requests,
             rows |-> db.rows \cup {e}, next |-> db.next]
  BY <1>a DEF WriteRow, Shaped
<1>2. IsFiniteSet(db.rows \cup {e})
  BY <1>a, FS_AddElement DEF Shaped
<1>3. Shaped(db)'
  BY <1>a, <1>1, <1>2 DEF Shaped
<1>4. BeatsInOrder(db.rows \cup {e})
  <2> SUFFICES ASSUME NEW l \in db.rows \cup {e}, NEW x \in db.rows \cup {e},
                      l.login # Null, l.beat # Null, x.login = Null, x.user = l.user,
                      x.beat # Null, x.beat >= l.login
               PROVE  x.beat >= l.beat
    BY DEF BeatsInOrder
  <2>1. l.login \in Int /\ l.beat \in Int /\ x.beat \in Int
    BY <1>a, RowFields DEF Shaped
  <2>2. CASE l \in db.rows /\ x \in db.rows
    BY <1>a, <2>2 DEF Fit, BeatsInOrder
  <2>3. CASE l = e
    BY <2>1, <2>3
  <2>4. CASE l \in db.rows /\ x = e
    <3>1. x.beat \in Moments(e) /\ l.beat \in Moments(l)
      BY <2>4 DEF Moments
    <3> QED
      BY <2>1, <2>4, <3>1 DEF WriteRow
  <2> QED
    BY <2>2, <2>3, <2>4
<1>5. /\ \A d \in db'.rows : d.owner # Null => db'.rev >= 23 /\ d.born >= 23
      /\ ~mixed' => \A d \in db'.rows :
           d.reason \in (IF db'.rev >= 21 THEN NewReasons ELSE OldReasons) \cup {Null}
  BY <1>a, <1>b, <1>1 DEF Fit
<1>6. /\ db'.rev < 8 => \A q \in db'.requests : q.visitors = 1
      /\ db'.rev >= 22 /\ ~mixed' => \A q \in db'.requests : q.n < db'.next
  BY <1>a, <1>b, <1>1 DEF Fit
<1>7. Fit(db)'
  BY <1>1, <1>4, <1>5, <1>6 DEF Fit, BeatsInOrder
<1> QED
  BY <1>a, <1>b, <1>3, <1>7 DEF SchemaInv, ChainOK

LEMMA EventSchema ==
  ASSUME SchemaInv, NEW u \in User, NEW t \in Time, Event(u, t) \/ OpenSession(u, t)
  PROVE  SchemaInv'
<1>a. release \in 0..Newest /\ Null \notin Time
  BY MigrationAssumption DEF SchemaInv
<1>1. CASE Event(u, t)
  <2>1. PICK login \in BOOLEAN :
          WriteRow([user |-> u, login |-> IF login THEN t ELSE Null,
                    beat |-> IF login THEN Null ELSE t, reason |-> Null, owner |-> Null,
                    born |-> release])
    BY <1>1 DEF Event
  <2> DEFINE e == [user |-> u, login |-> IF login THEN t ELSE Null,
                   beat |-> IF login THEN Null ELSE t, reason |-> Null, owner |-> Null,
                   born |-> release]
  <2>2. /\ e \in Row /\ e.reason = Null /\ e.owner = Null
        /\ ~(e.login # Null /\ e.beat # Null)
    BY <1>a DEF Row
  <2>3. WriteRow(e)
    BY <2>1
  <2> HIDE DEF e
  <2> QED
    BY <2>2, <2>3, RowWritten
<1>2. CASE OpenSession(u, t)
  <2> DEFINE owner == IF Shape(release) = "owned" THEN u ELSE Null
             e == [user |-> u, login |-> t, beat |-> t, reason |-> Null, owner |-> owner,
                   born |-> release]
  <2>1. WriteRow(e)
    BY <1>2 DEF OpenSession
  <2>2. owner \in User \cup {Null} /\ (owner # Null => Shape(release) = "owned")
    OBVIOUS
  <2> HIDE DEF owner
  <2>3. /\ e \in Row /\ e.reason = Null /\ e.owner = owner /\ e.born = release
        /\ e.beat = e.login
    BY <1>a, <2>2 DEF Row
  <2> HIDE DEF e
  <2>4. Shape(release) = Shape(db.rev)
    BY <2>1 DEF WriteRow
  <2>5. Shape(release) = "owned" => db.rev >= 23 /\ release >= 23
    <3>1. release \in 0..24 /\ db.rev \in 0..24
      BY <1>a, RevisionCount DEF SchemaInv, Shaped
    <3> QED
      BY <2>4, <3>1 DEF Shape
  <2> QED
    BY <2>1, <2>2, <2>3, <2>5, RowWritten
<1> QED
  BY <1>1, <1>2

LEMMA EndSessionSchema ==
  ASSUME SchemaInv, NEW e \in db.rows, EndSession(e)
  PROVE  SchemaInv'
<1>a. Shaped(db) /\ Fit(db) /\ run' = Null /\ release' = release /\ trouble' = trouble
      /\ release \in 0..24 /\ db.rev \in 0..24
  BY WritesMark, RevisionCount DEF EndSession, SchemaInv, Shaped
<1>b. mixed' \in BOOLEAN /\ (~mixed' => ~mixed /\ release = db.rev)
  BY WritesMark DEF EndSession
<1>1. PICK why \in IF release < 21 THEN OldReasons ELSE NewReasons :
        db' = [db EXCEPT !.rows = (db.rows \ {e}) \cup {[e EXCEPT !.reason = why]}]
  BY DEF EndSession
<1> DEFINE f == [e EXCEPT !.reason = why]
<1>2. /\ f \in Row /\ f.user = e.user /\ f.login = e.login /\ f.beat = e.beat
      /\ f.owner = e.owner /\ f.born = e.born /\ f.reason = why
  <2>1. e \in Row /\ why \in OldReasons \cup NewReasons
    BY <1>a, <1>1 DEF Shaped
  <2> QED
    BY <2>1 DEF Row
<1>3. db' = [rev |-> db.rev, cols |-> db.cols, marks |-> db.marks, requests |-> db.requests,
             rows |-> (db.rows \ {e}) \cup {f}, next |-> db.next]
  BY <1>a, <1>1 DEF Shaped
<1> HIDE DEF f
<1>4. IsFiniteSet((db.rows \ {e}) \cup {f})
  <2>1. IsFiniteSet(db.rows \ {e})
    BY <1>a, FS_Subset DEF Shaped
  <2> QED
    BY <2>1, FS_AddElement
<1>5. Shaped(db)'
  BY <1>a, <1>2, <1>3, <1>4 DEF Shaped
<1>6. BeatsInOrder((db.rows \ {e}) \cup {f})
  BY <1>a, <1>2 DEF Fit, BeatsInOrder
<1>7. /\ \A d \in db'.rows : d.owner # Null => db'.rev >= 23 /\ d.born >= 23
      /\ ~mixed' => \A d \in db'.rows :
           d.reason \in (IF db'.rev >= 21 THEN NewReasons ELSE OldReasons) \cup {Null}
  <2>1. ~mixed' => why \in IF db.rev >= 21 THEN NewReasons ELSE OldReasons
    BY <1>a, <1>b, <1>1
  <2> QED
    BY <1>a, <1>b, <1>2, <1>3, <2>1 DEF Fit
<1>8. /\ db'.rev < 8 => \A q \in db'.requests : q.visitors = 1
      /\ db'.rev >= 22 /\ ~mixed' => \A q \in db'.requests : q.n < db'.next
  BY <1>a, <1>b, <1>3 DEF Fit
<1>9. Fit(db)'
  BY <1>3, <1>6, <1>7, <1>8 DEF Fit, BeatsInOrder
<1> QED
  BY <1>a, <1>b, <1>5, <1>9, RevisionCount DEF SchemaInv, ChainOK

LEMMA SchemaKept == SchemaInv /\ [Next]_vars => SchemaInv'
<1> SUFFICES ASSUME SchemaInv, [Next]_vars PROVE SchemaInv'
  OBVIOUS
<1>1. CASE \E target \in Targets : StartRun(target)
  BY <1>1, StartRunSchema
<1>2. CASE Upgrade
  BY <1>2, UpgradeSchema
<1>3. CASE Downgrade
  BY <1>3, DowngradeSchema
<1>4. CASE CommitRun \/ LoseRun \/ Restart \/ UNCHANGED vars
  BY <1>4, RunEndSchema
<1>5. CASE \E visitors \in {1, 2} : Submit(visitors)
  BY <1>5, SubmitSchema
<1>6. CASE \E u \in User, t \in Time : Event(u, t) \/ OpenSession(u, t)
  BY <1>6, EventSchema
<1>7. CASE \E e \in db.rows : EndSession(e)
  BY <1>7, EndSessionSchema
<1> QED
  BY <1>1, <1>2, <1>3, <1>4, <1>5, <1>6, <1>7 DEF Next

LEMMA SchemaHolds == Spec => []SchemaInv
  BY InitSchema, SchemaKept, PTL DEF Spec

(* Every run of migrations and releases keeps the database and its chain   *)
(* of the right shape, the sequence there from revision 22 on and not      *)
(* below it.                                                               *)
THEOREM SchemaTypeCorrect == Spec => []TypeOK
<1>1. SchemaInv => TypeOK
  BY DEF SchemaInv, Shaped, ChainOK, TypeOK
<1> QED
  BY <1>1, SchemaHolds, PTL

(* Whatever revisions the database went up and down through, however many  *)
(* chains failed or were lost, and whichever release wrote meanwhile: the  *)
(* parties, the numbers, the owners and the reasons fit the revision it is *)
(* at.                                                                     *)
THEOREM DataFollows == Spec => []DataFitsRevision
<1>1. SchemaInv => DataFitsRevision
  BY DEF SchemaInv, Fit, DataFitsRevision, PartiesFitTheRevision, NumbersAhead,
         LegacyNeverOwned, ReasonsFollowRevision
<1> QED
  BY <1>1, SchemaHolds, PTL

(* The step from revision 14 to 15, be it the upgrade or a failed downgrade*)
(* that returns, leaves the moment each user was last seen as it was.      *)
THEOREM LastSeenKept == Spec => MergeKeepsLastSeen
<1> DEFINE Same == db.rev = 14 /\ db'.rev = 15 =>
                     \A u \in User : LastSeen(db'.rows, u) = LastSeen(db.rows, u)
<1>1. SchemaInv /\ [Next]_vars => [Same]_vars
  <2> SUFFICES ASSUME SchemaInv, Next, db.rev = 14, db'.rev = 15, NEW u \in User
               PROVE  LastSeen(db'.rows, u) = LastSeen(db.rows, u)
    BY DEF vars
  <2>a. Shaped(db) /\ Fit(db) /\ IsDb(db) /\ RowsOK(db.rows)
    BY PartsOfFit DEF SchemaInv
  <2>1. CASE Upgrade /\ ~Undo("schema")
    <3>1. db' = Stepped(UpData(db, 15), Ups[15], 15) /\ 15 \in 1..Newest
      BY <2>1, UpgradeStep, RevisionCount
    <3>2. db'.rows = Merge(db.rows)
      BY <2>a, <3>1, UpDataIs, SteppedIs
    <3> QED
      BY <2>a, <3>2, MergeSeen
  <2>2. CASE run # Null /\ \E why \in {"", "schema", "data"} : Undo(why)
    <3>1. db' = run.saved
      BY <2>2 DEF Undo
    <3>2. db'.rows = db.rows
      BY <2>2, <3>1 DEF SchemaInv, ChainOK
    <3> QED
      BY <3>2
  <2>3. CASE Downgrade /\ ~\E why \in {"", "schema", "data"} : Undo(why)
    <3>1. db' = Stepped(DownData(db, db.rev), Downs[db.rev], db.rev - 1)
      BY <2>3 DEF Downgrade, Stepped
    <3>2. IsDb(DownData(db, 14))
      BY <2>a, DownDataIs, RevisionCount
    <3>3. db'.rev = 13
      BY <3>1, <3>2, SteppedIs
    <3> QED
      BY <3>3
  <2>4. CASE \/ \E target \in Targets : StartRun(target)
             \/ CommitRun \/ Restart
    BY <2>4 DEF StartRun, CommitRun, Restart
  <2>5. CASE \/ \E visitors \in {1, 2} : Submit(visitors)
             \/ \E v \in User, t \in Time : Event(v, t) \/ OpenSession(v, t)
             \/ \E e \in db.rows : EndSession(e)
    <3>1. db'.rev = db.rev
      BY <2>5, <2>a DEF IsDb, Submit, Event, OpenSession, WriteRow, EndSession
    <3> QED
      BY <3>1
  <2>6. CASE LoseRun
    BY <2>2, <2>6 DEF LoseRun
  <2>7. CASE Upgrade /\ Undo("schema")
    BY <2>2, <2>7 DEF Upgrade
  <2>8. CASE Downgrade /\ \E why \in {"", "schema", "data"} : Undo(why)
    BY <2>2, <2>8 DEF Downgrade
  <2> QED
    BY <2>1, <2>3, <2>4, <2>5, <2>6, <2>7, <2>8 DEF Next
<1> QED
  BY <1>1, SchemaHolds, PTL DEF Spec, MergeKeepsLastSeen

-----------------------------------------------------------------------------
(* The schema.  What a revision leads to is written down outright, as the  *)
(* union of the pieces that live at it; each upgrade is then shown to lead *)
(* from one union to the next, and each downgrade back.                    *)

(* The pieces of the schema that come and go together.                     *)
ByCompany == T("companies", {}, {"created_by_id", "updated_by_id"})
ByRequest == T("requests", {}, {"requested_by_id", "reviewed_by_id"})
ByVisitor == T("visitor_access_requests", {}, {"checked_in_by_id", "checked_out_by_id"})
VisitorCore ==
  T("visitor_access_requests",
    {"id", "request_id", "visit_date", "expected_arrival_time", "expected_departure_time",
     "visitor_full_name", "visitor_id_number", "visit_status"} \cup Stamps,
    {"site_location", "host_contact_name", "visitor_phone", "visitor_email", "visitor_company",
     "vehicle_registration", "equipment_carried", "special_instructions", "checked_in_at",
     "checked_out_at", "security_notes"})
AuditCore ==
  T("audit_logs", {"id", "action", "entity_type", "summary", "created_at"}, {"entity_id", "metadata"})
SessionId == S({"id"}, {})
FirstEvents ==
  S({"actor_subject", "actor_tenant_id", "actor_name_snapshot", "actor_roles_snapshot",
     "event_type", "created_at"}, {"actor_email_snapshot", "access_token_expires_at"})
Username == S({"username_snapshot"}, {})
LoginTime == S({"username"}, {"login_date_time"})
SessionTimes == S({"login_at", "last_seen_at"}, {"ended_at"})

CompanyMarks ==
  Uq("companies", {"customer_code"}) \cup Ix("companies", {"name"})
  \cup Fk("contacts", {"company_id"}, "companies") \cup Ix("contacts", {"company_id"})
ByCompanyKeys == Fk("companies", {"created_by_id", "updated_by_id"}, "users")
RequestMarks ==
  Uq("requests", {"request_number"}) \cup Ix("requests", {"company_id", "request_number"})
  \cup Fk("requests", {"company_id"}, "companies")
  \cup Ix("visitor_access_requests", {"request_id"})
  \cup Fk("visitor_access_requests", {"request_id"}, "requests")
ByRequestKeys == Fk("requests", {"requested_by_id", "reviewed_by_id"}, "users")
ByVisitorKeys == Fk("visitor_access_requests", {"checked_in_by_id", "checked_out_by_id"}, "users")
SubjectIx == Ix("audit_logs", {"actor_subject"})
FirstIx == SIx({"actor_subject", "actor_tenant_id", "created_at", "event_type"})
UsernameIx == SIx({"username_snapshot"})
LoginIx == SIx({"username", "login_date_time"})
HeartbeatIx == SIx({"heartbeat_date_time"})
LastActiveIx == SIx({"last_active_date_time"})
SessionTimesIx == SIx({"login_at", "last_seen_at", "ended_at"})
ShownIx == SIx({"email", "reason"})
OwnerIx == SIx({"actor_subject", "last_activity_at"})

(* What is there from revision a through revision b: each piece with its   *)
(* first and its last revision.                                            *)
Life(a, b, first, last, piece) == IF first <= a /\ b <= last THEN piece ELSE {}
Cols(a, b) ==
  Life(a, b, 1, 10, Users \cup Roles)
  \cup Life(a, b, 2, 24, CompanyModel \cup ContactModel)
  \cup Life(a, b, 2, 10, ByCompany)
  \cup Life(a, b, 2, 23, Requester)
  \cup Life(a, b, 3, 24, RequestModel \cup VisitorCore \cup AuditCore)
  \cup Life(a, b, 3, 10, ByRequest \cup ByVisitor)
  \cup Life(a, b, 3, 9, Actor)
  \cup Life(a, b, 4, 10, CompanyUsers)
  \cup Life(a, b, 5, 24, Address)
  \cup Life(a, b, 6, 10, ContactUser)
  \cup Life(a, b, 7, 10, PasswordFlag)
  \cup Life(a, b, 9, 24, Snapshots)
  \cup Life(a, b, 12, 24, SessionId)
  \cup Life(a, b, 12, 13, FirstEvents)
  \cup Life(a, b, 13, 13, Username)
  \cup Life(a, b, 14, 17, LoginTime)
  \cup Life(a, b, 14, 16, Heartbeat)
  \cup Life(a, b, 17, 17, LastActive)
  \cup Life(a, b, 18, 24, SessionTimes)
  \cup Life(a, b, 18, 18, Hidden)
  \cup Life(a, b, 19, 24, Shown)
  \cup Life(a, b, 23, 24, Owner)
Marks(a, b) ==
  Life(a, b, 1, 10, UserMarks \cup RoleMarks)
  \cup Life(a, b, 2, 24, CompanyMarks)
  \cup Life(a, b, 2, 10, ByCompanyKeys)
  \cup Life(a, b, 3, 24, RequestMarks)
  \cup Life(a, b, 3, 10, ByRequestKeys \cup ByVisitorKeys)
  \cup Life(a, b, 3, 7, OneVisitor)
  \cup Life(a, b, 3, 9, ActorKey)
  \cup Life(a, b, 4, 10, CompanyUserMarks)
  \cup Life(a, b, 6, 10, ContactUserMarks)
  \cup Life(a, b, 9, 24, SubjectIx)
  \cup Life(a, b, 12, 13, FirstIx)
  \cup Life(a, b, 13, 13, UsernameIx)
  \cup Life(a, b, 14, 17, LoginIx)
  \cup Life(a, b, 14, 16, HeartbeatIx)
  \cup Life(a, b, 17, 17, LastActiveIx)
  \cup Life(a, b, 18, 24, SessionTimesIx)
  \cup Life(a, b, 18, 18, HiddenIx)
  \cup Life(a, b, 19, 24, ShownIx)
  \cup Life(a, b, 23, 24, OwnerIx)

(* What the revisions name, in these pieces.                               *)
LEMMA Pieces2 ==
  Up2 = Add(CompanyModel \cup ContactModel \cup ByCompany \cup Requester,
            CompanyMarks \cup ByCompanyKeys)
<1>1. Up2.add = CompanyModel \cup ContactModel \cup ByCompany \cup Requester
  BY DEF T, Up2, Add, Nothing, CompanyModel, ByCompany, ContactModel, Requester, Stamps
<1>2. Up2.on = CompanyMarks \cup ByCompanyKeys
  BY DEF Up2, Add, Nothing, CompanyMarks, ByCompanyKeys, Ix, Uq, Fk
<1>3. Up2 = Add(Up2.add, Up2.on)
  BY DEF Up2, Add, Nothing
<1> QED
  BY <1>1, <1>2, <1>3, Zenon

LEMMA Pieces3 ==
  Up3 = Add(RequestModel \cup VisitorCore \cup AuditCore \cup ByRequest \cup ByVisitor \cup Actor,
            RequestMarks \cup ByRequestKeys \cup ByVisitorKeys \cup OneVisitor \cup ActorKey)
<1>1. Up3.add = RequestModel \cup VisitorCore \cup AuditCore \cup ByRequest \cup ByVisitor \cup Actor
  BY DEF T, Up3, Add, Nothing, RequestModel, ByRequest, VisitorCore, ByVisitor, AuditCore, Actor,
         Stamps
<1>2. Up3.on = RequestMarks \cup ByRequestKeys \cup ByVisitorKeys \cup OneVisitor \cup ActorKey
  BY DEF Up3, Add, Nothing, RequestMarks, ByRequestKeys, ByVisitorKeys, OneVisitor, ActorKey,
         Ix, Uq, Fk
<1>3. Up3 = Add(Up3.add, Up3.on)
  BY DEF Up3, Add, Nothing
<1> QED
  BY <1>1, <1>2, <1>3, Zenon

LEMMA PiecesOfUsers ==
  /\ ByUser = ByCompany \cup ByRequest \cup ByVisitor
  /\ ByUserKeys = ByCompanyKeys \cup ByRequestKeys \cup ByVisitorKeys
  BY DEF ByUser, ByCompany, ByRequest, ByVisitor, ByUserKeys, ByCompanyKeys, ByRequestKeys,
         ByVisitorKeys

LEMMA PiecesOfSessions ==
  /\ Up12 = Add(SessionId \cup FirstEvents, FirstIx)
  /\ Up13 = Add(Username, UsernameIx) /\ Down13 = Drop(Username, UsernameIx)
  /\ Events = FirstEvents \cup Username /\ EventIx = FirstIx \cup UsernameIx
  /\ Times = LoginTime \cup Heartbeat /\ TimeIx = LoginIx \cup HeartbeatIx
  /\ Active17 = LoginTime \cup LastActive /\ ActiveIx = LoginIx \cup LastActiveIx
  /\ Sessions18 = SessionTimes \cup Hidden /\ SessionIx = SessionTimesIx \cup HiddenIx
  /\ Display = SessionId \cup SessionTimes \cup Shown
  /\ DisplayIx = SessionTimesIx \cup ShownIx
<1>1. S({"id", "actor_subject", "actor_tenant_id", "actor_name_snapshot",
     "actor_roles_snapshot", "event_type", "created_at"},
    {"actor_email_snapshot", "access_token_expires_at"}) = SessionId \cup FirstEvents
  BY DEF S, T, SessionId, FirstEvents
<1>2. Events = FirstEvents \cup Username /\ Times = LoginTime \cup Heartbeat
  BY DEF S, T, Events, FirstEvents, Username, Times, LoginTime, Heartbeat
<1>3. Active17 = LoginTime \cup LastActive /\ Sessions18 = SessionTimes \cup Hidden
  BY DEF S, T, Active17, LoginTime, LastActive, Sessions18, SessionTimes, Hidden
<1>4. Display = SessionId \cup SessionTimes \cup Shown
  BY DEF S, T, Display, SessionId, SessionTimes, Shown
<1>5. EventIx = FirstIx \cup UsernameIx /\ TimeIx = LoginIx \cup HeartbeatIx
      /\ ActiveIx = LoginIx \cup LastActiveIx
  BY DEF SIx, Ix, EventIx, FirstIx, UsernameIx, TimeIx, LoginIx, HeartbeatIx, ActiveIx, LastActiveIx
<1>6. SessionIx = SessionTimesIx \cup HiddenIx /\ DisplayIx = SessionTimesIx \cup ShownIx
  BY DEF SIx, Ix, SessionIx, SessionTimesIx, HiddenIx, DisplayIx, ShownIx
<1>7. Up12 = Add(SessionId \cup FirstEvents, FirstIx)
  BY <1>1, Zenon DEF Up12, FirstIx
<1>8. Up13 = Add(Username, UsernameIx) /\ Down13 = Drop(Username, UsernameIx)
  BY Zenon DEF Up13, Down13, Username, UsernameIx
<1> QED
  BY <1>2, <1>3, <1>4, <1>5, <1>6, <1>7, <1>8

LEMMA PiecesOfModels ==
  Models = Cols(24, 24) /\ ModelMarks = Marks(24, 24)
<1>1. VisitorModel = VisitorCore \cup Address /\ AuditModel = AuditCore \cup Snapshots
  BY DEF T, VisitorModel, VisitorCore, Address, AuditModel, AuditCore, Snapshots, Stamps
<1>2. SessionModel = SessionId \cup SessionTimes \cup Shown \cup Owner
  BY DEF T, S, SessionModel, SessionId, SessionTimes, Shown, Owner
<1>3. Models = Cols(24, 24)
  BY <1>1, <1>2 DEF Models, Cols, Life
<1>4. ModelMarks = CompanyMarks \cup RequestMarks \cup SubjectIx \cup SessionTimesIx \cup ShownIx
                   \cup OwnerIx
  BY DEF Ix, Uq, Fk, SIx, ModelMarks, CompanyMarks, RequestMarks, SubjectIx, SessionTimesIx, ShownIx,
         OwnerIx
<1>5. ModelMarks = Marks(24, 24)
  BY <1>4 DEF Marks, Life
<1> QED
  BY <1>3, <1>5

-----------------------------------------------------------------------------
(* Which columns a piece has.                                              *)
LEMMA ColumnsOf ==
  ASSUME NEW k
  PROVE
  /\ k \in Users => k.t = "users" /\ k.c # "must_change_password"
  /\ k \in Roles => k.t \in {"roles", "user_roles"}
  /\ k \in PasswordFlag => k.t = "users" /\ k.c = "must_change_password"
  /\ k \in CompanyModel => k.t = "companies" /\ k.c \notin {"created_by_id", "updated_by_id"}
  /\ k \in ByCompany => k.t = "companies" /\ k.c \in {"created_by_id", "updated_by_id"}
  /\ k \in ContactModel => k.t = "contacts" /\ k.c \notin {"user_id", "is_authorised_requester"}
  /\ k \in Requester => k.t = "contacts" /\ k.c = "is_authorised_requester"
  /\ k \in ContactUser => k.t = "contacts" /\ k.c = "user_id"
  /\ k \in CompanyUsers => k.t = "company_users"
  /\ k \in RequestModel => k.t = "requests" /\ k.c \notin {"requested_by_id", "reviewed_by_id"}
  /\ k \in ByRequest => k.t = "requests" /\ k.c \in {"requested_by_id", "reviewed_by_id"}
  /\ k \in VisitorCore => /\ k.t = "visitor_access_requests"
                          /\ k.c \notin {"checked_in_by_id", "checked_out_by_id", "visitor_address"}
  /\ k \in ByVisitor => /\ k.t = "visitor_access_requests"
                        /\ k.c \in {"checked_in_by_id", "checked_out_by_id"}
  /\ k \in Address => k.t = "visitor_access_requests" /\ k.c = "visitor_address"
  /\ k \in AuditCore => /\ k.t = "audit_logs"
                        /\ k.c \in {"id", "action", "entity_type", "summary", "created_at",
                                    "entity_id", "metadata"}
  /\ k \in Actor => k.t = "audit_logs" /\ k.c = "actor_user_id"
  /\ k \in Snapshots => /\ k.t = "audit_logs"
                        /\ k.c \in {"actor_subject", "actor_tenant_id", "actor_email_snapshot",
                                    "actor_name_snapshot", "actor_roles_snapshot"}
<1>1. /\ k \in Users => k.t = "users" /\ k.c # "must_change_password"
      /\ k \in Roles => k.t \in {"roles", "user_roles"}
      /\ k \in PasswordFlag => k.t = "users" /\ k.c = "must_change_password"
  BY DEF T, Users, Roles, PasswordFlag, Stamps
<1>2. /\ k \in CompanyModel => k.t = "companies" /\ k.c \notin {"created_by_id", "updated_by_id"}
      /\ k \in ByCompany => k.t = "companies" /\ k.c \in {"created_by_id", "updated_by_id"}
  BY DEF T, CompanyModel, ByCompany, Stamps
<1>3. /\ k \in ContactModel => k.t = "contacts" /\ k.c \notin {"user_id", "is_authorised_requester"}
      /\ k \in Requester => k.t = "contacts" /\ k.c = "is_authorised_requester"
      /\ k \in ContactUser => k.t = "contacts" /\ k.c = "user_id"
      /\ k \in CompanyUsers => k.t = "company_users"
  BY DEF T, ContactModel, Requester, ContactUser, CompanyUsers, Stamps
<1>4. /\ k \in RequestModel => k.t = "requests" /\ k.c \notin {"requested_by_id", "reviewed_by_id"}
      /\ k \in ByRequest => k.t = "requests" /\ k.c \in {"requested_by_id", "reviewed_by_id"}
  BY DEF T, RequestModel, ByRequest, Stamps
<1>5. /\ k \in VisitorCore => /\ k.t = "visitor_access_requests"
                          /\ k.c \notin {"checked_in_by_id", "checked_out_by_id", "visitor_address"}
      /\ k \in ByVisitor => /\ k.t = "visitor_access_requests"
                            /\ k.c \in {"checked_in_by_id", "checked_out_by_id"}
      /\ k \in Address => k.t = "visitor_access_requests" /\ k.c = "visitor_address"
  BY DEF T, VisitorCore, ByVisitor, Address, Stamps
<1>6. /\ k \in AuditCore => /\ k.t = "audit_logs"
                        /\ k.c \in {"id", "action", "entity_type", "summary", "created_at",
                                    "entity_id", "metadata"}
      /\ k \in Actor => k.t = "audit_logs" /\ k.c = "actor_user_id"
      /\ k \in Snapshots => /\ k.t = "audit_logs"
                            /\ k.c \in {"actor_subject", "actor_tenant_id", "actor_email_snapshot",
                                        "actor_name_snapshot", "actor_roles_snapshot"}
  BY DEF T, AuditCore, Actor, Snapshots
<1> QED
  BY <1>1, <1>2, <1>3, <1>4, <1>5, <1>6

LEMMA SessionColumnsOf ==
  ASSUME NEW k
  PROVE
  /\ k \in SessionId \cup FirstEvents \cup Username \cup LoginTime \cup Heartbeat \cup LastActive
           \cup SessionTimes \cup Hidden \cup Shown \cup Owner => k.t = "user_session_events"
  /\ k \in SessionId => k.c = "id"
  /\ k \in FirstEvents => k.c \in {"actor_subject", "actor_tenant_id", "actor_name_snapshot",
                                   "actor_roles_snapshot", "event_type", "created_at",
                                   "actor_email_snapshot", "access_token_expires_at"}
  /\ k \in Username => k.c = "username_snapshot"
  /\ k \in LoginTime => k.c \in {"username", "login_date_time"}
  /\ k \in Heartbeat => k.c = "heartbeat_date_time"
  /\ k \in LastActive => k.c = "last_active_date_time"
  /\ k \in SessionTimes => k.c \in {"login_at", "last_seen_at", "ended_at"}
  /\ k \in Hidden => k.c \in {"actor_tenant_id", "actor_object_id", "actor_subject",
                              "actor_name_snapshot", "status", "actor_email_snapshot",
                              "detected_at", "end_reason"}
  /\ k \in Shown => k.c \in {"name", "email", "reason"}
  /\ k \in Owner => k.c \in {"actor_subject", "last_activity_at"}
  BY DEF T, S, SessionId, FirstEvents, Username, LoginTime, Heartbeat, LastActive, SessionTimes,
         Hidden, Shown, Owner

LEMMA FieldsOfMarks ==
  /\ \A m, t, C : m \in Ix(t, C) => m.kind = "ix" /\ m.t = t /\ m.c \in C /\ m.to = "none"
  /\ \A m, t, C : m \in Uq(t, C) => m.kind = "uq" /\ m.t = t /\ m.c \in C /\ m.to = "none"
  /\ \A m, t, C, to : m \in Fk(t, C, to) => m.kind = "fk" /\ m.t = t /\ m.c \in C /\ m.to = to
  BY DEF Ix, Uq, Fk

(* On what tables and columns the indexes and constraints are, and which   *)
(* tables the foreign keys point to.                                       *)
LEMMA MarksOn ==
  ASSUME NEW m
  PROVE
  /\ m \in UserMarks => m.t = "users" /\ m.c = "email" /\ m.to = "none" /\ m.kind # "fk"
  /\ m \in RoleMarks => m.t \in {"roles", "user_roles"} /\ m.to \in {"none", "users", "roles"}
  /\ m \in RoleMarks /\ m.kind = "fk" => m.to \in {"users", "roles"}
  /\ m \in CompanyMarks => /\ m.t \in {"companies", "contacts"} /\ m.to \in {"none", "companies"}
                           /\ m.c \in {"customer_code", "name", "company_id"}
  /\ m \in CompanyMarks /\ m.kind = "fk" => m.to = "companies"
  /\ m \in ByCompanyKeys => /\ m.t = "companies" /\ m.to = "users"
                            /\ m.c \in {"created_by_id", "updated_by_id"}
  /\ m \in RequestMarks => /\ m.t \in {"requests", "visitor_access_requests"}
                           /\ m.c \in {"request_number", "company_id", "request_id"}
                           /\ m.to \in {"none", "companies", "requests"}
  /\ m \in RequestMarks /\ m.c = "request_id" => m.kind # "uq"
  /\ m \in RequestMarks /\ m.kind = "fk" => m.to \in {"companies", "requests"}
  /\ m \in ByRequestKeys => /\ m.t = "requests" /\ m.to = "users"
                            /\ m.c \in {"requested_by_id", "reviewed_by_id"}
  /\ m \in ByVisitorKeys => /\ m.t = "visitor_access_requests" /\ m.to = "users"
                            /\ m.c \in {"checked_in_by_id", "checked_out_by_id"}
  /\ m \in OneVisitor => /\ m.t = "visitor_access_requests" /\ m.to = "none"
                         /\ m.kind = "uq" /\ m.c = "request_id"
  /\ m \in ActorKey => m.t = "audit_logs" /\ m.c = "actor_user_id" /\ m.to = "users"
  /\ m \in CompanyUserMarks => m.t = "company_users" /\ m.to \in {"none", "companies", "users"}
  /\ m \in CompanyUserMarks /\ m.kind = "fk" => m.to \in {"companies", "users"}
  /\ m \in ContactUserMarks => m.t = "contacts" /\ m.c = "user_id" /\ m.to \in {"none", "users"}
  /\ m \in ContactUserMarks /\ m.kind = "fk" => m.to = "users"
  /\ m \in SubjectIx => m.t = "audit_logs" /\ m.c = "actor_subject" /\ m.to = "none" /\ m.kind # "fk"
<1>1. /\ m \in UserMarks => m.t = "users" /\ m.c = "email" /\ m.to = "none" /\ m.kind # "fk"
      /\ m \in RoleMarks => m.t \in {"roles", "user_roles"} /\ m.to \in {"none", "users", "roles"}
      /\ m \in RoleMarks /\ m.kind = "fk" => m.to \in {"users", "roles"}
  BY FieldsOfMarks DEF UserMarks, RoleMarks
<1>2. /\ m \in CompanyMarks => /\ m.t \in {"companies", "contacts"} /\ m.to \in {"none", "companies"}
                               /\ m.c \in {"customer_code", "name", "company_id"}
      /\ m \in CompanyMarks /\ m.kind = "fk" => m.to = "companies"
  BY FieldsOfMarks DEF CompanyMarks
<1>3. /\ m \in RequestMarks => /\ m.t \in {"requests", "visitor_access_requests"}
                               /\ m.c \in {"request_number", "company_id", "request_id"}
                               /\ m.to \in {"none", "companies", "requests"}
      /\ m \in RequestMarks /\ m.c = "request_id" => m.kind # "uq"
      /\ m \in RequestMarks /\ m.kind = "fk" => m.to \in {"companies", "requests"}
  BY FieldsOfMarks DEF RequestMarks
<1>4. /\ m \in ByCompanyKeys => /\ m.t = "companies" /\ m.to = "users"
                                /\ m.c \in {"created_by_id", "updated_by_id"}
      /\ m \in ByRequestKeys => /\ m.t = "requests" /\ m.to = "users"
                                /\ m.c \in {"requested_by_id", "reviewed_by_id"}
      /\ m \in ByVisitorKeys => /\ m.t = "visitor_access_requests" /\ m.to = "users"
                                /\ m.c \in {"checked_in_by_id", "checked_out_by_id"}
  BY FieldsOfMarks DEF ByCompanyKeys, ByRequestKeys, ByVisitorKeys
<1>5. /\ m \in OneVisitor => /\ m.t = "visitor_access_requests" /\ m.to = "none"
                             /\ m.kind = "uq" /\ m.c = "request_id"
      /\ m \in ActorKey => m.t = "audit_logs" /\ m.c = "actor_user_id" /\ m.to = "users"
      /\ m \in SubjectIx => m.t = "audit_logs" /\ m.c = "actor_subject" /\ m.to = "none" /\ m.kind # "fk"
  BY FieldsOfMarks DEF OneVisitor, ActorKey, SubjectIx
<1>6. /\ m \in CompanyUserMarks => m.t = "company_users" /\ m.to \in {"none", "companies", "users"}
      /\ m \in CompanyUserMarks /\ m.kind = "fk" => m.to \in {"companies", "users"}
  BY FieldsOfMarks DEF CompanyUserMarks
<1>7. /\ m \in ContactUserMarks => m.t = "contacts" /\ m.c = "user_id" /\ m.to \in {"none", "users"}
      /\ m \in ContactUserMarks /\ m.kind = "fk" => m.to = "users"
  BY FieldsOfMarks DEF ContactUserMarks
<1> QED
  BY <1>1, <1>2, <1>3, <1>4, <1>5, <1>6, <1>7

LEMMA SessionMarksOn ==
  ASSUME NEW m
  PROVE
  /\ m \in FirstIx \cup UsernameIx \cup LoginIx \cup HeartbeatIx \cup LastActiveIx \cup SessionTimesIx
           \cup HiddenIx \cup ShownIx \cup OwnerIx =>
       m.t = "user_session_events" /\ m.to = "none" /\ m.kind = "ix"
  /\ m \in FirstIx => m.c \in {"actor_subject", "actor_tenant_id", "created_at", "event_type"}
  /\ m \in UsernameIx => m.c = "username_snapshot"
  /\ m \in LoginIx => m.c \in {"username", "login_date_time"}
  /\ m \in HeartbeatIx => m.c = "heartbeat_date_time"
  /\ m \in LastActiveIx => m.c = "last_active_date_time"
  /\ m \in SessionTimesIx => m.c \in {"login_at", "last_seen_at", "ended_at"}
  /\ m \in HiddenIx => m.c \in {"actor_tenant_id", "actor_object_id", "actor_subject", "status",
                             "end_reason"}
  /\ m \in ShownIx => m.c \in {"email", "reason"}
  /\ m \in OwnerIx => m.c \in {"actor_subject", "last_activity_at"}
  BY FieldsOfMarks DEF SIx, FirstIx, UsernameIx, LoginIx, HeartbeatIx, LastActiveIx, SessionTimesIx,
         HiddenIx, ShownIx, OwnerIx

(* Every table has a column of one piece.                                  *)
Has(cols, t) == \E k \in cols : k.t = t
LEMMA TablesThere ==
  /\ Has(Users, "users") /\ Has(Roles, "roles") /\ Has(Roles, "user_roles")
  /\ Has(CompanyModel, "companies") /\ Has(ContactModel, "contacts")
  /\ Has(CompanyUsers, "company_users") /\ Has(RequestModel, "requests")
  /\ Has(VisitorCore, "visitor_access_requests") /\ Has(AuditCore, "audit_logs")
  /\ Has(SessionId, "user_session_events")
<1>1. ASSUME NEW t, NEW Req, NEW Opt, "id" \in Req PROVE Has(T(t, Req, Opt), t)
  <2>1. [t |-> t, c |-> "id", null |-> FALSE] \in T(t, Req, Opt)
    BY <1>1 DEF T
  <2> QED
    BY <2>1 DEF Has
<1>2. [t |-> "user_roles", c |-> "user_id", null |-> FALSE] \in Roles
  BY DEF Roles, T
<1>3. Has(Roles, "roles") /\ Has(Roles, "user_roles")
  <2>1. [t |-> "roles", c |-> "id", null |-> FALSE] \in Roles
    BY DEF Roles, T
  <2> QED
    BY <1>2, <2>1 DEF Has
<1> QED
  BY <1>1, <1>3 DEF Users, CompanyModel, ContactModel, CompanyUsers, RequestModel, VisitorCore,
                    AuditCore, SessionId, S

(* No column of Stay is named like one of P, no index or constraint of     *)
(* StayM is on a column of P or among PM.                                  *)
SameName(k, x) == k.t = x.t /\ k.c = x.c
Apart(Stay, StayM, P, PM) ==
  /\ \A k \in Stay, x \in P : ~SameName(k, x)
  /\ \A m \in StayM : m \notin PM /\ \A x \in P : ~SameName(m, x)
Linked(M, cols) == \A m \in M : m.kind = "fk" => Has(cols, m.to)

(* Revision r and the one before it: what both have, what only the former  *)
(* has and what only the latter has.                                       *)
Revision(r, Stay, StayM, Old, OldM, New, NewM) ==
  /\ Cols(r - 1, r - 1) = Stay \cup Old /\ Cols(r, r) = Stay \cup New
  /\ Marks(r - 1, r - 1) = StayM \cup OldM /\ Marks(r, r) = StayM \cup NewM
  /\ Apart(Stay, StayM, Old, OldM) /\ Apart(Stay, StayM, New, NewM)
  /\ Linked(OldM, Cols(r - 1, r - 1)) /\ Linked(NewM, Cols(r, r))

(* A change leads from one schema to another.                              *)
Leads(ch, cols, marks, newCols, newMarks) ==
  \A s : s.cols = cols /\ s.marks = marks =>
    /\ Applicable(s, ch)
    /\ Kept(s, ch) \cup ch.add = newCols /\ KeptMarks(s, ch) \cup ch.on = newMarks

(* The tables G can go: all of them are there, and nothing that stays is   *)
(* in them or points to them.                                              *)
MayGo(Stay, StayM, Old, G) ==
  /\ \A t \in G : Has(Old, t)
  /\ \A k \in Stay : k.t \notin G
  /\ \A m \in StayM : m.t \notin G /\ m.to \notin G

(* A revision that takes the tables G away and the columns D of others     *)
(* leads from what there was to what there is.                             *)
LEMMA Works ==
  ASSUME NEW ch, NEW Stay, NEW StayM, NEW Old, NEW OldM, NEW D,
         Apart(Stay, StayM, Old, OldM), Apart(Stay, StayM, ch.add, ch.on),
         Linked(ch.on, Stay \cup ch.add), MayGo(Stay, StayM, Old, ch.gone),
         ch.drop = Names(D), D \subseteq Old, ch.off \subseteq OldM,
         \A k \in Old : k.t \in ch.gone \/ k \in D,
         \A m \in OldM : m.t \in ch.gone \/ m \in ch.off
  PROVE  Leads(ch, Stay \cup Old, StayM \cup OldM, Stay \cup ch.add, StayM \cup ch.on)
<1> SUFFICES ASSUME NEW s, s.cols = Stay \cup Old, s.marks = StayM \cup OldM
             PROVE  /\ Applicable(s, ch)
                    /\ Kept(s, ch) \cup ch.add = Stay \cup ch.add
                    /\ KeptMarks(s, ch) \cup ch.on = StayM \cup ch.on
  BY DEF Leads
<1>1. \A a, b : <<a, b>> \in Names(D) <=> \E d \in D : d.t = a /\ d.c = b
  BY DEF Names
<1>2. Kept(s, ch) = Stay
  BY <1>1 DEF Kept, Apart, SameName, MayGo
<1>3. KeptMarks(s, ch) = StayM
  BY <1>1 DEF KeptMarks, Apart, SameName, MayGo
<1>4. ch.drop \subseteq Names(s.cols)
  BY DEF Names
<1>5. Names(ch.add) \cap Names(Stay) = {}
  BY DEF Names, Apart, SameName
<1>6. ch.gone \subseteq {k.t : k \in s.cols}
  BY DEF Has, MayGo
<1>7. \A m \in ch.on : m.kind = "fk" => \E col \in Stay \cup ch.add : col.t = m.to
  BY DEF Has, Linked
<1>8. ch.on \cap StayM = {}
  BY DEF Apart
<1>9. \A m \in StayM : m.to \notin ch.gone
  BY DEF MayGo
<1>10. ch.off \subseteq s.marks
  OBVIOUS
<1> QED
  BY <1>2, <1>3, <1>4, <1>5, <1>6, <1>7, <1>8, <1>9, <1>10 DEF Applicable

(* Most revisions take columns away and add others, and the way back does  *)
(* the opposite.                                                           *)
LEMMA SwapWorks ==
  ASSUME NEW r, NEW Stay, NEW StayM, NEW Old, NEW OldM, NEW New, NEW NewM,
         Revision(r, Stay, StayM, Old, OldM, New, NewM)
  PROVE  /\ Leads(Swap(Old, New, OldM, NewM), Cols(r - 1, r - 1), Marks(r - 1, r - 1),
                  Cols(r, r), Marks(r, r))
         /\ Leads(Swap(New, Old, NewM, OldM), Cols(r, r), Marks(r, r),
                  Cols(r - 1, r - 1), Marks(r - 1, r - 1))
<1>1. ASSUME NEW A, NEW B, NEW M, NEW N,
             Apart(Stay, StayM, A, M), Apart(Stay, StayM, B, N), Linked(N, Stay \cup B)
      PROVE  Leads(Swap(A, B, M, N), Stay \cup A, StayM \cup M, Stay \cup B, StayM \cup N)
  <2> DEFINE ch == Swap(A, B, M, N)
  <2>1. ch.add = B /\ ch.drop = Names(A) /\ ch.gone = {} /\ ch.on = N /\ ch.off = M
    BY DEF Swap
  <2> HIDE DEF ch
  <2>2. MayGo(Stay, StayM, A, ch.gone)
    BY <2>1 DEF MayGo
  <2>3. Leads(ch, Stay \cup A, StayM \cup M, Stay \cup ch.add, StayM \cup ch.on)
    BY <1>1, <2>1, <2>2, Works
  <2> QED
    BY <2>1, <2>3 DEF ch
<1>2. /\ Cols(r - 1, r - 1) = Stay \cup Old /\ Cols(r, r) = Stay \cup New
      /\ Marks(r - 1, r - 1) = StayM \cup OldM /\ Marks(r, r) = StayM \cup NewM
      /\ Apart(Stay, StayM, Old, OldM) /\ Apart(Stay, StayM, New, NewM)
      /\ Linked(OldM, Stay \cup Old) /\ Linked(NewM, Stay \cup New)
  BY DEF Revision
<1> QED
  BY <1>1, <1>2

LEMMA SwapForms ==
  /\ \A A, M : Add(A, M) = Swap({}, A, {}, M) /\ Drop(A, M) = Swap(A, {}, M, {})
  /\ Nothing = Swap({}, {}, {}, {})
  /\ \A M : /\ [Nothing EXCEPT !.off = M] = Swap({}, {}, M, {})
            /\ [Nothing EXCEPT !.on = M] = Swap({}, {}, {}, M)
<1>1. Names({}) = {}
  BY DEF Names
<1>2. ASSUME NEW A, NEW M PROVE Add(A, M) = Swap({}, A, {}, M)
  <2>1. Add(A, M) = [Nothing EXCEPT !.add = A, !.on = M]
    BY DEF Add
  <2>2. Swap({}, A, {}, M) = [add |-> A, drop |-> {}, gone |-> {}, on |-> M, off |-> {}]
    BY <1>1 DEF Swap
  <2> QED
    BY <2>1, <2>2 DEF Nothing
<1>3. ASSUME NEW A, NEW M PROVE Drop(A, M) = Swap(A, {}, M, {})
  <2> DEFINE N == Names(A)
  <2>1. Drop(A, M) = [Nothing EXCEPT !.drop = N, !.off = M]
    BY DEF Drop
  <2>2. Swap(A, {}, M, {}) = [add |-> {}, drop |-> N, gone |-> {}, on |-> {}, off |-> M]
    BY DEF Swap
  <2> HIDE DEF N
  <2> QED
    BY <2>1, <2>2 DEF Nothing
<1>4. Nothing = Swap({}, {}, {}, {})
  BY <1>1 DEF Swap, Nothing
<1>5. ASSUME NEW M
      PROVE  /\ [Nothing EXCEPT !.off = M] = Swap({}, {}, M, {})
             /\ [Nothing EXCEPT !.on = M] = Swap({}, {}, {}, M)
  BY <1>1 DEF Swap, Nothing
<1> QED
  BY <1>2, <1>3, <1>4, <1>5

LEMMA Revision1 ==
  Revision(1, Cols(0, 1), Marks(0, 1), {}, {}, Users \cup Roles, UserMarks \cup RoleMarks)
  BY ColumnsOf, SessionColumnsOf, MarksOn, SessionMarksOn, TablesThere
  DEF Revision, Apart, Linked, Cols, Marks, Life, SameName, Has

LEMMA Revision2 ==
  Revision(2, Cols(1, 2), Marks(1, 2), {}, {},
           CompanyModel \cup ContactModel \cup ByCompany \cup Requester,
           CompanyMarks \cup ByCompanyKeys)
  BY ColumnsOf, SessionColumnsOf, MarksOn, SessionMarksOn, TablesThere
  DEF Revision, Apart, Linked, Cols, Marks, Life, SameName, Has

LEMMA Revision3 ==
  Revision(3, Cols(2, 3), Marks(2, 3), {}, {},
           RequestModel \cup VisitorCore \cup AuditCore \cup ByRequest \cup ByVisitor \cup Actor,
           RequestMarks \cup ByRequestKeys \cup ByVisitorKeys \cup OneVisitor \cup ActorKey)
  BY ColumnsOf, SessionColumnsOf, MarksOn, SessionMarksOn, TablesThere
  DEF Revision, Apart, Linked, Cols, Marks, Life, SameName, Has

LEMMA Revision4 ==
  Revision(4, Cols(3, 4), Marks(3, 4), {}, {}, CompanyUsers, CompanyUserMarks)
  BY ColumnsOf, SessionColumnsOf, MarksOn, SessionMarksOn, TablesThere
  DEF Revision, Apart, Linked, Cols, Marks, Life, SameName, Has

LEMMA Revision5 ==
  Revision(5, Cols(4, 5), Marks(4, 5), {}, {}, Address, {})
  BY ColumnsOf, SessionColumnsOf, MarksOn, SessionMarksOn, TablesThere
  DEF Revision, Apart, Linked, Cols, Marks, Life, SameName, Has

LEMMA Revision6 ==
  Revision(6, Cols(5, 6), Marks(5, 6), {}, {}, ContactUser, ContactUserMarks)
  BY ColumnsOf, SessionColumnsOf, MarksOn, SessionMarksOn, TablesThere
  DEF Revision, Apart, Linked, Cols, Marks, Life, SameName, Has

LEMMA Revision7 ==
  Revision(7, Cols(6, 7), Marks(6, 7), {}, {}, PasswordFlag, {})
  BY ColumnsOf, SessionColumnsOf, MarksOn, SessionMarksOn, TablesThere
  DEF Revision, Apart, Linked, Cols, Marks, Life, SameName, Has

LEMMA Revision8 ==
  Revision(8, Cols(7, 8), Marks(7, 8), {}, OneVisitor, {}, {})
  BY ColumnsOf, SessionColumnsOf, MarksOn, SessionMarksOn, TablesThere
  DEF Revision, Apart, Linked, Cols, Marks, Life, SameName, Has

LEMMA Revision9 ==
  Revision(9, Cols(8, 9), Marks(8, 9), {}, {}, Snapshots, SubjectIx)
  BY ColumnsOf, SessionColumnsOf, MarksOn, SessionMarksOn, TablesThere
  DEF Revision, Apart, Linked, Cols, Marks, Life, SameName, Has

LEMMA Revision10 ==
  Revision(10, Cols(9, 10), Marks(9, 10), Actor, ActorKey, {}, {})
  BY ColumnsOf, SessionColumnsOf, MarksOn, SessionMarksOn, TablesThere
  DEF Revision, Apart, Linked, Cols, Marks, Life, SameName, Has

LEMMA Revision12 ==
  Revision(12, Cols(11, 12), Marks(11, 12), {}, {}, SessionId \cup FirstEvents, FirstIx)
  BY ColumnsOf, SessionColumnsOf, MarksOn, SessionMarksOn, TablesThere
  DEF Revision, Apart, Linked, Cols, Marks, Life, SameName, Has

LEMMA Revision13 ==
  Revision(13, Cols(12, 13), Marks(12, 13), {}, {}, Username, UsernameIx)
  BY ColumnsOf, SessionColumnsOf, MarksOn, SessionMarksOn, TablesThere
  DEF Revision, Apart, Linked, Cols, Marks, Life, SameName, Has

LEMMA Revision14 ==
  Revision(14, Cols(13, 14), Marks(13, 14), Events, EventIx, Times, TimeIx)
  BY PiecesOfSessions, ColumnsOf, SessionColumnsOf, MarksOn, SessionMarksOn, TablesThere
  DEF Revision, Apart, Linked, Cols, Marks, Life, SameName, Has

LEMMA Revision15 ==
  Revision(15, Cols(14, 15), Marks(14, 15), {}, {}, {}, {})
  BY ColumnsOf, SessionColumnsOf, MarksOn, SessionMarksOn, TablesThere
  DEF Revision, Apart, Linked, Cols, Marks, Life, SameName, Has

LEMMA Revision16 ==
  Revision(16, Cols(15, 16), Marks(15, 16), {}, {}, {}, {})
  BY ColumnsOf, SessionColumnsOf, MarksOn, SessionMarksOn, TablesThere
  DEF Revision, Apart, Linked, Cols, Marks, Life, SameName, Has

LEMMA Revision17 ==
  Revision(17, Cols(16, 17), Marks(16, 17), Heartbeat, HeartbeatIx, LastActive, LastActiveIx)
  BY ColumnsOf, SessionColumnsOf, MarksOn, SessionMarksOn, TablesThere
  DEF Revision, Apart, Linked, Cols, Marks, Life, SameName, Has

LEMMA Revision18 ==
  Revision(18, Cols(17, 18), Marks(17, 18), Active17, ActiveIx, Sessions18, SessionIx)
  BY PiecesOfSessions, ColumnsOf, SessionColumnsOf, MarksOn, SessionMarksOn, TablesThere
  DEF Revision, Apart, Linked, Cols, Marks, Life, SameName, Has

LEMMA Revision19 ==
  Revision(19, Cols(18, 19), Marks(18, 19), Hidden, HiddenIx, Shown, ShownIx)
  BY ColumnsOf, SessionColumnsOf, MarksOn, SessionMarksOn, TablesThere
  DEF Revision, Apart, Linked, Cols, Marks, Life, SameName, Has

LEMMA Revision21 ==
  Revision(21, Cols(20, 21), Marks(20, 21), {}, {}, {}, {})
  BY ColumnsOf, SessionColumnsOf, MarksOn, SessionMarksOn, TablesThere
  DEF Revision, Apart, Linked, Cols, Marks, Life, SameName, Has

LEMMA Revision22 ==
  Revision(22, Cols(21, 22), Marks(21, 22), {}, {}, {}, {})
  BY ColumnsOf, SessionColumnsOf, MarksOn, SessionMarksOn, TablesThere
  DEF Revision, Apart, Linked, Cols, Marks, Life, SameName, Has

LEMMA Revision23 ==
  Revision(23, Cols(22, 23), Marks(22, 23), {}, {}, Owner, OwnerIx)
  BY ColumnsOf, SessionColumnsOf, MarksOn, SessionMarksOn, TablesThere
  DEF Revision, Apart, Linked, Cols, Marks, Life, SameName, Has

LEMMA Revision24 ==
  Revision(24, Cols(23, 24), Marks(23, 24), Requester, {}, {}, {})
  BY ColumnsOf, SessionColumnsOf, MarksOn, SessionMarksOn, TablesThere
  DEF Revision, Apart, Linked, Cols, Marks, Life, SameName, Has


(* The two revisions that give up a whole part of the application, or make *)
(* a table anew.                                                           *)
OwnUsers ==
  Users \cup PasswordFlag \cup Roles \cup ByUser \cup ContactUser \cup CompanyUsers
OwnUserMarks ==
  UserMarks \cup RoleMarks \cup ByUserKeys \cup ContactUserMarks \cup CompanyUserMarks

LEMMA Revision11 == Revision(11, Cols(10, 11), Marks(10, 11), OwnUsers, OwnUserMarks, {}, {})
  BY PiecesOfUsers, ColumnsOf, SessionColumnsOf, MarksOn, SessionMarksOn, TablesThere
  DEF Revision, Apart, Linked, Cols, Marks, Life, SameName, Has, OwnUsers, OwnUserMarks

Others ==
  CompanyModel \cup ContactModel \cup Requester \cup RequestModel \cup VisitorCore \cup AuditCore
    \cup Address \cup Snapshots
OtherMarks == CompanyMarks \cup RequestMarks \cup SubjectIx

LEMMA Revision20 == Revision(20, Others, OtherMarks, Display, DisplayIx, Display, DisplayIx)
  BY PiecesOfSessions, ColumnsOf, SessionColumnsOf, MarksOn, SessionMarksOn, TablesThere
  DEF Revision, Apart, Linked, Cols, Marks, Life, SameName, Has, Others, OtherMarks

UpLeads(r) == Leads(Ups[r], Cols(r - 1, r - 1), Marks(r - 1, r - 1), Cols(r, r), Marks(r, r))
DownLeads(r) == Leads(Downs[r], Cols(r, r), Marks(r, r), Cols(r - 1, r - 1), Marks(r - 1, r - 1))

LEMMA SwapLeads ==
  ASSUME NEW r, NEW Stay, NEW StayM, NEW Old, NEW OldM, NEW New, NEW NewM,
         Revision(r, Stay, StayM, Old, OldM, New, NewM),
         Ups[r] = Swap(Old, New, OldM, NewM), Downs[r] = Swap(New, Old, NewM, OldM)
  PROVE  UpLeads(r) /\ DownLeads(r)
  BY SwapWorks DEF UpLeads, DownLeads

(* A revision that makes the tables G, and whose way back removes them.    *)
LEMMA TablesLead ==
  ASSUME NEW r, NEW Stay, NEW StayM, NEW New, NEW NewM, NEW G, NEW off,
         Revision(r, Stay, StayM, {}, {}, New, NewM), MayGo(Stay, StayM, New, G),
         \A k \in New : k.t \in G, off \subseteq NewM, \A m \in NewM : m.t \in G,
         Ups[r] = Add(New, NewM), Downs[r] = Gone(G, off)
  PROVE  UpLeads(r) /\ DownLeads(r)
<1> DEFINE ch == Gone(G, off)
<1>1. ch.add = {} /\ ch.drop = Names({}) /\ ch.gone = G /\ ch.on = {} /\ ch.off = off
  BY DEF Gone, Nothing, Names
<1> HIDE DEF ch
<1>2. /\ Cols(r - 1, r - 1) = Stay /\ Cols(r, r) = Stay \cup New
      /\ Marks(r - 1, r - 1) = StayM /\ Marks(r, r) = StayM \cup NewM
      /\ Apart(Stay, StayM, New, NewM)
  BY DEF Revision
<1>3. Apart(Stay, StayM, ch.add, ch.on) /\ Linked(ch.on, Stay \cup ch.add)
  BY <1>1 DEF Apart, Linked
<1>4. Leads(ch, Stay \cup New, StayM \cup NewM, Stay \cup ch.add, StayM \cup ch.on)
  BY <1>1, <1>2, <1>3, Works
<1>5. DownLeads(r)
  BY <1>1, <1>2, <1>4 DEF ch, DownLeads
<1>6. UpLeads(r)
  BY SwapWorks, SwapForms DEF UpLeads
<1> QED
  BY <1>5, <1>6

LEMMA Numbered ==
  /\ Ups[1] = Up1 /\ Downs[1] = Down1
  /\ Ups[2] = Up2 /\ Downs[2] = Down2
  /\ Ups[3] = Up3 /\ Downs[3] = Down3
  /\ Ups[4] = Up4 /\ Downs[4] = Down4
  /\ Ups[5] = Up5 /\ Downs[5] = Down5
  /\ Ups[6] = Up6 /\ Downs[6] = Down6
  /\ Ups[7] = Up7 /\ Downs[7] = Down7
  /\ Ups[8] = Up8 /\ Downs[8] = Down8
  /\ Ups[9] = Up9 /\ Downs[9] = Down9
  /\ Ups[10] = Up10 /\ Downs[10] = Down10
  /\ Ups[11] = Up11 /\ Downs[11] = Down11
  /\ Ups[12] = Up12 /\ Downs[12] = Down12
  /\ Ups[13] = Up13 /\ Downs[13] = Down13
  /\ Ups[14] = Up14 /\ Downs[14] = Down14
  /\ Ups[15] = Up15 /\ Downs[15] = Down15
  /\ Ups[16] = Up16 /\ Downs[16] = Down16
  /\ Ups[17] = Up17 /\ Downs[17] = Down17
  /\ Ups[18] = Up18 /\ Downs[18] = Down18
  /\ Ups[19] = Up19 /\ Downs[19] = Down19
  /\ Ups[20] = Up20 /\ Downs[20] = Down20
  /\ Ups[21] = Up21 /\ Downs[21] = Down21
  /\ Ups[22] = Up22 /\ Downs[22] = Down22
  /\ Ups[23] = Up23 /\ Downs[23] = Down23
  /\ Ups[24] = Up24 /\ Downs[24] = Down24
  BY DEF Ups, Downs

(* The revisions that change columns, indexes and constraints, both ways.  *)
LEMMA ColumnsLead ==
  \A r \in {5, 6, 7, 8, 9, 10, 13, 14, 15, 16, 17, 18, 19, 21, 22, 23, 24} :
    UpLeads(r) /\ DownLeads(r)
<1>1. UpLeads(5) /\ DownLeads(5)
  BY Revision5, Numbered, SwapForms, SwapLeads DEF Up5, Down5
<1>2. UpLeads(6) /\ DownLeads(6)
  BY Revision6, Numbered, SwapForms, SwapLeads DEF Up6, Down6
<1>3. UpLeads(7) /\ DownLeads(7)
  BY Revision7, Numbered, SwapForms, SwapLeads DEF Up7, Down7
<1>4. UpLeads(8) /\ DownLeads(8)
  BY Revision8, Numbered, SwapForms, SwapLeads DEF Up8, Down8
<1>5. UpLeads(9) /\ DownLeads(9)
  BY Revision9, Numbered, SwapForms, SwapLeads DEF Up9, Down9, SubjectIx
<1>6. UpLeads(10) /\ DownLeads(10)
  BY Revision10, Numbered, SwapForms, SwapLeads DEF Up10, Down10
<1>7. UpLeads(13) /\ DownLeads(13)
  BY Revision13, Numbered, SwapForms, SwapLeads, PiecesOfSessions
<1>8. UpLeads(14) /\ DownLeads(14)
  BY Revision14, Numbered, SwapForms, SwapLeads DEF Up14, Down14
<1>9. UpLeads(15) /\ DownLeads(15)
  BY Revision15, Numbered, SwapForms, SwapLeads DEF Up15, Down15
<1>10. UpLeads(16) /\ DownLeads(16)
  BY Revision16, Numbered, SwapForms, SwapLeads DEF Up16, Down16
<1>11. UpLeads(17) /\ DownLeads(17)
  BY Revision17, Numbered, SwapForms, SwapLeads DEF Up17, Down17, HeartbeatIx, LastActiveIx
<1>12. UpLeads(18) /\ DownLeads(18)
  BY Revision18, Numbered, SwapForms, SwapLeads DEF Up18, Down18
<1>13. UpLeads(19) /\ DownLeads(19)
  BY Revision19, Numbered, SwapForms, SwapLeads DEF Up19, Down19, ShownIx
<1>14. UpLeads(21) /\ DownLeads(21)
  BY Revision21, Numbered, SwapForms, SwapLeads DEF Up21, Down21
<1>15. UpLeads(22) /\ DownLeads(22)
  BY Revision22, Numbered, SwapForms, SwapLeads DEF Up22, Down22
<1>16. UpLeads(23) /\ DownLeads(23)
  BY Revision23, Numbered, SwapForms, SwapLeads DEF Up23, Down23, OwnerIx
<1>17. UpLeads(24) /\ DownLeads(24)
  BY Revision24, Numbered, SwapForms, SwapLeads DEF Up24, Down24
<1> QED
  BY <1>1, <1>2, <1>3, <1>4, <1>5, <1>6, <1>7, <1>8, <1>9, <1>10, <1>11, <1>12, <1>13, <1>14, <1>15,
     <1>16, <1>17

(* The revisions that make tables.                                         *)
LEMMA MadeTablesLead ==
  \A r \in {1, 2, 3, 4, 12} : UpLeads(r) /\ DownLeads(r)
<1>1. UpLeads(1) /\ DownLeads(1)
  <2> DEFINE New == Users \cup Roles
             NewM == UserMarks \cup RoleMarks
             G == {"user_roles", "roles", "users"}
             off == Ix("users", {"email"})
  <2>1. MayGo(Cols(0, 1), Marks(0, 1), New, G)
    BY TablesThere, ColumnsOf, SessionColumnsOf, MarksOn, SessionMarksOn
    DEF MayGo, Cols, Marks, Life, Has
  <2>2. \A k \in New : k.t \in G
    BY ColumnsOf, SessionColumnsOf
  <2>3. off \subseteq NewM
    BY DEF UserMarks
  <2>4. \A m \in NewM : m.t \in G
    BY MarksOn, SessionMarksOn
  <2>5. Ups[1] = Add(New, NewM) /\ Downs[1] = Gone(G, off)
    BY Numbered DEF Up1, Down1
  <2>6. Revision(1, Cols(0, 1), Marks(0, 1), {}, {}, New, NewM)
    BY Revision1
  <2> HIDE DEF New, NewM, G, off
  <2> QED
    BY <2>1, <2>2, <2>3, <2>4, <2>5, <2>6, TablesLead
<1>2. UpLeads(2) /\ DownLeads(2)
  <2> DEFINE New == CompanyModel \cup ContactModel \cup ByCompany \cup Requester
             NewM == CompanyMarks \cup ByCompanyKeys
             G == {"contacts", "companies"}
             off == Ix("contacts", {"company_id"}) \cup Ix("companies", {"name"})
  <2>1. MayGo(Cols(1, 2), Marks(1, 2), New, G)
    BY TablesThere, ColumnsOf, SessionColumnsOf, MarksOn, SessionMarksOn
    DEF MayGo, Cols, Marks, Life, Has
  <2>2. \A k \in New : k.t \in G
    BY ColumnsOf, SessionColumnsOf
  <2>3. off \subseteq NewM
    BY DEF CompanyMarks
  <2>4. \A m \in NewM : m.t \in G
    BY MarksOn, SessionMarksOn
  <2>5. Ups[2] = Add(New, NewM) /\ Downs[2] = Gone(G, off)
    BY Numbered, Pieces2 DEF Down2
  <2>6. Revision(2, Cols(1, 2), Marks(1, 2), {}, {}, New, NewM)
    BY Revision2
  <2> HIDE DEF New, NewM, G, off
  <2> QED
    BY <2>1, <2>2, <2>3, <2>4, <2>5, <2>6, TablesLead
<1>3. UpLeads(3) /\ DownLeads(3)
  <2> DEFINE New == RequestModel \cup VisitorCore \cup AuditCore \cup ByRequest \cup ByVisitor \cup Actor
             NewM == RequestMarks \cup ByRequestKeys \cup ByVisitorKeys \cup OneVisitor \cup ActorKey
             G == {"audit_logs", "visitor_access_requests", "requests"}
             off == Ix("visitor_access_requests", {"request_id"})
                      \cup Ix("requests", {"company_id", "request_number"})
  <2>1. MayGo(Cols(2, 3), Marks(2, 3), New, G)
    BY TablesThere, ColumnsOf, SessionColumnsOf, MarksOn, SessionMarksOn
    DEF MayGo, Cols, Marks, Life, Has
  <2>2. \A k \in New : k.t \in G
    BY ColumnsOf, SessionColumnsOf
  <2>3. off \subseteq NewM
    BY DEF RequestMarks
  <2>4. \A m \in NewM : m.t \in G
    BY MarksOn, SessionMarksOn
  <2>5. Ups[3] = Add(New, NewM) /\ Downs[3] = Gone(G, off)
    BY Numbered, Pieces3 DEF Down3
  <2>6. Revision(3, Cols(2, 3), Marks(2, 3), {}, {}, New, NewM)
    BY Revision3
  <2> HIDE DEF New, NewM, G, off
  <2> QED
    BY <2>1, <2>2, <2>3, <2>4, <2>5, <2>6, TablesLead
<1>4. UpLeads(4) /\ DownLeads(4)
  <2> DEFINE New == CompanyUsers
             NewM == CompanyUserMarks
             G == {"company_users"}
             off == Ix("company_users", {"company_id", "user_id"})
  <2>1. MayGo(Cols(3, 4), Marks(3, 4), New, G)
    BY TablesThere, ColumnsOf, SessionColumnsOf, MarksOn, SessionMarksOn
    DEF MayGo, Cols, Marks, Life, Has
  <2>2. \A k \in New : k.t \in G
    BY ColumnsOf, SessionColumnsOf
  <2>3. off \subseteq NewM
    BY DEF CompanyUserMarks
  <2>4. \A m \in NewM : m.t \in G
    BY MarksOn, SessionMarksOn
  <2>5. Ups[4] = Add(New, NewM) /\ Downs[4] = Gone(G, off)
    BY Numbered DEF Up4, Down4
  <2>6. Revision(4, Cols(3, 4), Marks(3, 4), {}, {}, New, NewM)
    BY Revision4
  <2> HIDE DEF New, NewM, G, off
  <2> QED
    BY <2>1, <2>2, <2>3, <2>4, <2>5, <2>6, TablesLead
<1>5. UpLeads(12) /\ DownLeads(12)
  <2> DEFINE New == SessionId \cup FirstEvents
             NewM == FirstIx
             G == {"user_session_events"}
             off == SIx({"actor_subject", "actor_tenant_id", "created_at", "event_type"})
  <2>1. MayGo(Cols(11, 12), Marks(11, 12), New, G)
    BY TablesThere, ColumnsOf, SessionColumnsOf, MarksOn, SessionMarksOn
    DEF MayGo, Cols, Marks, Life, Has
  <2>2. \A k \in New : k.t \in G
    BY ColumnsOf, SessionColumnsOf
  <2>3. off \subseteq NewM
    BY DEF FirstIx
  <2>4. \A m \in NewM : m.t \in G
    BY MarksOn, SessionMarksOn
  <2>5. Ups[12] = Add(New, NewM) /\ Downs[12] = Gone(G, off)
    BY Numbered, PiecesOfSessions DEF Down12
  <2>6. Revision(12, Cols(11, 12), Marks(11, 12), {}, {}, New, NewM)
    BY Revision12
  <2> HIDE DEF New, NewM, G, off
  <2> QED
    BY <2>1, <2>2, <2>3, <2>4, <2>5, <2>6, TablesLead
<1> QED
  BY <1>1, <1>2, <1>3, <1>4, <1>5

(* The application's own users go with their four tables and every column  *)
(* that names one of them; the way back makes them all again.              *)
LEMMA UsersLead == UpLeads(11) /\ DownLeads(11)
<1> DEFINE D == ContactUser \cup ByUser
           G == {"company_users", "user_roles", "roles", "users"}
           off == ContactUserMarks \cup ByUserKeys \cup Ix("users", {"email"})
<1>1. /\ Up11.add = {} /\ Up11.drop = Names(D) /\ Up11.gone = G /\ Up11.on = {}
      /\ Up11.off = off
  BY DEF Up11, Drop, Nothing
<1>2. /\ Cols(10, 10) = Cols(10, 11) \cup OwnUsers /\ Cols(11, 11) = Cols(10, 11)
      /\ Marks(10, 10) = Marks(10, 11) \cup OwnUserMarks /\ Marks(11, 11) = Marks(10, 11)
      /\ Apart(Cols(10, 11), Marks(10, 11), OwnUsers, OwnUserMarks)
  BY Revision11 DEF Revision
<1>3. MayGo(Cols(10, 11), Marks(10, 11), OwnUsers, G)
  BY TablesThere, ColumnsOf, SessionColumnsOf, MarksOn, SessionMarksOn
  DEF MayGo, Cols, Marks, Life, Has, OwnUsers
<1>4. D \subseteq OwnUsers /\ \A k \in OwnUsers : k.t \in G \/ k \in D
  BY ColumnsOf DEF OwnUsers
<1>5. off \subseteq OwnUserMarks /\ \A m \in OwnUserMarks : m.t \in G \/ m \in off
  BY MarksOn DEF OwnUserMarks, UserMarks
<1>6. Apart(Cols(10, 11), Marks(10, 11), Up11.add, Up11.on)
      /\ Linked(Up11.on, Cols(10, 11) \cup Up11.add)
  BY <1>1 DEF Apart, Linked
<1>7. Leads(Up11, Cols(10, 11) \cup OwnUsers, Marks(10, 11) \cup OwnUserMarks,
            Cols(10, 11) \cup Up11.add, Marks(10, 11) \cup Up11.on)
  <2> HIDE DEF D, G, off
  <2> QED
    BY <1>1, <1>2, <1>3, <1>4, <1>5, <1>6, Works
<1>8. UpLeads(11)
  <2>1. Leads(Up11, Cols(10, 10), Marks(10, 10), Cols(11, 11), Marks(11, 11))
    <3> HIDE DEF D, G, off
    <3>1. /\ Cols(10, 11) \cup Up11.add = Cols(11, 11)
          /\ Marks(10, 11) \cup Up11.on = Marks(11, 11)
      BY <1>1, <1>2
    <3> QED
      BY <1>2, <1>7, <3>1
  <2>2. UpLeads(11) <=> Leads(Up11, Cols(10, 10), Marks(10, 10), Cols(11, 11), Marks(11, 11))
    BY Numbered DEF UpLeads
  <2> QED
    BY <2>1, <2>2
<1>9. Down11 = Swap({}, OwnUsers, {}, OwnUserMarks)
  BY SwapForms, Zenon DEF Down11, OwnUsers, OwnUserMarks
<1>10. DownLeads(11)
  BY <1>9, Revision11, Numbered, SwapWorks DEF DownLeads
<1> QED
  BY <1>8, <1>10

(* The table of the sessions is made anew, with the same columns.          *)
LEMMA SameTableLeads == UpLeads(20) /\ DownLeads(20)
<1>1. /\ Up20.add = Display /\ Up20.drop = Names({}) /\ Up20.gone = {"user_session_events"}
      /\ Up20.on = DisplayIx /\ Up20.off = {}
  BY DEF Up20, Add, Nothing, Names
<1>2. /\ Cols(19, 19) = Others \cup Display /\ Cols(20, 20) = Others \cup Display
      /\ Marks(19, 19) = OtherMarks \cup DisplayIx /\ Marks(20, 20) = OtherMarks \cup DisplayIx
      /\ Apart(Others, OtherMarks, Display, DisplayIx) /\ Linked(DisplayIx, Others \cup Display)
  BY Revision20 DEF Revision
<1>3. MayGo(Others, OtherMarks, Display, {"user_session_events"})
  BY PiecesOfSessions, TablesThere, ColumnsOf, MarksOn DEF MayGo, Has, Others, OtherMarks
<1>4. /\ \A k \in Display : k.t = "user_session_events"
      /\ \A m \in DisplayIx : m.t = "user_session_events"
  BY PiecesOfSessions, SessionColumnsOf, SessionMarksOn
<1>5. Leads(Up20, Others \cup Display, OtherMarks \cup DisplayIx,
            Others \cup Display, OtherMarks \cup DisplayIx)
  <2>1. Leads(Up20, Others \cup Display, OtherMarks \cup DisplayIx,
              Others \cup Up20.add, OtherMarks \cup Up20.on)
    BY <1>1, <1>2, <1>3, <1>4, Works
  <2> QED
    BY <1>1, <2>1
<1>6. Down20 = Up20
  BY DEF Down20, Up20
<1>7. /\ UpLeads(20) <=> Leads(Up20, Cols(19, 19), Marks(19, 19), Cols(20, 20), Marks(20, 20))
      /\ DownLeads(20) <=> Leads(Down20, Cols(20, 20), Marks(20, 20), Cols(19, 19), Marks(19, 19))
  BY Numbered DEF UpLeads, DownLeads
<1> QED
  BY <1>2, <1>5, <1>6, <1>7

(* Every upgrade leads to the schema of its revision, every downgrade back.*)
LEMMA AllLead == \A r \in 1..Newest : UpLeads(r) /\ DownLeads(r)
<1>1. \A r \in 1..24 : \/ r \in {5, 6, 7, 8, 9, 10, 13, 14, 15, 16, 17, 18, 19, 21, 22, 23, 24}
                       \/ r \in {1, 2, 3, 4, 12} \/ r = 11 \/ r = 20
  OBVIOUS
<1> QED
  BY <1>1, ColumnsLead, MadeTablesLead, UsersLead, SameTableLeads, RevisionCount

Formed == [r \in 0..Newest |-> [Empty EXCEPT !.rev = r, !.cols = Cols(r, r), !.marks = Marks(r, r)]]

(* The schema of each revision, which upgrades alone lead to.              *)
LEMMA FormedIs ==
  Formed = [r \in 0..Newest |->
              IF r = 0 THEN Empty ELSE [Applied(Formed[r - 1], Ups[r]) EXCEPT !.rev = r]]
<1>1. ASSUME NEW r \in 0..Newest
      PROVE  Formed[r] = IF r = 0 THEN Empty
                         ELSE [Applied(Formed[r - 1], Ups[r]) EXCEPT !.rev = r]
  <2>1. CASE r = 0
    <3>1. Cols(0, 0) = {} /\ Marks(0, 0) = {}
      BY DEF Cols, Marks, Life
    <3>2. Formed[0] = [Empty EXCEPT !.rev = 0, !.cols = Cols(0, 0), !.marks = Marks(0, 0)]
      BY RevisionCount DEF Formed
    <3>3. Formed[0] = [Empty EXCEPT !.rev = 0, !.cols = {}, !.marks = {}]
      BY <3>1, <3>2, Zenon
    <3>4. Formed[0] = Empty
      BY <3>3 DEF Empty
    <3> QED
      BY <2>1, <3>4
  <2>2. CASE r # 0
    <3> DEFINE f == Formed[r - 1]
    <3>1. r - 1 \in 0..Newest /\ r \in 1..Newest
      BY <2>2, RevisionCount
    <3>2. f = [Empty EXCEPT !.rev = r - 1, !.cols = Cols(r - 1, r - 1), !.marks = Marks(r - 1, r - 1)]
      BY <3>1 DEF Formed
    <3>3. f.cols = Cols(r - 1, r - 1) /\ f.marks = Marks(r - 1, r - 1)
      BY <3>2 DEF Empty
    <3>4. /\ Kept(f, Ups[r]) \cup Ups[r].add = Cols(r, r)
          /\ KeptMarks(f, Ups[r]) \cup Ups[r].on = Marks(r, r)
      BY <3>1, <3>3, AllLead DEF UpLeads, Leads
    <3>5. Applied(f, Ups[r]) = [f EXCEPT !.cols = Cols(r, r), !.marks = Marks(r, r)]
      BY <3>4 DEF Applied
    <3>6. [Applied(f, Ups[r]) EXCEPT !.rev = r] =
            [Empty EXCEPT !.rev = r, !.cols = Cols(r, r), !.marks = Marks(r, r)]
      BY <3>2, <3>5 DEF Empty
    <3> QED
      BY <2>2, <3>6 DEF Formed
  <2> QED
    BY <2>1, <2>2
<1>2. Formed = [r \in 0..Newest |-> Formed[r]]
  BY DEF Formed
<1> QED
  BY <1>1, <1>2

LEMMA ChainIs == \A r \in 0..Newest : SchemaAt[r] = Formed[r]
<1> DEFINE Solves(f) == f = [r \in 0..Newest |->
              IF r = 0 THEN Empty ELSE [Applied(f[r - 1], Ups[r]) EXCEPT !.rev = r]]
<1>1. Solves(Formed)
  BY FormedIs
<1>2. Solves(SchemaAt)
  <2>1. SchemaAt = CHOOSE f : Solves(f)
    BY DEF SchemaAt
  <2> HIDE DEF Solves
  <2> QED
    BY <1>1, <2>1
<1> DEFINE Differ == {r \in 0..Newest : SchemaAt[r] # Formed[r]}
<1>3. ASSUME NEW r \in Differ, \A q \in Differ : ~(q < r)
      PROVE  FALSE
  <2>1. r # 0
    BY <1>1, <1>2
  <2>2. r - 1 \in 0..Newest /\ r - 1 < r
    BY <2>1, RevisionCount
  <2>3. SchemaAt[r - 1] = Formed[r - 1]
    BY <1>3, <2>2
  <2>4. SchemaAt[r] = [Applied(SchemaAt[r - 1], Ups[r]) EXCEPT !.rev = r]
    BY <1>2, <2>1
  <2>5. Formed[r] = [Applied(Formed[r - 1], Ups[r]) EXCEPT !.rev = r]
    BY <1>1, <2>1
  <2> QED
    BY <2>3, <2>4, <2>5
<1>4. Differ # {} => \E r \in Differ : \A q \in Differ : ~(q < r)
  <2>1. Differ \subseteq Nat
    BY RevisionCount
  <2> HIDE DEF Differ
  <2>2. SUFFICES ASSUME Differ # {}
                 PROVE  \E r \in Differ : \A q \in Differ : ~(q < r)
    OBVIOUS
  <2>3. PICK r \in Differ : \A q \in Differ : ~(<<q, r>> \in OpToRel(<, Nat))
    BY <2>1, <2>2, NatLessThanWellFounded, WFMin
  <2>4. \A q \in Differ : <<q, r>> \in OpToRel(<, Nat) <=> q < r
    BY <2>1 DEF OpToRel
  <2> QED
    BY <2>3, <2>4
<1> QED
  BY <1>3, <1>4

LEMMA ChainFields ==
  \A r \in 0..Newest : Chain[r].cols = Cols(r, r) /\ Chain[r].marks = Marks(r, r)
  BY ChainIs DEF Chain, Formed, Empty

-----------------------------------------------------------------------------
(* A database at a revision has the schema of that revision.               *)
Follows(d) == d.cols = Cols(d.rev, d.rev) /\ d.marks = Marks(d.rev, d.rev)

SchemaFollows == Follows(db) /\ (run # Null => Follows(run.saved)) /\ trouble # "schema"

LEMMA InitFollows == Init => SchemaFollows
<1>1. Cols(0, 0) = {} /\ Marks(0, 0) = {}
  BY DEF Cols, Marks, Life
<1>2. Empty.rev = 0 /\ Empty.cols = {} /\ Empty.marks = {}
  BY DEF Empty
<1> QED
  BY <1>1, <1>2 DEF Init, SchemaFollows, Follows

(* What the data become leaves the schema alone.                           *)
LEMMA DataLeavesSchema ==
  ASSUME NEW d, IsDb(d), NEW r \in 1..Newest
  PROVE  /\ UpData(d, r).cols = d.cols /\ UpData(d, r).marks = d.marks
         /\ DownData(d, r).cols = d.cols /\ DownData(d, r).marks = d.marks
<1>1. r \in Int
  BY RevisionCount
<1>2. UpData(d, r).cols = d.cols /\ UpData(d, r).marks = d.marks
  <2> DEFINE A == Merge(d.rows)
             B == Reworded(d.rows, Readable)
             C == Disowned(d.rows)
             N == FirstNumber(d.requests)
  <2>1. UpData(d, r) = CASE r = 15 -> [d EXCEPT !.rows = A]
                         [] r = 18 -> [d EXCEPT !.rows = {}]
                         [] r = 21 -> [d EXCEPT !.rows = B]
                         [] r = 22 -> [d EXCEPT !.next = N]
                         [] r = 23 -> [d EXCEPT !.rows = C]
                         [] OTHER -> d
    BY DEF UpData, Unowned
  <2> HIDE DEF A, B, C, N
  <2> QED
    BY <1>1, <2>1 DEF IsDb
<1>3. DownData(d, r).cols = d.cols /\ DownData(d, r).marks = d.marks
  <2> DEFINE A == Split(d.rows)
             B == Reworded(d.rows, Former)
             C == Disowned(d.rows)
  <2>1. DownData(d, r) = CASE r = 3 -> [d EXCEPT !.requests = {}]
                           [] r = 12 -> [d EXCEPT !.rows = {}]
                           [] r = 14 -> [d EXCEPT !.rows = A]
                           [] r = 18 -> [d EXCEPT !.rows = {}]
                           [] r = 21 -> [d EXCEPT !.rows = B]
                           [] r = 22 -> [d EXCEPT !.next = Null]
                           [] r = 23 -> [d EXCEPT !.rows = C]
                           [] OTHER -> d
    BY DEF DownData
  <2> HIDE DEF A, B, C
  <2> QED
    BY <1>1, <2>1 DEF IsDb
<1> QED
  BY <1>2, <1>3

LEMMA SteppedSchema ==
  ASSUME NEW d, IsDb(d), NEW ch, NEW r
  PROVE  /\ Stepped(d, ch, r).cols = Kept(d, ch) \cup ch.add
         /\ Stepped(d, ch, r).marks = KeptMarks(d, ch) \cup ch.on
<1> DEFINE C == Kept(d, ch) \cup ch.add
           M == KeptMarks(d, ch) \cup ch.on
<1>1. Stepped(d, ch, r) = [[d EXCEPT !.cols = C, !.marks = M] EXCEPT !.rev = r]
  BY DEF Stepped, Applied
<1> HIDE DEF C, M
<1>2. Stepped(d, ch, r).cols = C /\ Stepped(d, ch, r).marks = M
  BY <1>1 DEF IsDb
<1> QED
  BY <1>2 DEF C, M

(* Every revision applies to a database that has the schema of the one     *)
(* before, and leads to its own; so does the way back.                     *)
LEMMA StepFollows ==
  ASSUME NEW d, IsDb(d), Follows(d), d.rev \in 0..Newest
  PROVE  /\ d.rev < Newest =>
              LET r == d.rev + 1 IN
              Applicable(d, Ups[r]) /\ Follows(Stepped(UpData(d, r), Ups[r], r))
         /\ d.rev > 0 =>
              LET r == d.rev IN
              Applicable(d, Downs[r]) /\ Follows(Stepped(DownData(d, r), Downs[r], r - 1))
<1>1. ASSUME d.rev < Newest
      PROVE  LET r == d.rev + 1
             IN  Applicable(d, Ups[r]) /\ Follows(Stepped(UpData(d, r), Ups[r], r))
  <2> DEFINE r == d.rev + 1
             x == UpData(d, r)
  <2>1. r \in 1..Newest /\ d.rev = r - 1
    BY <1>1, RevisionCount
  <2>2. x.cols = d.cols /\ x.marks = d.marks /\ IsDb(x)
    BY <2>1, DataLeavesSchema, UpDataIs
  <2> HIDE DEF x, r
  <2>3. Leads(Ups[r], d.cols, d.marks, Cols(r, r), Marks(r, r))
    BY <2>1, AllLead DEF UpLeads, Follows
  <2>4. Applicable(d, Ups[r])
    BY <2>3 DEF Leads
  <2>5. /\ Kept(x, Ups[r]) \cup Ups[r].add = Cols(r, r)
        /\ KeptMarks(x, Ups[r]) \cup Ups[r].on = Marks(r, r)
    BY <2>2, <2>3 DEF Leads
  <2>6. Follows(Stepped(x, Ups[r], r))
    <3> DEFINE y == Stepped(x, Ups[r], r)
    <3>1. y.rev = r
      BY <2>2, SteppedIs
    <3>2. y.cols = Cols(r, r) /\ y.marks = Marks(r, r)
      BY <2>2, <2>5, SteppedSchema
    <3> QED
      BY <3>1, <3>2 DEF Follows
  <2> QED
    BY <2>4, <2>6 DEF x, r
<1>2. ASSUME d.rev > 0
      PROVE  LET r == d.rev
             IN  Applicable(d, Downs[r]) /\ Follows(Stepped(DownData(d, r), Downs[r], r - 1))
  <2> DEFINE r == d.rev
             x == DownData(d, r)
  <2>1. r \in 1..Newest
    BY <1>2, RevisionCount
  <2>2. x.cols = d.cols /\ x.marks = d.marks /\ IsDb(x)
    BY <2>1, DataLeavesSchema, DownDataIs
  <2>3. d.cols = Cols(r, r) /\ d.marks = Marks(r, r)
    BY DEF Follows
  <2> HIDE DEF x, r
  <2>4. Leads(Downs[r], d.cols, d.marks, Cols(r - 1, r - 1), Marks(r - 1, r - 1))
    BY <2>1, <2>3, AllLead DEF DownLeads
  <2>5. Applicable(d, Downs[r])
    BY <2>4 DEF Leads
  <2>6. /\ Kept(x, Downs[r]) \cup Downs[r].add = Cols(r - 1, r - 1)
        /\ KeptMarks(x, Downs[r]) \cup Downs[r].on = Marks(r - 1, r - 1)
    BY <2>2, <2>4 DEF Leads
  <2>7. Follows(Stepped(x, Downs[r], r - 1))
    <3> DEFINE y == Stepped(x, Downs[r], r - 1)
    <3>1. y.rev = r - 1
      BY <2>2, SteppedIs
    <3>2. y.cols = Cols(r - 1, r - 1) /\ y.marks = Marks(r - 1, r - 1)
      BY <2>2, <2>6, SteppedSchema
    <3> QED
      BY <3>1, <3>2 DEF Follows
  <2> QED
    BY <2>5, <2>7 DEF x, r
<1> QED
  BY <1>1, <1>2

LEMMA FollowsKept == SchemaInv /\ SchemaFollows /\ [Next]_vars => SchemaFollows'
<1> SUFFICES ASSUME SchemaInv, SchemaFollows, [Next]_vars PROVE SchemaFollows'
  OBVIOUS
<1>a. IsDb(db) /\ db.rev \in 0..Newest /\ Follows(db) /\ trouble # "schema"
  BY PartsOfFit DEF SchemaInv, Shaped, SchemaFollows
<1>1. CASE \E target \in Targets : StartRun(target)
  <2>1. PICK target \in Targets : StartRun(target)
    BY <1>1
  <2>2. run' = [target |-> target, saved |-> db] /\ db' = db /\ trouble' = ""
    BY <2>1 DEF StartRun
  <2>3. run'.saved = db /\ db' = db /\ trouble' = ""
    BY <2>2
  <2> QED
    BY <1>a, <2>3 DEF SchemaFollows, Follows
<1>2. CASE Upgrade
  <2> DEFINE r == db.rev + 1
  <2>1. run # Null /\ db.rev < run.target /\ run.target \in 0..Newest
    BY <1>2 DEF Upgrade, SchemaInv, ChainOK
  <2>2. db.rev < Newest
    BY <1>a, <2>1, RevisionCount
  <2>3. Applicable(db, Ups[r]) /\ Follows(Stepped(UpData(db, r), Ups[r], r))
    BY <1>a, <2>2, StepFollows
  <2>4. db' = Stepped(UpData(db, r), Ups[r], r) /\ run' = run /\ trouble' = trouble
    BY <1>2, <2>3 DEF Upgrade, Stepped
  <2> HIDE DEF r
  <2> QED
    BY <1>a, <2>3, <2>4 DEF SchemaFollows, Follows
<1>3. CASE Downgrade
  <2> DEFINE r == db.rev
  <2>1. run # Null /\ db.rev > run.target /\ run.target \in 0..Newest
    BY <1>3 DEF Downgrade, SchemaInv, ChainOK
  <2>2. db.rev > 0
    BY <1>a, <2>1, RevisionCount
  <2>3. Applicable(db, Downs[r]) /\ Follows(Stepped(DownData(db, r), Downs[r], r - 1))
    BY <1>a, <2>2, StepFollows
  <2>4. CASE ~Fits(db, r)
    <3>1. db' = run.saved /\ run' = Null /\ trouble' = "data"
      BY <1>3, <2>3, <2>4 DEF Downgrade, Undo
    <3> QED
      BY <2>1, <3>1 DEF SchemaFollows, Follows
  <2>5. CASE Fits(db, r)
    <3>1. db' = Stepped(DownData(db, r), Downs[r], r - 1) /\ run' = run /\ trouble' = trouble
      BY <1>3, <2>3, <2>5 DEF Downgrade, Stepped
    <3> HIDE DEF r
    <3> QED
      BY <1>a, <2>3, <3>1 DEF SchemaFollows, Follows
  <2> QED
    BY <2>4, <2>5
<1>4. CASE CommitRun \/ Restart \/ UNCHANGED vars
  BY <1>4 DEF CommitRun, Restart, vars, SchemaFollows, Follows
<1>5. CASE LoseRun
  BY <1>5 DEF LoseRun, Undo, SchemaFollows, Follows
<1>6. ASSUME run' = run, run = Null, trouble' = trouble, IsDb(db'),
             db'.rev = db.rev, db'.cols = db.cols, db'.marks = db.marks
      PROVE  SchemaFollows'
  BY <1>6 DEF SchemaFollows, Follows
<1>7. CASE \E visitors \in {1, 2} : Submit(visitors)
  <2>1. PICK q, n : db' = [db EXCEPT !.requests = q, !.next = n]
    BY <1>7 DEF Submit
  <2>2. run' = run /\ run = Null /\ trouble' = trouble
    BY <1>7 DEF Submit, Writes
  <2> QED
    BY <1>6, <1>a, <2>1, <2>2 DEF IsDb
<1>8. ASSUME NEW e, WriteRow(e) PROVE SchemaFollows'
  <2>1. db' = [db EXCEPT !.rows = db.rows \cup {e}]
    BY <1>8 DEF WriteRow
  <2>2. run' = run /\ run = Null /\ trouble' = trouble
    BY <1>8 DEF WriteRow, Writes
  <2> QED
    BY <1>6, <1>a, <2>1, <2>2 DEF IsDb
<1>9. CASE \E u \in User, t \in Time : Event(u, t) \/ OpenSession(u, t)
  BY <1>8, <1>9 DEF Event, OpenSession
<1>10. CASE \E e \in db.rows : EndSession(e)
  <2>1. PICK rows : db' = [db EXCEPT !.rows = rows]
    BY <1>10 DEF EndSession
  <2>2. run' = run /\ run = Null /\ trouble' = trouble
    BY <1>10 DEF EndSession, Writes
  <2> QED
    BY <1>6, <1>a, <2>1, <2>2 DEF IsDb
<1> QED
  BY <1>1, <1>2, <1>3, <1>4, <1>5, <1>7, <1>9, <1>10 DEF Next

(* Every chain of upgrades and downgrades, to whatever revisions, applies  *)
(* to the last step; the schema is always the one its revision has after   *)
(* upgrades alone, and at the head it is the one the ORM models declare.   *)
THEOREM SchemaFollowed == Spec => []SchemaSound
<1>1. SchemaInv /\ SchemaFollows => SchemaSound
  <2> SUFFICES ASSUME SchemaInv, SchemaFollows PROVE SchemaSound
    OBVIOUS
  <2>1. db.rev \in 0..Newest
    BY DEF SchemaInv, Shaped
  <2>2. SchemaFollowsRevision
    BY <2>1, ChainFields DEF SchemaFollows, Follows, SchemaFollowsRevision
  <2>3. HeadServesModels
    BY PiecesOfModels, RevisionCount DEF SchemaFollows, Follows, HeadServesModels
  <2> QED
    BY <2>2, <2>3 DEF SchemaSound, ChainApplies, SchemaFollows
<1> QED
  BY <1>1, InitFollows, FollowsKept, SchemaHolds, PTL DEF Spec
=============================================================================
