-------------------------- MODULE WorkerLifecycle --------------------------
(***************************************************************************)
(* How the back-end process starts and stops its two daemon threads        *)
(* (main.py 47-56): the session-timeout worker (session_events/service.py  *)
(* 152-187) and the visit-expiry worker (requests/expiry.py 62-87).  Each  *)
(* has a stop event and a handle; stopping joins the thread for five       *)
(* seconds at most, so a thread busy with a slow sweep outlives the stop.  *)
(***************************************************************************)
EXTENDS Integers, FiniteSets

CONSTANT MaxStarts    \* bound: threads one process starts for each worker

ASSUME MaxStartsAssumption == MaxStarts \in Nat

Kind == {"session", "visit"}
WorkerThread == 1..MaxStarts

VARIABLES main,       \* what the process's main thread is doing
          stop,       \* the stop event of each worker
          worker,     \* the handle of each worker, 0 for None
          loop        \* where the threads of each worker are

workerVars == <<main, stop, worker, loop>>

Main == {"down", "start_session", "start_visit", "up", "failed",
         "stop_session", "join_session", "stop_visit", "join_visit"}
Loop == {"unstarted", "checking", "sweeping", "waiting", "exited"}

WorkerTypeOK ==
  /\ main \in Main
  /\ stop \in [Kind -> BOOLEAN]
  /\ worker \in [Kind -> WorkerThread \cup {0}]
  /\ loop \in [Kind -> [WorkerThread -> Loop]]

WorkerInit ==
  /\ main = "down"
  /\ stop = [k \in Kind |-> FALSE]
  /\ worker = [k \in Kind |-> 0]
  /\ loop = [k \in Kind |-> [t \in WorkerThread |-> "unstarted"]]

Live(k) == {t \in WorkerThread : loop[k][t] \notin {"unstarted", "exited"}}
IsAlive(k) == worker[k] \in Live(k)

-----------------------------------------------------------------------------
(* The main thread.                                                        *)

Startup ==
  /\ main \in {"down", "failed"}
  /\ main' = "start_session"
  /\ UNCHANGED <<stop, worker, loop>>

(* A new thread: its loop begins at `first`.                               *)
Launch(k, first) ==
  \E t \in WorkerThread :
    /\ loop[k][t] = "unstarted" /\ \A u \in 1..(t - 1) : loop[k][u] # "unstarted"
    /\ stop' = [stop EXCEPT ![k] = FALSE]
    /\ worker' = [worker EXCEPT ![k] = t]
    /\ loop' = [loop EXCEPT ![k][t] = first]

(* Mutant: like the visit worker, a stop signal still pending is ignored.  *)
StartSessionHeedless ==
  /\ main = "start_session" /\ main' = "start_visit"
  /\ \/ IsAlive("session") /\ UNCHANGED <<stop, worker, loop>>
     \/ ~IsAlive("session") /\ Launch("session", "waiting")

(* A predecessor that is still stopping makes the startup fail.            *)
StartSession ==
  /\ main = "start_session"
  /\ \/ /\ IsAlive("session")
        /\ main' = IF stop["session"] THEN "failed" ELSE "start_visit"
        /\ UNCHANGED <<stop, worker, loop>>
     \/ /\ ~IsAlive("session")
        /\ Launch("session", "waiting")
        /\ main' = "start_visit"

StartVisit ==
  /\ main = "start_visit" /\ main' = "up"
  /\ \/ IsAlive("visit") /\ UNCHANGED <<stop, worker, loop>>
     \/ ~IsAlive("visit") /\ Launch("visit", "checking")

Shutdown ==
  /\ main = "up" /\ main' = "stop_session"
  /\ UNCHANGED <<stop, worker, loop>>

StopSession ==
  /\ main = "stop_session" /\ main' = "join_session"
  /\ stop' = [stop EXCEPT !["session"] = TRUE]
  /\ UNCHANGED <<worker, loop>>

(* A thread that waits or checks its event exits at once; the join of one  *)
(* busy in the database gives up after five seconds.                       *)
JoinReturns(k) == IsAlive(k) => loop[k][worker[k]] = "sweeping"

(* Mutant: the handle is dropped even when the join gave up.               *)
JoinSessionForgetful ==
  /\ main = "join_session" /\ main' = "stop_visit"
  /\ JoinReturns("session")
  /\ worker' = [worker EXCEPT !["session"] = 0]
  /\ UNCHANGED <<stop, loop>>

JoinSession ==
  /\ main = "join_session" /\ main' = "stop_visit"
  /\ JoinReturns("session")
  /\ worker' = [worker EXCEPT !["session"] = IF IsAlive("session") THEN @ ELSE 0]
  /\ UNCHANGED <<stop, loop>>

StopVisit ==
  /\ main = "stop_visit" /\ main' = "join_visit"
  /\ stop' = [stop EXCEPT !["visit"] = TRUE]
  /\ UNCHANGED <<worker, loop>>

JoinVisit ==
  /\ main = "join_visit" /\ main' = "down"
  /\ JoinReturns("visit")
  /\ UNCHANGED <<stop, worker, loop>>

(* The process ends, orderly or killed, and its daemon threads with it.    *)
NewProcess ==
  /\ main' = "down"
  /\ stop' = [k \in Kind |-> FALSE]
  /\ worker' = [k \in Kind |-> 0]
  /\ loop' = [k \in Kind |-> [t \in WorkerThread |-> "unstarted"]]

-----------------------------------------------------------------------------
(* The threads.  The session worker waits before every sweep, the visit    *)
(* worker after it; a failed sweep is rolled back and the loop goes on.    *)

Move(k, t, from, to) ==
  /\ loop[k][t] = from
  /\ loop' = [loop EXCEPT ![k][t] = to]
  /\ UNCHANGED <<main, stop, worker>>

EndSweep(k, t) == Move(k, t, "sweeping", "waiting")
EndWait(k, t) ==
  Move(k, t, "waiting", IF stop[k] THEN "exited"
                        ELSE IF k = "session" THEN "sweeping" ELSE "checking")
Check(t) == Move("visit", t, "checking", IF stop["visit"] THEN "exited" ELSE "sweeping")

WorkerNext ==
  \/ Startup \/ StartSession \/ StartVisit
  \/ Shutdown \/ StopSession \/ JoinSession \/ StopVisit \/ JoinVisit \/ NewProcess
  \/ \E k \in Kind, t \in WorkerThread : EndSweep(k, t) \/ EndWait(k, t)
  \/ \E t \in WorkerThread : Check(t)

WorkerSpec == WorkerInit /\ [][WorkerNext]_workerVars

-----------------------------------------------------------------------------
(* session_events/service.py:183: a start after a stop that gave up waiting *)
(* "cannot create an overlapping worker"; nor does the visit worker's.     *)
OneWorkerEach == \A k \in Kind : Cardinality(Live(k)) <= 1

(* A process that has come up keeps its session-timeout worker until it is *)
(* told to stop: the signal of an earlier stop cannot end it.              *)
SessionWorkerWhileUp ==
  main \in {"start_visit", "up"} => IsAlive("session") /\ ~stop["session"]

=============================================================================
