------------------------------ MODULE Shutdown ------------------------------
(***************************************************************************)
(* How the text client starts and stops: the main thread and a pool run    *)
(* the io_service, whichever of them gets the signal turns logging to      *)
(* synchronous mode, stops the io_service and joins the pool.  Thread 0 is *)
(* the main thread, and the pool is numbered as in threads_.               *)
(***************************************************************************)
EXTENDS Integers, Sequences, FiniteSets

CONSTANTS PoolSize,           \* the size of the pool, 4 in the code
          MaxLogged           \* bound: the number of messages logged

ASSUME ShutdownAssumption == PoolSize \in Nat

VARIABLES
  at,                         \* per thread, where it is
  threads_,                   \* the threads of the pool that were started
  joined,                     \* those that were joined
  signal,                     \* "none", "awaited", "raised" or "handled"
  handler,                    \* the threads that got the signal
  outcome,                    \* "running", "clean" or "terminated"
  (* The variables of Logger. *)
  strand_, stream_function_, call, queue, stopped, undefined,
  logged, written, silent

Main == 0
Pool == 1 .. PoolSize
AllThreads == {Main} \union Pool

(* module_logger(); its threshold is the lowest one. *)
Log == INSTANCE Logger
         WITH Threads <- AllThreads, threshold_level_ <- 0,
              Streams <- {"no stream", "client.log"}, Thresholds <- {0}

logVars == <<strand_, stream_function_, call, queue, stopped, undefined,
             logged, written, silent>>
appVars == <<at, threads_, joined, signal, handler, outcome>>
shutdownVars == <<appVars, logVars>>

ShutdownInit ==
  /\ at = [t \in AllThreads |-> IF t = Main THEN "run" ELSE "unborn"]
  /\ threads_ = {} /\ joined = {}
  /\ signal = "none" /\ handler = {}
  /\ outcome = "running"
  /\ Log!Init

Is(t, place) == at[t] = place /\ Log!At(t, "idle") /\ outcome = "running"
Go(t, place) == at' = [at EXCEPT ![t] = place]

-----------------------------------------------------------------------------
(* run() *)

StartUp ==
  /\ Is(Main, "run")
  /\ signal' = "awaited"
  /\ Log!SetAsyncMode
  /\ Go(Main, "spawn")
  /\ UNCHANGED <<threads_, joined, handler, outcome>>

(* One more thread of the pool, or, when it is complete, loop(). *)
Spawn ==
  /\ Is(Main, "spawn")
  /\ LET new == Cardinality(threads_) + 1 IN
     \/ /\ new \in Pool
        /\ threads_' = threads_ \union {new}
        /\ Go(new, "loop")
     \/ new \notin Pool /\ Go(Main, "loop") /\ UNCHANGED threads_
  /\ UNCHANGED <<joined, signal, handler, outcome, logVars>>

-----------------------------------------------------------------------------
(* loop(), and what the io_service gives a thread to do.                   *)

(* A handler of the application, which logs at least once; a further       *)
(* message may come after the io_service was stopped.                      *)
Handler(t) ==
  /\ \/ Is(t, "loop") /\ ~stopped
     \/ Is(t, "handler")
  /\ Go(t, "handler")
  /\ Log!Log(t, Log!Level.trace)
  /\ UNCHANGED <<threads_, joined, signal, handler, outcome>>

HandlerEnds(t) ==
  /\ Is(t, "handler")
  /\ Go(t, "loop")
  /\ UNCHANGED <<threads_, joined, signal, handler, outcome, logVars>>

RunQueued(t) == Is(t, "loop") /\ Log!RunQueued(t) /\ UNCHANGED appVars

Logging(t) ==
  /\ outcome = "running"
  /\ Log!Dispatch(t) \/ Log!Post(t) \/ Log!WriteEnds(t)
  /\ UNCHANGED appVars

(* run() returns when the io_service is stopped, and loop() with it.       *)
LoopEnds(t) ==
  /\ Is(t, "loop") /\ stopped
  /\ Go(t, "done")
  /\ UNCHANGED <<threads_, joined, signal, handler, outcome, logVars>>

-----------------------------------------------------------------------------
(* The signal.                                                             *)

Raise ==
  /\ signal = "awaited" /\ outcome = "running"
  /\ signal' = "raised"
  /\ UNCHANGED <<at, threads_, joined, handler, outcome, logVars>>

(* asio_callback_signal begins; its own message is one of the others. *)
Signalled(t) ==
  /\ Is(t, "loop") /\ ~stopped
  /\ signal = "raised"
  /\ signal' = "handled"
  /\ handler' = {t}
  /\ Go(t, "sync")
  /\ UNCHANGED <<threads_, joined, outcome, logVars>>

SetSyncMode(t) ==
  /\ Is(t, "sync")
  /\ \/ Log!DeleteStrand /\ UNCHANGED at
     \/ Log!ResetStrand /\ Go(t, "stop")
  /\ UNCHANGED <<threads_, joined, signal, handler, outcome>>

(* Mutant: the io_service is not stopped. *)
StopForgotten(t) ==
  /\ Is(t, "stop")
  /\ Go(t, "join")
  /\ UNCHANGED <<threads_, joined, signal, handler, outcome, logVars>>

StopService(t) ==
  /\ Is(t, "stop")
  /\ Log!Stop
  /\ Go(t, "join")
  /\ UNCHANGED <<threads_, joined, signal, handler, outcome>>

(* Mutant: one thread is joined. *)
JoinOnce(t) ==
  /\ Is(t, "join")
  /\ joined = {}
  /\ at[1] = "done"
  /\ joined' = {1}
  /\ Go(t, "loop")
  /\ UNCHANGED <<threads_, signal, handler, outcome, logVars>>

(* The threads are joined in their order. A thread that joins itself gets  *)
(* a system_error, which ends the handler and is logged by loop().         *)
Join(t) ==
  /\ Is(t, "join")
  /\ \/ \E k \in threads_ \ joined :
          /\ \A j \in threads_ \ joined : k <= j
          /\ \/ /\ k # t /\ at[k] = "done"
                /\ joined' = joined \union {k}
                /\ UNCHANGED <<at, threads_>>
             \/ k = t /\ Go(t, "handler") /\ UNCHANGED <<threads_, joined>>
     \/ /\ threads_ = joined
        /\ threads_' = {} /\ joined' = {}
        /\ Go(t, "loop")
  /\ UNCHANGED <<signal, handler, outcome, logVars>>

-----------------------------------------------------------------------------

(* The constructor is done and main() destroys the application, with       *)
(* threads_: std::thread terminates the program unless it was joined.      *)
Finish ==
  /\ Is(Main, "done")
  /\ outcome' = IF threads_ = joined THEN "clean" ELSE "terminated"
  /\ UNCHANGED <<at, threads_, joined, signal, handler, logVars>>

Signal(t) == Signalled(t) \/ SetSyncMode(t) \/ StopService(t) \/ Join(t)
Application(t) == Handler(t) \/ HandlerEnds(t) \/ LoopEnds(t)
ShutdownNext ==
  \/ StartUp \/ Spawn \/ Raise \/ Finish
  \/ \E t \in AllThreads : Application(t) \/ RunQueued(t) \/ Logging(t) \/ Signal(t)

ShutdownSpec == ShutdownInit /\ [][ShutdownNext]_shutdownVars

(* Threads go on, and a signal that is waited for is delivered. *)
ShutdownFairness ==
  /\ WF_shutdownVars(StartUp) /\ WF_shutdownVars(Spawn)
  /\ WF_shutdownVars(Finish)
  /\ WF_shutdownVars(\E t \in AllThreads : Signalled(t))
  /\ \A t \in AllThreads :
       /\ WF_shutdownVars(Logging(t))
       /\ WF_shutdownVars(HandlerEnds(t)) /\ WF_shutdownVars(LoopEnds(t))
       /\ WF_shutdownVars(SetSyncMode(t) \/ StopService(t) \/ Join(t))
  /\ WF_shutdownVars(\E t \in AllThreads : RunQueued(t))

ShutdownFairSpec == ShutdownSpec /\ ShutdownFairness

-----------------------------------------------------------------------------
(* Properties.                                                             *)

Places == {"unborn", "run", "spawn", "loop", "handler", "sync", "stop",
           "join", "done"}

(* The variables of the application are of these types. *)
ShutdownTypeOK ==
  /\ at \in [AllThreads -> Places]
  /\ threads_ \subseteq Pool /\ joined \subseteq threads_
  /\ signal \in {"none", "awaited", "raised", "handled"}
  /\ Cardinality(handler) <= 1
  /\ outcome \in {"running", "clean", "terminated"}

Working == {t \in AllThreads : at[t] \in {"loop", "handler"}}

(* Until the signal is handled logging is asynchronous while more than one *)
(* thread works, as logger.hpp:42 demands; from then on it is not, but     *)
(* unless a call used the strand that was deleted the program still ends   *)
(* in an orderly way when the main thread handles it: every thread of the  *)
(* pool has ended before the application, and threads_ with it, is         *)
(* destroyed.                                                              *)
OrderlyOnMain ==
  /\ ShutdownTypeOK
  /\ handler = {} /\ Cardinality(Working) > 1 => strand_ = "live"
  /\ Main \in handler => outcome # "terminated"

(* A run in which no log call uses the strand that the signal handler      *)
(* deletes ends once the signal is raised, on whatever thread it is        *)
(* handled and whatever is being logged: the thread that joins itself does *)
(* not wait forever, and no two wait for each other.  The code does not    *)
(* keep a call that has tested strand_ from using it afterwards, deleted   *)
(* or null; then anything can happen, and nothing is claimed.              *)
ProgramEnds ==
  []~undefined => (signal = "raised" ~> outcome # "running")

=============================================================================
