---------------------------- MODULE ModuleLogger ----------------------------
(***************************************************************************)
(* tmodule_logger and the macros of log.hpp: the logger with a threshold   *)
(* per module.  The name of a module is a string of the caller, which the  *)
(* macros make for the call; do_log gets a reference to it.                *)
(***************************************************************************)
EXTENDS Integers, Sequences, FiniteSets, FiniteSetsExt

CONSTANTS Threads, Main, Streams, Thresholds, MaxLogged,   \* as in Logger
          Modules,            \* the names of modules
          Letters,            \* bound: the macros used, by their last letter
          MaxRegistered       \* bound: the calls of register_module in main

VARIABLES
  modules_,                   \* the thresholds of the registered modules
  registered,                 \* the calls of register_module in main
  requested,                  \* history: the last level set for each module
  ended,                      \* the messages whose call of log() returned
  stale,                      \* the messages whose name was read after that
  (* The variables of Logger. *)
  strand_, stream_function_, call, queue, stopped, undefined,
  logged, written, silent

(* What both loggers do; the threshold is tested here. *)
Base == INSTANCE Logger WITH threshold_level_ <- 0

Level == Base!Level

(* The macros LOG_T to LOG_F, and the levels they log at. *)
MacroLevel ==
  [T |-> Level.trace, D |-> Level.debug, I |-> Level.information,
   W |-> Level.information, E |-> Level.error, F |-> Level.fatal]

(* Thresholds has the level a module is registered with, and those that    *)
(* are logged at.                                                          *)
ASSUME ModuleLoggerAssumption ==
  /\ Main \in Threads /\ IsFiniteSet(Threads)
  /\ Base!NoStream \in Streams
  /\ Letters \subseteq {"T", "D", "I", "W", "E", "F"}
  /\ {Level.trace} \union {MacroLevel[l] : l \in Letters} \subseteq Thresholds
  /\ Thresholds \subseteq Level.trace .. Level.fatal
  /\ {MaxLogged, MaxRegistered} \subseteq Nat

baseVars == <<strand_, stream_function_, call, queue, stopped, undefined,
              logged, written, silent>>
names == <<ended, stale>>
vars == <<modules_, registered, requested, names, baseVars>>

(* Before main, each source file registers its module: one has its default *)
(* threshold, others may be unknown.                                       *)
Init ==
  /\ \E known \in (SUBSET Modules) \ {{}} :
       /\ modules_ = [m \in known |-> Level.trace]
       /\ requested = modules_
  /\ registered = 0
  /\ ended = {} /\ stale = {}
  /\ Base!Init

-----------------------------------------------------------------------------
(* Thresholds.                                                             *)

(* insert() leaves a module alone that is registered already. *)
Inserted(levels, m) ==
  [x \in DOMAIN levels \union {m} |->
     IF x \in DOMAIN levels THEN levels[x] ELSE Level.trace]

(* Mutant: the default threshold is assigned, not inserted. *)
RegisterModuleAssigns(m) ==
  /\ registered < MaxRegistered
  /\ registered' = registered + 1
  /\ modules_' = [Inserted(modules_, m) EXCEPT ![m] = Level.trace]
  /\ requested' = Inserted(requested, m)
  /\ UNCHANGED <<names, baseVars>>

RegisterModule(m) ==
  /\ registered < MaxRegistered
  /\ registered' = registered + 1
  /\ modules_' = Inserted(modules_, m)
  /\ requested' = Inserted(requested, m)
  /\ UNCHANGED <<names, baseVars>>

SetThresholdLevel(level) ==
  /\ modules_' = [m \in DOMAIN modules_ |-> level]
  /\ requested' = [m \in DOMAIN requested |-> level]
  /\ UNCHANGED <<registered, names, baseVars>>

(* For one module; it throws invalid_value when m is not registered. *)
SetThresholdLevelOf(m, level) ==
  /\ m \in DOMAIN modules_
  /\ modules_' = [modules_ EXCEPT ![m] = level]
  /\ requested' = [requested EXCEPT ![m] = level]
  /\ UNCHANGED <<registered, names, baseVars>>

IsActive(m, level) == m \in DOMAIN modules_ /\ level >= modules_[m]

-----------------------------------------------------------------------------
(* Logging.                                                                *)

(* A macro: log() of log.hpp tests the level, and log() does once more.    *)
Log(t, m, letter) ==
  /\ IsActive(m, MacroLevel[letter])
  /\ Base!Log(t, MacroLevel[letter])
  /\ UNCHANGED <<modules_, registered, requested, ended, stale>>

(* log() returns, and with it the name it was called with is destroyed.    *)
Returns(t) == ended' = IF call'[t] = Base!Idle
                       THEN ended \union {call[t].message} ELSE ended

Goes(t) ==
  /\ Base!Dispatch(t) \/ Base!Post(t) \/ (call[t].pc = "direct" /\ Base!WriteEnds(t))
  /\ Returns(t)
  /\ UNCHANGED <<modules_, registered, requested, stale>>

(* do_log passes the name on to the stream function. *)
RunQueued(t) ==
  /\ Base!RunQueued(t)
  /\ stale' = stale \union ({Head(queue).message} \intersect ended)
  /\ UNCHANGED <<modules_, registered, requested, ended>>

QueuedEnds(t) ==
  /\ call[t].pc = "strand" /\ Base!WriteEnds(t)
  /\ UNCHANGED <<modules_, registered, requested, names>>

-----------------------------------------------------------------------------

(* The setters are used as those of Logger. *)
Setters ==
  /\ Base!Quiet
  /\ \/ \E l \in Thresholds : SetThresholdLevel(l)
     \/ \E l \in Thresholds, m \in Modules : SetThresholdLevelOf(m, l)
     \/ \E m \in Modules : RegisterModule(m)
     \/ /\ \/ ~stopped /\ strand_ = "null" /\ Base!SetAsyncMode
           \/ stopped /\ (Base!DeleteStrand \/ Base!ResetStrand)
           \/ \E stream \in Streams : Base!SetStreamFunction(stream)
        /\ UNCHANGED <<modules_, registered, requested, names>>

Logging(t) ==
  /\ strand_ = "live" \/ (strand_ = "null" /\ t = Main)
  /\ \E m \in Modules, letter \in Letters : Log(t, m, letter)

Stop == Base!Stop /\ UNCHANGED <<modules_, registered, requested, names>>

Next ==
  \/ Setters
  \/ \E t \in Threads : Logging(t) \/ Goes(t) \/ RunQueued(t) \/ QueuedEnds(t)
  \/ Stop

Spec == Init /\ [][Next]_vars

(* Threads go on, and the io_service runs what is posted. *)
Fairness ==
  /\ \A t \in Threads : WF_vars(Goes(t) \/ QueuedEnds(t))
  /\ WF_vars(\E t \in Threads : RunQueued(t))

FairSpec == Spec /\ Fairness

-----------------------------------------------------------------------------
(* Properties.                                                             *)

(* The messages of both loggers: see Logger. *)
WrittenInOrder == Base!WrittenInOrder
DispatchedIsWritten == Base!DispatchedIsWritten

Lowest == Min({requested[m] : m \in DOMAIN requested})

(* tmodule_logger behaves like tlogger with the lowest of the thresholds   *)
(* that were last asked for, for all or for one module and however often a *)
(* module is registered again: no message below it gets through, and those *)
(* that do pass through the same stages in the same order.                 *)
Basic == INSTANCE Logger WITH threshold_level_ <- Lowest
ImplementsLogger == Basic!Spec

(* module_logger.hpp: the stream function is called with the module, and   *)
(* with the values stored during dispatching.                              *)
NamesAreAlive == stale = {}

=============================================================================
