------------------------------- MODULE Strand -------------------------------
(***************************************************************************)
(* lib::tstrand: a connection's code runs in a strand of boost asio, which *)
(* the object created or was given, or directly, when it has none.         *)
(*                                                                         *)
(* Strands of asio are numbered: those the object creates from 1, those of *)
(* others behind them; 0 is the null pointer.  A handler posted to, or     *)
(* wrapped by, a strand still runs after that strand object was deleted;   *)
(* to use a deleted strand object is undefined.                            *)
(***************************************************************************)
EXTENDS Integers, Sequences, SequencesExt, FiniteSets

CONSTANTS Threads,            \* the threads that run the io_service
          Given,              \* the strands strand_enable is given
          MaxCreated,         \* bound: the strands created
          MaxTasks            \* bound: the calls of strand_execute

ASSUME StrandAssumption ==
  /\ {MaxCreated, MaxTasks} \subseteq Nat
  /\ Given \subseteq Nat \ (0 .. MaxCreated)

VARIABLES
  strand_,                    \* the strand in use
  own_strand_,                \* whether the object created it
  created,                    \* the number of strands created
  alive,                      \* the strands that are not deleted
  disabled,                   \* history: strand_disable came last
  destroyed,                  \* the object is destroyed
  undefined,                  \* a deleted strand was used or deleted again
  tasks,                      \* history: per call its strand and kind
  queue,                      \* per strand, the tasks dispatched to it
  started,                    \* tasks whose asynchronous operation runs
  running,                    \* per thread, the tasks it is in, last on top
  begun                       \* history: the tasks begun, in order

object == <<strand_, own_strand_, created, alive, disabled, destroyed>>
vars == <<object, undefined, tasks, queue, started, running, begun>>

None == 0
Strands == Given \union 1 .. MaxCreated

Init ==
  /\ strand_ = None /\ own_strand_ = FALSE
  /\ created = 0 /\ alive = Given
  /\ disabled = FALSE /\ destroyed = FALSE /\ undefined = FALSE
  /\ tasks = <<>>
  /\ queue = [s \in Strands |-> <<>>]
  /\ started = {}
  /\ running = [t \in Threads |-> <<>>]
  /\ begun = <<>>

-----------------------------------------------------------------------------
(* Enabling and disabling, by the owner of the object.                     *)

Usable == ~destroyed /\ ~undefined

(* Mutant: the flag is not reset. *)
DeleteStrandAgain(s, own) ==
  [alive |-> IF own THEN alive \ {s} ELSE alive, own |-> own,
   twice |-> own /\ s \notin alive]

(* delete_strand with the values of its members: what it leaves alive and  *)
(* of the flag; to delete what is deleted is undefined.                    *)
DeleteStrand(s, own) ==
  [alive |-> IF own THEN alive \ {s} ELSE alive, own |-> FALSE,
   twice |-> own /\ s \notin alive]

EnableOwn ==
  LET deleted == DeleteStrand(strand_, own_strand_) IN
  /\ Usable
  /\ created < MaxCreated
  /\ created' = created + 1
  /\ strand_' = created'
  /\ own_strand_' = TRUE
  /\ alive' = deleted.alive \union {created'}
  /\ undefined' = deleted.twice
  /\ disabled' = FALSE
  /\ UNCHANGED <<destroyed, tasks, queue, started, running, begun>>

EnableGiven(s) ==
  LET deleted == DeleteStrand(strand_, own_strand_) IN
  /\ Usable
  /\ strand_' = s
  /\ own_strand_' = deleted.own
  /\ alive' = deleted.alive
  /\ undefined' = deleted.twice
  /\ disabled' = FALSE
  /\ UNCHANGED <<created, destroyed, tasks, queue, started, running, begun>>

(* strand_disable resets own_strand_, never strand_. *)
Disable ==
  LET deleted == DeleteStrand(strand_, own_strand_) IN
  /\ Usable
  /\ ~disabled
  /\ own_strand_' = FALSE
  /\ alive' = deleted.alive
  /\ undefined' = deleted.twice
  /\ disabled' = TRUE
  /\ UNCHANGED <<strand_, created, destroyed, tasks, queue, started, running,
                 begun>>

(* ~tconnection calls strand_disable, then ~tstrand calls delete_strand.   *)
Destroy ==
  LET deleted == DeleteStrand(strand_, own_strand_) IN
  /\ Usable
  /\ destroyed' = TRUE
  /\ disabled' = TRUE
  /\ own_strand_' = FALSE
  /\ alive' = deleted.alive
  /\ undefined' = deleted.twice
  /\ UNCHANGED <<strand_, created, tasks, queue, started, running, begun>>

-----------------------------------------------------------------------------
(* strand_execute.  It is called by any thread, from a task or not.        *)

Task == Len(tasks) + 1
Called(kind) ==
  /\ Usable
  /\ Len(tasks) < MaxTasks
  /\ tasks' = Append(tasks, [strand |-> strand_, kind |-> kind])

RunNow(t, k) ==
  /\ running' = [running EXCEPT ![t] = Append(@, k)]
  /\ begun' = Append(begun, k)

(* With one argument: posted, or run directly by the caller. *)
Execute(t) ==
  /\ Called("task")
  /\ \/ /\ strand_ \in alive
        /\ queue' = [queue EXCEPT ![strand_] = Append(@, Task)]
        /\ UNCHANGED <<undefined, running, begun>>
     \/ /\ strand_ = None
        /\ RunNow(t, Task)
        /\ UNCHANGED <<undefined, queue>>
     \/ /\ strand_ # None /\ strand_ \notin alive
        /\ undefined' = TRUE
        /\ UNCHANGED <<queue, running, begun>>
  /\ UNCHANGED <<object, started>>

(* With two: the functor runs at once and starts an operation, whose       *)
(* handler is wrapped by the strand or plain.                              *)
ExecuteWrapped ==
  /\ Called("handler")
  /\ \/ /\ strand_ \in alive \union {None}
        /\ started' = started \union {Task}
        /\ UNCHANGED undefined
     \/ /\ strand_ \notin alive \union {None}
        /\ undefined' = TRUE
        /\ UNCHANGED started
  /\ UNCHANGED <<object, queue, running, begun>>

-----------------------------------------------------------------------------
(* asio.                                                                   *)

Idle(t) == running[t] = <<>> /\ ~undefined

(* Mutant: the handler was not wrapped. *)
OperationEndsPlain(t, k) ==
  /\ Idle(t)
  /\ k \in started
  /\ started' = started \ {k}
  /\ RunNow(t, k)
  /\ UNCHANGED <<object, undefined, tasks, queue>>

(* An operation ends: its handler goes through its strand, if it has one.  *)
OperationEnds(t, k) ==
  /\ Idle(t)
  /\ k \in started
  /\ started' = started \ {k}
  /\ \/ /\ tasks[k].strand # None
        /\ queue' = [queue EXCEPT ![tasks[k].strand] = Append(@, k)]
        /\ UNCHANGED <<running, begun>>
     \/ tasks[k].strand = None /\ RunNow(t, k) /\ UNCHANGED queue
  /\ UNCHANGED <<object, undefined, tasks>>

InStrand(s) ==
  {t \in Threads : \E i \in DOMAIN running[t] :
                     tasks[running[t][i]].strand = s}

(* A strand runs the tasks dispatched to it one at a time and in order.    *)
RunStrand(t, s) ==
  /\ Idle(t)
  /\ queue[s] # <<>>
  /\ InStrand(s) = {}
  /\ RunNow(t, Head(queue[s]))
  /\ queue' = [queue EXCEPT ![s] = Tail(@)]
  /\ UNCHANGED <<object, undefined, tasks, started>>

TaskEnds(t) ==
  /\ running[t] # <<>> /\ ~undefined
  /\ running' = [running EXCEPT ![t] = Front(@)]
  /\ UNCHANGED <<object, undefined, tasks, queue, started, begun>>

-----------------------------------------------------------------------------

Owner == EnableOwn \/ (\E s \in Given : EnableGiven(s)) \/ Disable \/ Destroy
Calls == (\E t \in Threads : Execute(t)) \/ ExecuteWrapped
Asio ==
  \E t \in Threads :
    \/ \E k \in 1 .. MaxTasks : OperationEnds(t, k)
    \/ \E s \in Strands : RunStrand(t, s)
    \/ TaskEnds(t)
Next == Owner \/ Calls \/ Asio

Spec == Init /\ [][Next]_vars

-----------------------------------------------------------------------------
(* Properties.                                                             *)

(* The variables have the types of strand.hpp. *)
TypeOK ==
  /\ strand_ \in Strands \union {None}
  /\ {own_strand_, disabled, destroyed, undefined} \subseteq BOOLEAN
  /\ own_strand_ => strand_ \in 1 .. created
  /\ alive \subseteq Strands
  /\ started \subseteq DOMAIN tasks
  /\ \A s \in Strands : queue[s] \in Seq(DOMAIN tasks)
  /\ \A t \in Threads : running[t] \in Seq(DOMAIN tasks)

TasksIn(t, s) == {i \in DOMAIN running[t] : tasks[running[t][i]].strand = s}

(* Of what was executed with one strand at most one task runs, on whatever *)
(* thread, and none inside another, and those posted begin in the order    *)
(* they were posted; that holds also for tasks left behind by a strand     *)
(* that was replaced or deleted.                                           *)
Serialised ==
  /\ \A s \in Strands :
       /\ Cardinality(InStrand(s)) <= 1
       /\ \A t \in Threads : Cardinality(TasksIn(t, s)) <= 1
  /\ \A i, j \in DOMAIN begun :
       (/\ i < j
        /\ tasks[begun[i]].kind = "task" /\ tasks[begun[j]].kind = "task"
        /\ tasks[begun[i]].strand = tasks[begun[j]].strand)
       => begun[i] < begun[j]

(* No strand is leaked, and those of others are left alone. None is        *)
(* deleted twice, and a deleted one is used only between strand_disable on *)
(* its own and the next enabling, never by a connection that leaves the    *)
(* disabling to its destructor.                                            *)
Ownership ==
  /\ TypeOK
  /\ alive = Given \union (IF own_strand_ THEN {strand_} ELSE {})
  /\ destroyed => alive = Given
  /\ undefined => disabled /\ ~destroyed /\ ~own_strand_

=============================================================================
