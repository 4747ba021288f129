---------------------------- MODULE StrandProofs ----------------------------
(***************************************************************************)
(* Theorems about Strand, for any threads and any number of strands and    *)
(* calls.                                                                  *)
(***************************************************************************)
EXTENDS Strand, FiniteSetTheorems, SequenceTheorems, TLAPS

-----------------------------------------------------------------------------
(* The inductive invariants.                                               *)

Call == [strand : Strands \union {None}, kind : {"task", "handler"}]

TypeInv ==
  /\ strand_ \in Strands \union {None}
  /\ own_strand_ \in BOOLEAN /\ disabled \in BOOLEAN
  /\ destroyed \in BOOLEAN /\ undefined \in BOOLEAN
  /\ created \in 0 .. MaxCreated
  /\ alive \subseteq Strands
  /\ tasks \in Seq(Call)
  /\ started \subseteq DOMAIN tasks
  /\ queue \in [Strands -> Seq(DOMAIN tasks)]
  /\ running \in [Threads -> Seq(DOMAIN tasks)]
  /\ begun \in Seq(DOMAIN tasks)

(* What the object owns lives, and nothing else that it created does. A    *)
(* pointer to what it deleted remains only after strand_disable.           *)
OwnInv ==
  /\ TypeInv
  /\ own_strand_ => strand_ \in 1 .. created
  /\ alive = Given \union (IF own_strand_ THEN {strand_} ELSE {})
  /\ destroyed => ~own_strand_
  /\ strand_ # None /\ strand_ \notin Given /\ ~own_strand_ => disabled
  /\ undefined => disabled /\ ~destroyed /\ ~own_strand_

StrandOf(k) == tasks[k].strand
Posted(k) == tasks[k].kind = "task"

(* Whatever runs, is queued or has begun.                                  *)
RunningOnce ==
  \A t, u \in Threads : \A i \in DOMAIN running[t], j \in DOMAIN running[u] :
    /\ StrandOf(running[t][i]) = StrandOf(running[u][j])
    /\ StrandOf(running[t][i]) # None
    => t = u /\ i = j

QueuedInOrder ==
  /\ \A s \in Strands : \A i \in DOMAIN queue[s] : StrandOf(queue[s][i]) = s
  /\ \A s \in Strands : \A i, j \in DOMAIN queue[s] :
       i < j /\ Posted(queue[s][i]) /\ Posted(queue[s][j])
         => queue[s][i] < queue[s][j]

BegunInOrder ==
  \A i, j \in DOMAIN begun :
    /\ i < j /\ Posted(begun[i]) /\ Posted(begun[j])
    /\ StrandOf(begun[i]) = StrandOf(begun[j])
    => begun[i] < begun[j]

BegunBeforeQueued ==
  \A i \in DOMAIN begun, s \in Strands : \A j \in DOMAIN queue[s] :
    StrandOf(begun[i]) = s /\ Posted(begun[i]) /\ Posted(queue[s][j])
      => begun[i] < queue[s][j]

SerialInv ==
  /\ \A k \in started : ~Posted(k)
  /\ RunningOnce
  /\ QueuedInOrder
  /\ BegunInOrder
  /\ BegunBeforeQueued

-----------------------------------------------------------------------------
(* Numbers, strands and sequences.                                         *)

LEMMA StrandNumbers ==
  /\ MaxCreated \in Nat /\ MaxTasks \in Nat
  /\ None \notin Strands /\ Given \subseteq Strands
  /\ \A n \in 1 .. MaxCreated : n \in Strands /\ n \notin Given
BY StrandAssumption DEF Strands, None

LEMMA SeqOfMore ==
  ASSUME NEW S, NEW T, S \subseteq T, NEW q \in Seq(S)
  PROVE  q \in Seq(T)
OBVIOUS

LEMMA TailOf ==
  ASSUME NEW S, NEW q \in Seq(S), q # <<>>
  PROVE  /\ Head(q) \in S /\ Head(q) = q[1] /\ 1 \in DOMAIN q
         /\ Tail(q) \in Seq(S)
         /\ \A i \in DOMAIN Tail(q) : i + 1 \in DOMAIN q /\ Tail(q)[i] = q[i + 1]
OBVIOUS

LEMMA FrontOf ==
  ASSUME NEW S, NEW q \in Seq(S), q # <<>>
  PROVE  /\ Front(q) \in Seq(S)
         /\ \A i \in DOMAIN Front(q) : i \in DOMAIN q /\ Front(q)[i] = q[i]
BY DEF Front

LEMMA AppendOf ==
  ASSUME NEW S, NEW q \in Seq(S), NEW e \in S
  PROVE  /\ Append(q, e) \in Seq(S)
         /\ DOMAIN Append(q, e) = DOMAIN q \union {Len(q) + 1}
         /\ Len(q) + 1 \notin DOMAIN q
         /\ \A i \in DOMAIN q : i < Len(q) + 1 /\ Append(q, e)[i] = q[i]
         /\ Append(q, e)[Len(q) + 1] = e
OBVIOUS

-----------------------------------------------------------------------------
(* Who owns what.                                                          *)

LEMMA OwnInvInit == Init => OwnInv
<1> SUFFICES ASSUME Init PROVE OwnInv
  OBVIOUS
<1>1. /\ tasks \in Seq(Call) /\ started \subseteq DOMAIN tasks
      /\ begun \in Seq(DOMAIN tasks)
      /\ queue \in [Strands -> Seq(DOMAIN tasks)]
      /\ running \in [Threads -> Seq(DOMAIN tasks)]
  BY DEF Init
<1>2. /\ strand_ = None /\ own_strand_ = FALSE /\ created = 0 /\ alive = Given
      /\ disabled = FALSE /\ destroyed = FALSE /\ undefined = FALSE
  BY DEF Init
<1>3. 0 \in 0 .. MaxCreated
  BY StrandNumbers
<1>4. TypeInv
  BY <1>1, <1>2, <1>3, StrandNumbers DEF TypeInv
<1> QED BY <1>2, <1>4 DEF OwnInv

(* What the owner's operations do to what is owned. *)
GetsOwn ==
  /\ created < MaxCreated /\ created' = created + 1
  /\ strand_' = created' /\ own_strand_' = TRUE
  /\ alive' = Given \union {created'}
  /\ disabled' = FALSE /\ destroyed' = FALSE

GetsGiven ==
  /\ created' = created /\ strand_' \in Given
  /\ own_strand_' = FALSE /\ alive' = Given
  /\ disabled' = FALSE /\ destroyed' = FALSE

GivesUp ==
  /\ created' = created /\ strand_' = strand_
  /\ own_strand_' = FALSE /\ alive' = Given
  /\ disabled' = TRUE

LEMMA OwnerStep ==
  ASSUME OwnInv, Owner
  PROVE  /\ undefined' = FALSE /\ ~destroyed /\ destroyed' \in BOOLEAN
         /\ UNCHANGED <<tasks, queue, started, running, begun>>
         /\ GetsOwn \/ GetsGiven \/ GivesUp
<1> DEFINE deleted == DeleteStrand(strand_, own_strand_)
<1>1. own_strand_ => strand_ \in alive /\ strand_ \notin Given
  BY StrandNumbers DEF OwnInv, TypeInv
<1>2. deleted.alive = Given /\ deleted.own = FALSE /\ deleted.twice = FALSE
  <2>1. own_strand_ \in BOOLEAN /\ alive = Given \union (IF own_strand_ THEN {strand_} ELSE {})
    BY DEF OwnInv, TypeInv
  <2>2. deleted.alive = IF own_strand_ THEN alive \ {strand_} ELSE alive
    BY DEF DeleteStrand
  <2>3. deleted.twice = (own_strand_ /\ strand_ \notin alive) /\ deleted.own = FALSE
    BY DEF DeleteStrand
  <2> QED BY <1>1, <2>1, <2>2, <2>3
<1>3. CASE EnableOwn
  BY <1>2, <1>3, Zenon DEF EnableOwn, Usable, OwnInv, TypeInv, GetsOwn
<1>4. ASSUME NEW s \in Given, EnableGiven(s)
      PROVE  /\ undefined' = FALSE /\ ~destroyed /\ destroyed' = destroyed
             /\ UNCHANGED <<tasks, queue, started, running, begun>>
             /\ created' = created /\ strand_' = s
             /\ own_strand_' = FALSE /\ alive' = Given /\ disabled' = FALSE
  BY <1>2, <1>4 DEF EnableGiven, Usable
<1>5. CASE Disable
  BY <1>2, <1>5, Zenon DEF Disable, Usable, OwnInv, TypeInv, GivesUp
<1>6. CASE Destroy
  BY <1>2, <1>6, Zenon DEF Destroy, Usable, GivesUp
<1> QED BY <1>3, <1>4, <1>5, <1>6
       DEF Owner, OwnInv, TypeInv, GetsOwn, GetsGiven, GivesUp

(* A call is recorded, and nothing that was recorded changes.              *)
LEMMA CallKeeps ==
  ASSUME TypeInv, NEW kind \in {"task", "handler"}, Called(kind)
  PROVE  /\ tasks' \in Seq(Call)
         /\ DOMAIN tasks \subseteq DOMAIN tasks'
         /\ \A k \in DOMAIN tasks : k < Task /\ tasks'[k] = tasks[k]
         /\ Task \in DOMAIN tasks' /\ Task \notin DOMAIN tasks
         /\ tasks'[Task] = [strand |-> strand_, kind |-> kind]
         /\ started \subseteq DOMAIN tasks'
         /\ queue \in [Strands -> Seq(DOMAIN tasks')]
         /\ running \in [Threads -> Seq(DOMAIN tasks')]
         /\ begun \in Seq(DOMAIN tasks')
<1>1. [strand |-> strand_, kind |-> kind] \in Call
  BY DEF TypeInv, Call
<1>2. /\ tasks' \in Seq(Call)
      /\ DOMAIN tasks \subseteq DOMAIN tasks'
      /\ \A k \in DOMAIN tasks : k < Task /\ tasks'[k] = tasks[k]
      /\ Task \in DOMAIN tasks' /\ Task \notin DOMAIN tasks
      /\ tasks'[Task] = [strand |-> strand_, kind |-> kind]
  BY <1>1, AppendOf DEF TypeInv, Called, Task
<1>3. \A s \in Strands : queue[s] \in Seq(DOMAIN tasks')
  BY <1>2, SeqOfMore DEF TypeInv
<1>4. \A t \in Threads : running[t] \in Seq(DOMAIN tasks')
  BY <1>2, SeqOfMore DEF TypeInv
<1>5. begun \in Seq(DOMAIN tasks')
  BY <1>2, SeqOfMore DEF TypeInv
<1> QED BY <1>2, <1>3, <1>4, <1>5 DEF TypeInv

LEMMA TypeInvInductive ==
  ASSUME OwnInv, [Next]_vars
  PROVE  TypeInv'
<1> USE StrandNumbers DEF OwnInv
<1>1. CASE Owner
  <2>1. created \in 0 .. MaxCreated /\ strand_ \in Strands \union {None}
    BY DEF TypeInv
  <2>2. created' \in 0 .. MaxCreated /\ strand_' \in Strands \union {None}
        /\ alive' \subseteq Strands
    <3> HIDE DEF OwnInv
    <3>1. GetsOwn \/ GetsGiven \/ GivesUp
      BY <1>1, OwnerStep
    <3>2. CASE GetsOwn
      BY <2>1, <3>2 DEF GetsOwn
    <3>3. CASE GetsGiven \/ GivesUp
      BY <2>1, <3>3 DEF GetsGiven, GivesUp
    <3> QED BY <3>1, <3>2, <3>3
  <2>3. UNCHANGED <<tasks, queue, started, running, begun>>
        /\ own_strand_' \in BOOLEAN /\ disabled' \in BOOLEAN
        /\ destroyed' \in BOOLEAN /\ undefined' \in BOOLEAN
    BY <1>1, OwnerStep DEF GetsOwn, GetsGiven, GivesUp
  <2> QED BY <2>2, <2>3 DEF TypeInv
<1>2. ASSUME NEW t \in Threads, Execute(t) PROVE TypeInv'
  <2>1. Called("task") /\ UNCHANGED <<object, started>>
    BY <1>2 DEF Execute
  <2>2. /\ undefined' \in BOOLEAN
        /\ queue' \in [Strands -> Seq(DOMAIN tasks')]
        /\ running' \in [Threads -> Seq(DOMAIN tasks')]
        /\ begun' \in Seq(DOMAIN tasks')
    <3>1. CASE /\ strand_ \in alive
               /\ queue' = [queue EXCEPT ![strand_] = Append(@, Task)]
               /\ UNCHANGED <<undefined, running, begun>>
      <4>1. Append(queue[strand_], Task) \in Seq(DOMAIN tasks')
        BY <2>1, <3>1, CallKeeps, AppendOf DEF TypeInv
      <4> QED BY <2>1, <3>1, <4>1, CallKeeps DEF TypeInv
    <3>2. CASE RunNow(t, Task) /\ UNCHANGED <<undefined, queue>>
      <4>1. /\ Append(running[t], Task) \in Seq(DOMAIN tasks')
            /\ Append(begun, Task) \in Seq(DOMAIN tasks')
        BY <2>1, CallKeeps, AppendOf
      <4> QED BY <2>1, <3>2, <4>1, CallKeeps DEF TypeInv, RunNow
    <3>3. CASE undefined' = TRUE /\ UNCHANGED <<queue, running, begun>>
      BY <2>1, <3>3, CallKeeps
    <3> QED BY <1>2, <3>1, <3>2, <3>3 DEF Execute
  <2> QED BY <2>1, <2>2, CallKeeps DEF TypeInv, object
<1>3. CASE ExecuteWrapped
  BY <1>3, CallKeeps DEF ExecuteWrapped, TypeInv, object
<1>4. ASSUME NEW t \in Threads, NEW k \in DOMAIN tasks, RunNow(t, k)
      PROVE  /\ running' \in [Threads -> Seq(DOMAIN tasks)]
             /\ begun' \in Seq(DOMAIN tasks)
  <2>1. /\ Append(running[t], k) \in Seq(DOMAIN tasks)
        /\ Append(begun, k) \in Seq(DOMAIN tasks)
    BY AppendOf DEF TypeInv
  <2> QED BY <1>4, <2>1 DEF TypeInv, RunNow
<1>5. ASSUME NEW t \in Threads, NEW k, OperationEnds(t, k) PROVE TypeInv'
  <2>1. k \in DOMAIN tasks /\ UNCHANGED <<object, undefined, tasks>>
        /\ started' = started \ {k}
    BY <1>5 DEF OperationEnds, TypeInv
  <2>2. CASE /\ tasks[k].strand # None
             /\ queue' = [queue EXCEPT ![tasks[k].strand] = Append(@, k)]
             /\ UNCHANGED <<running, begun>>
    <3>1. tasks[k].strand \in Strands
      <4>1. tasks[k] \in Call
        BY <2>1 DEF TypeInv
      <4> QED BY <2>2, <4>1 DEF Call
    <3>2. Append(queue[tasks[k].strand], k) \in Seq(DOMAIN tasks)
      BY <2>1, <3>1, AppendOf DEF TypeInv
    <3> QED BY <2>1, <2>2, <3>1, <3>2 DEF TypeInv, object
  <2>3. CASE RunNow(t, k) /\ UNCHANGED queue
    BY <1>4, <2>1, <2>3 DEF TypeInv, object
  <2> QED BY <1>5, <2>2, <2>3 DEF OperationEnds
<1>6. ASSUME NEW t \in Threads, NEW s \in Strands, RunStrand(t, s) PROVE TypeInv'
  <2>1. Head(queue[s]) \in DOMAIN tasks /\ Tail(queue[s]) \in Seq(DOMAIN tasks)
    BY <1>6, TailOf DEF RunStrand, TypeInv
  <2>2. UNCHANGED <<object, undefined, tasks, started>>
        /\ queue' = [queue EXCEPT ![s] = Tail(@)]
    BY <1>6 DEF RunStrand
  <2> QED BY <1>4, <1>6, <2>1, <2>2 DEF RunStrand, TypeInv, object
<1>7. ASSUME NEW t \in Threads, TaskEnds(t) PROVE TypeInv'
  <2>1. Front(running[t]) \in Seq(DOMAIN tasks)
    BY <1>7, FrontOf DEF TaskEnds, TypeInv
  <2> QED BY <1>7, <2>1 DEF TaskEnds, TypeInv, object
<1>8. CASE UNCHANGED vars
  BY <1>8 DEF vars, object, TypeInv
<1> QED BY <1>1, <1>2, <1>3, <1>5, <1>6, <1>7, <1>8 DEF Next, Calls, Asio

LEMMA OwnInvInductive == OwnInv /\ [Next]_vars => OwnInv'
<1> SUFFICES ASSUME OwnInv, [Next]_vars PROVE OwnInv'
  OBVIOUS
<1> USE StrandNumbers DEF OwnInv
<1>1. TypeInv /\ TypeInv'
  BY TypeInvInductive
<1>2. CASE Owner
  <2>1. created \in Nat
    BY <1>1, StrandNumbers DEF TypeInv
  <2>2. OwnInv
    OBVIOUS
  <2> HIDE DEF OwnInv
  <2>3. /\ undefined' = FALSE
        /\ own_strand_' => strand_' \in 1 .. created'
        /\ alive' = Given \union (IF own_strand_' THEN {strand_'} ELSE {})
        /\ destroyed' => ~own_strand_'
        /\ strand_' # None /\ strand_' \notin Given /\ ~own_strand_' => disabled'
    <3>1. undefined' = FALSE /\ (GetsOwn \/ GetsGiven \/ GivesUp)
      BY <1>2, <2>2, OwnerStep
    <3>2. CASE GetsOwn
      BY <2>1, <3>1, <3>2 DEF GetsOwn
    <3>3. CASE GetsGiven \/ GivesUp
      BY <3>1, <3>3 DEF GetsGiven, GivesUp
    <3> QED BY <3>1, <3>2, <3>3
  <2> QED BY <1>1, <2>3 DEF OwnInv
<1>3. CASE Calls
  BY <1>1, <1>3 DEF TypeInv, Calls, Execute, ExecuteWrapped, Called, Usable, object
<1>4. CASE Asio \/ UNCHANGED vars
  BY <1>1, <1>4 DEF TypeInv, Asio, OperationEnds, RunStrand, TaskEnds, object, vars
<1> QED BY <1>2, <1>3, <1>4 DEF Next

LEMMA OwnInvHolds == Spec => []OwnInv
BY OwnInvInit, OwnInvInductive, PTL DEF Spec

(* No strand is leaked, none is deleted twice, those of others live, and a *)
(* deleted one is used only after a strand_disable that was not followed   *)
(* by an enabling.                                                         *)
THEOREM StrandsAreOwned == Spec => []Ownership
<1>1. OwnInv => Ownership
  BY DEF OwnInv, TypeInv, Ownership, TypeOK
<1> QED BY <1>1, OwnInvHolds, PTL

-----------------------------------------------------------------------------
(* What runs at the same time, and in which order.                         *)

LEMMA SerialInvInit == Init => SerialInv
BY DEF Init, SerialInv, RunningOnce, QueuedInOrder, BegunInOrder,
   BegunBeforeQueued

(* What is recorded of the calls stays, which all invariants rest on. *)
Recorded == \A k \in DOMAIN tasks : tasks'[k] = tasks[k]

LEMMA Elements ==
  ASSUME TypeInv
  PROVE  /\ DOMAIN tasks \subseteq Nat
         /\ \A i \in DOMAIN begun : i \in Nat /\ begun[i] \in DOMAIN tasks
         /\ \A s \in Strands : \A i \in DOMAIN queue[s] :
              i \in Nat /\ queue[s][i] \in DOMAIN tasks
         /\ \A t \in Threads : \A i \in DOMAIN running[t] :
              i \in Nat /\ running[t][i] \in DOMAIN tasks
<1>1. DOMAIN tasks = 1 .. Len(tasks) /\ Len(tasks) \in Nat
  BY DEF TypeInv
<1>2. \A s \in Strands : queue[s] \in Seq(DOMAIN tasks)
  BY DEF TypeInv
<1>3. \A t \in Threads : running[t] \in Seq(DOMAIN tasks)
  BY DEF TypeInv
<1>4. begun \in Seq(DOMAIN tasks)
  BY DEF TypeInv
<1> QED BY <1>1, <1>2, <1>3, <1>4

LEMMA RunningKept ==
  ASSUME TypeInv, Recorded, RunningOnce, UNCHANGED running
  PROVE  RunningOnce'
BY Elements DEF Recorded, RunningOnce, StrandOf

LEMMA QueuedKept ==
  ASSUME TypeInv, Recorded, QueuedInOrder, UNCHANGED queue
  PROVE  QueuedInOrder'
BY Elements DEF Recorded, QueuedInOrder, StrandOf, Posted

LEMMA BegunKept ==
  ASSUME TypeInv, Recorded, BegunInOrder, UNCHANGED begun
  PROVE  BegunInOrder'
BY Elements DEF Recorded, BegunInOrder, StrandOf, Posted

LEMMA BeforeKept ==
  ASSUME TypeInv, Recorded, BegunBeforeQueued, UNCHANGED <<begun, queue>>
  PROVE  BegunBeforeQueued'
BY Elements DEF Recorded, BegunBeforeQueued, StrandOf, Posted

(* A task begins on a thread. *)
LEMMA BeginKeeps ==
  ASSUME TypeInv, Recorded, RunningOnce, BegunInOrder,
         NEW t \in Threads, NEW k \in Nat, RunNow(t, k),
         \/ tasks'[k].strand = None
         \/ \A u \in Threads : \A i \in DOMAIN running[u] :
              StrandOf(running[u][i]) # tasks'[k].strand,
         tasks'[k].kind = "task" =>
           \A i \in DOMAIN begun :
             Posted(begun[i]) /\ StrandOf(begun[i]) = tasks'[k].strand
               => begun[i] < k
  PROVE  RunningOnce' /\ BegunInOrder'
<1>1. DOMAIN tasks \subseteq DOMAIN tasks \union {k}
  OBVIOUS
<1>2. /\ \A u \in Threads : running[u] \in Seq(DOMAIN tasks \union {k})
      /\ begun \in Seq(DOMAIN tasks \union {k})
  BY <1>1, SeqOfMore DEF TypeInv
<1> DEFINE top == Len(running[t]) + 1
           last == Len(begun) + 1
<1>3. /\ DOMAIN running'[t] = DOMAIN running[t] \union {top}
      /\ top \notin DOMAIN running[t]
      /\ \A i \in DOMAIN running[t] : running'[t][i] = running[t][i]
      /\ running'[t][top] = k
      /\ \A u \in Threads \ {t} : running'[u] = running[u]
  <2>1. /\ running'[t] = Append(running[t], k)
        /\ \A u \in Threads \ {t} : running'[u] = running[u]
    BY DEF RunNow, TypeInv
  <2>2. /\ DOMAIN Append(running[t], k) = DOMAIN running[t] \union {top}
        /\ top \notin DOMAIN running[t]
        /\ \A i \in DOMAIN running[t] : Append(running[t], k)[i] = running[t][i]
        /\ Append(running[t], k)[top] = k
    BY <1>2, AppendOf
  <2> QED BY <2>1, <2>2
<1>4. /\ DOMAIN begun' = DOMAIN begun \union {last}
      /\ last \notin DOMAIN begun /\ last \in Nat
      /\ \A i \in DOMAIN begun : i < last /\ begun'[i] = begun[i]
      /\ begun'[last] = k
  BY <1>2, AppendOf DEF RunNow
<1> HIDE DEF top, last
<1>5. RunningOnce'
  <2>1. \A u \in Threads : \A i \in DOMAIN running[u] :
          running'[u][i] = running[u][i] /\ StrandOf(running[u][i])' = StrandOf(running[u][i])'
    BY <1>3
  <2>2. \A u \in Threads : \A i \in DOMAIN running'[u] :
          \/ /\ i \in DOMAIN running[u] /\ ~(u = t /\ i = top)
             /\ tasks'[running'[u][i]].strand = StrandOf(running[u][i])
          \/ u = t /\ i = top /\ tasks'[running'[u][i]].strand = tasks'[k].strand
    BY <1>3, Elements DEF Recorded, StrandOf
  <2> QED BY <2>2 DEF RunningOnce, StrandOf
<1>6. BegunInOrder'
  <2>1. \A i \in DOMAIN begun : /\ tasks'[begun'[i]] = tasks[begun[i]]
                                /\ i \in Nat /\ begun[i] \in Nat
    BY <1>4, Elements DEF Recorded
  <2>2. SUFFICES ASSUME NEW i \in DOMAIN begun', NEW j \in DOMAIN begun',
                        i < j, Posted(begun[i])', Posted(begun[j])',
                        StrandOf(begun[i])' = StrandOf(begun[j])'
                 PROVE  begun'[i] < begun'[j]
    BY DEF BegunInOrder
  <2>3. i \in DOMAIN begun
    BY <1>4, <2>1, <2>2
  <2>4. CASE j \in DOMAIN begun
    BY <1>4, <2>1, <2>2, <2>3, <2>4 DEF BegunInOrder, Posted, StrandOf
  <2>5. CASE j = last
    BY <1>4, <2>1, <2>2, <2>3, <2>5 DEF Posted, StrandOf
  <2> QED BY <1>4, <2>4, <2>5
<1> QED BY <1>5, <1>6

(* A task is dispatched to a strand. *)
LEMMA DispatchKeeps ==
  ASSUME TypeInv, Recorded, QueuedInOrder, BegunBeforeQueued, UNCHANGED begun,
         NEW s \in Strands, NEW k \in Nat, tasks'[k].strand = s,
         queue' = [queue EXCEPT ![s] = Append(@, k)],
         tasks'[k].kind = "task" => \A j \in DOMAIN tasks : j < k
  PROVE  QueuedInOrder' /\ BegunBeforeQueued'
<1>1. queue[s] \in Seq(DOMAIN tasks \union {k})
  BY SeqOfMore DEF TypeInv
<1> DEFINE last == Len(queue[s]) + 1
<1>2. /\ DOMAIN queue'[s] = DOMAIN queue[s] \union {last}
      /\ last \notin DOMAIN queue[s] /\ last \in Nat
      /\ \A i \in DOMAIN queue[s] : i < last /\ queue'[s][i] = queue[s][i]
      /\ queue'[s][last] = k
      /\ \A r \in Strands \ {s} : queue'[r] = queue[r]
  <2>1. /\ queue'[s] = Append(queue[s], k)
        /\ \A r \in Strands \ {s} : queue'[r] = queue[r]
    BY DEF TypeInv
  <2>2. Len(queue[s]) \in Nat
    BY <1>1
  <2> DEFINE q == queue[s]
             S == DOMAIN tasks \union {k}
  <2>3. q \in Seq(S) /\ k \in S
    BY <1>1
  <2> HIDE DEF q, S
  <2>4. /\ DOMAIN Append(q, k) = DOMAIN q \union {Len(q) + 1}
        /\ Len(q) + 1 \notin DOMAIN q
        /\ \A i \in DOMAIN q : i < Len(q) + 1 /\ Append(q, k)[i] = q[i]
        /\ Append(q, k)[Len(q) + 1] = k
    BY <2>3, AppendOf
  <2> QED BY <2>1, <2>2, <2>4 DEF q
<1> HIDE DEF last
<1>3. \A r \in Strands : \A i \in DOMAIN queue'[r] :
        \/ /\ i \in DOMAIN queue[r] /\ queue'[r][i] = queue[r][i]
           /\ tasks'[queue'[r][i]] = tasks[queue[r][i]] /\ i \in Nat
           /\ queue[r][i] \in DOMAIN tasks
        \/ r = s /\ i = last /\ queue'[r][i] = k /\ i \notin DOMAIN queue[r]
  BY <1>2, Elements DEF Recorded
<1>4. \A i \in DOMAIN begun : /\ tasks'[begun[i]] = tasks[begun[i]]
                              /\ begun[i] \in DOMAIN tasks
  BY Elements DEF Recorded
<1>5. \A r \in Strands : \A i \in DOMAIN queue'[r] : tasks'[queue'[r][i]].strand = r
  BY <1>3 DEF QueuedInOrder, StrandOf
<1>6. ASSUME NEW r \in Strands, NEW i \in DOMAIN queue'[r], NEW j \in DOMAIN queue'[r],
             i < j, Posted(queue[r][i])', Posted(queue[r][j])'
      PROVE  queue'[r][i] < queue'[r][j]
  <2>1. i \in DOMAIN queue[r]
    BY <1>2, <1>3, <1>6
  <2>2. CASE j \in DOMAIN queue[r]
    BY <1>3, <1>6, <2>1, <2>2 DEF QueuedInOrder, Posted
  <2>3. CASE j \notin DOMAIN queue[r]
    BY <1>3, <1>6, <2>1, <2>3 DEF Posted
  <2> QED BY <2>2, <2>3
<1>7. ASSUME NEW i \in DOMAIN begun, NEW r \in Strands, NEW j \in DOMAIN queue'[r],
             StrandOf(begun[i])' = r, Posted(begun[i])', Posted(queue[r][j])'
      PROVE  begun'[i] < queue'[r][j]
  BY <1>3, <1>4, <1>7 DEF BegunBeforeQueued, Posted, StrandOf
<1> QED BY <1>5, <1>6, <1>7 DEF QueuedInOrder, BegunBeforeQueued, StrandOf

LEMMA SerialInvInductive ==
  ASSUME OwnInv, OwnInv', SerialInv, [Next]_vars
  PROVE  SerialInv'
<1> USE DEF SerialInv
<1>1. TypeInv /\ TypeInv' /\ DOMAIN tasks \subseteq Nat
  BY Elements DEF OwnInv
<1>2. ASSUME Recorded, UNCHANGED <<queue, running, begun>>,
             \A k \in started' : ~Posted(k)'
      PROVE  SerialInv'
  BY <1>1, <1>2, RunningKept, QueuedKept, BegunKept, BeforeKept
<1>3. CASE Owner \/ UNCHANGED vars
  <2>1. UNCHANGED <<tasks, queue, running, begun, started>>
    BY <1>3, OwnerStep DEF vars
  <2> QED BY <1>2, <2>1 DEF Recorded, Posted
<1>4. ASSUME NEW kind \in {"task", "handler"}, Called(kind)
      PROVE  /\ Recorded /\ Task \in Nat
             /\ tasks'[Task] = [strand |-> strand_, kind |-> kind]
             /\ \A j \in DOMAIN tasks : j < Task
             /\ \A k \in started : ~Posted(k)'
  <2>1. Recorded /\ tasks'[Task] = [strand |-> strand_, kind |-> kind]
        /\ \A j \in DOMAIN tasks : j < Task
    BY <1>1, <1>4, CallKeeps DEF Recorded
  <2>2. Task \in Nat
    BY <1>1 DEF Task, TypeInv
  <2>3. started \subseteq DOMAIN tasks
    BY <1>1 DEF TypeInv
  <2> QED BY <2>1, <2>2, <2>3 DEF Recorded, Posted
<1>5. ASSUME NEW t \in Threads, Execute(t) PROVE SerialInv'
  <2>1. Called("task") /\ started' = started
    BY <1>5 DEF Execute
  <2>2. /\ Recorded /\ Task \in Nat
        /\ tasks'[Task].strand = strand_
        /\ \A j \in DOMAIN tasks : j < Task
        /\ \A k \in started' : ~Posted(k)'
    BY <1>4, <2>1
  <2>3. CASE /\ strand_ \in alive
             /\ queue' = [queue EXCEPT ![strand_] = Append(@, Task)]
             /\ UNCHANGED <<running, begun>>
    <3>1. strand_ \in Strands
      BY <1>1, <2>3 DEF TypeInv
    <3>2. QueuedInOrder' /\ BegunBeforeQueued'
      BY <1>1, <2>2, <2>3, <3>1, DispatchKeeps
    <3> QED BY <1>1, <2>2, <2>3, <3>2, RunningKept, BegunKept
  <2>4. CASE strand_ = None /\ RunNow(t, Task) /\ UNCHANGED queue
    <3>1. \A i \in DOMAIN begun : begun[i] < Task
      BY <1>1, <2>2, Elements
    <3>2. RunningOnce' /\ BegunInOrder'
      BY <1>1, <2>2, <2>4, <3>1, BeginKeeps
    <3>3. BegunBeforeQueued'
      <4>1. \A i \in DOMAIN begun' :
              \/ i \in DOMAIN begun /\ begun'[i] = begun[i]
              \/ begun'[i] = Task
        <5>1. begun' = Append(begun, Task) /\ Task \in DOMAIN tasks \union {Task}
              /\ begun \in Seq(DOMAIN tasks \union {Task})
          BY <1>1, <2>4, SeqOfMore DEF RunNow, TypeInv
        <5> QED BY <5>1, AppendOf
      <4> QED BY <1>1, <2>2, <2>4, <4>1, Elements, StrandNumbers
              DEF BegunBeforeQueued, Recorded, StrandOf, Posted
    <3> QED BY <1>1, <2>2, <2>4, <3>2, <3>3, QueuedKept
  <2>5. CASE UNCHANGED <<queue, running, begun>>
    BY <1>2, <2>2, <2>5
  <2> QED BY <1>5, <2>3, <2>4, <2>5 DEF Execute
<1>6. CASE ExecuteWrapped
  <2>1. Called("handler") /\ UNCHANGED <<queue, running, begun>>
        /\ started' \subseteq started \union {Task}
    BY <1>6 DEF ExecuteWrapped
  <2>2. /\ Recorded /\ tasks'[Task].kind = "handler"
        /\ \A k \in started : ~Posted(k)'
    BY <1>4, <2>1
  <2> QED BY <1>2, <2>1, <2>2 DEF Posted
<1>7. ASSUME NEW t \in Threads, NEW k, OperationEnds(t, k) PROVE SerialInv'
  <2>1. /\ k \in started /\ started' \subseteq started /\ tasks' = tasks
        /\ k \in DOMAIN tasks /\ k \in Nat /\ Recorded /\ ~Posted(k)
    BY <1>1, <1>7 DEF OperationEnds, TypeInv, Recorded
  <2>2. \A j \in started' : ~Posted(j)'
    BY <2>1 DEF Posted
  <2>3. CASE /\ tasks[k].strand # None
             /\ queue' = [queue EXCEPT ![tasks[k].strand] = Append(@, k)]
             /\ UNCHANGED <<running, begun>>
    <3>1. tasks[k] \in Call
      BY <1>1, <2>1 DEF TypeInv
    <3>2. tasks[k].strand \in Strands
      BY <2>3, <3>1 DEF Call
    <3>3. QueuedInOrder' /\ BegunBeforeQueued'
      BY <1>1, <2>1, <2>3, <3>2, DispatchKeeps DEF Posted
    <3> QED BY <1>1, <2>1, <2>2, <2>3, <3>3, RunningKept, BegunKept
  <2>4. CASE tasks[k].strand = None /\ RunNow(t, k) /\ UNCHANGED queue
    <3>1. RunningOnce' /\ BegunInOrder'
      BY <1>1, <2>1, <2>4, BeginKeeps DEF Posted
    <3>2. BegunBeforeQueued'
      <4>1. \A i \in DOMAIN begun' :
              (i \in DOMAIN begun /\ begun'[i] = begun[i]) \/ begun'[i] = k
        <5>1. begun' = Append(begun, k) /\ begun \in Seq(DOMAIN tasks)
          BY <1>1, <2>1, <2>4 DEF RunNow, TypeInv
        <5> QED BY <2>1, <5>1, AppendOf
      <4> QED BY <2>1, <2>4, <4>1 DEF BegunBeforeQueued, StrandOf, Posted
    <3> QED BY <1>1, <2>1, <2>2, <2>4, <3>1, <3>2, QueuedKept
  <2> QED BY <1>7, <2>3, <2>4 DEF OperationEnds
<1>8. ASSUME NEW t \in Threads, NEW s \in Strands, RunStrand(t, s) PROVE SerialInv'
  <2> DEFINE k == Head(queue[s])
  <2>1. /\ queue[s] \in Seq(DOMAIN tasks) /\ queue[s] # <<>>
        /\ RunNow(t, k) /\ queue' = [queue EXCEPT ![s] = Tail(@)]
        /\ UNCHANGED <<tasks, started>> /\ Recorded
    BY <1>1, <1>8 DEF RunStrand, TypeInv, Recorded
  <2>2. /\ k \in DOMAIN tasks /\ k = queue[s][1] /\ 1 \in DOMAIN queue[s]
        /\ \A i \in DOMAIN Tail(queue[s]) :
             i + 1 \in DOMAIN queue[s] /\ Tail(queue[s])[i] = queue[s][i + 1]
             /\ i \in Nat \ {0}
    BY <2>1, TailOf
  <2> HIDE DEF k
  <2>3. StrandOf(k) = s
    BY <2>2 DEF QueuedInOrder
  <2>4. \A u \in Threads : \A i \in DOMAIN running[u] : StrandOf(running[u][i]) # s
    BY <1>8 DEF RunStrand, InStrand, StrandOf
  <2>5. RunningOnce' /\ BegunInOrder'
    <3>1. Posted(k) => \A i \in DOMAIN begun :
                         Posted(begun[i]) /\ StrandOf(begun[i]) = s => begun[i] < k
      BY <2>2 DEF BegunBeforeQueued
    <3>2. tasks'[k].strand = s /\ (tasks'[k].kind = "task" <=> Posted(k)) /\ k \in Nat
      BY <1>1, <2>1, <2>2, <2>3 DEF StrandOf, Posted
    <3> QED BY <1>1, <2>1, <2>4, <3>1, <3>2, BeginKeeps
  <2>6. /\ \A r \in Strands \ {s} : queue'[r] = queue[r]
        /\ \A i \in DOMAIN queue'[s] : /\ i \in Nat \ {0} /\ i + 1 \in DOMAIN queue[s]
                                       /\ queue'[s][i] = queue[s][i + 1]
    BY <1>1, <2>1, <2>2 DEF TypeInv
  <2>7. \A i \in DOMAIN begun' :
          (i \in DOMAIN begun /\ begun'[i] = begun[i]) \/ begun'[i] = k
    <3>1. begun' = Append(begun, k) /\ begun \in Seq(DOMAIN tasks)
      BY <1>1, <2>1 DEF RunNow, TypeInv
    <3> QED BY <2>2, <3>1, AppendOf
  <2>8. \A j : StrandOf(j)' = StrandOf(j) /\ Posted(j)' = Posted(j)
    BY <2>1 DEF StrandOf, Posted
  <2>9. QueuedInOrder'
    <3>1. \A r \in Strands : \A i \in DOMAIN queue'[r] : StrandOf(queue'[r][i]) = r
      BY <2>6 DEF QueuedInOrder
    <3>2. \A r \in Strands \ {s} : \A i, j \in DOMAIN queue'[r] :
            i < j /\ Posted(queue'[r][i]) /\ Posted(queue'[r][j])
              => queue'[r][i] < queue'[r][j]
      BY <2>6 DEF QueuedInOrder
    <3>3. ASSUME NEW i \in DOMAIN queue'[s], NEW j \in DOMAIN queue'[s], i < j,
                 Posted(queue'[s][i]), Posted(queue'[s][j])
          PROVE  queue'[s][i] < queue'[s][j]
      <4>1. i + 1 \in DOMAIN queue[s] /\ j + 1 \in DOMAIN queue[s] /\ i + 1 < j + 1
        BY <2>6, <3>3
      <4> QED BY <2>6, <3>3, <4>1 DEF QueuedInOrder
    <3> QED BY <2>8, <3>1, <3>2, <3>3 DEF QueuedInOrder
  <2>10. BegunBeforeQueued'
    <3>1. ASSUME NEW i \in DOMAIN begun', NEW r \in Strands, NEW j \in DOMAIN queue'[r],
                 StrandOf(begun'[i]) = r, Posted(begun'[i]), Posted(queue'[r][j])
          PROVE  begun'[i] < queue'[r][j]
      <4>1. PICK h \in DOMAIN queue[r] : /\ queue'[r][j] = queue[r][h]
                                         /\ r = s => 1 < h
        BY <2>6
      <4>2. CASE i \in DOMAIN begun /\ begun'[i] = begun[i]
        BY <3>1, <4>1, <4>2 DEF BegunBeforeQueued
      <4>3. CASE begun'[i] = k
        BY <2>2, <2>3, <3>1, <4>1, <4>3 DEF QueuedInOrder
      <4> QED BY <2>7, <4>2, <4>3
    <3> QED BY <2>8, <3>1 DEF BegunBeforeQueued
  <2> QED BY <2>1, <2>5, <2>8, <2>9, <2>10
<1>9. ASSUME NEW t \in Threads, TaskEnds(t) PROVE SerialInv'
  <2>1. /\ running' = [running EXCEPT ![t] = Front(@)] /\ running[t] # <<>>
        /\ UNCHANGED <<tasks, queue, started, begun>> /\ Recorded
    BY <1>9 DEF TaskEnds, Recorded
  <2>2. \A u \in Threads : \A i \in DOMAIN running'[u] :
          i \in DOMAIN running[u] /\ running'[u][i] = running[u][i]
    BY <1>1, <2>1, FrontOf DEF TypeInv
  <2>3. RunningOnce'
    BY <2>1, <2>2 DEF RunningOnce, StrandOf
  <2> QED BY <1>1, <2>1, <2>3, QueuedKept, BegunKept, BeforeKept DEF Posted
<1> QED BY <1>3, <1>5, <1>6, <1>7, <1>8, <1>9 DEF Next, Calls, Asio

(* At most one task of a strand runs at a time, and none inside another,   *)
(* and those posted to it begin in the order in which they were posted,    *)
(* however the owner replaces, deletes and disables the strand meanwhile.  *)
THEOREM StrandsSerialise == Spec => []Serialised
<1>1. Init => OwnInv /\ SerialInv
  BY OwnInvInit, SerialInvInit
<1>2. OwnInv /\ SerialInv /\ [Next]_vars => OwnInv' /\ SerialInv'
  BY OwnInvInductive, SerialInvInductive
<1>3. OwnInv /\ SerialInv => Serialised
  <2> SUFFICES ASSUME OwnInv, SerialInv PROVE Serialised
    OBVIOUS
  <2>1. ASSUME NEW s \in Strands, NEW t \in Threads, NEW u \in Threads,
               NEW i \in DOMAIN running[t], NEW j \in DOMAIN running[u],
               tasks[running[t][i]].strand = s, tasks[running[u][j]].strand = s
        PROVE  t = u /\ i = j
    BY <2>1, StrandNumbers DEF SerialInv, RunningOnce, StrandOf
  <2>2. ASSUME NEW S, \A x, y \in S : x = y
        PROVE  Cardinality(S) <= 1
    <3>1. CASE S = {}
      BY <3>1, FS_EmptySet
    <3>2. CASE S # {}
      <4>1. PICK x \in S : S = {x}
        BY <2>2, <3>2
      <4> QED BY <4>1, FS_Singleton
    <3> QED BY <3>1, <3>2
  <2>3. ASSUME NEW s \in Strands PROVE Cardinality(InStrand(s)) <= 1
    <3>1. \A t, u \in InStrand(s) : t = u
      BY <2>1 DEF InStrand
    <3> QED BY <2>2, <3>1
  <2>4. ASSUME NEW s \in Strands, NEW t \in Threads
        PROVE  Cardinality(TasksIn(t, s)) <= 1
    <3>1. \A i, j \in TasksIn(t, s) : i = j
      BY <2>1 DEF TasksIn
    <3> QED BY <2>2, <3>1
  <2> QED BY <2>3, <2>4 DEF Serialised, SerialInv, BegunInOrder, StrandOf, Posted
<1> QED BY <1>1, <1>2, <1>3, PTL DEF Spec

=============================================================================
