-------------------------- MODULE ModuleLoggerProofs --------------------------
(***************************************************************************)
(* The loggers for any threads, modules, levels and stream functions: no   *)
(* message is lost, written twice or written out of its order, and the     *)
(* logger of modules is a logger with the lowest of their thresholds.      *)
(***************************************************************************)
EXTENDS ModuleLogger, FiniteSetTheorems, TLAPS

-----------------------------------------------------------------------------
(* The invariant.                                                          *)

Idle == Base!Idle
Busy == {t \in Threads : call[t] # Idle}

Waiting == [pc : {"dispatch", "post"}, message : Nat]
Doing == [pc : {"direct", "strand"}, message : Nat,
          stream : Streams \ {Base!NoStream}]
Calls == {Idle} \union Waiting \union Doing

Bound == [message : Nat, stream : Streams]

TypeInv ==
  /\ strand_ \in {"null", "live", "deleted"}
  /\ stream_function_ \in Streams
  /\ call \in [Threads -> Calls]
  /\ queue \in Seq(Bound)
  /\ written \in Seq([message : Nat, stream : Streams \ {Base!NoStream}])
  /\ logged \in Seq([by : Threads, level : Thresholds])
  /\ stopped \in BOOLEAN /\ undefined = FALSE

(* What the rules of logger.hpp for its setters come to: in synchronous    *)
(* mode only the main thread is in a call, and it never gets to post; in   *)
(* asynchronous mode no thread writes itself; and what a stopped           *)
(* io_service leaves in the queue stays there.                             *)
ModeInv ==
  /\ strand_ = "live" => \A t \in Threads : call[t].pc # "direct"
  /\ strand_ # "live" =>
       \A t \in Threads :
         \/ call[t].pc = "idle"
         \/ strand_ = "null" /\ t = Main /\ call[t].pc \in {"dispatch", "direct"}
  /\ strand_ = "deleted" => stopped
  /\ strand_ = "null" /\ ~stopped => queue = <<>>
  /\ \A t, u \in Threads : call[t].pc = "strand" /\ call[u].pc = "strand" => t = u

(* Each message is in one place. *)
PlaceInv ==
  /\ \A t, u \in Busy : call[t].message = call[u].message => t = u
  /\ \A i, j \in DOMAIN queue : queue[i].message = queue[j].message => i = j
  /\ Base!Held \intersect Base!Queued = {}
  /\ Base!Held \intersect Base!Written = {}
  /\ Base!Queued \intersect Base!Written = {}
  /\ silent \intersect (Base!Held \union Base!Queued \union Base!Written) = {}
  /\ Base!Held \union Base!Queued \union Base!Written \union silent = Base!Logged
  /\ Cardinality(Busy) + Len(queue) + Len(written) + Cardinality(silent) = Len(logged)

Follows(log, early, late) ==
  \A a \in early, b \in late : log[a].by = log[b].by => a < b
InLine(log, line) ==
  \A i, j \in DOMAIN line :
    i < j /\ log[line[i].message].by = log[line[j].message].by
      => line[i].message < line[j].message

(* The messages that are being written, and those not dispatched yet. *)
Running == {call[t].message : t \in {u \in Threads : call[u].pc \in {"direct", "strand"}}}
Called == {call[t].message : t \in {u \in Threads : call[u].pc \in {"dispatch", "post"}}}

(* The messages of one thread stand in line over all places; the queue of  *)
(* a stopped io_service is overtaken in synchronous mode.                  *)
OrderInv ==
  /\ \A t \in Threads :
       call[t].pc \in {"dispatch", "post"} => logged[call[t].message].by = t
  /\ InLine(logged, queue) /\ InLine(logged, written)
  /\ Follows(logged, Base!Written, Running) /\ Follows(logged, Base!Written, Called)
  /\ Follows(logged, Running, Called) /\ Follows(logged, Base!Queued, Called)
  /\ ~stopped => /\ Follows(logged, Base!Written, Base!Queued)
                 /\ Follows(logged, Running, Base!Queued)

LogInv == TypeInv /\ ModeInv /\ PlaceInv /\ OrderInv

-----------------------------------------------------------------------------
(* Calls and lines of messages.                                            *)

LEMMA CallShape ==
  ASSUME NEW c \in Calls
  PROVE  /\ c = Idle <=> c.pc = "idle"
         /\ c.pc \in {"idle", "dispatch", "post", "direct", "strand"}
         /\ c # Idle => c.message \in Nat
         /\ c.pc \in {"direct", "strand"} => c.stream \in Streams \ {Base!NoStream}
         /\ c.pc \in {"dispatch", "post"} => c \in Waiting
BY DEF Calls, Waiting, Doing, Idle, Base!Idle

Messages(line) == {line[i].message : i \in DOMAIN line}

(* What is added to the end of a line, or taken from its front. *)
LEMMA MessagesAppend ==
  ASSUME NEW S, NEW line \in Seq(S), NEW e \in S
  PROVE  /\ Messages(Append(line, e)) = Messages(line) \union {e.message}
         /\ Len(Append(line, e)) = Len(line) + 1
<1>1. /\ DOMAIN Append(line, e) = DOMAIN line \union {Len(line) + 1}
      /\ \A i \in DOMAIN line : Append(line, e)[i] = line[i]
      /\ Append(line, e)[Len(line) + 1] = e
      /\ Len(line) + 1 \notin DOMAIN line
  OBVIOUS
<1>2. Messages(Append(line, e)) = Messages(line) \union {e.message}
  <2> DEFINE longer == Append(line, e)
             last == Len(line) + 1
  <2>1. /\ DOMAIN longer = DOMAIN line \union {last} /\ longer[last] = e
        /\ \A i \in DOMAIN line : longer[i] = line[i]
    BY <1>1
  <2> HIDE DEF longer, last
  <2>2. \A x \in Messages(longer) : x \in Messages(line) \union {e.message}
    BY <2>1 DEF Messages
  <2>3. \A x \in Messages(line) \union {e.message} : x \in Messages(longer)
    BY <2>1 DEF Messages
  <2> QED BY <2>2, <2>3 DEF longer
<1> QED BY <1>2

LEMMA MessagesTail ==
  ASSUME NEW S, NEW line \in Seq(S), line # <<>>,
         \A i, j \in DOMAIN line : line[i].message = line[j].message => i = j
  PROVE  /\ Messages(Tail(line)) = Messages(line) \ {Head(line).message}
         /\ Head(line).message \in Messages(line)
         /\ Len(Tail(line)) = Len(line) - 1
<1>1. /\ Tail(line) \in Seq(S)
      /\ \A i \in DOMAIN Tail(line) :
           i + 1 \in DOMAIN line /\ Tail(line)[i] = line[i + 1] /\ i + 1 # 1
      /\ \A i \in DOMAIN line : i # 1 => i - 1 \in DOMAIN Tail(line) /\ (i - 1) + 1 = i
      /\ 1 \in DOMAIN line /\ Head(line) = line[1]
      /\ Len(Tail(line)) = Len(line) - 1
  OBVIOUS
<1>2. ASSUME NEW m \in Messages(Tail(line))
      PROVE  m \in Messages(line) /\ m # Head(line).message
  <2>1. PICK i \in DOMAIN Tail(line) : m = Tail(line)[i].message
    BY DEF Messages
  <2>2. i + 1 \in DOMAIN line /\ m = line[i + 1].message /\ i + 1 # 1
    BY <1>1, <2>1
  <2>3. m \in Messages(line)
    BY <2>2 DEF Messages
  <2>4. m # line[1].message
    BY <1>1, <2>2
  <2> QED BY <1>1, <2>3, <2>4
<1>3. ASSUME NEW m \in Messages(line), m # Head(line).message
      PROVE  m \in Messages(Tail(line))
  <2>1. PICK i \in DOMAIN line : m = line[i].message
    BY DEF Messages
  <2>2. i # 1
    BY <1>1, <1>3, <2>1
  <2>3. i - 1 \in DOMAIN Tail(line) /\ (i - 1) + 1 = i
    BY <1>1, <2>2
  <2>4. Tail(line)[i - 1] = line[i]
    BY <1>1, <2>3
  <2> QED BY <2>1, <2>3, <2>4 DEF Messages
<1>4. Head(line).message \in Messages(line)
  BY <1>1 DEF Messages
<1> QED BY <1>1, <1>2, <1>3, <1>4

(* A thread that begins, continues or ends a call. *)
LEMMA CallMoves ==
  ASSUME TypeInv, NEW t \in Threads, NEW c \in Calls, Base!Go(t, c)
  PROVE  /\ call' \in [Threads -> Calls] /\ call'[t] = c
         /\ \A u \in Threads \ {t} : call'[u] = call[u]
BY DEF TypeInv, Base!Go

(* The threads in a call. *)
LEMMA BusyCounts ==
  ASSUME NEW t \in Threads, \A u \in Threads \ {t} : call'[u] = call[u]
  PROVE  /\ IsFiniteSet(Busy) /\ Cardinality(Busy) \in Nat
         /\ call[t] = Idle /\ call'[t] # Idle =>
              Cardinality(Busy') = Cardinality(Busy) + 1
         /\ call[t] # Idle /\ call'[t] = Idle =>
              Cardinality(Busy') = Cardinality(Busy) - 1
         /\ call[t] # Idle /\ call'[t] # Idle =>
              Cardinality(Busy') = Cardinality(Busy)
<1>1. IsFiniteSet(Busy)
  BY ModuleLoggerAssumption, FS_Subset DEF Busy
<1>2. Cardinality(Busy) \in Nat
  BY <1>1, FS_CardinalityType
<1>3. /\ call[t] = Idle /\ call'[t] # Idle => Busy' = Busy \union {t} /\ t \notin Busy
      /\ call[t] # Idle /\ call'[t] = Idle => Busy' = Busy \ {t} /\ t \in Busy
      /\ call[t] # Idle /\ call'[t] # Idle => Busy' = Busy
  BY DEF Busy, Idle, Base!Idle
<1> QED BY <1>1, <1>2, <1>3, FS_AddElement, FS_RemoveElement

-----------------------------------------------------------------------------
(* Where the messages go when one thread moves.                            *)

LEMMA PlacesAreMessages ==
  Base!Queued = Messages(queue) /\ Base!Written = Messages(written)
BY DEF Base!Queued, Base!Written, Messages

LEMMA HeldMoves ==
  ASSUME TypeInv, PlaceInv, NEW t \in Threads, NEW c \in Calls, Base!Go(t, c)
  PROVE  /\ call[t] = Idle /\ c # Idle =>
              Base!Held' = Base!Held \union {c.message}
         /\ call[t] # Idle /\ c = Idle =>
              /\ call[t].message \in Base!Held
              /\ Base!Held' = Base!Held \ {call[t].message}
         /\ call[t] # Idle /\ c # Idle /\ c.message = call[t].message =>
              Base!Held' = Base!Held
<1>1. /\ call'[t] = c /\ \A u \in Threads \ {t} : call'[u] = call[u]
      /\ Idle' = Idle
  BY CallMoves DEF Idle, Base!Idle
<1>2. \A m : m \in Base!Held <=> \E u \in Threads : call[u] # Idle /\ m = call[u].message
  BY DEF Base!Held, Idle
<1>3. \A m : m \in Base!Held' <=> \E u \in Threads : call'[u] # Idle /\ m = call'[u].message
  BY <1>1 DEF Base!Held, Idle
<1>4. \A u \in Threads \ {t} :
        call[t] # Idle /\ call[u] # Idle => call[u].message # call[t].message
  BY DEF PlaceInv, Busy
<1>5. ASSUME call[t] = Idle, c # Idle
      PROVE  Base!Held' = Base!Held \union {c.message}
  BY <1>1, <1>2, <1>3, <1>5
<1>6. ASSUME call[t] # Idle, c = Idle
      PROVE  /\ call[t].message \in Base!Held
             /\ Base!Held' = Base!Held \ {call[t].message}
  BY <1>1, <1>2, <1>3, <1>4, <1>6
<1>7. ASSUME call[t] # Idle, c # Idle, c.message = call[t].message
      PROVE  Base!Held' = Base!Held
  <2>1. \A u \in Threads : /\ call'[u] # Idle <=> call[u] # Idle
                           /\ call[u] # Idle => call'[u].message = call[u].message
    BY <1>1, <1>7
  <2>2. \A m : m \in Base!Held' <=> m \in Base!Held
    <3>1. ASSUME NEW m, m \in Base!Held'
          PROVE  m \in Base!Held
      <4>1. PICK u \in Threads : call'[u] # Idle /\ m = call'[u].message
        BY <1>3, <3>1
      <4> QED BY <1>2, <2>1, <4>1
    <3>2. ASSUME NEW m, m \in Base!Held
          PROVE  m \in Base!Held'
      <4>1. PICK u \in Threads : call[u] # Idle /\ m = call[u].message
        BY <1>2, <3>2
      <4>2. call'[u] # Idle /\ m = call'[u].message
        BY <2>1, <4>1
      <4> QED BY <1>3, <4>2
    <3> QED BY <3>1, <3>2
  <2> QED BY <2>2
<1> QED BY <1>5, <1>6, <1>7

LEMMA HeldStaysDistinct ==
  ASSUME TypeInv, PlaceInv, NEW t \in Threads, NEW c \in Calls, Base!Go(t, c),
         \/ c = Idle
         \/ call[t] # Idle /\ c.message = call[t].message
         \/ c.message \notin Base!Held
  PROVE  \A u, v \in Busy' : call'[u].message = call'[v].message => u = v
<1>1. /\ call'[t] = c /\ \A u \in Threads \ {t} : call'[u] = call[u]
      /\ Idle' = Idle
  BY CallMoves DEF Idle, Base!Idle
<1>2. \A u \in Threads : call[u] # Idle => call[u].message \in Base!Held
  BY DEF Base!Held, Idle
<1>3. \A u, v \in Threads :
        call[u] # Idle /\ call[v] # Idle /\ call[u].message = call[v].message => u = v
  BY DEF PlaceInv, Busy
<1>4. ASSUME NEW u \in Threads, c # Idle, call[u] # Idle, u # t
      PROVE  call[u].message # c.message
  BY <1>2, <1>3, <1>4
<1> SUFFICES ASSUME NEW u \in Threads, NEW v \in Threads, call'[u] # Idle,
                    call'[v] # Idle, call'[u].message = call'[v].message
             PROVE  u = v
  BY <1>1 DEF Busy
<1> QED BY <1>1, <1>3, <1>4

(* What is written, and what waits, comes at most from the thread that     *)
(* moves; a message that no longer waits leaves none of its thread behind. *)
LEMMA RolesMove ==
  ASSUME TypeInv, NEW t \in Threads, NEW c \in Calls, Base!Go(t, c)
  PROVE  /\ c.pc \in {"direct", "strand"} => Running' \subseteq Running \union {c.message}
         /\ c.pc \notin {"direct", "strand"} => Running' \subseteq Running
         /\ c.pc \in {"dispatch", "post"} => Called' \subseteq Called \union {c.message}
         /\ c.pc \notin {"dispatch", "post"} => Called' \subseteq Called
         /\ c.pc \notin {"dispatch", "post"} /\ OrderInv => \A m \in Called' : logged[m].by # t
<1>1. call'[t] = c /\ \A u \in Threads \ {t} : call'[u] = call[u]
  BY CallMoves
<1>2. ASSUME NEW m \in Running', ~(c.pc \in {"direct", "strand"} /\ m = c.message)
      PROVE  m \in Running
  BY <1>1, <1>2 DEF Running
<1>3. ASSUME NEW m \in Called', ~(c.pc \in {"dispatch", "post"} /\ m = c.message)
      PROVE  m \in Called
  BY <1>1, <1>3 DEF Called
<1>4. ASSUME NEW m \in Called', c.pc \notin {"dispatch", "post"}, OrderInv
      PROVE  logged[m].by # t
  <2>1. PICK u \in Threads : call'[u].pc \in {"dispatch", "post"} /\ m = call'[u].message
    BY DEF Called
  <2>2. u # t /\ call'[u] = call[u]
    BY <1>1, <1>4, <2>1
  <2> QED BY <1>4, <2>1, <2>2 DEF OrderInv
<1> QED BY <1>2, <1>3, <1>4

(* The messages are those of the calls. *)
LEMMA RolesAreHeld ==
  ASSUME TypeInv
  PROVE  Running \subseteq Base!Held /\ Called \subseteq Base!Held
BY CallShape DEF TypeInv, Running, Called, Base!Held, Idle

(* There is an order only among messages that are logged. *)
LEMMA MessagesAreLogged ==
  ASSUME TypeInv, PlaceInv
  PROVE  /\ Base!Logged = 1 .. Len(logged)
         /\ Base!Held \union Base!Queued \union Base!Written \union silent = Base!Logged
         /\ IsFiniteSet(silent) /\ Cardinality(silent) \in Nat
         /\ {Len(queue), Len(written), Len(logged)} \subseteq Nat
<1>1. Base!Logged = 1 .. Len(logged) /\ Len(logged) \in Nat
  BY DEF TypeInv, Base!Logged
<1>2. silent \subseteq 1 .. Len(logged)
  BY <1>1 DEF PlaceInv
<1>3. IsFiniteSet(silent) /\ Cardinality(silent) \in Nat
  <2>1. IsFiniteSet(1 .. Len(logged))
    BY <1>1, FS_Interval
  <2>2. IsFiniteSet(silent)
    BY <1>2, <2>1, FS_Subset
  <2> QED BY <2>2, FS_CardinalityType
<1>4. {Len(queue), Len(written), Len(logged)} \subseteq Nat
  <2>1. Len(queue) \in Nat
    BY DEF TypeInv
  <2>2. Len(written) \in Nat
    BY DEF TypeInv
  <2> QED BY <1>1, <2>1, <2>2
<1> QED BY <1>1, <1>3, <1>4 DEF PlaceInv

-----------------------------------------------------------------------------
(* The invariant holds at first, and each step keeps it.                   *)

LEMMA LogInvInit == Init => LogInv
<1> SUFFICES ASSUME Init PROVE LogInv
  OBVIOUS
<1> USE DEF Init, Base!Init
<1>1. /\ call = [t \in Threads |-> Idle] /\ \A t \in Threads : call[t].pc = "idle"
      /\ queue = <<>> /\ written = <<>> /\ logged = <<>> /\ silent = {}
  BY DEF Idle, Base!Idle
<1>2. TypeInv
  <2>1. call \in [Threads -> Calls]
    BY <1>1 DEF Calls
  <2>2. stream_function_ \in Streams /\ strand_ = "null"
    OBVIOUS
  <2>3. stopped = FALSE /\ undefined = FALSE
    OBVIOUS
  <2>4. /\ queue \in Seq(Bound) /\ logged \in Seq([by : Threads, level : Thresholds])
        /\ written \in Seq([message : Nat, stream : Streams \ {Base!NoStream}])
    <3> HIDE DEF Init, Base!Init
    <3> QED BY <1>1
  <2> QED
    <3> HIDE DEF Init, Base!Init
    <3> QED BY <2>1, <2>2, <2>3, <2>4 DEF TypeInv
<1>3. ModeInv
  BY <1>1 DEF ModeInv
<1>4. /\ Busy = {} /\ Base!Held = {} /\ Base!Queued = {} /\ Base!Written = {}
      /\ Base!Logged = {} /\ Running = {} /\ Called = {}
  BY <1>1 DEF Busy, Base!Held, Base!Queued, Base!Written, Base!Logged, Running,
              Called, Idle
<1>5. PlaceInv
  BY <1>1, <1>4, FS_EmptySet DEF PlaceInv
<1>6. OrderInv
  BY <1>1, <1>4 DEF OrderInv, InLine, Follows
<1> QED BY <1>2, <1>3, <1>5, <1>6 DEF LogInv

(* A call of log() begins with the newest message. *)
LEMMA LogKeeps ==
  ASSUME LogInv, NEW t \in Threads, NEW level \in Thresholds,
         strand_ = "live" \/ (strand_ = "null" /\ t = Main), Base!Log(t, level)
  PROVE  LogInv'
<1> DEFINE n == Len(logged) + 1
           c == [pc |-> "dispatch", message |-> n]
<1>1. TypeInv /\ ModeInv /\ PlaceInv /\ OrderInv
  BY DEF LogInv
<1>2. /\ logged' = Append(logged, [by |-> t, level |-> level])
      /\ UNCHANGED <<strand_, stream_function_, queue, stopped, undefined, written, silent>>
      /\ call[t].pc = "idle"
  BY DEF Base!Log, Base!At, Base!setup
<1>3. /\ Len(logged) \in Nat /\ n \in Nat /\ Len(logged') = n
      /\ logged' \in Seq([by : Threads, level : Thresholds])
      /\ Base!Logged' = Base!Logged \union {n} /\ n \notin Base!Logged
      /\ \A m \in Base!Logged : m < n /\ logged'[m] = logged[m]
      /\ logged'[n].by = t
  <2>1. Len(logged) \in Nat /\ [by |-> t, level |-> level] \in [by : Threads, level : Thresholds]
    BY <1>1, MessagesAreLogged
  <2>2. /\ Len(logged') = n /\ DOMAIN logged' = DOMAIN logged \union {n}
        /\ DOMAIN logged = 1 .. Len(logged)
        /\ logged' \in Seq([by : Threads, level : Thresholds])
        /\ \A m \in DOMAIN logged : logged'[m] = logged[m]
        /\ logged'[n] = [by |-> t, level |-> level]
    BY <1>1, <1>2, <2>1 DEF TypeInv
  <2> QED BY <2>1, <2>2 DEF Base!Logged
<1>4. Base!Go(t, c) /\ c \in Calls /\ c # Idle /\ call[t] = Idle
  <2>1. Base!Go(t, c)
    BY <1>3 DEF Base!Log
  <2>2. c \in Calls /\ c # Idle
    BY <1>3, CallShape DEF Calls, Waiting
  <2>3. call[t] = Idle
    BY <1>1, <1>2, CallShape DEF TypeInv
  <2> QED BY <2>1, <2>2, <2>3
<1>5. /\ call' \in [Threads -> Calls] /\ call'[t] = c /\ Idle' = Idle
      /\ \A u \in Threads \ {t} : call'[u] = call[u]
  BY <1>1, <1>4, CallMoves DEF Idle, Base!Idle
<1>6. TypeInv'
  BY <1>1, <1>2, <1>3, <1>5 DEF TypeInv
<1>7. ModeInv'
  BY <1>1, <1>2, <1>5 DEF ModeInv
<1>8. /\ Base!Held' = Base!Held \union {n}
      /\ Base!Queued' = Base!Queued /\ Base!Written' = Base!Written /\ silent' = silent
  BY <1>1, <1>2, <1>4, HeldMoves DEF Base!Queued, Base!Written
<1>9. /\ Base!Held \subseteq Base!Logged /\ Base!Queued \subseteq Base!Logged
      /\ Base!Written \subseteq Base!Logged /\ silent \subseteq Base!Logged
  BY <1>1 DEF PlaceInv
<1>10. PlaceInv'
  <2>1. \A u, v \in Busy' : call'[u].message = call'[v].message => u = v
    BY <1>1, <1>3, <1>4, <1>9, HeldStaysDistinct
  <2>2. Cardinality(Busy') = Cardinality(Busy) + 1 /\ Cardinality(Busy) \in Nat
    BY <1>4, <1>5, BusyCounts
  <2>3. Len(queue) \in Nat /\ Len(written) \in Nat /\ Cardinality(silent) \in Nat
    BY <1>1, MessagesAreLogged
  <2>4. Cardinality(Busy') + Len(queue') + Len(written') + Cardinality(silent') = Len(logged')
    <3>1. Cardinality(Busy) + Len(queue) + Len(written) + Cardinality(silent) = Len(logged)
      BY <1>1 DEF PlaceInv
    <3> QED BY <1>2, <1>3, <2>2, <2>3, <3>1
  <2>5. /\ Base!Held' \intersect Base!Queued' = {}
        /\ Base!Held' \intersect Base!Written' = {}
        /\ Base!Queued' \intersect Base!Written' = {}
        /\ silent' \intersect (Base!Held' \union Base!Queued' \union Base!Written') = {}
        /\ Base!Held' \union Base!Queued' \union Base!Written' \union silent' = Base!Logged'
    BY <1>1, <1>3, <1>8, <1>9 DEF PlaceInv
  <2> QED BY <1>1, <1>2, <2>1, <2>4, <2>5 DEF PlaceInv
<1>11. OrderInv'
  <2>1. Running' \subseteq Running /\ Called' \subseteq Called \union {n}
    BY <1>1, <1>4, RolesMove
  <2>2. /\ Running \subseteq Base!Logged /\ Called \subseteq Base!Logged
        /\ \A i \in DOMAIN queue : queue[i].message \in Base!Logged
        /\ \A i \in DOMAIN written : written[i].message \in Base!Logged
    BY <1>1, <1>9, RolesAreHeld DEF Base!Queued, Base!Written
  <2>3. ASSUME NEW early \in SUBSET Base!Logged, NEW late \in SUBSET Base!Logged,
               Follows(logged, early, late)
        PROVE  Follows(logged', early, late)
    BY <1>3, <2>3 DEF Follows
  <2>4. ASSUME NEW early \in SUBSET Base!Logged, Follows(logged, early, Called)
        PROVE  Follows(logged', early, Called')
    BY <1>3, <2>1, <2>2, <2>4 DEF Follows
  <2>5. InLine(logged', queue') /\ InLine(logged', written')
    <3>1. InLine(logged, queue) /\ InLine(logged, written)
      BY <1>1 DEF OrderInv
    <3>2. InLine(logged', queue)
      BY <1>3, <2>2, <3>1 DEF InLine
    <3>3. InLine(logged', written)
      BY <1>3, <2>2, <3>1 DEF InLine
    <3> QED BY <1>2, <3>2, <3>3
  <2>6. \A u \in Threads :
          call'[u].pc \in {"dispatch", "post"} => logged'[call'[u].message].by = u
    <3>1. ASSUME NEW u \in Threads \ {t}, call[u].pc \in {"dispatch", "post"}
          PROVE  logged'[call[u].message].by = u
      <4>1. call[u].message \in Called
        BY <3>1 DEF Called
      <4>2. logged[call[u].message].by = u
        BY <1>1, <3>1 DEF OrderInv
      <4> QED BY <1>3, <2>2, <4>1, <4>2
    <3> QED BY <1>3, <1>5, <3>1
  <2>7. /\ Follows(logged', Base!Written', Called') /\ Follows(logged', Base!Queued', Called')
    BY <1>1, <1>8, <1>9, <2>4 DEF OrderInv
  <2>8. Follows(logged', Base!Written', Running')
    <3>1. Follows(logged', Base!Written, Running)
      BY <1>1, <1>9, <2>2, <2>3 DEF OrderInv
    <3> QED BY <1>8, <2>1, <3>1 DEF Follows
  <2>9. Follows(logged', Running', Called')
    <3>1. Follows(logged', Running, Called')
      BY <1>1, <1>9, <2>2, <2>4 DEF OrderInv
    <3> QED BY <2>1, <3>1 DEF Follows
  <2>10. ASSUME ~stopped'
         PROVE  /\ Follows(logged', Base!Written', Base!Queued')
                /\ Follows(logged', Running', Base!Queued')
    <3>1. /\ Follows(logged', Base!Written, Base!Queued)
          /\ Follows(logged', Running, Base!Queued)
      BY <1>1, <1>2, <1>9, <2>2, <2>3, <2>10 DEF OrderInv
    <3> QED BY <1>8, <2>1, <3>1 DEF Follows
  <2> QED BY <2>5, <2>6, <2>7, <2>8, <2>9, <2>10 DEF OrderInv
<1> QED BY <1>6, <1>7, <1>10, <1>11 DEF LogInv

(* How many messages are in each place, when one has moved. *)
LEMMA CountMoves ==
  ASSUME TypeInv, PlaceInv, NEW t \in Threads, NEW c \in Calls, Base!Go(t, c), logged' = logged,
         NEW m, m \notin silent, NEW more \in {0, 1}, NEW old \in {0, 1}, NEW new \in {0, 1},
         call[t] = Idle <=> old = 0,
         c = Idle <=> new = 0,
         silent' = (IF more = 0 THEN silent ELSE silent \union {m}),
         Len(queue') \in Nat, Len(written') \in Nat,
         Len(queue') + Len(written') + more + new = Len(queue) + Len(written) + old
  PROVE  Cardinality(Busy') + Len(queue') + Len(written') + Cardinality(silent') = Len(logged')
<1>1. /\ call'[t] = c /\ \A u \in Threads \ {t} : call'[u] = call[u]
  BY CallMoves
<1>2. Cardinality(Busy) + Len(queue) + Len(written) + Cardinality(silent) = Len(logged)
  BY DEF PlaceInv
<1>3. /\ IsFiniteSet(silent) /\ Cardinality(silent) \in Nat
      /\ {Len(queue), Len(written), Len(logged)} \subseteq Nat
  BY MessagesAreLogged
<1>4. Cardinality(silent') = Cardinality(silent) + more
  <2>1. Cardinality(silent \union {m}) = Cardinality(silent) + 1
    BY <1>3, FS_AddElement
  <2>2. CASE more = 0
    BY <1>3, <2>2
  <2>3. CASE more = 1
    BY <2>1, <2>3
  <2> QED BY <2>2, <2>3
<1>5. Cardinality(Busy) \in Nat /\ Cardinality(Busy') = Cardinality(Busy) + new - old
  <2>1. Cardinality(Busy) \in Nat
    BY <1>1, BusyCounts
  <2>2. CASE old = 0 /\ new = 0
    <3>1. Busy' = Busy
      BY <1>1, <2>2 DEF Busy, Idle, Base!Idle
    <3> QED BY <2>1, <2>2, <3>1
  <2>3. CASE old = 1 \/ new = 1
    <3>1. /\ call[t] = Idle /\ c # Idle => Cardinality(Busy') = Cardinality(Busy) + 1
          /\ call[t] # Idle /\ c = Idle => Cardinality(Busy') = Cardinality(Busy) - 1
          /\ call[t] # Idle /\ c # Idle => Cardinality(Busy') = Cardinality(Busy)
      BY <1>1, BusyCounts
    <3> QED BY <2>1, <2>3, <3>1
  <2> QED BY <2>2, <2>3
<1>6. more \in Int /\ old \in Int /\ new \in Int
  OBVIOUS
<1> DEFINE b == Cardinality(Busy)
           s == Cardinality(silent)
           q == Len(queue)
           w == Len(written)
           n == Len(logged)
           b2 == Cardinality(Busy')
           s2 == Cardinality(silent')
           q2 == Len(queue')
           w2 == Len(written')
<1>7. /\ b \in Nat /\ s \in Nat /\ q \in Nat /\ w \in Nat /\ q2 \in Nat /\ w2 \in Nat
      /\ b + q + w + s = n /\ b2 = b + new - old /\ s2 = s + more
      /\ q2 + w2 + more + new = q + w + old
      /\ Len(logged') = n
  BY <1>2, <1>3, <1>4, <1>5
<1> HIDE DEF b, s, q, w, n, b2, s2, q2, w2
<1>8. b2 + q2 + w2 + s2 = n
  BY ONLY <1>6, <1>7
<1> QED BY <1>7, <1>8 DEF b2, q2, w2, s2

LEMMA FollowsParts ==
  ASSUME NEW log, NEW early, NEW late
  PROVE  /\ \A e \in SUBSET early, l \in SUBSET late :
              Follows(log, early, late) => Follows(log, e, l)
         /\ \A e : Follows(log, early, late) /\ Follows(log, e, late)
                     => Follows(log, early \union e, late)
         /\ \A l : Follows(log, early, late) /\ Follows(log, early, l)
                     => Follows(log, early, late \union l)
         /\ Follows(log, {}, late) /\ Follows(log, early, {})
BY DEF Follows

(* if(strand_): the message waits on, is written or has no stream. *)
LEMMA DispatchKeeps ==
  ASSUME LogInv, NEW t \in Threads, Base!Dispatch(t)
  PROVE  LogInv'
<1> DEFINE m == call[t].message
<1>1. TypeInv /\ ModeInv /\ PlaceInv /\ OrderInv
  BY DEF LogInv
<1>2. /\ UNCHANGED <<strand_, stream_function_, queue, stopped, undefined, logged, written>>
      /\ call[t].pc = "dispatch"
  BY DEF Base!Dispatch, Base!At, Base!setup
<1>3. /\ call[t] # Idle /\ call[t] \in Waiting /\ m \in Nat /\ Idle \in Calls /\ Idle.pc = "idle"
      /\ m \in Base!Held /\ m \in Called /\ logged[m].by = t
  <2>1. call[t] \in Calls
    BY <1>1 DEF TypeInv
  <2>2. call[t] # Idle /\ call[t] \in Waiting /\ m \in Nat
    BY <1>2, <2>1, CallShape
  <2>3. m \in Base!Held /\ m \in Called
    BY <1>2, <2>2 DEF Base!Held, Called, Idle
  <2>4. logged[m].by = t
    BY <1>1, <1>2 DEF OrderInv
  <2> QED BY <2>2, <2>3, <2>4 DEF Idle, Base!Idle, Calls
<1>4. PICK c \in Calls :
        /\ Base!Go(t, c)
        /\ \/ /\ strand_ # "null" /\ c.pc = "post" /\ c.message = m /\ silent' = silent
           \/ /\ strand_ = "null" /\ c.pc = "direct" /\ c.message = m /\ silent' = silent
           \/ /\ c = Idle /\ silent' = silent \union {m}
  <2>1. CASE strand_ # "null"
    <3>1. [call[t] EXCEPT !.pc = "post"] = [pc |-> "post", message |-> m]
      BY <1>3 DEF Waiting
    <3>2. [pc |-> "post", message |-> m] \in Calls
      BY <1>3 DEF Calls, Waiting
    <3>3. Base!Go(t, [pc |-> "post", message |-> m]) /\ silent' = silent
      BY <2>1, <3>1 DEF Base!Dispatch
    <3> QED BY <2>1, <3>2, <3>3
  <2>2. CASE strand_ = "null" /\ stream_function_ # Base!NoStream
    <3> DEFINE d == [pc |-> "direct", message |-> m, stream |-> stream_function_]
    <3>1. d \in Calls
      BY <1>1, <1>3, <2>2 DEF TypeInv, Calls, Doing
    <3>2. Base!Go(t, d) /\ silent' = silent
      BY <2>2 DEF Base!Dispatch, Base!DoLog
    <3> QED BY <2>2, <3>1, <3>2
  <2>3. CASE strand_ = "null" /\ stream_function_ = Base!NoStream
    <3>1. Base!Go(t, Idle) /\ silent' = silent \union {m}
      BY <2>3 DEF Base!Dispatch, Base!DoLog, Idle
    <3> QED BY <1>3, <3>1
  <2> QED BY <2>1, <2>2, <2>3
<1>5. /\ call' \in [Threads -> Calls] /\ call'[t] = c
      /\ \A u \in Threads \ {t} : call'[u] = call[u]
  BY <1>1, <1>4, CallMoves
<1>6. TypeInv'
  BY <1>1, <1>2, <1>5 DEF TypeInv
<1>7. ModeInv'
  BY <1>1, <1>2, <1>3, <1>4, <1>5 DEF ModeInv
<1>8. Base!Queued' = Base!Queued /\ Base!Written' = Base!Written /\ Base!Logged' = Base!Logged
  BY <1>2 DEF Base!Queued, Base!Written, Base!Logged
<1>9. PlaceInv'
  <2>1. \A u, v \in Busy' : call'[u].message = call'[v].message => u = v
    BY <1>1, <1>3, <1>4, HeldStaysDistinct
  <2>2. m \notin silent
    BY <1>1, <1>3 DEF PlaceInv
  <2>3. c = Idle <=> silent' # silent
    BY <1>3, <1>4, <2>2
  <2>4. Cardinality(Busy') + Len(queue') + Len(written') + Cardinality(silent') = Len(logged')
    <3>1. {Len(queue), Len(written)} \subseteq Nat
      BY <1>1, MessagesAreLogged
    <3>2. CASE c = Idle
      <4>1. silent' = silent \union {m}
        BY <1>3, <1>4, <3>2
      <4>2. /\ silent' = (IF 1 = 0 THEN silent ELSE silent \union {m})
            /\ Len(queue') + Len(written') + 1 + 0 = Len(queue) + Len(written) + 1
            /\ Len(queue') \in Nat /\ Len(written') \in Nat
            /\ call[t] = Idle <=> 1 = 0
            /\ c = Idle <=> 0 = 0
        BY <1>2, <1>3, <3>1, <3>2, <4>1
      <4>3. Base!Go(t, c)
        BY <1>4
      <4> HIDE DEF m
      <4> QED BY <1>1, <1>2, <2>2, <4>2, <4>3, CountMoves
    <3>3. CASE c # Idle
      <4>1. silent' = silent
        BY <1>4, <3>3
      <4> QED BY <1>1, <1>2, <1>3, <1>4, <2>2, <3>1, <3>3, <4>1, CountMoves
    <3> QED BY <3>2, <3>3
  <2>5. CASE c = Idle
    <3>1. Base!Held' = Base!Held \ {m}
      BY <1>1, <1>3, <1>4, <2>5, HeldMoves
    <3>2. silent' = silent \union {m}
      BY <1>3, <1>4, <2>5
    <3> QED BY <1>1, <1>2, <1>3, <1>8, <2>1, <2>4, <3>1, <3>2 DEF PlaceInv
  <2>6. CASE c # Idle
    <3>1. Base!Held' = Base!Held
      BY <1>1, <1>3, <1>4, <2>6, HeldMoves
    <3>2. silent' = silent
      BY <1>4, <2>6
    <3> QED BY <1>1, <1>2, <1>3, <1>8, <2>1, <2>4, <3>1, <3>2 DEF PlaceInv
  <2> QED BY <2>5, <2>6
<1>10. OrderInv'
  <2>1. Called' \subseteq Called
    BY <1>1, <1>3, <1>4, RolesMove
  <2>2. \A u \in Threads :
          call'[u].pc \in {"dispatch", "post"} => logged'[call'[u].message].by = u
    BY <1>1, <1>2, <1>3, <1>4, <1>5 DEF OrderInv
  <2>3. /\ InLine(logged', queue') /\ InLine(logged', written')
        /\ Follows(logged', Base!Written', Called') /\ Follows(logged', Base!Queued', Called')
    BY <1>1, <1>2, <1>8, <2>1, FollowsParts DEF OrderInv
  <2>4. ~stopped' => Follows(logged', Base!Written', Base!Queued')
    BY <1>1, <1>2, <1>8 DEF OrderInv
  <2>5. CASE c.pc # "direct"
    <3>1. Running' \subseteq Running
      BY <1>1, <1>3, <1>4, <2>5, RolesMove
    <3>2. /\ Follows(logged', Base!Written', Running') /\ Follows(logged', Running', Called')
          /\ ~stopped' => Follows(logged', Running', Base!Queued')
      BY <1>1, <1>2, <1>8, <2>1, <3>1, FollowsParts DEF OrderInv
    <3> QED BY <2>2, <2>3, <2>4, <3>2 DEF OrderInv
  <2>6. CASE c.pc = "direct"
    <3>1. Running' \subseteq Running \union {m} /\ strand_ = "null"
      BY <1>1, <1>3, <1>4, <2>6, RolesMove
    <3>2. Follows(logged', Base!Written', Running')
      <4>1. Follows(logged, Base!Written, {m}) /\ Follows(logged, Base!Written, Running)
        BY <1>1, <1>3, FollowsParts DEF OrderInv
      <4> QED BY <1>2, <1>8, <3>1, <4>1 DEF Follows
    <3>3. Follows(logged', Running', Called')
      <4>1. \A b \in Called' : logged[b].by # t
        BY <1>1, <1>4, <2>6, RolesMove
      <4>2. Follows(logged, Running, Called)
        BY <1>1 DEF OrderInv
      <4> QED BY <1>2, <1>3, <2>1, <3>1, <4>1, <4>2 DEF Follows
    <3>4. ~stopped' => Follows(logged', Running', Base!Queued')
      <4>1. ASSUME ~stopped
            PROVE  Base!Queued = {}
        BY <1>1, <3>1, <4>1 DEF ModeInv, Base!Queued
      <4> QED BY <1>2, <1>8, <4>1, FollowsParts
    <3> QED BY <2>2, <2>3, <2>4, <3>2, <3>3, <3>4 DEF OrderInv
  <2> QED BY <2>5, <2>6
<1> QED BY <1>6, <1>7, <1>9, <1>10 DEF LogInv

(* A line stays one when the last comes to its end or its first leaves.    *)
Distinct(line) == \A i, j \in DOMAIN line : line[i].message = line[j].message => i = j

LEMMA LineGrows ==
  ASSUME NEW log, NEW S, NEW line \in Seq(S), NEW e \in S
  PROVE  /\ InLine(log, line) /\ Follows(log, Messages(line), {e.message})
              => InLine(log, Append(line, e))
         /\ Distinct(line) /\ e.message \notin Messages(line) => Distinct(Append(line, e))
<1> DEFINE l == Append(line, e)
           k == Len(line) + 1
<1>1. /\ DOMAIN l = DOMAIN line \union {k} /\ l[k] = e
      /\ \A i \in DOMAIN line : l[i] = line[i] /\ i < k /\ i \in Nat
      /\ k \in Nat
  OBVIOUS
<1>2. \A i \in DOMAIN line : line[i].message \in Messages(line)
  BY DEF Messages
<1> HIDE DEF l, k
<1>3. ASSUME InLine(log, line), Follows(log, Messages(line), {e.message})
      PROVE  InLine(log, l)
  <2> SUFFICES ASSUME NEW i \in DOMAIN l, NEW j \in DOMAIN l, i < j,
                      log[l[i].message].by = log[l[j].message].by
               PROVE  l[i].message < l[j].message
    BY DEF InLine
  <2>1. i \in DOMAIN line /\ l[i] = line[i]
    BY <1>1
  <2>2. CASE j = k
    BY <1>1, <1>2, <1>3, <2>1, <2>2 DEF Follows
  <2>3. CASE j # k
    BY <1>1, <1>3, <2>1, <2>3 DEF InLine
  <2> QED BY <2>2, <2>3
<1>4. ASSUME Distinct(line), e.message \notin Messages(line)
      PROVE  Distinct(l)
  <2> SUFFICES ASSUME NEW i \in DOMAIN l, NEW j \in DOMAIN l, l[i].message = l[j].message
               PROVE  i = j
    BY DEF Distinct
  <2>1. CASE i \in DOMAIN line /\ j \in DOMAIN line
    BY <1>1, <1>4, <2>1 DEF Distinct
  <2>2. CASE i = k /\ j = k
    BY <2>2
  <2>3. CASE (i = k /\ j \in DOMAIN line) \/ (j = k /\ i \in DOMAIN line)
    BY <1>1, <1>2, <1>4, <2>3
  <2> QED BY <1>1, <2>1, <2>2, <2>3
<1> QED BY <1>3, <1>4 DEF l

LEMMA LineShrinks ==
  ASSUME NEW log, NEW S, NEW line \in Seq(S), line # <<>>
  PROVE  /\ InLine(log, line) =>
              /\ InLine(log, Tail(line))
              /\ Follows(log, {Head(line).message}, Messages(Tail(line)))
         /\ Distinct(line) => Distinct(Tail(line))
<1>1. /\ \A i \in DOMAIN Tail(line) :
           i + 1 \in DOMAIN line /\ Tail(line)[i] = line[i + 1] /\ 1 < i + 1 /\ i \in Nat
      /\ 1 \in DOMAIN line /\ Head(line) = line[1]
  OBVIOUS
<1>2. ASSUME InLine(log, line) PROVE InLine(log, Tail(line))
  <2> SUFFICES ASSUME NEW i \in DOMAIN Tail(line), NEW j \in DOMAIN Tail(line), i < j,
                      log[Tail(line)[i].message].by = log[Tail(line)[j].message].by
               PROVE  Tail(line)[i].message < Tail(line)[j].message
    BY DEF InLine
  <2>1. /\ i + 1 \in DOMAIN line /\ j + 1 \in DOMAIN line /\ i + 1 < j + 1
        /\ Tail(line)[i] = line[i + 1] /\ Tail(line)[j] = line[j + 1]
    BY <1>1
  <2> QED BY <1>2, <2>1 DEF InLine
<1>3. ASSUME InLine(log, line)
      PROVE  Follows(log, {Head(line).message}, Messages(Tail(line)))
  <2> SUFFICES ASSUME NEW i \in DOMAIN Tail(line),
                      log[line[1].message].by = log[Tail(line)[i].message].by
               PROVE  line[1].message < Tail(line)[i].message
    BY <1>1 DEF Follows, Messages
  <2> QED BY <1>1, <1>3 DEF InLine
<1>4. ASSUME Distinct(line) PROVE Distinct(Tail(line))
  <2> SUFFICES ASSUME NEW i \in DOMAIN Tail(line), NEW j \in DOMAIN Tail(line),
                      Tail(line)[i].message = Tail(line)[j].message
               PROVE  i = j
    BY DEF Distinct
  <2>1. i + 1 = j + 1 /\ i \in Nat /\ j \in Nat
    BY <1>1, <1>4 DEF Distinct
  <2> QED BY <2>1
<1> QED BY <1>2, <1>3, <1>4

(* The strand is there, and the message goes to the end of the queue.      *)
LEMMA PostKeeps ==
  ASSUME LogInv, NEW t \in Threads, Base!Post(t)
  PROVE  LogInv'
<1> DEFINE m == call[t].message
           e == [message |-> m, stream |-> stream_function_]
<1>1. TypeInv /\ ModeInv /\ PlaceInv /\ OrderInv
  BY DEF LogInv
<1>2. call[t].pc = "post" /\ strand_ = "live"
  <2>1. call[t].pc = "post"
    BY DEF Base!Post, Base!At
  <2> QED BY <1>1, <2>1 DEF ModeInv, TypeInv
<1>3. /\ UNCHANGED <<strand_, stream_function_, stopped, undefined, logged, written, silent>>
      /\ queue' = Append(queue, e) /\ Base!Go(t, Idle)
  BY <1>2 DEF Base!Post, Base!setup, Base!history, Base!Bound, Idle
<1>4. /\ call[t] # Idle /\ m \in Nat /\ Idle \in Calls /\ Idle.pc = "idle"
      /\ m \in Base!Held /\ m \in Called /\ logged[m].by = t /\ e \in Bound
  <2>1. call[t] \in Calls
    BY <1>1 DEF TypeInv
  <2>2. call[t] # Idle /\ m \in Nat
    BY <1>2, <2>1, CallShape
  <2>3. m \in Base!Held /\ m \in Called
    BY <1>2, <2>2 DEF Base!Held, Called, Idle
  <2>4. logged[m].by = t
    BY <1>1, <1>2 DEF OrderInv
  <2>5. e \in Bound
    BY <1>1, <2>2 DEF TypeInv, Bound
  <2> QED BY <2>2, <2>3, <2>4, <2>5 DEF Idle, Base!Idle, Calls
<1>5. /\ call' \in [Threads -> Calls] /\ call'[t] = Idle
      /\ \A u \in Threads \ {t} : call'[u] = call[u]
  BY <1>1, <1>3, <1>4, CallMoves
<1>6. queue \in Seq(Bound) /\ Len(queue) \in Nat /\ Len(written) \in Nat
  BY <1>1, MessagesAreLogged DEF TypeInv
<1>7. /\ queue' \in Seq(Bound) /\ Len(queue') = Len(queue) + 1
      /\ Base!Queued' = Base!Queued \union {m}
      /\ Base!Written' = Base!Written /\ Base!Logged' = Base!Logged
  <2>1. queue' \in Seq(Bound)
    BY <1>3, <1>4, <1>6
  <2>2. /\ Messages(queue') = Messages(queue) \union {m}
        /\ Len(queue') = Len(queue) + 1
    BY <1>3, <1>4, <1>6, MessagesAppend
  <2>3. Base!Queued' = Messages(queue') /\ Base!Queued = Messages(queue)
    BY DEF Base!Queued, Messages
  <2> QED BY <1>3, <2>1, <2>2, <2>3 DEF Base!Written, Base!Logged
<1> HIDE DEF m, e
<1>8. TypeInv'
  BY <1>1, <1>3, <1>5, <1>7 DEF TypeInv
<1>9. ModeInv'
  BY <1>1, <1>2, <1>3, <1>4, <1>5 DEF ModeInv
<1>10. PlaceInv'
  <2>1. \A u, v \in Busy' : call'[u].message = call'[v].message => u = v
    BY <1>1, <1>3, <1>4, HeldStaysDistinct
  <2>2. m \notin silent /\ m \notin Base!Queued /\ m \notin Base!Written
    BY <1>1, <1>4 DEF PlaceInv
  <2>3. \A i, j \in DOMAIN queue' : queue'[i].message = queue'[j].message => i = j
    <3>1. Distinct(queue) /\ e.message \notin Messages(queue)
      BY <1>1, <2>2, PlacesAreMessages DEF PlaceInv, Distinct, e
    <3>2. Distinct(queue')
      BY <1>3, <1>4, <1>6, <3>1, LineGrows
    <3> QED BY <3>2 DEF Distinct
  <2>4. Cardinality(Busy') + Len(queue') + Len(written') + Cardinality(silent') = Len(logged')
    <3>1. /\ silent' = (IF 0 = 0 THEN silent ELSE silent \union {m})
          /\ Len(queue') + Len(written') + 0 + 0 = Len(queue) + Len(written) + 1
          /\ Len(queue') \in Nat /\ Len(written') \in Nat
          /\ call[t] = Idle <=> 1 = 0
          /\ Idle = Idle <=> 0 = 0
      BY <1>3, <1>4, <1>6, <1>7
    <3> QED BY <1>1, <1>3, <1>4, <2>2, <3>1, CountMoves
  <2>5. Base!Held' = Base!Held \ {m}
    BY <1>1, <1>3, <1>4, HeldMoves DEF m
  <2> QED BY <1>1, <1>3, <1>4, <1>7, <2>1, <2>2, <2>3, <2>4, <2>5 DEF PlaceInv
<1>11. OrderInv'
  <2>1. /\ Called' \subseteq Called /\ Running' \subseteq Running
        /\ \A b \in Called' : logged[b].by # t
    BY <1>1, <1>3, <1>4, RolesMove
  <2>2. \A u \in Threads :
          call'[u].pc \in {"dispatch", "post"} => logged'[call'[u].message].by = u
    BY <1>1, <1>3, <1>4, <1>5 DEF OrderInv
  <2>3. InLine(logged', queue') /\ InLine(logged', written')
    <3>1. InLine(logged, queue) /\ Follows(logged, Messages(queue), {e.message})
      BY <1>1, <1>4, FollowsParts, PlacesAreMessages DEF OrderInv, e
    <3>2. InLine(logged, queue')
      BY <1>3, <1>4, <1>6, <3>1, LineGrows
    <3> QED BY <1>1, <1>3, <3>2 DEF OrderInv
  <2>4. /\ Follows(logged', Base!Written', Running') /\ Follows(logged', Base!Written', Called')
        /\ Follows(logged', Running', Called')
    BY <1>1, <1>3, <1>7, <2>1, FollowsParts DEF OrderInv
  <2>5. Follows(logged', Base!Queued', Called')
    <3>1. Follows(logged, Base!Queued, Called)
      BY <1>1 DEF OrderInv
    <3> QED BY <1>3, <1>4, <1>7, <2>1, <3>1 DEF Follows
  <2>6. ASSUME ~stopped'
        PROVE  /\ Follows(logged', Base!Written', Base!Queued')
               /\ Follows(logged', Running', Base!Queued')
    <3>1. /\ Follows(logged, Base!Written, Base!Queued)
          /\ Follows(logged, Running, Base!Queued)
          /\ Follows(logged, Base!Written, {m}) /\ Follows(logged, Running, {m})
      BY <1>1, <1>3, <1>4, <2>6, FollowsParts DEF OrderInv
    <3> QED BY <1>3, <1>7, <2>1, <3>1 DEF Follows
  <2> QED BY <2>2, <2>3, <2>4, <2>5, <2>6 DEF OrderInv
<1> QED BY <1>8, <1>9, <1>10, <1>11 DEF LogInv

(* At most one thread writes. *)
LEMMA OneWrites ==
  ASSUME TypeInv, ModeInv, NEW t \in Threads, NEW u \in Threads,
         Base!Writing(t), Base!Writing(u)
  PROVE  t = u
<1>1. CASE strand_ = "live"
  BY <1>1 DEF ModeInv, Base!Writing
<1>2. CASE strand_ # "live"
  BY <1>2 DEF ModeInv, Base!Writing
<1> QED BY <1>1, <1>2

(* A thread takes the oldest message of the queue, and writes it or finds  *)
(* that it was dispatched without a stream.                                *)
LEMMA RunQueuedKeeps ==
  ASSUME LogInv, NEW t \in Threads, Base!RunQueued(t)
  PROVE  LogInv'
<1> DEFINE e == Head(queue)
           m == e.message
<1>1. TypeInv /\ ModeInv /\ PlaceInv /\ OrderInv
  BY DEF LogInv
<1>2. /\ UNCHANGED <<strand_, stream_function_, stopped, undefined, logged, written>>
      /\ queue # <<>> /\ queue' = Tail(queue) /\ ~stopped /\ strand_ = "live"
      /\ call[t].pc = "idle" /\ \A u \in Threads : call[u].pc # "strand"
  BY <1>1 DEF Base!RunQueued, Base!At, Base!setup, Base!InStrand, ModeInv, TypeInv
<1>3. /\ queue \in Seq(Bound) /\ Len(queue) \in Nat /\ Len(written) \in Nat
      /\ e \in Bound /\ m \in Nat /\ e.stream \in Streams
      /\ call[t] = Idle /\ Idle \in Calls /\ Idle.pc = "idle"
  <2>1. queue \in Seq(Bound) /\ Len(queue) \in Nat /\ Len(written) \in Nat
    BY <1>1, MessagesAreLogged DEF TypeInv
  <2>2. e \in Bound
    BY <1>2, <2>1
  <2>3. m \in Nat /\ e.stream \in Streams
    BY <2>2 DEF Bound
  <2>4. call[t] = Idle
    BY <1>1, <1>2, CallShape DEF TypeInv
  <2> QED BY <2>1, <2>2, <2>3, <2>4 DEF Idle, Base!Idle, Calls
<1>4. PICK c \in Calls :
        /\ Base!Go(t, c)
        /\ \/ /\ c.pc = "strand" /\ c.message = m /\ c # Idle /\ silent' = silent
           \/ /\ c = Idle /\ silent' = silent \union {m}
  <2>1. CASE e.stream # Base!NoStream
    <3> DEFINE d == [pc |-> "strand", message |-> m, stream |-> e.stream]
    <3>1. d \in Calls
      BY <1>3, <2>1 DEF Calls, Doing
    <3>2. Base!Go(t, d) /\ silent' = silent
      BY <2>1 DEF Base!RunQueued, Base!DoLog
    <3>3. d # Idle
      BY <3>1, CallShape
    <3> QED BY <3>1, <3>2, <3>3
  <2>2. CASE e.stream = Base!NoStream
    <3>1. Base!Go(t, Idle) /\ silent' = silent \union {m}
      BY <2>2 DEF Base!RunQueued, Base!DoLog, Idle
    <3> QED BY <1>3, <3>1
  <2> QED BY <2>1, <2>2
<1>5. /\ call' \in [Threads -> Calls] /\ call'[t] = c
      /\ \A u \in Threads \ {t} : call'[u] = call[u]
  BY <1>1, <1>4, CallMoves
<1>6. Distinct(queue) /\ InLine(logged, queue)
  BY <1>1 DEF PlaceInv, OrderInv, Distinct
<1>7. /\ queue' \in Seq(Bound) /\ Len(queue') = Len(queue) - 1 /\ Len(queue') \in Nat
      /\ Base!Queued' = Base!Queued \ {m} /\ m \in Base!Queued
      /\ Base!Written' = Base!Written /\ Base!Logged' = Base!Logged
  <2>1. queue' \in Seq(Bound) /\ Len(queue') \in Nat
    BY <1>2, <1>3
  <2>2. /\ Messages(queue') = Messages(queue) \ {m} /\ m \in Messages(queue)
        /\ Len(queue') = Len(queue) - 1
    BY <1>2, <1>3, <1>6, MessagesTail DEF Distinct
  <2>3. Base!Queued' = Messages(queue') /\ Base!Queued = Messages(queue)
    BY DEF Base!Queued, Messages
  <2> QED BY <1>2, <2>1, <2>2, <2>3 DEF Base!Written, Base!Logged
<1>8. /\ Distinct(queue') /\ InLine(logged, queue')
      /\ Follows(logged, {m}, Base!Queued')
  <2>1. /\ Distinct(Tail(queue)) /\ InLine(logged, Tail(queue))
        /\ Follows(logged, {m}, Messages(Tail(queue)))
    BY <1>2, <1>3, <1>6, LineShrinks
  <2>2. Base!Queued' = Messages(queue')
    BY DEF Base!Queued, Messages
  <2> QED BY <1>2, <2>1, <2>2
<1> HIDE DEF m, e
<1>9. TypeInv'
  BY <1>1, <1>2, <1>5, <1>7 DEF TypeInv
<1>10. ModeInv'
  <2>1. /\ strand_' = "live" /\ c.pc \in {"strand", "idle"}
    BY <1>2, <1>3, <1>4
  <2>2. \A u \in Threads : call'[u].pc # "direct"
    BY <1>1, <1>2, <1>5, <2>1 DEF ModeInv
  <2>3. \A u, v \in Threads : call'[u].pc = "strand" /\ call'[v].pc = "strand" => u = v
    BY <1>2, <1>5
  <2> QED BY <2>1, <2>2, <2>3 DEF ModeInv
<1>11. PlaceInv'
  <2>1. m \notin silent /\ m \notin Base!Held /\ m \notin Base!Written
    BY <1>1, <1>7 DEF PlaceInv
  <2>2. \A u, v \in Busy' : call'[u].message = call'[v].message => u = v
    BY <1>1, <1>4, <2>1, HeldStaysDistinct
  <2>3. \A i, j \in DOMAIN queue' : queue'[i].message = queue'[j].message => i = j
    BY <1>8 DEF Distinct
  <2>4. CASE c = Idle
    <3>1. silent' = silent \union {m}
      BY <1>3, <1>4, <2>4
    <3>2. Base!Held' = Base!Held
      <4>1. call' = call
        BY <1>1, <1>3, <1>5, <2>4 DEF TypeInv
      <4> QED BY <4>1 DEF Base!Held
    <3>3. Cardinality(Busy') + Len(queue') + Len(written') + Cardinality(silent') = Len(logged')
      <4>1. /\ silent' = (IF 1 = 0 THEN silent ELSE silent \union {m})
            /\ Len(queue') + Len(written') + 1 + 0 = Len(queue) + Len(written) + 0
            /\ Len(queue') \in Nat /\ Len(written') \in Nat
            /\ call[t] = Idle <=> 0 = 0
            /\ c = Idle <=> 0 = 0
        BY <1>2, <1>3, <1>7, <2>4, <3>1
      <4>2. Base!Go(t, c)
        BY <1>4
      <4> QED BY <1>1, <1>2, <2>1, <4>1, <4>2, CountMoves
    <3> QED BY <1>1, <1>2, <1>7, <2>1, <2>2, <2>3, <3>1, <3>2, <3>3 DEF PlaceInv
  <2>5. CASE c # Idle
    <3>1. silent' = silent /\ c.message = m
      BY <1>4, <2>5
    <3>2. Base!Held' = Base!Held \union {m}
      BY <1>1, <1>3, <1>4, <2>5, <3>1, HeldMoves
    <3>3. Cardinality(Busy') + Len(queue') + Len(written') + Cardinality(silent') = Len(logged')
      <4>1. /\ silent' = (IF 0 = 0 THEN silent ELSE silent \union {m})
            /\ Len(queue') + Len(written') + 0 + 1 = Len(queue) + Len(written) + 0
            /\ Len(queue') \in Nat /\ Len(written') \in Nat
            /\ call[t] = Idle <=> 0 = 0
            /\ c = Idle <=> 1 = 0
        BY <1>2, <1>3, <1>7, <2>5, <3>1
      <4>2. Base!Go(t, c)
        BY <1>4
      <4> QED BY <1>1, <1>2, <2>1, <4>1, <4>2, CountMoves
    <3> QED BY <1>1, <1>2, <1>7, <2>1, <2>2, <2>3, <3>1, <3>2, <3>3 DEF PlaceInv
  <2> QED BY <2>4, <2>5
<1>12. OrderInv'
  <2>1. Called' \subseteq Called /\ Running' \subseteq Running \union {m}
    BY <1>1, <1>3, <1>4, RolesMove
  <2>2. \A u \in Threads :
          call'[u].pc \in {"dispatch", "post"} => logged'[call'[u].message].by = u
    BY <1>1, <1>2, <1>3, <1>4, <1>5 DEF OrderInv
  <2>3. InLine(logged', queue') /\ InLine(logged', written')
    BY <1>1, <1>2, <1>8 DEF OrderInv
  <2>4. /\ Follows(logged', Base!Written', Called') /\ Follows(logged', Base!Queued', Called')
        /\ Follows(logged', Base!Written', Base!Queued')
    BY <1>1, <1>2, <1>7, <2>1, FollowsParts DEF OrderInv
  <2>5. /\ Follows(logged, Base!Written, {m}) /\ Follows(logged, Base!Written, Running)
        /\ Follows(logged, {m}, Called) /\ Follows(logged, Running, Called)
        /\ Follows(logged, Running, Base!Queued)
    BY <1>1, <1>2, <1>7, FollowsParts DEF OrderInv
  <2>6. Follows(logged', Base!Written', Running')
    BY <1>2, <1>7, <2>1, <2>5 DEF Follows
  <2>7. Follows(logged', Running', Called')
    BY <1>2, <2>1, <2>5 DEF Follows
  <2>8. Follows(logged', Running', Base!Queued')
    BY <1>2, <1>7, <1>8, <2>1, <2>5 DEF Follows
  <2> QED BY <2>2, <2>3, <2>4, <2>6, <2>7, <2>8 DEF OrderInv
<1> QED BY <1>9, <1>10, <1>11, <1>12 DEF LogInv

(* What was being written is written; nothing else is. *)
LEMMA WriteEndsKeeps ==
  ASSUME LogInv, NEW t \in Threads, Base!WriteEnds(t)
  PROVE  LogInv'
<1> DEFINE m == call[t].message
           e == [message |-> m, stream |-> call[t].stream]
           S == [message : Nat, stream : Streams \ {Base!NoStream}]
<1>1. TypeInv /\ ModeInv /\ PlaceInv /\ OrderInv
  BY DEF LogInv
<1>2. /\ UNCHANGED <<strand_, stream_function_, queue, stopped, undefined, logged, silent>>
      /\ written' = Append(written, e) /\ Base!Go(t, Idle)
      /\ call[t].pc \in {"direct", "strand"} /\ Base!Writing(t)
  BY DEF Base!WriteEnds, Base!setup, Base!Writing, Idle
<1>3. /\ call[t] # Idle /\ m \in Nat /\ Idle \in Calls /\ Idle.pc = "idle"
      /\ m \in Base!Held /\ m \in Running /\ e \in S
  <2>1. call[t] \in Calls
    BY <1>1 DEF TypeInv
  <2>2. call[t] # Idle /\ m \in Nat /\ call[t].stream \in Streams \ {Base!NoStream}
    BY <1>2, <2>1, CallShape
  <2>3. m \in Base!Held /\ m \in Running
    BY <1>2, <2>2 DEF Base!Held, Running, Idle
  <2> QED BY <2>2, <2>3 DEF Idle, Base!Idle, Calls
<1>4. /\ call' \in [Threads -> Calls] /\ call'[t] = Idle
      /\ \A u \in Threads \ {t} : call'[u] = call[u]
  BY <1>1, <1>2, <1>3, CallMoves
<1>5. Running' = {}
  <2>1. \A u \in Threads \ {t} : call'[u].pc \notin {"direct", "strand"}
    BY <1>1, <1>2, <1>4, OneWrites DEF Base!Writing
  <2> QED BY <1>3, <1>4, <2>1 DEF Running
<1>6. written \in Seq(S) /\ Len(queue) \in Nat /\ Len(written) \in Nat
  BY <1>1, MessagesAreLogged DEF TypeInv
<1>7. /\ written' \in Seq(S) /\ Len(written') = Len(written) + 1
      /\ Base!Written' = Base!Written \union {m}
      /\ Base!Queued' = Base!Queued /\ Base!Logged' = Base!Logged
  <2>1. written' \in Seq(S)
    BY <1>2, <1>3, <1>6
  <2>2. /\ Messages(written') = Messages(written) \union {e.message}
        /\ Len(written') = Len(written) + 1
    <3> HIDE DEF S, e
    <3> QED BY <1>2, <1>3, <1>6, MessagesAppend
  <2>3. Base!Written' = Messages(written') /\ Base!Written = Messages(written)
    BY DEF Base!Written, Messages
  <2> QED BY <1>2, <2>1, <2>2, <2>3 DEF Base!Queued, Base!Logged
<1>8. TypeInv'
  BY <1>1, <1>2, <1>4, <1>7 DEF TypeInv
<1>9. InLine(logged, written')
  <2>1. InLine(logged, written) /\ Follows(logged, Messages(written), {e.message})
    BY <1>1, <1>3, FollowsParts, PlacesAreMessages DEF OrderInv
  <2> HIDE DEF S, e
  <2> QED BY <1>2, <1>3, <1>6, <2>1, LineGrows
<1> HIDE DEF m, e, S
<1>10. ModeInv'
  BY <1>1, <1>2, <1>3, <1>4 DEF ModeInv
<1>11. PlaceInv'
  <2>1. \A u, v \in Busy' : call'[u].message = call'[v].message => u = v
    BY <1>1, <1>2, <1>3, HeldStaysDistinct
  <2>2. m \notin silent /\ m \notin Base!Queued /\ m \notin Base!Written
    BY <1>1, <1>3 DEF PlaceInv
  <2>3. Cardinality(Busy') + Len(queue') + Len(written') + Cardinality(silent') = Len(logged')
    <3>1. /\ silent' = (IF 0 = 0 THEN silent ELSE silent \union {m})
          /\ Len(queue') + Len(written') + 0 + 0 = Len(queue) + Len(written) + 1
          /\ Len(queue') \in Nat /\ Len(written') \in Nat
          /\ call[t] = Idle <=> 1 = 0
          /\ Idle = Idle <=> 0 = 0
      BY <1>2, <1>3, <1>6, <1>7
    <3> QED BY <1>1, <1>2, <1>3, <2>2, <3>1, CountMoves
  <2>4. Base!Held' = Base!Held \ {m}
    BY <1>1, <1>2, <1>3, HeldMoves DEF m
  <2> QED BY <1>1, <1>2, <1>3, <1>7, <2>1, <2>2, <2>3, <2>4 DEF PlaceInv
<1>12. OrderInv'
  <2>1. Called' \subseteq Called
    BY <1>1, <1>2, <1>3, RolesMove
  <2>2. \A u \in Threads :
          call'[u].pc \in {"dispatch", "post"} => logged'[call'[u].message].by = u
    BY <1>1, <1>2, <1>3, <1>4 DEF OrderInv
  <2>3. /\ InLine(logged', queue') /\ InLine(logged', written')
        /\ Follows(logged', Base!Queued', Called')
        /\ Follows(logged', Base!Written', Running') /\ Follows(logged', Running', Called')
        /\ Follows(logged', Running', Base!Queued')
    BY <1>1, <1>2, <1>5, <1>7, <1>9, <2>1, FollowsParts DEF OrderInv
  <2>4. /\ Follows(logged, {m}, Called) /\ Follows(logged, Base!Written, Called)
        /\ ~stopped => /\ Follows(logged, {m}, Base!Queued)
                       /\ Follows(logged, Base!Written, Base!Queued)
    BY <1>1, <1>3, FollowsParts DEF OrderInv
  <2>5. Follows(logged', Base!Written', Called')
    BY <1>2, <1>7, <2>1, <2>4 DEF Follows
  <2>6. ~stopped' => Follows(logged', Base!Written', Base!Queued')
    BY <1>2, <1>7, <2>4 DEF Follows
  <2> QED BY <2>2, <2>3, <2>5, <2>6 DEF OrderInv
<1> QED BY <1>8, <1>10, <1>11, <1>12 DEF LogInv

(* Setters change the mode between calls; nothing starts a stopped         *)
(* io_service again.                                                       *)
LEMMA SettersKeep ==
  ASSUME LogInv, Setters \/ Stop \/ UNCHANGED baseVars
  PROVE  LogInv'
<1>1. TypeInv /\ ModeInv /\ PlaceInv /\ OrderInv
  BY DEF LogInv
<1>2. UNCHANGED <<call, queue, undefined, logged, written, silent>>
  <2>1. CASE Setters
    <3>1. CASE UNCHANGED baseVars
      BY <3>1 DEF baseVars
    <3>2. CASE Base!SetAsyncMode \/ Base!DeleteStrand \/ Base!ResetStrand
      BY <3>2 DEF Base!SetAsyncMode, Base!DeleteStrand, Base!ResetStrand, Base!history
    <3>3. CASE \E stream \in Streams : Base!SetStreamFunction(stream)
      BY <3>3 DEF Base!SetStreamFunction, Base!history
    <3> QED BY <2>1, <3>1, <3>2, <3>3 DEF Setters, RegisterModule, SetThresholdLevel,
                                          SetThresholdLevelOf
  <2>2. CASE Stop
    BY <2>2 DEF Stop, Base!Stop, Base!history
  <2>3. CASE UNCHANGED baseVars
    BY <2>3 DEF baseVars
  <2> QED BY <2>1, <2>2, <2>3
<1>3. \/ /\ UNCHANGED <<strand_, stopped>> /\ stream_function_' \in Streams
      \/ /\ stopped' = TRUE /\ UNCHANGED <<strand_, stream_function_>>
      \/ /\ UNCHANGED <<stopped, stream_function_>>
         /\ \A t \in Threads : call[t].pc = "idle"
         /\ \/ strand_' = "live"
            \/ strand_' \in {"deleted", "null"} /\ stopped
  <2>1. CASE Setters
    <3>1. \A t \in Threads : call[t].pc = "idle"
      BY <2>1 DEF Setters, Base!Quiet, Base!At
    <3>2. CASE UNCHANGED baseVars
      BY <1>1, <3>2 DEF baseVars, TypeInv
    <3>3. CASE Base!SetAsyncMode
      BY <3>1, <3>3 DEF Base!SetAsyncMode
    <3>4. CASE stopped /\ (Base!DeleteStrand \/ Base!ResetStrand)
      BY <3>1, <3>4 DEF Base!DeleteStrand, Base!ResetStrand
    <3>5. CASE \E stream \in Streams : Base!SetStreamFunction(stream)
      BY <3>5 DEF Base!SetStreamFunction
    <3>6. \/ UNCHANGED baseVars \/ Base!SetAsyncMode
          \/ stopped /\ (Base!DeleteStrand \/ Base!ResetStrand)
          \/ \E stream \in Streams : Base!SetStreamFunction(stream)
      BY <2>1 DEF Setters, RegisterModule, SetThresholdLevel, SetThresholdLevelOf
    <3> QED BY <3>2, <3>3, <3>4, <3>5, <3>6
  <2>2. CASE Stop
    BY <2>2 DEF Stop, Base!Stop, Base!setup
  <2>3. CASE UNCHANGED baseVars
    BY <1>1, <2>3 DEF baseVars, TypeInv
  <2> QED BY <2>1, <2>2, <2>3
<1>4. TypeInv'
  <2>1. /\ strand_' \in {"null", "live", "deleted"} /\ stream_function_' \in Streams
        /\ stopped' \in BOOLEAN
    BY <1>1, <1>3 DEF TypeInv
  <2> QED BY <1>1, <1>2, <2>1 DEF TypeInv
<1>5. ModeInv'
  <2>1. CASE UNCHANGED <<strand_, stopped>>
    BY <1>1, <1>2, <2>1 DEF ModeInv
  <2>2. CASE stopped' = TRUE /\ UNCHANGED strand_
    BY <1>1, <1>2, <2>2 DEF ModeInv
  <2>3. CASE /\ UNCHANGED stopped /\ \A t \in Threads : call[t].pc = "idle"
             /\ strand_' = "live" \/ (strand_' \in {"deleted", "null"} /\ stopped)
    BY <1>2, <2>3 DEF ModeInv
  <2> QED BY <1>3, <2>1, <2>2, <2>3
<1>6. /\ Base!Held' = Base!Held /\ Base!Queued' = Base!Queued /\ Base!Written' = Base!Written
      /\ Base!Logged' = Base!Logged /\ Running' = Running /\ Called' = Called
      /\ Busy' = Busy
  BY <1>2 DEF Base!Held, Base!Queued, Base!Written, Base!Logged, Running, Called, Busy,
              Idle, Base!Idle
<1>7. PlaceInv'
  BY <1>1, <1>2, <1>6 DEF PlaceInv
<1>8. OrderInv'
  <2>1. stopped => stopped'
    BY <1>3
  <2> QED BY <1>1, <1>2, <1>6, <2>1 DEF OrderInv
<1> QED BY <1>4, <1>5, <1>7, <1>8 DEF LogInv

(* The levels of the macros are levels. *)
LEMMA MacrosUseThresholds ==
  ASSUME NEW letter \in Letters
  PROVE  MacroLevel[letter] \in Thresholds
BY ModuleLoggerAssumption

LEMMA LogInvStep == LogInv /\ [Next]_vars => LogInv'
<1> SUFFICES ASSUME LogInv, [Next]_vars PROVE LogInv'
  OBVIOUS
<1>1. CASE Setters \/ Stop
  BY <1>1, SettersKeep
<1>2. CASE UNCHANGED vars
  BY <1>2, SettersKeep DEF vars
<1>3. ASSUME NEW t \in Threads, Logging(t) PROVE LogInv'
  <2>1. PICK letter \in Letters : Base!Log(t, MacroLevel[letter])
    BY <1>3 DEF Logging, Log
  <2>2. strand_ = "live" \/ (strand_ = "null" /\ t = Main)
    BY <1>3 DEF Logging
  <2> QED BY <2>1, <2>2, MacrosUseThresholds, LogKeeps
<1>4. ASSUME NEW t \in Threads, Goes(t) PROVE LogInv'
  BY <1>4, DispatchKeeps, PostKeeps, WriteEndsKeeps DEF Goes
<1>5. ASSUME NEW t \in Threads, RunQueued(t) PROVE LogInv'
  BY <1>5, RunQueuedKeeps DEF RunQueued
<1>6. ASSUME NEW t \in Threads, QueuedEnds(t) PROVE LogInv'
  BY <1>6, WriteEndsKeeps DEF QueuedEnds
<1> QED BY <1>1, <1>2, <1>3, <1>4, <1>5, <1>6 DEF Next

LEMMA SameCardinality == \A S : Base!Cardinality(S) = Cardinality(S)
BY DEF Base!Cardinality, Cardinality

LEMMA LogInvImplies == LogInv => WrittenInOrder
<1> SUFFICES ASSUME LogInv PROVE WrittenInOrder
  OBVIOUS
<1>1. TypeInv /\ ModeInv /\ PlaceInv /\ OrderInv
  BY DEF LogInv
<1>2. /\ Base!Held \subseteq Base!Logged /\ Base!Queued \subseteq Base!Logged
      /\ Base!Written \subseteq Base!Logged /\ silent \subseteq Base!Logged
  BY <1>1 DEF PlaceInv
<1>3. Base!TypeOK
  <2>1. queue \in Seq(Base!Binding)
    <3>1. queue \in Seq(Bound)
      BY <1>1 DEF TypeInv
    <3>2. ASSUME NEW i \in DOMAIN queue
          PROVE  queue[i] \in Base!Binding
      <4>1. queue[i] \in Bound
        BY <3>1
      <4>2. queue[i].message \in Base!Logged
        BY <1>2 DEF Base!Queued
      <4> QED BY <4>1, <4>2 DEF Bound, Base!Binding
    <3> QED BY <3>1, <3>2
  <2>2. \A i \in DOMAIN written : /\ written[i] \in Base!Binding
                                  /\ written[i].stream # Base!NoStream
    <3> TAKE i \in DOMAIN written
    <3> DEFINE S == [message : Nat, stream : Streams \ {Base!NoStream}]
    <3>1. written[i] \in S
      <4>1. written \in Seq(S)
        BY <1>1 DEF TypeInv
      <4> HIDE DEF S
      <4> QED BY <4>1
    <3>2. written[i].message \in Base!Logged
      BY <1>2 DEF Base!Written
    <3> QED BY <3>1, <3>2 DEF Base!Binding
  <2>3. \A t \in Threads : call[t] # Base!Idle => call[t].message \in Base!Logged
    BY <1>2 DEF Base!Held
  <2>4. 0 \in Thresholds \union {Base!Level.trace}
    BY DEF Base!Level
  <2>5. strand_ \in {"null", "live", "deleted"} /\ stream_function_ \in Streams
    BY <1>1 DEF TypeInv
  <2> QED BY <1>2, <2>1, <2>2, <2>3, <2>4, <2>5 DEF Base!TypeOK
<1>4. Cardinality({t \in Threads : Base!Writing(t)}) <= 1
  <2>1. CASE {t \in Threads : Base!Writing(t)} = {}
    BY <2>1, FS_EmptySet
  <2>2. CASE {t \in Threads : Base!Writing(t)} # {}
    <3>1. PICK t \in Threads : Base!Writing(t)
      BY <2>2
    <3>2. {u \in Threads : Base!Writing(u)} = {t}
      BY <1>1, <3>1, OneWrites
    <3> QED BY <3>2, FS_Singleton
  <2> QED BY <2>1, <2>2
<1>5. \A i, j \in DOMAIN written :
        i < j /\ logged[written[i].message].by = logged[written[j].message].by
          => written[i].message < written[j].message
  BY <1>1 DEF OrderInv, InLine
<1>6. /\ Base!Held \union Base!Queued \union Base!Written \union silent = Base!Logged
      /\ Cardinality({t \in Threads : call[t] # Base!Idle}) + Len(queue) + Len(written)
           + Cardinality(silent) = Len(logged)
  BY <1>1 DEF PlaceInv, Busy, Idle
<1> QED BY <1>3, <1>4, <1>5, <1>6, SameCardinality DEF WrittenInOrder, Base!WrittenInOrder

(* However many threads log, and whichever of them run the strand, one     *)
(* message is written at a time, the messages of a thread are written in   *)
(* the order it logged them, also over a change of mode, and none is lost  *)
(* or written twice.                                                       *)
THEOREM MessagesAreWrittenInOrder == Spec => []WrittenInOrder
<1>1. Spec => []LogInv
  BY LogInvInit, LogInvStep, PTL DEF Spec
<1> QED BY <1>1, LogInvImplies, PTL

-----------------------------------------------------------------------------
(* The logger of modules is a logger with the lowest of their thresholds.  *)

Known == DOMAIN requested

(* The thresholds in use are those last asked for. *)
RequestedInv == Known # {} /\ requested \in [Known -> Thresholds] /\ modules_ = requested

LEMMA LowestOf ==
  ASSUME NEW S \in SUBSET Thresholds, S # {}
  PROVE  Min(S) \in S /\ \A level \in S : Min(S) <= level
<1>1. S \subseteq 0 .. 5
  BY ModuleLoggerAssumption DEF Level, Base!Level
<1>2. PICK any \in S : any \in 0 .. 5
  BY <1>1
<1>3. \E low \in S : \A level \in S : low <= level
  <2>1. CASE 0 \in S
    BY <1>1, <2>1
  <2>2. CASE 0 \notin S /\ 1 \in S
    BY <1>1, <2>2
  <2>3. CASE 0 \notin S /\ 1 \notin S /\ 2 \in S
    BY <1>1, <2>3
  <2>4. CASE 0 \notin S /\ 1 \notin S /\ 2 \notin S /\ 3 \in S
    BY <1>1, <2>4
  <2>5. CASE 0 \notin S /\ 1 \notin S /\ 2 \notin S /\ 3 \notin S
    <3>1. \A level \in S : level = 4 \/ level = 5
      BY <1>1, <2>5
    <3> QED BY <1>2, <3>1
  <2> QED BY <2>1, <2>2, <2>3, <2>4, <2>5
<1> QED BY <1>3 DEF Min

LEMMA LowestOfRequested ==
  ASSUME NEW levels, DOMAIN levels # {}, levels \in [DOMAIN levels -> Thresholds]
  PROVE  LET S == {levels[m] : m \in DOMAIN levels} IN
         Min(S) \in Thresholds /\ \A m \in DOMAIN levels : Min(S) <= levels[m]
<1> DEFINE S == {levels[m] : m \in DOMAIN levels}
<1>1. S \in SUBSET Thresholds /\ S # {}
  OBVIOUS
<1>2. Min(S) \in S /\ \A level \in S : Min(S) <= level
  BY <1>1, LowestOf
<1> QED BY <1>1, <1>2

LEMMA ThresholdsAreNumbers == Thresholds \subseteq Int
BY ModuleLoggerAssumption DEF Level, Base!Level

LEMMA TraceIsThreshold == Level.trace \in Thresholds /\ Level.trace = 0
BY ModuleLoggerAssumption DEF Level, Base!Level

LEMMA RequestedInvInit == Init => RequestedInv /\ Lowest = Level.trace
<1> SUFFICES ASSUME Init PROVE RequestedInv /\ Lowest = Level.trace
  OBVIOUS
<1>1. PICK known \in (SUBSET Modules) \ {{}} :
        modules_ = [m \in known |-> Level.trace] /\ requested = modules_
  BY DEF Init
<1>2. RequestedInv
  BY <1>1, TraceIsThreshold DEF RequestedInv, Known
<1>3. {requested[m] : m \in DOMAIN requested} = {Level.trace}
  BY <1>1
<1>4. Min({Level.trace}) \in {Level.trace}
  BY TraceIsThreshold, LowestOf
<1> QED BY <1>2, <1>3, <1>4 DEF Lowest

(* A setter of thresholds gives the lowest of them some value. *)
LEMMA RequestedInvStep ==
  ASSUME RequestedInv, [Next]_vars
  PROVE  RequestedInv'
<1>1. ASSUME NEW m \in Modules, RegisterModule(m) PROVE RequestedInv'
  <2>1. requested' = [x \in Known \union {m} |->
                        IF x \in Known THEN requested[x] ELSE Level.trace]
    BY <1>1 DEF RegisterModule, Inserted, Known
  <2>2. modules_' = [x \in Known \union {m} |->
                        IF x \in Known THEN requested[x] ELSE Level.trace]
    BY <1>1 DEF RegisterModule, Inserted, Known, RequestedInv
  <2>3. Known' = Known \union {m}
    BY <2>1 DEF Known
  <2> QED BY <2>1, <2>2, <2>3, TraceIsThreshold DEF RequestedInv
<1>2. ASSUME NEW l \in Thresholds, SetThresholdLevel(l) PROVE RequestedInv'
  BY <1>2 DEF SetThresholdLevel, RequestedInv, Known
<1>3. ASSUME NEW l \in Thresholds, NEW m \in Modules, SetThresholdLevelOf(m, l)
      PROVE  RequestedInv'
  BY <1>3 DEF SetThresholdLevelOf, RequestedInv, Known
<1>4. ASSUME UNCHANGED <<modules_, requested>> PROVE RequestedInv'
  BY <1>4 DEF RequestedInv, Known
<1>5. CASE Setters
  BY <1>1, <1>2, <1>3, <1>4, <1>5 DEF Setters
<1>6. ASSUME NEW t \in Threads, Logging(t) \/ Goes(t) \/ RunQueued(t) \/ QueuedEnds(t)
      PROVE  UNCHANGED <<modules_, requested>>
  BY <1>6 DEF Logging, Log, Goes, RunQueued, QueuedEnds
<1>7. CASE Stop \/ UNCHANGED vars
  BY <1>4, <1>7 DEF Stop, vars
<1> QED BY <1>4, <1>5, <1>6, <1>7 DEF Next

(* What a setter does to the logger of modules, Logger's setter does. *)
LEMMA SettersRefine ==
  ASSUME RequestedInv, RequestedInv', Setters
  PROVE  [Basic!Next]_Basic!vars
<1>1. Basic!Quiet
  BY DEF Setters, Base!Quiet, Basic!Quiet, Base!At, Basic!At
<1>2. Lowest' \in Thresholds
  BY LowestOfRequested DEF Lowest, RequestedInv, Known
<1>3. ASSUME UNCHANGED baseVars
      PROVE  Basic!SetThresholdLevel(Lowest')
  BY <1>3 DEF baseVars, Basic!SetThresholdLevel, Basic!history
<1>4. ASSUME UNCHANGED baseVars
      PROVE  Basic!Next
  BY <1>1, <1>2, <1>3, <1>4 DEF Basic!Next, Basic!Setters
<1>5. ASSUME requested' = requested
      PROVE  Lowest' = Lowest
  BY <1>5 DEF Lowest
<1>6. ASSUME Base!SetAsyncMode, ~stopped /\ strand_ = "null", requested' = requested
      PROVE  Basic!Next
  <2>1. Basic!SetAsyncMode
    BY <1>5, <1>6 DEF Base!SetAsyncMode, Basic!SetAsyncMode, Base!history, Basic!history
  <2> QED BY <1>1, <1>6, <2>1 DEF Basic!Next, Basic!Setters
<1>7. ASSUME Base!DeleteStrand \/ Base!ResetStrand, stopped, requested' = requested
      PROVE  Basic!Next
  <2>1. Basic!DeleteStrand \/ Basic!ResetStrand
    BY <1>5, <1>7 DEF Base!DeleteStrand, Basic!DeleteStrand, Base!ResetStrand,
                      Basic!ResetStrand, Base!history, Basic!history
  <2> QED BY <1>1, <1>7, <2>1 DEF Basic!Next, Basic!Setters
<1>8. ASSUME NEW stream \in Streams, Base!SetStreamFunction(stream), requested' = requested
      PROVE  Basic!Next
  <2>1. Basic!SetStreamFunction(stream)
    BY <1>5, <1>8 DEF Base!SetStreamFunction, Basic!SetStreamFunction, Base!history,
                      Basic!history
  <2> QED BY <1>1, <2>1 DEF Basic!Next, Basic!Setters
<1>9. \/ UNCHANGED baseVars
      \/ /\ requested' = requested
         /\ \/ ~stopped /\ strand_ = "null" /\ Base!SetAsyncMode
            \/ stopped /\ (Base!DeleteStrand \/ Base!ResetStrand)
            \/ \E stream \in Streams : Base!SetStreamFunction(stream)
  BY DEF Setters, RegisterModule, SetThresholdLevel, SetThresholdLevelOf
<1> QED BY <1>4, <1>6, <1>7, <1>8, <1>9

(* A message that is active for its module is active for the lowest.       *)
LEMMA LoggingRefines ==
  ASSUME RequestedInv, NEW t \in Threads, Logging(t)
  PROVE  Basic!Next
<1>1. PICK m \in Modules, letter \in Letters : Log(t, m, letter)
  BY DEF Logging
<1> DEFINE level == MacroLevel[letter]
<1>2. level \in Thresholds /\ m \in Known /\ level >= requested[m]
  BY <1>1, MacrosUseThresholds DEF Log, IsActive, RequestedInv, Known
<1>3. Lowest' = Lowest
  BY <1>1 DEF Log, Lowest
<1>4. Basic!IsActive(level)
  <2>1. Lowest \in Thresholds /\ Lowest <= requested[m]
    BY <1>2, LowestOfRequested DEF Lowest, RequestedInv, Known
  <2>2. Lowest \in Int /\ level \in Int /\ requested[m] \in Int
    BY <1>2, <2>1, ThresholdsAreNumbers DEF RequestedInv
  <2> QED BY <1>2, <2>1, <2>2 DEF Basic!IsActive
<1>5. Basic!Log(t, level)
  <2>1. Base!Log(t, level)
    BY <1>1 DEF Log
  <2> QED BY <1>3, <2>1 DEF Base!Log, Basic!Log, Base!At, Basic!At, Base!Go, Basic!Go,
                             Base!setup, Basic!setup
<1>6. strand_ = "live" \/ (strand_ = "null" /\ t = Main)
  BY DEF Logging
<1> QED BY <1>2, <1>4, <1>5, <1>6 DEF Basic!Next, Basic!Logging

(* A message goes through the same stages. *)
LEMMA StagesRefine ==
  ASSUME NEW t \in Threads, Goes(t) \/ RunQueued(t) \/ QueuedEnds(t) \/ Stop
  PROVE  Basic!Next
<1>1. Lowest' = Lowest
  BY DEF Goes, RunQueued, QueuedEnds, Stop, Lowest
<1>2. CASE Base!Dispatch(t)
  <2>1. Basic!Dispatch(t)
    BY <1>1, <1>2 DEF Base!Dispatch, Basic!Dispatch, Base!At, Basic!At, Base!Go, Basic!Go,
                      Base!DoLog, Basic!DoLog, Base!Idle, Basic!Idle, Base!NoStream,
                      Basic!NoStream, Base!setup, Basic!setup
  <2> QED BY <2>1 DEF Basic!Next, Basic!Logging
<1>3. CASE Base!Post(t)
  <2>1. Basic!Post(t)
    BY <1>1, <1>3 DEF Base!Post, Basic!Post, Base!At, Basic!At, Base!Go, Basic!Go,
                      Base!Idle, Basic!Idle, Base!Bound, Basic!Bound, Base!setup,
                      Basic!setup, Base!history, Basic!history
  <2> QED BY <2>1 DEF Basic!Next, Basic!Logging
<1>4. CASE Base!WriteEnds(t)
  <2>1. Basic!WriteEnds(t)
    BY <1>1, <1>4 DEF Base!WriteEnds, Basic!WriteEnds, Base!Writing, Basic!Writing,
                      Base!Go, Basic!Go, Base!Idle, Basic!Idle, Base!setup, Basic!setup
  <2> QED BY <2>1 DEF Basic!Next, Basic!Running
<1>5. CASE Base!RunQueued(t)
  <2>1. Basic!RunQueued(t)
    BY <1>1, <1>5 DEF Base!RunQueued, Basic!RunQueued, Base!At, Basic!At, Base!Go, Basic!Go,
                      Base!InStrand, Basic!InStrand, Base!DoLog, Basic!DoLog, Base!Idle,
                      Basic!Idle, Base!NoStream, Basic!NoStream, Base!setup, Basic!setup
  <2> QED BY <2>1 DEF Basic!Next, Basic!Running
<1>6. CASE Base!Stop
  <2>1. Basic!Stop
    BY <1>1, <1>6 DEF Base!Stop, Basic!Stop, Base!setup, Basic!setup, Base!history,
                      Basic!history
  <2> QED BY <2>1 DEF Basic!Next
<1> QED BY <1>2, <1>3, <1>4, <1>5, <1>6 DEF Goes, RunQueued, QueuedEnds, Stop

(* tmodule_logger behaves like tlogger with the lowest of the thresholds   *)
(* that were last asked for, whatever was registered or set, and in        *)
(* whatever order: nothing below it gets through.                          *)
THEOREM ModuleLoggerIsLogger == Spec => ImplementsLogger
<1>1. Init => RequestedInv /\ Basic!Init
  <2> SUFFICES ASSUME Init PROVE RequestedInv /\ Basic!Init
    OBVIOUS
  <2>1. RequestedInv /\ Lowest = Basic!Level.trace
    BY RequestedInvInit DEF Level, Base!Level, Basic!Level
  <2>2. Base!Init
    BY DEF Init
  <2> QED BY <2>1, <2>2 DEF Base!Init, Basic!Init, Base!NoStream, Basic!NoStream,
                            Base!Idle, Basic!Idle
<1>2. RequestedInv /\ [Next]_vars => RequestedInv'
  BY RequestedInvStep
<1>3. RequestedInv /\ RequestedInv' /\ [Next]_vars => [Basic!Next]_Basic!vars
  <2> SUFFICES ASSUME RequestedInv, RequestedInv', [Next]_vars
               PROVE  [Basic!Next]_Basic!vars
    OBVIOUS
  <2>1. CASE Setters
    BY <2>1, SettersRefine
  <2>2. ASSUME NEW t \in Threads, Logging(t)
        PROVE  Basic!Next
    BY <2>2, LoggingRefines
  <2>3. ASSUME NEW t \in Threads, Goes(t) \/ RunQueued(t) \/ QueuedEnds(t)
        PROVE  Basic!Next
    BY <2>3, StagesRefine
  <2>4. CASE Stop
    BY <2>4, StagesRefine, ModuleLoggerAssumption
  <2>5. CASE UNCHANGED vars
    BY <2>5 DEF vars, baseVars, Basic!vars, Basic!setup, Basic!history, Lowest
  <2> QED BY <2>1, <2>2, <2>3, <2>4, <2>5 DEF Next
<1> QED BY <1>1, <1>2, <1>3, PTL DEF Spec, ImplementsLogger, Basic!Spec

-----------------------------------------------------------------------------
(* A message that was given to the stream function for a stream is held    *)
(* for that stream until it is written there.                              *)
Kept(m, s) ==
  \/ Base!DispatchedFor(m, s)'
  \/ written' = Append(written, [message |-> m, stream |-> s])

LEMMA OthersKeep ==
  ASSUME TypeInv, NEW t \in Threads, NEW c, Base!Go(t, c),
         NEW m, NEW s, NEW u \in Threads, u # t,
         Base!Writing(u), call[u].message = m, call[u].stream = s
  PROVE  Kept(m, s)
<1>1. call'[u] = call[u]
  BY DEF Base!Go, TypeInv
<1> QED BY <1>1 DEF Kept, Base!DispatchedFor, Base!Writing

LEMMA StreamKept ==
  ASSUME TypeInv, [Next]_vars, NEW m \in Nat, NEW s \in Streams \ {Base!NoStream},
         Base!DispatchedFor(m, s)
  PROVE  Kept(m, s)
<1> DEFINE x == [message |-> m, stream |-> s]
<1>0. /\ call \in [Threads -> Calls] /\ queue \in Seq(Bound)
      /\ Len(queue) \in Nat /\ DOMAIN queue = 1 .. Len(queue)
  BY DEF TypeInv
<1>1. CASE UNCHANGED <<call, queue>>
  BY <1>1 DEF Kept, Base!DispatchedFor, Base!Writing
<1>2. ASSUME NEW t \in Threads, NEW c, Base!Go(t, c), ~Base!Writing(t),
             UNCHANGED queue
      PROVE  Kept(m, s)
  <2>1. CASE \E i \in DOMAIN queue : queue[i] = x
    BY <1>2, <2>1 DEF Kept, Base!DispatchedFor
  <2>2. CASE \E u \in Threads : /\ Base!Writing(u)
                                /\ call[u].message = m /\ call[u].stream = s
    <3>1. PICK u \in Threads : /\ Base!Writing(u)
                               /\ call[u].message = m /\ call[u].stream = s
      BY <2>2
    <3>2. u # t
      BY <1>2, <3>1
    <3> QED BY <1>2, <3>1, <3>2, OthersKeep
  <2> QED BY <2>1, <2>2 DEF Base!DispatchedFor
<1>3. ASSUME NEW t \in Threads, Base!At(t, "idle") \/ Base!At(t, "dispatch")
                                \/ Base!At(t, "post")
      PROVE  ~Base!Writing(t)
  BY <1>3 DEF Base!At, Base!Writing
<1>4. ASSUME NEW t \in Threads, Base!Post(t) PROVE Kept(m, s)
  <2>1. /\ Base!At(t, "post") /\ Base!Go(t, Base!Idle)
        /\ queue' = queue \/ \E b \in Bound : queue' = Append(queue, b)
    <3>1. CASE strand_ = "live"
      <4>1. queue' = Append(queue, Base!Bound(t)) /\ call[t].pc = "post"
        BY <1>4, <3>1 DEF Base!Post, Base!At
      <4>2. call[t] \in Waiting
        BY <1>0, <4>1 DEF Calls, Doing, Base!Idle, Idle
      <4>3. Base!Bound(t) \in Bound
        BY <4>2 DEF Waiting, Bound, Base!Bound, TypeInv
      <4> QED BY <1>4, <4>1, <4>3 DEF Base!Post
    <3>2. CASE strand_ # "live"
      BY <1>4, <3>2 DEF Base!Post
    <3> QED BY <3>1, <3>2
  <2>2. CASE queue' = queue
    BY <1>2, <1>3, <2>1, <2>2
  <2>3. CASE \E b \in Bound : queue' = Append(queue, b)
    <3>1. PICK b \in Bound : queue' = Append(queue, b)
      BY <2>3
    <3>2. ASSUME NEW i \in DOMAIN queue, queue[i] = x
          PROVE  Kept(m, s)
      <4>1. i \in DOMAIN queue' /\ queue'[i] = x
        BY <1>0, <3>1, <3>2
      <4> QED BY <4>1 DEF Kept, Base!DispatchedFor
    <3>3. ASSUME NEW u \in Threads, Base!Writing(u),
                 call[u].message = m, call[u].stream = s
          PROVE  Kept(m, s)
      BY <1>3, <2>1, <3>3, OthersKeep
    <3> QED BY <3>2, <3>3 DEF Base!DispatchedFor
  <2> QED BY <2>1, <2>2, <2>3
<1>5. ASSUME NEW t \in Threads, Base!WriteEnds(t) PROVE Kept(m, s)
  <2>1. /\ Base!Go(t, Base!Idle) /\ queue' = queue
        /\ written' = Append(written, [message |-> call[t].message,
                                       stream |-> call[t].stream])
    BY <1>5 DEF Base!WriteEnds
  <2>2. CASE \E i \in DOMAIN queue : queue[i] = x
    BY <2>1, <2>2 DEF Kept, Base!DispatchedFor
  <2>3. ASSUME NEW u \in Threads, Base!Writing(u),
               call[u].message = m, call[u].stream = s
        PROVE  Kept(m, s)
    <3>1. CASE u = t
      BY <2>1, <2>3, <3>1 DEF Kept
    <3>2. CASE u # t
      BY <2>1, <2>3, <3>2, OthersKeep
    <3> QED BY <3>1, <3>2
  <2> QED BY <2>2, <2>3 DEF Base!DispatchedFor
<1>6. ASSUME NEW t \in Threads, Base!RunQueued(t) PROVE Kept(m, s)
  <2>1. /\ Base!At(t, "idle") /\ queue # <<>> /\ queue' = Tail(queue)
        /\ Base!DoLog(t, "strand", Head(queue).message, Head(queue).stream)
    BY <1>6 DEF Base!RunQueued
  <2>2. PICK c : Base!Go(t, c)
    BY <2>1 DEF Base!DoLog
  <2>3. ASSUME NEW u \in Threads, Base!Writing(u),
               call[u].message = m, call[u].stream = s
        PROVE  Kept(m, s)
    BY <1>3, <2>1, <2>2, <2>3, OthersKeep
  <2>4. ASSUME NEW i \in DOMAIN queue, queue[i] = x
        PROVE  Kept(m, s)
    <3>1. CASE i = 1
      <4>1. Head(queue) = x /\ x.message = m /\ x.stream = s
        BY <1>0, <2>1, <2>4, <3>1
      <4>2. Base!Go(t, [pc |-> "strand", message |-> m, stream |-> s])
        BY <2>1, <4>1 DEF Base!DoLog
      <4>3. call'[t] = [pc |-> "strand", message |-> m, stream |-> s]
        BY <1>0, <4>2 DEF Base!Go
      <4> QED BY <4>3 DEF Kept, Base!DispatchedFor, Base!Writing
    <3>2. CASE i # 1
      <4>1. i - 1 \in DOMAIN queue' /\ queue'[i - 1] = x
        BY <1>0, <2>1, <2>4, <3>2
      <4> QED BY <4>1 DEF Kept, Base!DispatchedFor
    <3> QED BY <3>1, <3>2
  <2> QED BY <2>3, <2>4 DEF Base!DispatchedFor
<1>7. ASSUME NEW t \in Threads, Base!Dispatch(t) PROVE Kept(m, s)
  <2>1. Base!At(t, "dispatch") /\ queue' = queue /\ \E c : Base!Go(t, c)
    BY <1>7 DEF Base!Dispatch, Base!DoLog
  <2> QED BY <1>2, <1>3, <2>1
<1>8. ASSUME NEW t \in Threads, NEW level, Base!Log(t, level) PROVE Kept(m, s)
  <2>1. Base!At(t, "idle") /\ queue' = queue /\ \E c : Base!Go(t, c)
    BY <1>8 DEF Base!Log
  <2> QED BY <1>2, <1>3, <2>1
<1>9. CASE Setters \/ Stop \/ UNCHANGED vars
  <2>1. UNCHANGED <<call, queue>>
    BY <1>9 DEF Setters, Stop, vars, baseVars, SetThresholdLevel,
                SetThresholdLevelOf, RegisterModule, Base!SetAsyncMode,
                Base!DeleteStrand, Base!ResetStrand, Base!SetStreamFunction,
                Base!Stop
  <2> QED BY <1>1, <2>1
<1>10. ASSUME NEW t \in Threads, Logging(t) \/ Goes(t) \/ RunQueued(t) \/ QueuedEnds(t)
       PROVE  Kept(m, s)
  <2>1. Logging(t) => \E level : Base!Log(t, level)
    BY DEF Logging, Log
  <2>2. Goes(t) => Base!Dispatch(t) \/ Base!Post(t) \/ Base!WriteEnds(t)
    BY DEF Goes
  <2>3. RunQueued(t) => Base!RunQueued(t)
    BY DEF RunQueued
  <2>4. QueuedEnds(t) => Base!WriteEnds(t)
    BY DEF QueuedEnds
  <2> QED BY <1>4, <1>5, <1>6, <1>7, <1>8, <1>10, <2>1, <2>2, <2>3, <2>4
<1> QED BY <1>9, <1>10 DEF Next

(* Whatever the stream function is changed to and whatever mode is set     *)
(* meanwhile, a message stays with the stream it was dispatched for until  *)
(* it is written to it: the part of DispatchedIsWritten that needs no      *)
(* fairness.                                                               *)
THEOREM StreamIsKept ==
  Spec => [][\A m \in Nat, s \in Streams \ {Base!NoStream} :
               Base!DispatchedFor(m, s) =>
                 \/ Base!DispatchedFor(m, s)'
                 \/ written' = Append(written, [message |-> m, stream |-> s])]_vars
<1>1. TypeInv /\ [Next]_vars =>
        [\A m \in Nat, s \in Streams \ {Base!NoStream} :
           Base!DispatchedFor(m, s) =>
             \/ Base!DispatchedFor(m, s)'
             \/ written' = Append(written, [message |-> m, stream |-> s])]_vars
  BY StreamKept DEF Kept
<1>2. Spec => []LogInv
  BY LogInvInit, LogInvStep, PTL DEF Spec
<1> QED BY <1>1, <1>2, PTL DEF Spec, LogInv

=============================================================================
