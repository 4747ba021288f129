------------------------------- MODULE Logger -------------------------------
(***************************************************************************)
(* tlogger, and what tmodule_logger shares with it: a message that passes  *)
(* the threshold is written by the caller in synchronous mode, and by a    *)
(* strand of the io_service in asynchronous mode.                          *)
(*                                                                         *)
(* A message is its number, in the order of the calls.  Preprocessing, in  *)
(* the thread of the caller, is part of Log, postprocessing of WriteEnds.  *)
(***************************************************************************)
EXTENDS Integers, Sequences, FiniteSets

CONSTANTS Threads,            \* the threads that log and run the io_service
          Main,               \* the one that logs in synchronous mode
          Streams,            \* what stream functions return, NoStream too
          Thresholds,         \* bound: the levels used
          MaxLogged           \* bound: the number of messages

NoStream == "no stream"

VARIABLES
  threshold_level_,
  strand_,                    \* "null", "live" or "deleted"
  stream_function_,           \* by the stream it returns
  call,                       \* per thread, where it is in log or do_log
  queue,                      \* the do_log calls posted to the strand
  stopped,                    \* the io_service is stopped
  undefined,                  \* a null or deleted strand was used
  logged,                     \* history: the messages above the threshold
  written,                    \* history: those written, with their streams
  silent                      \* history: those whose stream was none

setup == <<threshold_level_, strand_, stream_function_>>
history == <<logged, written, silent>>
vars == <<setup, call, queue, stopped, undefined, history>>

(* The levels by their integral value. *)
Level == [trace |-> 0, debug |-> 1, information |-> 2, warning |-> 3,
          error |-> 4, fatal |-> 5]

Idle == [pc |-> "idle"]

Init ==
  /\ threshold_level_ = Level.trace
  /\ strand_ = "null"
  /\ stream_function_ \in Streams \ {NoStream}
  /\ call = [t \in Threads |-> Idle]
  /\ queue = <<>>
  /\ stopped = FALSE /\ undefined = FALSE
  /\ logged = <<>> /\ written = <<>> /\ silent = {}

-----------------------------------------------------------------------------
(* log(), one step per access to what threads share.                       *)

At(t, pc) == call[t].pc = pc /\ ~undefined
Go(t, c) == call' = [call EXCEPT ![t] = c]

(* The start of a call that passes the threshold; another one ends here.   *)
Log(t, level) ==
  /\ At(t, "idle")
  /\ Len(logged) < MaxLogged
  /\ logged' = Append(logged, [by |-> t, level |-> level])
  /\ Go(t, [pc |-> "dispatch", message |-> Len(logged')])
  /\ UNCHANGED <<setup, queue, stopped, undefined, written, silent>>

IsActive(level) == level >= threshold_level_

(* do_log begins, on thread t, with the stream function it was given.      *)
DoLog(t, pc, message, stream) ==
  \/ /\ stream # NoStream
     /\ Go(t, [pc |-> pc, message |-> message, stream |-> stream])
     /\ UNCHANGED silent
  \/ /\ stream = NoStream
     /\ Go(t, Idle)
     /\ silent' = silent \union {message}

(* Mutant: without a queue the caller writes itself. *)
DispatchShortcut(t) ==
  /\ At(t, "dispatch")
  /\ \/ /\ strand_ # "null" /\ queue # <<>>
        /\ Go(t, [call[t] EXCEPT !.pc = "post"])
        /\ UNCHANGED silent
     \/ /\ strand_ = "null" \/ queue = <<>>
        /\ DoLog(t, "direct", call[t].message, stream_function_)
  /\ UNCHANGED <<setup, queue, stopped, undefined, logged, written>>

(* if(strand_) *)
Dispatch(t) ==
  /\ At(t, "dispatch")
  /\ \/ /\ strand_ # "null"
        /\ Go(t, [call[t] EXCEPT !.pc = "post"])
        /\ UNCHANGED silent
     \/ /\ strand_ = "null"
        /\ DoLog(t, "direct", call[t].message, stream_function_)
  /\ UNCHANGED <<setup, queue, stopped, undefined, logged, written>>

Bound(t) == [message |-> call[t].message, stream |-> stream_function_]

(* strand_->post, which reads strand_ again, with copies of the functions. *)
Post(t) ==
  /\ At(t, "post")
  /\ Go(t, Idle)
  /\ \/ /\ strand_ = "live"
        /\ queue' = Append(queue, Bound(t))
        /\ UNCHANGED undefined
     \/ strand_ # "live" /\ undefined' = TRUE /\ UNCHANGED queue
  /\ UNCHANGED <<setup, stopped, history>>

-----------------------------------------------------------------------------
(* The io_service.                                                         *)

InStrand == {t \in Threads : call[t].pc = "strand"}

(* Mutant: the stream function is looked up late. *)
RunQueuedLate(t) ==
  /\ At(t, "idle") /\ ~stopped
  /\ queue # <<>> /\ InStrand = {}
  /\ queue' = Tail(queue)
  /\ DoLog(t, "strand", Head(queue).message, stream_function_)
  /\ UNCHANGED <<setup, stopped, undefined, logged, written>>

(* A thread runs the oldest call in the strand, when no other runs one.    *)
RunQueued(t) ==
  /\ At(t, "idle") /\ ~stopped
  /\ queue # <<>> /\ InStrand = {}
  /\ queue' = Tail(queue)
  /\ DoLog(t, "strand", Head(queue).message, Head(queue).stream)
  /\ UNCHANGED <<setup, stopped, undefined, logged, written>>

Writing(t) == call[t].pc \in {"direct", "strand"}

WriteEnds(t) ==
  /\ Writing(t) /\ ~undefined
  /\ Go(t, Idle)
  /\ written' = Append(written, [message |-> call[t].message,
                                 stream |-> call[t].stream])
  /\ UNCHANGED <<setup, queue, stopped, undefined, logged, silent>>

Stop ==
  /\ ~stopped
  /\ stopped' = TRUE
  /\ UNCHANGED <<setup, call, queue, undefined, history>>

-----------------------------------------------------------------------------
(* Setters.                                                                *)

SetAsyncMode ==
  /\ strand_' = "live"
  /\ UNCHANGED <<threshold_level_, stream_function_, call, queue, stopped,
                 undefined, history>>

(* set_sync_mode: delete strand_, then reset it.                           *)
DeleteStrand ==
  /\ strand_ = "live"
  /\ strand_' = "deleted"
  /\ UNCHANGED <<threshold_level_, stream_function_, call, queue, stopped,
                 undefined, history>>

ResetStrand ==
  /\ strand_ = "deleted"
  /\ strand_' = "null"
  /\ UNCHANGED <<threshold_level_, stream_function_, call, queue, stopped,
                 undefined, history>>

SetStreamFunction(stream) ==
  /\ stream_function_' = stream
  /\ UNCHANGED <<threshold_level_, strand_, call, queue, stopped, undefined,
                 history>>

SetThresholdLevel(level) ==
  /\ threshold_level_' = level
  /\ UNCHANGED <<strand_, stream_function_, call, queue, stopped, undefined,
                 history>>

-----------------------------------------------------------------------------
(* As logger.hpp wants it used: setters not during a call, one thread in   *)
(* synchronous mode, back to that only after the io_service was stopped.   *)

Quiet == \A t \in Threads : At(t, "idle")

Setters ==
  /\ Quiet
  /\ \/ ~stopped /\ strand_ = "null" /\ SetAsyncMode
     \/ stopped /\ (DeleteStrand \/ ResetStrand)
     \/ \E s \in Streams : SetStreamFunction(s)
     \/ \E l \in Thresholds : SetThresholdLevel(l)

Logging(t) ==
  \/ /\ strand_ = "live" \/ (strand_ = "null" /\ t = Main)
     /\ \E l \in Thresholds : IsActive(l) /\ Log(t, l)
  \/ Dispatch(t)
  \/ Post(t)
Running(t) == RunQueued(t) \/ WriteEnds(t)

Next == Setters \/ (\E t \in Threads : Logging(t) \/ Running(t)) \/ Stop

Spec == Init /\ [][Next]_vars

-----------------------------------------------------------------------------
(* Properties.                                                             *)

Logged == DOMAIN logged
Binding == [message : Logged, stream : Streams]

(* The variables have the types of logger.hpp, and nothing is written      *)
(* through a stream pointer that is null.                                  *)
TypeOK ==
  /\ threshold_level_ \in Thresholds \union {Level.trace}
  /\ strand_ \in {"null", "live", "deleted"}
  /\ stream_function_ \in Streams
  /\ queue \in Seq(Binding)
  /\ \A i \in DOMAIN written : written[i] \in Binding
                             /\ written[i].stream # NoStream
  /\ silent \subseteq Logged
  /\ \A t \in Threads : call[t] # Idle => call[t].message \in Logged

Held == {call[t].message : t \in {u \in Threads : call[u] # Idle}}
Queued == {queue[i].message : i \in DOMAIN queue}
Written == {written[i].message : i \in DOMAIN written}

(* However threads log, and whichever of them run the strand, one message  *)
(* is written at a time, for streams are not guarded in any other way; the *)
(* messages of a thread are written in the order it logged them, also over *)
(* a change of mode; and each message is in one place, a call, the queue,  *)
(* written or without a stream: none is lost while the modes change, nor   *)
(* written twice, and what a stopped io_service leaves is in the queue.    *)
WrittenInOrder ==
  /\ TypeOK
  /\ Cardinality({t \in Threads : Writing(t)}) <= 1
  /\ \A i, j \in DOMAIN written :
       i < j /\ logged[written[i].message].by = logged[written[j].message].by
         => written[i].message < written[j].message
  /\ Held \union Queued \union Written \union silent = Logged
  /\ Cardinality({t \in Threads : call[t] # Idle}) + Len(queue)
       + Len(written) + Cardinality(silent) = Len(logged)

(* What stream a message in hand or queued was dispatched for.             *)
DispatchedFor(m, s) ==
  \/ \E i \in DOMAIN queue : queue[i] = [message |-> m, stream |-> s]
  \/ \E t \in Threads : Writing(t) /\ call[t].message = m /\ call[t].stream = s

(* A message dispatched for a stream is written there in the end, whatever *)
(* the stream function is by then, unless the io_service is stopped first. *)
DispatchedIsWritten ==
  \A m \in 1 .. MaxLogged, s \in Streams \ {NoStream} :
    DispatchedFor(m, s) ~>
      stopped \/ \E i \in DOMAIN written :
                   written[i] = [message |-> m, stream |-> s]

=============================================================================
