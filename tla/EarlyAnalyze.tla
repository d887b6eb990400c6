---------------------------- MODULE EarlyAnalyze ----------------------------
(***************************************************************************)
(* The load of a staging database and the ANALYZE TABLE that runs beside   *)
(* it: the processlist monitor's thread, the progress tracker it feeds,    *)
(* the pool of analyze threads and the thread of the restore that waits    *)
(* for them.  A step is what a thread does between two acquisitions of a   *)
(* lock.  myloader is outside: it goes through the tables in any order.    *)
(*                                                                         *)
(* An operator with _Faulty in its name is the one after it with a         *)
(* plausible mistake, which no specification uses.                         *)
(***************************************************************************)
EXTENDS Integers, Sequences, FiniteSets

CONSTANTS
    Table,       \* tables of the backup
    Thread,      \* analyze threads, as many as myloader has
    Stop,        \* the sentinel that ends a thread
    Capacity,    \* maxsize of the queue
    Strikes,     \* polls a table is absent before its indexes count as built
    Fallback,    \* the same for a table whose data was not reported complete
    Patience     \* wait_for_completion and Thread.join do not time out

ASSUME LoadTypes ==
    /\ IsFiniteSet(Table) /\ IsFiniteSet(Thread) /\ Thread # {}
    /\ Stop \notin Table
    /\ Capacity \in Nat \ {0} /\ {Strikes, Fallback} \subseteq Nat \ {0} /\ Strikes <= Fallback
    /\ Patience \in BOOLEAN

Nothing == Stop   \* a thread that holds no table

VARIABLES
    load,      \* the tables that a statement of myloader is at
    tracker,   \* RestoreProgressTracker's record of each table
    poll,      \* the monitor: where it is, the snapshot, the events to emit
    queue,     \* EarlyAnalyzeWorker._queue
    queued,    \* _queued_tables, the tables that were offered before
    stats,     \* the counters of EarlyAnalyzeStats
    busy,      \* stats.tables_in_progress
    active,    \* _active_workers
    thread,    \* each analyze thread: where it is and the table it has
    control,   \* _myloader_active_threads, _myloader_complete, _stopping, _all_done
    main,      \* where the restore's thread is
    taken,     \* history: the tables that were taken from the queue
    missed     \* history: the polls in a row that missed a table, until it is offered

loadVars == <<load, tracker, poll, queue, queued, stats, busy, active,
              thread, control, main, taken, missed>>
poolVars == <<queue, queued, stats, busy, active, thread, taken>>

MainPhase == {"load", "notify", "check", "wait", "end", "stop", "join", "restored"}
PollPhase == {"idle", "apply", "put", "count"}
AtTable == {"mark", "analyze", "marked", "finish"}
ThreadPhase == {"idle", "ready", "got", "ended"} \cup AtTable

Track == [seen : BOOLEAN, strikes : 0..Fallback, data : BOOLEAN,
          index : BOOLEAN, complete : BOOLEAN]

EATypes ==
    /\ load \subseteq Table
    /\ tracker \in [Table -> Track]
    /\ poll \in [at : PollPhase, seen : SUBSET Table, emit : SUBSET Table]
    /\ queue \in Seq(Table \cup {Stop}) /\ queued \subseteq Table
    /\ stats \in [queued : Nat, done : Nat]
    /\ busy \subseteq Table /\ active \in Int
    /\ thread \in [Thread -> [at : ThreadPhase, table : Table \cup {Nothing}]]
    /\ control \in [loading : Nat, complete : BOOLEAN, monitorStop : BOOLEAN,
                    stopping : BOOLEAN, allDone : BOOLEAN]
    /\ main \in MainPhase /\ taken \subseteq Table /\ missed \in [Table -> 0..Fallback]

\* Every variable keeps its type; the budget counts the threads that are at a
\* table, and no two of them at the same.
EATypeOK ==
    /\ EATypes
    /\ active = Cardinality({w \in Thread : thread[w].at \in AtTable})
    /\ \A v, w \in Thread : thread[v].table = thread[w].table /\ thread[v].table # Nothing => v = w

\* Before anything of the tables is known.
Untracked == [seen |-> FALSE, strikes |-> 0, data |-> FALSE, index |-> FALSE, complete |-> FALSE]

LoadInitWith(records) ==
    /\ tracker = records
    /\ load = {}
    /\ poll = [at |-> "idle", seen |-> {}, emit |-> {}]
    /\ queue = <<>> /\ queued = {} /\ busy = {} /\ active = 0
    /\ stats = [queued |-> 0, done |-> 0]
    /\ thread = [w \in Thread |-> [at |-> "idle", table |-> Nothing]]
    /\ control = [loading |-> 0, complete |-> FALSE, monitorStop |-> FALSE,
                  stopping |-> FALSE, allDone |-> FALSE]
    /\ main = "load" /\ taken = {} /\ missed = [t \in Table |-> 0]

LoadInit == LoadInitWith([t \in Table |-> Untracked])

(***************************************************************************)
(* myloader, and the lines of its output that the restore's thread reads.  *)
(***************************************************************************)

\* A statement on a table begins or ends.  Between two statements of one
\* table (its files, its indexes) it is absent from the process list.
LoadTable(t) ==
    /\ main = "load"
    /\ load' = IF t \in load THEN load \ {t} ELSE load \cup {t}
    /\ UNCHANGED <<missed, tracker, poll, poolVars, control, main>>

\* The tracker's lock is held by the monitor's thread while it emits events.
TrackerFree == poll.at \notin {"put", "count"}

\* A file of the table is about to be restored, which makes it seen, or its
\* index is enqueued or restored, which completes its data.  What is printed
\* runs ahead of the statements and behind them.
Line(t) ==
    /\ main = "load" /\ TrackerFree
    /\ ~tracker[t].complete
    /\ \/ tracker' = [tracker EXCEPT ![t].seen = TRUE]
       \/ tracker' = [tracker EXCEPT ![t].data = TRUE]
    /\ UNCHANGED <<load, missed, poll, poolVars, control, main>>

(***************************************************************************)
(* The monitor's thread: _poll_loop, update_from_processlist, queue_table. *)
(***************************************************************************)

\* SHOW PROCESSLIST.
PollRead ==
    /\ poll.at = "idle" /\ ~control.monitorStop
    /\ poll' = [poll EXCEPT !.at = "apply", !.seen = load]
    /\ missed' = [t \in Table |-> IF tracker[t].index THEN missed[t]
                                  ELSE IF t \in load THEN 0
                                  ELSE IF missed[t] < Fallback THEN missed[t] + 1 ELSE missed[t]]
    /\ UNCHANGED <<load, tracker, poolVars, control, main>>

Seen_Faulty(r) == [r EXCEPT !.seen = TRUE]

Seen(r) == [r EXCEPT !.seen = TRUE, !.strikes = 0]

Required(r) == IF r.data THEN Strikes ELSE Fallback

\* strikes is capped where a table's indexes count as built at the latest.
Struck(r) ==
    LET n == IF r.strikes < Fallback THEN r.strikes + 1 ELSE r.strikes
        s == [r EXCEPT !.strikes = n]
    IN  IF n >= Required(r) /\ ~r.index THEN [s EXCEPT !.data = TRUE, !.index = TRUE] ELSE s

\* Once they do, the code counts on to no effect.
Polled(t) ==
    IF tracker[t].index \/ (t \notin poll.seen /\ ~tracker[t].seen) THEN tracker[t]
    ELSE IF t \in poll.seen THEN Seen(tracker[t])
    ELSE Struck(tracker[t])

PollApply ==
    /\ poll.at = "apply"
    /\ tracker' = [t \in Table |-> Polled(t)]
    /\ poll' = [poll EXCEPT !.at = "put",
                            !.emit = {t \in Table : Polled(t).index /\ ~tracker[t].index}]
    /\ UNCHANGED <<load, missed, poolVars, control, main>>

Full == Len(queue) >= Capacity

\* The counter is kept as if a full queue had room.
EmitPut_Faulty(t) ==
    /\ poll.at = "put" /\ t \in poll.emit \ queued /\ ~control.stopping
    /\ poll' = [poll EXCEPT !.emit = @ \ {t}, !.at = "count"]
    /\ queued' = queued \cup {t}
    /\ queue' = IF Full THEN queue ELSE Append(queue, t)
    /\ UNCHANGED <<load, missed, tracker, stats, busy, active, thread, control, main, taken>>

\* The event table_index_complete of one table: queue_table up to the put.
EmitPut(t) ==
    /\ poll.at = "put" /\ t \in poll.emit
    /\ IF control.stopping \/ t \in queued
       THEN /\ poll' = [poll EXCEPT !.emit = @ \ {t}] /\ UNCHANGED <<queue, queued>>
       ELSE /\ queued' = queued \cup {t}
            /\ IF Full THEN /\ poll' = [poll EXCEPT !.emit = @ \ {t}] /\ UNCHANGED queue
                       ELSE /\ poll' = [poll EXCEPT !.emit = @ \ {t}, !.at = "count"]
                            /\ queue' = Append(queue, t)
    /\ UNCHANGED <<load, missed, tracker, stats, busy, active, thread, control, main, taken>>

EmitCount ==
    /\ poll.at = "count"
    /\ stats' = [stats EXCEPT !.queued = @ + 1]
    /\ poll' = [poll EXCEPT !.at = "put"]
    /\ UNCHANGED <<load, missed, tracker, queue, queued, busy, active, thread, control, main, taken>>

\* update_active_threads, after the tracker's lock is released.
PollEnd ==
    /\ poll.at = "put" /\ poll.emit = {}
    /\ control' = [control EXCEPT !.loading = Cardinality(poll.seen)]
    /\ poll' = [poll EXCEPT !.at = "idle", !.seen = {}]
    /\ UNCHANGED <<load, missed, tracker, poolVars, main>>

(***************************************************************************)
(* An analyze thread: _worker_loop.                                        *)
(***************************************************************************)

Larger(a, b) == IF a > b THEN a ELSE b

Budget_Faulty ==
    IF control.complete THEN Cardinality(Thread)
    ELSE Cardinality(Thread) - control.loading - 1

Budget ==
    IF control.complete THEN Cardinality(Thread)
    ELSE Larger(1, Cardinality(Thread) - control.loading + 1)

Pending == stats.queued - stats.done - Cardinality(busy)

\* _check_completion, with the values after the caller's own changes.
AllDone == control.allDone \/ (Pending = 0 /\ busy = {} /\ queue = <<>>)

Move(w, at) == thread' = [thread EXCEPT ![w].at = at]

\* The loop's head: the stop flag, then a place in the budget.
Proceed(w) ==
    /\ thread[w].at = "idle"
    /\ \/ control.stopping /\ Move(w, "ended")
       \/ ~control.stopping /\ active < Budget /\ Move(w, "ready")
    /\ UNCHANGED <<load, missed, tracker, poll, queue, queued, stats, busy, active, control, main, taken>>

\* queue.get(timeout=0.1): an item, the sentinel, or nothing.
Get(w) ==
    /\ thread[w].at = "ready"
    /\ \/ /\ queue = <<>> /\ Move(w, "idle")
          /\ UNCHANGED <<queue, taken>>
       \/ /\ queue # <<>> /\ Head(queue) = Stop
          /\ queue' = Tail(queue) /\ Move(w, "ended")
          /\ UNCHANGED taken
       \/ /\ queue # <<>> /\ Head(queue) # Stop
          /\ queue' = Tail(queue)
          /\ thread' = [thread EXCEPT ![w] = [at |-> "got", table |-> Head(queue)]]
          /\ taken' = taken \cup {Head(queue)}
    /\ UNCHANGED <<load, missed, tracker, poll, queued, stats, busy, active, control, main>>

Register(w) ==
    /\ thread[w].at = "got"
    /\ active' = active + 1 /\ busy' = busy \cup {thread[w].table}
    /\ Move(w, "mark")
    /\ UNCHANGED <<load, missed, tracker, poll, queue, queued, stats, control, main, taken>>

\* mark_table_analyzing.
MarkAnalyzing(w) ==
    LET t == thread[w].table
    IN  /\ thread[w].at = "mark" /\ TrackerFree
        /\ tracker' = [tracker EXCEPT ![t].index = TRUE, ![t].data = TRUE, ![t].complete = FALSE]
        /\ Move(w, "analyze")
        /\ UNCHANGED <<load, missed, poll, queue, queued, stats, busy, active, control, main, taken>>

\* ANALYZE TABLE ends, well or not, and is recorded.
Analyze(w) ==
    /\ thread[w].at = "analyze"
    /\ stats' = [stats EXCEPT !.done = @ + 1] /\ busy' = busy \ {thread[w].table}
    /\ Move(w, "marked")
    /\ UNCHANGED <<load, missed, tracker, poll, queue, queued, active, control, main, taken>>

\* mark_table_analyze_complete.
MarkAnalyzed(w) ==
    /\ thread[w].at = "marked" /\ TrackerFree
    /\ tracker' = [tracker EXCEPT ![thread[w].table].complete = TRUE]
    /\ Move(w, "finish")
    /\ UNCHANGED <<load, missed, poll, queue, queued, stats, busy, active, control, main, taken>>

Finish_Faulty(w) ==
    /\ thread[w].at = "finish"
    /\ control' = [control EXCEPT !.allDone = AllDone]
    /\ thread' = [thread EXCEPT ![w] = [at |-> "idle", table |-> Nothing]]
    /\ UNCHANGED <<load, missed, tracker, poll, queue, queued, stats, busy, active, main, taken>>

Finish(w) ==
    /\ thread[w].at = "finish"
    /\ active' = active - 1
    /\ control' = [control EXCEPT !.allDone = AllDone]
    /\ thread' = [thread EXCEPT ![w] = [at |-> "idle", table |-> Nothing]]
    /\ UNCHANGED <<load, missed, tracker, poll, queue, queued, stats, busy, main, taken>>

(***************************************************************************)
(* The restore's thread: run_myloader and what follows it.                 *)
(***************************************************************************)

\* RestoreProgressTracker.finalize with early analyze: complete stays unset.
Finalized(r) == IF r.complete THEN r ELSE [r EXCEPT !.data = TRUE, !.index = TRUE]

LoadEnds ==
    /\ main = "load" /\ TrackerFree
    /\ load = {}
    /\ tracker' = [t \in Table |-> Finalized(tracker[t])]
    /\ main' = "notify"
    /\ UNCHANGED <<load, missed, poll, poolVars, control>>

\* myloader fails, or the restore is cancelled or times out: it is killed.
LoadFails ==
    /\ main = "load" /\ main' = "end" /\ load' = {}
    /\ UNCHANGED <<missed, tracker, poll, poolVars, control>>

NotifyMyloaderComplete ==
    /\ main = "notify" /\ main' = "check"
    /\ control' = [control EXCEPT !.complete = TRUE, !.loading = 0]
    /\ UNCHANGED <<load, missed, tracker, poll, poolVars>>

WaitCheck_Faulty ==
    /\ main = "check" /\ main' = "wait"
    /\ UNCHANGED <<load, missed, tracker, poll, poolVars, control>>

\* wait_for_completion: its own check, then the wait for the event.
WaitCheck ==
    /\ main = "check" /\ main' = "wait"
    /\ control' = [control EXCEPT !.allDone = AllDone]
    /\ UNCHANGED <<load, missed, tracker, poll, poolVars>>

WaitForCompletion ==
    /\ main = "wait" /\ main' = "end"
    /\ control.allDone \/ ~Patience
    /\ UNCHANGED <<load, missed, tracker, poll, poolVars, control>>

\* processlist_monitor.stop: the flag, then the join.
StopMonitor ==
    /\ main = "end"
    /\ \/ ~control.monitorStop /\ control' = [control EXCEPT !.monitorStop = TRUE] /\ UNCHANGED main
       \/ /\ control.monitorStop /\ (poll.at = "idle" \/ ~Patience)
          /\ main' = "stop" /\ UNCHANGED control
    /\ UNCHANGED <<load, missed, tracker, poll, poolVars>>

\* EarlyAnalyzeWorker.stop: the flag first, then a sentinel per thread.
SetStopping ==
    /\ main = "stop" /\ ~control.stopping
    /\ control' = [control EXCEPT !.stopping = TRUE]
    /\ UNCHANGED <<load, missed, tracker, poll, poolVars, main>>

PutSentinels ==
    /\ main = "stop" /\ control.stopping
    /\ LET room == Capacity - Len(queue)
           n == IF room < Cardinality(Thread) THEN room ELSE Cardinality(Thread)
       IN  queue' = queue \o [i \in 1..n |-> Stop]
    /\ main' = "join"
    /\ UNCHANGED <<load, missed, tracker, poll, queued, stats, busy, active, thread, control, taken>>

Join ==
    /\ main = "join" /\ main' = "restored"
    /\ ~Patience \/ \A w \in Thread : thread[w].at = "ended"
    /\ UNCHANGED <<load, missed, tracker, poll, poolVars, control>>

MyloaderStep == (\E t \in Table : LoadTable(t) \/ Line(t)) \/ LoadFails
MonitorStep == PollRead \/ PollApply \/ (\E t \in Table : EmitPut(t)) \/ EmitCount \/ PollEnd
MarkStep(w) == MarkAnalyzing(w) \/ MarkAnalyzed(w)
ThreadStep(w) == Proceed(w) \/ Get(w) \/ Register(w) \/ Analyze(w) \/ Finish(w) \/ MarkStep(w)
MainStep ==
    \/ LoadEnds \/ NotifyMyloaderComplete \/ WaitCheck \/ WaitForCompletion
    \/ StopMonitor \/ SetStopping \/ PutSentinels \/ Join

LoadNext == MyloaderStep \/ MonitorStep \/ (\E w \in Thread : ThreadStep(w)) \/ MainStep
LoadSpec == LoadInit /\ [][LoadNext]_loadVars

\* Threads run, and one that waits for the tracker's lock gets it: the monitor
\* sleeps half a second between polls.  myloader may hang for ever.
LoadFairness ==
    /\ WF_loadVars(MonitorStep) /\ WF_loadVars(MainStep)
    /\ \A w \in Thread : WF_loadVars(ThreadStep(w)) /\ SF_loadVars(MarkStep(w))
FairLoadSpec == LoadSpec /\ LoadFairness

-----------------------------------------------------------------------------
(* Properties.                                                             *)

\* A table is offered to the pool only after as many polls in a row as the
\* tracker asks strikes have missed it, whatever the output of myloader says in
\* between, and in whatever order: one that a poll sees again starts at none.
OfferedWhenAbsent == \A t \in queued : missed[t] >= Strikes

\* No table is lost by the counters: what was counted as queued is finished,
\* in progress, in the queue or in the hands of a thread that has not
\* registered it yet, and the put that is not counted yet makes the difference.
TablesBalance ==
    stats.queued + (IF poll.at = "count" THEN 1 ELSE 0)
      = stats.done + Cardinality(busy)
        + Cardinality({i \in DOMAIN queue : queue[i] # Stop})
        + Cardinality({w \in Thread : thread[w].at = "got"})

\* Once myloader has ended, well or not, the restore goes on without any timeout:
\* whichever of the analyze threads and the restore looks last sees that nothing
\* is left, and the monitor and every thread of the pool stop.
RestoreGoesOn == main # "load" ~> main = "restored"

\* A table in the queue is taken, or the restore stops the pool, even when
\* myloader keeps all its threads busy for ever.
QueuedIsTaken == \A t \in Table : (\E i \in DOMAIN queue : queue[i] = t) ~> (t \in taken \/ control.stopping)
=============================================================================
