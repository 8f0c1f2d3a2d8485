----------------------------- MODULE WorkerLoop -----------------------------
(***************************************************************************)
(* The poll loop of createDeliveryWorker in src/worker.ts: its timer, its  *)
(* active tick, start() and stop(), and the request slots in which         *)
(* mapWithConcurrency runs the tasks of a tick.  What the tasks do to the  *)
(* database is DeliveryQueue; here a task only ends or throws.             *)
(*                                                                         *)
(* A task throws when its outcome cannot be recorded: SQLite fails, or the *)
(* backoff options contradict each other (worker.ts:186).  Promise.all     *)
(* then rejects at once, and the tick is over for the loop while its other *)
(* slots go on, and take further tasks of the batch.                       *)
(*                                                                         *)
(* Timers and ticks are numbered; the numbers are used again, so that the  *)
(* loop can go round for ever in a finite state space.                     *)
(***************************************************************************)
EXTENDS Naturals, FiniteSets

CONSTANTS
    BatchSize,    \* tasks a tick claims at most
    Concurrency,  \* request slots of a tick
    Timers,       \* numbers for pending timers
    Ticks,        \* bound: ticks with requests in flight at the same time
    None,
    RestartDuringStop,  \* the embedding program may call start() while a
                        \* stop() it did not await is pending
    MaxFaults     \* bound: tasks and claims that throw

ASSUME LoopAssumption ==
    /\ BatchSize \in Nat \ {0} /\ Concurrency \in Nat \ {0}
    /\ None \notin Timers \cup Ticks
    /\ RestartDuringStop \in BOOLEAN
    /\ MaxFaults \in Nat

VARIABLES
    stopped,     \* stopped
    timers,      \* the timers that are pending
    timer,       \* timer: the handle the loop remembers
    activeTick,  \* activeTick: the promise the loop remembers
    tick,        \* the tasks of each tick
    stopAwaits,  \* the tick a pending stop() awaits
    faults       \* throws so far

vars == <<stopped, timers, timer, activeTick, tick, stopAwaits, faults>>

(* A tick is running until its promise settles; afterwards it may straggle *)
(* on with requests in flight.                                             *)
FreeTick == [phase |-> "free", queued |-> 0, inFlight |-> 0, threw |-> FALSE]

TypeOK ==
    /\ stopped \in BOOLEAN
    /\ timers \subseteq Timers
    /\ timer \in timers \cup {None}
    /\ activeTick \in Ticks \cup {None}
    /\ tick \in [Ticks -> [phase : {"free", "running", "straggling"},
                           queued : 0 .. BatchSize, inFlight : 0 .. Concurrency,
                           threw : BOOLEAN]]
    /\ stopAwaits \in Ticks \cup {None}
    /\ faults \in 0 .. MaxFaults

Init ==
    /\ stopped = TRUE
    /\ timers = {}
    /\ timer = None
    /\ activeTick = None
    /\ tick = [k \in Ticks |-> FreeTick]
    /\ stopAwaits = None
    /\ faults = 0

Running == {k \in Ticks : tick[k].phase = "running"}

-----------------------------------------------------------------------------
(* schedule() checks stopped, which start() has just cleared; before it, a *)
(* variant that does not check.                                            *)
AlwaysSchedules(isStopped) == TRUE
Schedules(isStopped) == ~isStopped

(* schedule(): a new timer, remembered in place of the last one.           *)
Schedule(isStopped) ==
    IF Schedules(isStopped)
    THEN \E t \in Timers \ timers : timers' = timers \cup {t} /\ timer' = t
    ELSE UNCHANGED <<timers, timer>>

(* start() when stopped; otherwise it does nothing. *)
Start ==
    /\ stopped
    /\ RestartDuringStop \/ stopAwaits = None
    /\ stopped' = FALSE
    /\ Schedule(FALSE)
    /\ UNCHANGED <<activeTick, tick, stopAwaits, faults>>

(* workerCount of mapWithConcurrency; before it, one slot per task.        *)
SlotPerTask(n) == n
Slots(n) == IF n <= Concurrency THEN n ELSE Concurrency

(* The timer's callback.  The tick claims n tasks at once, and starts as   *)
(* many as it has slots.                                                   *)
TimerFires(t, k, n) ==
    /\ t \in timers
    /\ tick[k].phase = "free"
    /\ timers' = timers \ {t}
    /\ timer' = None
    /\ activeTick' = k
    /\ tick' = [tick EXCEPT ![k] = [phase |-> "running", queued |-> n - Slots(n),
                                    inFlight |-> Slots(n), threw |-> FALSE]]
    /\ UNCHANGED <<stopped, stopAwaits, faults>>

(* The claim itself throws. *)
ClaimThrows(t, k) ==
    /\ t \in timers
    /\ tick[k].phase = "free"
    /\ faults < MaxFaults
    /\ faults' = faults + 1
    /\ timers' = timers \ {t}
    /\ timer' = None
    /\ activeTick' = k
    /\ tick' = [tick EXCEPT ![k] = [FreeTick EXCEPT !.phase = "running", !.threw = TRUE]]
    /\ UNCHANGED <<stopped, stopAwaits>>

-----------------------------------------------------------------------------
(* A task ends, with any outcome; its slot takes the next one. *)
TaskEnds(k) ==
    /\ tick[k].inFlight > 0
    /\ tick' = [tick EXCEPT ![k] =
                   IF @.queued > 0 THEN [@ EXCEPT !.queued = tick[k].queued - 1]
                   ELSE IF @.phase = "straggling" /\ @.inFlight = 1 THEN FreeTick
                   ELSE [@ EXCEPT !.inFlight = tick[k].inFlight - 1]]
    /\ UNCHANGED <<stopped, timers, timer, activeTick, stopAwaits, faults>>

(* A task throws, and takes its slot with it. *)
TaskThrows(k) ==
    /\ tick[k].inFlight > 0
    /\ faults < MaxFaults
    /\ faults' = faults + 1
    /\ tick' = [tick EXCEPT ![k] =
                   IF @.phase = "straggling" /\ @.inFlight = 1 THEN FreeTick
                   ELSE [@ EXCEPT !.inFlight = tick[k].inFlight - 1, !.threw = TRUE]]
    /\ UNCHANGED <<stopped, timers, timer, activeTick, stopAwaits>>

(* Promise.all has settled: a slot threw, or all of them are done.  Before *)
(* it, variants that do not await the last task of a slot, or that wait    *)
(* for every task whatever happened.                                       *)
AllTasksTaken(k) == tick[k].threw \/ tick[k].queued = 0
AllTasksDone(k) == tick[k].inFlight = 0 /\ tick[k].queued = 0
TickIsOver(k) ==
    \/ tick[k].threw
    \/ tick[k].inFlight = 0 /\ tick[k].queued = 0

(* finally() reschedules, whether the tick threw or not; before it, then().*)
UnlessItThrew(k) == ~tick[k].threw
Reschedules(k) == TRUE

(* The loop learns that tick k is over: it forgets its active tick and     *)
(* schedules the next.  A stop() that awaits this tick returns.            *)
TickSettles(k) ==
    /\ tick[k].phase = "running"
    /\ TickIsOver(k)
    /\ tick' = [tick EXCEPT ![k] =
                   IF @.inFlight = 0 THEN FreeTick ELSE [@ EXCEPT !.phase = "straggling"]]
    /\ activeTick' = None
    /\ IF Reschedules(k) THEN Schedule(stopped) ELSE UNCHANGED <<timers, timer>>
    /\ stopAwaits' = IF stopAwaits = k THEN None ELSE stopAwaits
    /\ UNCHANGED <<stopped, faults>>

(* stop() clears the timer it remembers; before it, a variant that relies  *)
(* on the flag.                                                            *)
LeftPending == timers
ClearedTimers == timers \ {timer}

(* stop(), called again or not: without an active tick it returns at once. *)
Stop ==
    /\ ~stopped
    /\ stopAwaits = None
    /\ stopped' = TRUE
    /\ timers' = ClearedTimers
    /\ timer' = None
    /\ stopAwaits' = activeTick
    /\ UNCHANGED <<activeTick, tick, faults>>

-----------------------------------------------------------------------------
Next ==
    \/ Start
    \/ \E t \in Timers, k \in Ticks, n \in 0 .. BatchSize : TimerFires(t, k, n)
    \/ \E t \in Timers, k \in Ticks : ClaimThrows(t, k)
    \/ \E k \in Ticks : TaskEnds(k)
    \/ \E k \in Ticks : TaskThrows(k)
    \/ \E k \in Ticks : TickSettles(k)
    \/ Stop

(* Timers fire; requests end, as each has a timeout; promises settle. The  *)
(* embedding program need not start or stop anything.                      *)
Fairness ==
    /\ WF_vars(\E t \in Timers, k \in Ticks, n \in 0 .. BatchSize : TimerFires(t, k, n))
    /\ \A k \in Ticks : WF_vars(TaskEnds(k))
    /\ \A k \in Ticks : WF_vars(TickSettles(k))

Spec == Init /\ [][Next]_vars /\ Fairness

-----------------------------------------------------------------------------
(* The requests in flight, numbered within their tick. *)
InFlight == UNION {{k} \X (1 .. tick[k].inFlight) : k \in Ticks}

(* worker.ts:121-132: there is one loop, which waits for its timer or is   *)
(* in a tick, however often the worker is started and stopped.  Its        *)
(* requests are at most the configured number (README.md:425), but for     *)
(* those of ticks that threw: these leave their other slots behind         *)
(* (worker.ts:785), and the next tick starts beside them.                  *)
OneLoop ==
    /\ Cardinality(timers) + Cardinality(Running) <= 1
    /\ Cardinality(InFlight) <= Concurrency + faults * (Concurrency - 1)

(* worker.ts:140-149: once stop() has returned nothing is scheduled, no    *)
(* tick runs, and, unless something threw, no request is in flight that    *)
(* would still write to the storage its caller closes next.                *)
QuietAfterStop ==
    stopped /\ stopAwaits = None =>
        /\ timers = {}
        /\ Running = {}
        /\ faults = 0 => \A k \in Ticks : tick[k].inFlight = 0

(* worker.ts:126: the loop goes on until it is stopped, whatever throws.   *)
LoopGoesOn == []<>(stopped \/ Running # {})

(* worker.ts:146: stop() returns. *)
EveryStopReturns == stopAwaits # None ~> stopAwaits = None
=============================================================================
