-------------------------- MODULE WorkerLoopProofs --------------------------
(***************************************************************************)
(* The poll loop of WorkerLoop is one loop, keeps to its request slots and *)
(* is quiet once stop() has returned, for every batch size, concurrency    *)
(* and number of faults, when the embedding program awaits stop().         *)
(***************************************************************************)
EXTENDS WorkerLoop, FiniteSetTheorems, TLAPS

TickRow == [phase : {"free", "running", "straggling"},
            queued : 0 .. BatchSize, inFlight : 0 .. Concurrency,
            threw : BOOLEAN]

(* The loop waits for its timer, is in a tick, or has been stopped; a      *)
(* pending stop() awaits the tick the loop is in.                          *)
Waiting ==
    /\ ~stopped /\ stopAwaits = None
    /\ timer \in Timers /\ timers = {timer}
    /\ activeTick = None /\ Running = {}
InTick ==
    /\ timers = {} /\ timer = None
    /\ activeTick \in Ticks /\ Running = {activeTick}
    /\ stopAwaits = IF stopped THEN activeTick ELSE None
Idle ==
    /\ stopped /\ stopAwaits = None
    /\ timers = {} /\ timer = None
    /\ activeTick = None /\ Running = {}

(* What is left of a tick: a free one has no request, and one that threw   *)
(* lost the slot it threw in.  Only those that threw are left behind.      *)
Threw == {k \in Ticks : tick[k].threw}
SlotsAreAccounted ==
    \A k \in Ticks :
        /\ tick[k].phase = "free" => tick[k].inFlight = 0 /\ ~tick[k].threw
        /\ tick[k].phase = "straggling" => tick[k].threw
        /\ tick[k].threw => tick[k].inFlight < Concurrency
FaultsAreCounted == IsFiniteSet(Threw) /\ Cardinality(Threw) <= faults

LoopInv == Waiting \/ InTick \/ Idle

IInv == TypeOK /\ LoopInv /\ SlotsAreAccounted /\ FaultsAreCounted

USE LoopAssumption

-----------------------------------------------------------------------------
(* Records *)

LEMMA FreeTickRow ==
  /\ FreeTick \in TickRow /\ FreeTick.phase = "free"
  /\ FreeTick.inFlight = 0 /\ FreeTick.threw = FALSE
BY DEF FreeTick, TickRow

LEMMA TickFields ==
  ASSUME NEW p \in {"free", "running", "straggling"}, NEW q \in 0 .. BatchSize,
         NEW f \in 0 .. Concurrency, NEW b \in BOOLEAN,
         NEW t, t = [phase |-> p, queued |-> q, inFlight |-> f, threw |-> b]
  PROVE  /\ t \in TickRow
         /\ t.phase = p /\ t.queued = q /\ t.inFlight = f /\ t.threw = b
<1>1. t.phase = p /\ t.queued = q /\ t.inFlight = f /\ t.threw = b
  OBVIOUS
<1>2. t \in TickRow
  BY Zenon DEF TickRow
<1> QED
  BY <1>1, <1>2

LEMMA TickRowType ==
  ASSUME NEW t \in TickRow
  PROVE  /\ t.phase \in {"free", "running", "straggling"}
         /\ t.queued \in 0 .. BatchSize
         /\ t.inFlight \in 0 .. Concurrency
         /\ t.threw \in BOOLEAN
BY DEF TickRow

(* The three ways in which a step changes a tick. *)
LEMMA SlotTakesNext ==
  ASSUME NEW x \in TickRow, NEW q \in 0 .. BatchSize, NEW t, t = [x EXCEPT !.queued = q]
  PROVE  /\ t \in TickRow /\ t.phase = x.phase
         /\ t.inFlight = x.inFlight /\ t.threw = x.threw
BY Zenon DEF TickRow

LEMMA SlotIsDone ==
  ASSUME NEW x \in TickRow, NEW f \in 0 .. Concurrency, NEW t, t = [x EXCEPT !.inFlight = f]
  PROVE  /\ t \in TickRow /\ t.phase = x.phase
         /\ t.inFlight = f /\ t.threw = x.threw
BY Zenon DEF TickRow

LEMMA SlotThrows ==
  ASSUME NEW x \in TickRow, NEW f \in 0 .. Concurrency, NEW t,
         t = [x EXCEPT !.inFlight = f, !.threw = TRUE]
  PROVE  /\ t \in TickRow /\ t.phase = x.phase
         /\ t.inFlight = f /\ t.threw = TRUE
BY Zenon DEF TickRow

LEMMA TickStraggles ==
  ASSUME NEW x \in TickRow, NEW t, t = [x EXCEPT !.phase = "straggling"]
  PROVE  /\ t \in TickRow /\ t.phase = "straggling"
         /\ t.inFlight = x.inFlight /\ t.threw = x.threw
BY Zenon DEF TickRow

-----------------------------------------------------------------------------
(* Steps that change one tick *)

Accounts == SlotsAreAccounted /\ FaultsAreCounted

(* A tick that becomes t, which is accounted for; t threw in this step, or *)
(* the tick had thrown before.                                             *)
LEMMA OneTickChanges ==
  ASSUME TypeOK, Accounts, NEW k \in Ticks, NEW t \in TickRow,
         tick' = [tick EXCEPT ![k] = t],
         t.phase = "free" => t.inFlight = 0 /\ ~t.threw,
         t.phase = "straggling" => t.threw,
         t.threw => t.inFlight < Concurrency,
         \/ faults' = faults /\ (t.threw => tick[k].threw)
         \/ faults' = faults + 1
  PROVE  /\ tick' \in [Ticks -> TickRow]
         /\ Accounts'
         /\ \A j \in Ticks : tick'[j] = IF j = k THEN t ELSE tick[j]
<1>1. tick \in [Ticks -> TickRow] /\ faults \in Nat
  BY DEF TypeOK, TickRow
<1>2. /\ tick' \in [Ticks -> TickRow]
      /\ \A j \in Ticks : tick'[j] = IF j = k THEN t ELSE tick[j]
  BY <1>1
<1>3. SlotsAreAccounted'
  BY <1>2 DEF Accounts, SlotsAreAccounted
<1>4. IsFiniteSet(Threw) /\ Cardinality(Threw) \in Nat /\ Cardinality(Threw) <= faults
  BY FS_CardinalityType DEF Accounts, FaultsAreCounted
<1>5. CASE faults' = faults /\ (t.threw => tick[k].threw)
  <2>1. Threw' \subseteq Threw
    BY <1>2, <1>5 DEF Threw
  <2>2. IsFiniteSet(Threw') /\ Cardinality(Threw') <= Cardinality(Threw)
        /\ Cardinality(Threw') \in Nat
    BY <1>4, <2>1, FS_Subset, FS_CardinalityType
  <2>3. QED
    BY <1>1, <1>2, <1>3, <1>4, <1>5, <2>2 DEF Accounts, FaultsAreCounted
<1>6. CASE faults' = faults + 1
  <2>1. Threw' \subseteq Threw \cup {k}
    BY <1>2 DEF Threw
  <2>2. /\ IsFiniteSet(Threw \cup {k})
        /\ Cardinality(Threw \cup {k}) <= Cardinality(Threw) + 1
        /\ Cardinality(Threw \cup {k}) \in Nat
    <3>1. IsFiniteSet(Threw \cup {k})
      BY <1>4, FS_AddElement
    <3>2. Cardinality(Threw \cup {k}) = Cardinality(Threw)
          \/ Cardinality(Threw \cup {k}) = Cardinality(Threw) + 1
      BY <1>4, FS_AddElement
    <3>3. QED
      BY <1>4, <3>1, <3>2
  <2>3. IsFiniteSet(Threw') /\ Cardinality(Threw') <= Cardinality(Threw \cup {k})
        /\ Cardinality(Threw') \in Nat
    BY <2>1, <2>2, FS_Subset, FS_CardinalityType
  <2>4. QED
    BY <1>1, <1>2, <1>3, <1>4, <1>6, <2>2, <2>3 DEF Accounts, FaultsAreCounted
<1> QED
  BY <1>5, <1>6

LEMMA SameTicks ==
  ASSUME Accounts, UNCHANGED <<tick, faults>> PROVE Accounts'
BY DEF Accounts, SlotsAreAccounted, FaultsAreCounted, Threw

LEMMA SlotsAreEnough ==
  ASSUME NEW n \in 0 .. BatchSize
  PROVE  Slots(n) \in 0 .. Concurrency /\ n - Slots(n) \in 0 .. BatchSize
BY DEF Slots

-----------------------------------------------------------------------------
(* The loop *)

LEMMA ScheduledOrNot ==
  ASSUME NEW b \in BOOLEAN, Schedule(b), timers = {}, timer = None
  PROVE  /\ ~b => timer' \in Timers /\ timers' = {timer'}
         /\ b => timers' = {} /\ timer' = None
BY DEF Schedule, Schedules

LEMMA InitIInv == Init => IInv
<1> SUFFICES ASSUME Init PROVE IInv
  OBVIOUS
<1>1. \A k \in Ticks : tick[k] = FreeTick
  BY DEF Init
<1>2. tick \in [Ticks -> TickRow]
  BY FreeTickRow DEF Init
<1>3. TypeOK
  BY <1>2 DEF Init, TypeOK, TickRow
<1>4. Running = {} /\ Threw = {}
  BY <1>1, FreeTickRow DEF Running, Threw
<1>5. LoopInv
  BY <1>4 DEF Init, LoopInv, Idle
<1>6. SlotsAreAccounted
  BY <1>1, FreeTickRow DEF SlotsAreAccounted
<1>7. FaultsAreCounted
  BY <1>4, FS_EmptySet DEF Init, FaultsAreCounted
<1> QED
  BY <1>3, <1>5, <1>6, <1>7 DEF IInv

LEMMA StartIInv ==
  ASSUME RestartDuringStop = FALSE, IInv, Start PROVE IInv'
<1>1. Idle
  BY DEF Start, IInv, LoopInv, Waiting, InTick, Idle
<1>2. /\ stopped' = FALSE /\ UNCHANGED <<activeTick, tick, stopAwaits, faults>>
      /\ timer' \in Timers /\ timers' = {timer'}
  BY <1>1, ScheduledOrNot DEF Start, Idle
<1>3. TypeOK'
  BY <1>2 DEF IInv, TypeOK
<1>4. Running' = Running
  BY <1>2 DEF Running
<1>5. LoopInv'
  BY <1>1, <1>2, <1>4 DEF LoopInv, Waiting, Idle
<1>6. Accounts'
  BY <1>2, SameTicks DEF IInv, Accounts
<1> QED
  BY <1>3, <1>5, <1>6 DEF IInv, Accounts

(* The timer was the loop's only one: the tick it starts is the only one.  *)
LEMMA TickBegins ==
  ASSUME IInv, NEW t \in timers, NEW k \in Ticks, NEW row \in TickRow,
         row.phase = "running", row.threw => row.inFlight < Concurrency,
         tick' = [tick EXCEPT ![k] = row], tick[k].phase = "free",
         faults' \in 0 .. MaxFaults,
         \/ faults' = faults /\ ~row.threw
         \/ faults' = faults + 1,
         timers' = timers \ {t}, timer' = None, activeTick' = k,
         UNCHANGED <<stopped, stopAwaits>>
  PROVE  IInv'
<1>1. Waiting
  BY DEF IInv, LoopInv, Waiting, InTick, Idle
<1>2. /\ tick' \in [Ticks -> TickRow]
      /\ Accounts'
      /\ \A j \in Ticks : tick'[j] = IF j = k THEN row ELSE tick[j]
  BY OneTickChanges DEF IInv, Accounts
<1>3. TypeOK'
  BY <1>2 DEF IInv, TypeOK, TickRow
<1>4. Running' = {k}
  BY <1>1, <1>2 DEF Running, Waiting
<1>5. timers' = {}
  BY <1>1 DEF Waiting
<1>6. InTick'
  BY <1>1, <1>4, <1>5 DEF InTick, Waiting
<1> QED
  BY <1>2, <1>3, <1>6 DEF IInv, LoopInv, Accounts

LEMMA TimerFiresIInv ==
  ASSUME IInv, NEW t \in Timers, NEW k \in Ticks, NEW n \in 0 .. BatchSize,
         TimerFires(t, k, n)
  PROVE  IInv'
<1> DEFINE row == [phase |-> "running", queued |-> n - Slots(n),
                   inFlight |-> Slots(n), threw |-> FALSE]
<1>1. row \in TickRow /\ row.phase = "running" /\ row.threw = FALSE
  <2>1. Slots(n) \in 0 .. Concurrency /\ n - Slots(n) \in 0 .. BatchSize
    BY SlotsAreEnough
  <2>2. row \in TickRow
    BY <2>1 DEF TickRow
  <2>3. QED
    BY <2>2
<1>2. /\ t \in timers /\ tick[k].phase = "free"
      /\ timers' = timers \ {t} /\ timer' = None /\ activeTick' = k
      /\ tick' = [tick EXCEPT ![k] = row]
      /\ UNCHANGED <<stopped, stopAwaits>>
      /\ faults' = faults /\ faults' \in 0 .. MaxFaults
  BY DEF TimerFires, IInv, TypeOK
<1> HIDE DEF row
<1> QED
  BY <1>1, <1>2, TickBegins

LEMMA ClaimThrowsIInv ==
  ASSUME IInv, NEW t \in Timers, NEW k \in Ticks, ClaimThrows(t, k) PROVE IInv'
<1> DEFINE row == [FreeTick EXCEPT !.phase = "running", !.threw = TRUE]
<1>1. row \in TickRow /\ row.phase = "running" /\ row.inFlight = 0
  BY FreeTickRow DEF TickRow
<1>2. /\ t \in timers /\ tick[k].phase = "free"
      /\ timers' = timers \ {t} /\ timer' = None /\ activeTick' = k
      /\ tick' = [tick EXCEPT ![k] = row]
      /\ UNCHANGED <<stopped, stopAwaits>>
      /\ faults' = faults + 1 /\ faults' \in 0 .. MaxFaults
  BY DEF ClaimThrows, IInv, TypeOK
<1> HIDE DEF row
<1>3. row.inFlight < Concurrency
  BY <1>1
<1> QED
  BY <1>1, <1>2, <1>3, TickBegins

(* A slot is done or throws: its tick stays what it is, unless it was left *)
(* behind with that one request.                                           *)
LEMMA SlotEnds ==
  ASSUME IInv, NEW k \in Ticks, NEW t \in TickRow,
         tick' = [tick EXCEPT ![k] = t],
         tick[k].inFlight > 0,
         \/ t.phase = tick[k].phase
         \/ t.phase = "free" /\ tick[k].phase = "straggling",
         t.phase = "free" => t.inFlight = 0 /\ ~t.threw,
         tick[k].threw /\ t.phase # "free" => t.threw,
         t.threw => t.inFlight < Concurrency,
         faults' \in 0 .. MaxFaults,
         \/ faults' = faults /\ (t.threw => tick[k].threw)
         \/ faults' = faults + 1,
         UNCHANGED <<stopped, timers, timer, activeTick, stopAwaits>>
  PROVE  IInv'
<1>1. t.phase = "straggling" => t.threw
  BY DEF IInv, SlotsAreAccounted
<1>2. /\ tick' \in [Ticks -> TickRow]
      /\ Accounts'
      /\ \A j \in Ticks : tick'[j] = IF j = k THEN t ELSE tick[j]
  BY <1>1, OneTickChanges DEF IInv, Accounts
<1>3. TypeOK'
  BY <1>2 DEF IInv, TypeOK, TickRow
<1>4. Running' = Running
  BY <1>2 DEF Running
<1>5. LoopInv'
  BY <1>4 DEF IInv, LoopInv, Waiting, InTick, Idle
<1> QED
  BY <1>2, <1>3, <1>5 DEF IInv, Accounts

LEMMA TaskEndsIInv == ASSUME IInv, NEW k \in Ticks, TaskEnds(k) PROVE IInv'
<1> DEFINE x == tick[k]
           t == IF x.queued > 0 THEN [x EXCEPT !.queued = x.queued - 1]
                ELSE IF x.phase = "straggling" /\ x.inFlight = 1 THEN FreeTick
                ELSE [x EXCEPT !.inFlight = x.inFlight - 1]
<1>1. /\ x \in TickRow /\ x.inFlight > 0
      /\ tick' = [tick EXCEPT ![k] = t]
      /\ UNCHANGED <<stopped, timers, timer, activeTick, stopAwaits>>
      /\ faults' = faults /\ faults' \in 0 .. MaxFaults
  <2>1. tick' = [tick EXCEPT ![k] = t]
    BY Zenon DEF TaskEnds
  <2>2. QED
    BY <2>1 DEF TaskEnds, IInv, TypeOK, TickRow
<1>2. /\ x.phase = "free" => x.inFlight = 0 /\ ~x.threw
      /\ x.threw => x.inFlight < Concurrency
      /\ x.queued \in 0 .. BatchSize /\ x.inFlight \in 0 .. Concurrency
      /\ x.threw \in BOOLEAN
  BY <1>1, TickRowType DEF IInv, SlotsAreAccounted
<1> HIDE DEF x
<1>3. CASE x.queued > 0
  <2>1. t = [x EXCEPT !.queued = x.queued - 1] /\ x.queued - 1 \in 0 .. BatchSize
    BY <1>2, <1>3
  <2> HIDE DEF t
  <2>2. t \in TickRow /\ t.phase = x.phase /\ t.inFlight = x.inFlight /\ t.threw = x.threw
    BY <1>1, <2>1, SlotTakesNext
  <2>3. QED
    BY <1>1, <1>2, <2>2, SlotEnds DEF x
<1>4. CASE ~(x.queued > 0) /\ x.phase = "straggling" /\ x.inFlight = 1
  <2>1. t = FreeTick
    BY <1>4
  <2> HIDE DEF t
  <2>2. QED
    BY <1>1, <1>2, <1>4, <2>1, FreeTickRow, SlotEnds DEF x
<1>5. CASE ~(x.queued > 0) /\ ~(x.phase = "straggling" /\ x.inFlight = 1)
  <2>1. t = [x EXCEPT !.inFlight = x.inFlight - 1] /\ x.inFlight - 1 \in 0 .. Concurrency
    BY <1>1, <1>2, <1>5
  <2> HIDE DEF t
  <2>2. t \in TickRow /\ t.phase = x.phase /\ t.inFlight = x.inFlight - 1 /\ t.threw = x.threw
    BY <1>1, <2>1, SlotIsDone
  <2>3. /\ t.phase # "free"
        /\ t.threw => t.inFlight < Concurrency
    BY <1>1, <1>2, <2>2
  <2>4. QED
    BY <1>1, <2>2, <2>3, SlotEnds DEF x
<1> QED
  BY <1>3, <1>4, <1>5

LEMMA TaskThrowsIInv == ASSUME IInv, NEW k \in Ticks, TaskThrows(k) PROVE IInv'
<1> DEFINE x == tick[k]
           t == IF x.phase = "straggling" /\ x.inFlight = 1 THEN FreeTick
                ELSE [x EXCEPT !.inFlight = x.inFlight - 1, !.threw = TRUE]
<1>1. /\ x \in TickRow /\ x.inFlight > 0
      /\ tick' = [tick EXCEPT ![k] = t]
      /\ UNCHANGED <<stopped, timers, timer, activeTick, stopAwaits>>
      /\ faults' = faults + 1 /\ faults' \in 0 .. MaxFaults
  <2>1. tick' = [tick EXCEPT ![k] = t]
    BY Zenon DEF TaskThrows
  <2>2. x \in TickRow /\ x.inFlight > 0
    BY DEF TaskThrows, IInv, TypeOK, TickRow
  <2>3. faults' = faults + 1 /\ faults' \in 0 .. MaxFaults
    BY DEF TaskThrows, IInv, TypeOK
  <2>4. UNCHANGED <<stopped, timers, timer, activeTick, stopAwaits>>
    BY DEF TaskThrows
  <2>5. QED
    BY <2>1, <2>2, <2>3, <2>4
<1>2. /\ x.phase = "free" => x.inFlight = 0 /\ ~x.threw
      /\ x.inFlight \in 0 .. Concurrency
  BY <1>1, TickRowType DEF IInv, SlotsAreAccounted
<1> HIDE DEF x
<1>3. CASE x.phase = "straggling" /\ x.inFlight = 1
  <2>1. t = FreeTick
    BY <1>3
  <2> HIDE DEF t
  <2>2. QED
    BY <1>1, <1>2, <1>3, <2>1, FreeTickRow, SlotEnds DEF x
<1>4. CASE ~(x.phase = "straggling" /\ x.inFlight = 1)
  <2>1. /\ t = [x EXCEPT !.inFlight = x.inFlight - 1, !.threw = TRUE]
        /\ x.inFlight - 1 \in 0 .. Concurrency /\ x.inFlight - 1 < Concurrency
    BY <1>1, <1>2, <1>4
  <2> HIDE DEF t
  <2> DEFINE f == x.inFlight - 1
  <2>2. f \in 0 .. Concurrency /\ t = [x EXCEPT !.inFlight = f, !.threw = TRUE]
    BY <2>1
  <2> HIDE DEF f
  <2>3. t \in TickRow /\ t.phase = x.phase /\ t.inFlight = f /\ t.threw = TRUE
    BY <1>1, <2>2, Zenon DEF TickRow
  <2>4. t.phase # "free" /\ t.inFlight < Concurrency
    BY <1>1, <1>2, <2>1, <2>3 DEF f
  <2>5. QED
    BY <1>1, <2>3, <2>4, SlotEnds DEF x
<1> QED
  BY <1>3, <1>4

(* The tick that settles is the loop's; what it leaves in flight it leaves *)
(* because it threw.                                                       *)
LEMMA TickSettlesIInv == ASSUME IInv, NEW k \in Ticks, TickSettles(k) PROVE IInv'
<1> DEFINE x == tick[k]
           t == IF x.inFlight = 0 THEN FreeTick ELSE [x EXCEPT !.phase = "straggling"]
<1>1. /\ x \in TickRow /\ x.phase = "running"
      /\ x.threw \/ x.inFlight = 0
      /\ tick' = [tick EXCEPT ![k] = t]
      /\ activeTick' = None
      /\ Schedule(stopped)
      /\ stopAwaits' = IF stopAwaits = k THEN None ELSE stopAwaits
      /\ UNCHANGED <<stopped, faults>>
  BY DEF TickSettles, TickIsOver, Reschedules, IInv, TypeOK, TickRow
<1>2. x.threw => x.inFlight < Concurrency
  BY DEF IInv, SlotsAreAccounted
<1>3. InTick /\ activeTick = k
  BY <1>1 DEF IInv, LoopInv, Waiting, InTick, Idle, Running
<1>4. stopAwaits' = None
  BY <1>1, <1>3 DEF InTick
<1>5. /\ ~stopped => timer' \in Timers /\ timers' = {timer'}
      /\ stopped => timers' = {} /\ timer' = None
  BY <1>1, <1>3, ScheduledOrNot DEF InTick, IInv, TypeOK
<1> HIDE DEF x
<1>6. /\ t \in TickRow /\ t.phase # "running"
      /\ t.phase = "free" => t.inFlight = 0 /\ ~t.threw
      /\ t.phase = "straggling" => t.threw
      /\ t.threw => t.inFlight < Concurrency
      /\ t.threw => x.threw
  <2>1. CASE x.inFlight = 0
    <3>1. t = FreeTick
      BY <2>1
    <3> HIDE DEF t
    <3>2. QED
      BY <3>1, FreeTickRow
  <2>2. CASE x.inFlight # 0
    <3>1. t = [x EXCEPT !.phase = "straggling"] /\ x.threw
      BY <1>1, <2>2
    <3> HIDE DEF t
    <3>2. t \in TickRow /\ t.phase = "straggling"
          /\ t.inFlight = x.inFlight /\ t.threw = x.threw
      BY <1>1, <3>1, TickStraggles
    <3>3. QED
      BY <1>2, <3>1, <3>2
  <2>3. QED
    BY <2>1, <2>2
<1> HIDE DEF t
<1>7. /\ tick' \in [Ticks -> TickRow]
      /\ Accounts'
      /\ \A j \in Ticks : tick'[j] = IF j = k THEN t ELSE tick[j]
  BY <1>1, <1>6, OneTickChanges DEF IInv, Accounts, x
<1>8. Running' = {}
  BY <1>3, <1>6, <1>7 DEF InTick, Running
<1>9. TypeOK'
  BY <1>1, <1>4, <1>5, <1>7 DEF IInv, TypeOK, TickRow
<1>10. LoopInv'
  BY <1>1, <1>4, <1>5, <1>8 DEF LoopInv, Waiting, Idle, IInv, TypeOK
<1> QED
  BY <1>7, <1>9, <1>10 DEF IInv, Accounts

LEMMA StopIInv == ASSUME IInv, Stop PROVE IInv'
<1>1. /\ ~stopped /\ stopped' = TRUE /\ timers' = timers \ {timer} /\ timer' = None
      /\ stopAwaits' = activeTick /\ UNCHANGED <<activeTick, tick, faults>>
  BY DEF Stop, ClearedTimers
<1>2. TypeOK'
  BY <1>1 DEF IInv, TypeOK
<1>3. Running' = Running
  BY <1>1 DEF Running
<1>4. LoopInv'
  BY <1>1, <1>3 DEF IInv, LoopInv, Waiting, InTick, Idle
<1>5. Accounts'
  BY <1>1, SameTicks DEF IInv, Accounts
<1> QED
  BY <1>2, <1>4, <1>5 DEF IInv, Accounts

LEMMA NextIInv == ASSUME RestartDuringStop = FALSE PROVE IInv /\ [Next]_vars => IInv'
<1> SUFFICES ASSUME IInv, [Next]_vars PROVE IInv'
  OBVIOUS
<1>1. CASE UNCHANGED vars
  <2>1. TypeOK' /\ Running' = Running
    BY <1>1 DEF vars, IInv, TypeOK, Running
  <2>2. LoopInv'
    BY <1>1, <2>1 DEF vars, IInv, LoopInv, Waiting, InTick, Idle
  <2>3. Accounts'
    BY <1>1, SameTicks DEF vars, IInv, Accounts
  <2>4. QED
    BY <2>1, <2>2, <2>3 DEF IInv, Accounts
<1> QED
  BY <1>1, StartIInv, TimerFiresIInv, ClaimThrowsIInv, TaskEndsIInv, TaskThrowsIInv,
     TickSettlesIInv, StopIInv DEF Next
-----------------------------------------------------------------------------
(* The configured number of requests *)

LEMMA TimesGrows ==
  ASSUME NEW a \in Nat, NEW b \in Nat, NEW c \in Nat, a <= b
  PROVE  a * c \in Nat /\ b * c \in Nat /\ a * c <= b * c
OBVIOUS

LEMMA Pairs ==
  ASSUME NEW S, IsFiniteSet(S), NEW m \in Nat
  PROVE  /\ IsFiniteSet(S \X (1 .. m))
         /\ Cardinality(S \X (1 .. m)) = Cardinality(S) * m
<1>1. IsFiniteSet(1 .. m) /\ Cardinality(1 .. m) = m
  BY FS_Interval
<1> QED
  BY <1>1, FS_Product

(* Beside the tick the loop is in, only those that threw have requests.    *)
LEMMA WhoseRequests ==
  ASSUME IInv, NEW p \in InFlight
  PROVE  \/ p \in Running \X (1 .. Concurrency)
         \/ p \in Threw \X (1 .. (Concurrency - 1))
<1>1. PICK k \in Ticks : p \in {k} \X (1 .. tick[k].inFlight)
  BY DEF InFlight
<1>2. PICK i \in 1 .. tick[k].inFlight : p = <<k, i>>
  BY <1>1
<1>3. tick[k] \in TickRow
  BY DEF IInv, TypeOK, TickRow
<1>4. /\ tick[k].inFlight \in 0 .. Concurrency
      /\ tick[k].phase \in {"free", "running", "straggling"}
  BY <1>3, TickRowType
<1>5. /\ tick[k].phase = "free" => tick[k].inFlight = 0
      /\ tick[k].phase = "straggling" => tick[k].threw
      /\ tick[k].threw => tick[k].inFlight < Concurrency
  BY DEF IInv, SlotsAreAccounted
<1>6. CASE tick[k].phase = "running"
  <2>1. k \in Running /\ i \in 1 .. Concurrency
    BY <1>2, <1>4, <1>6 DEF Running
  <2>2. QED
    BY <1>2, <2>1
<1>7. CASE tick[k].threw
  <2>1. k \in Threw /\ i \in 1 .. (Concurrency - 1)
    BY <1>2, <1>4, <1>5, <1>7 DEF Threw
  <2>2. QED
    BY <1>2, <2>1
<1> QED
  BY <1>2, <1>4, <1>5, <1>6, <1>7

LEMMA AtMostOneRunning ==
  ASSUME IInv
  PROVE  /\ IsFiniteSet(timers) /\ IsFiniteSet(Running)
         /\ Cardinality(timers) \in Nat /\ Cardinality(Running) \in Nat
         /\ Cardinality(timers) + Cardinality(Running) <= 1
<1>1. IsFiniteSet({}) /\ Cardinality({}) = 0
  BY FS_EmptySet
<1>2. CASE Waiting
  <2>1. IsFiniteSet({timer}) /\ Cardinality({timer}) = 1
    BY FS_Singleton
  <2>2. timers = {timer} /\ Running = {}
    BY <1>2 DEF Waiting
  <2>3. QED
    BY <1>1, <2>1, <2>2
<1>3. CASE InTick
  <2>1. IsFiniteSet({activeTick}) /\ Cardinality({activeTick}) = 1
    BY FS_Singleton
  <2>2. timers = {} /\ Running = {activeTick}
    BY <1>3 DEF InTick
  <2>3. QED
    BY <1>1, <2>1, <2>2
<1>4. CASE Idle
  BY <1>1, <1>4 DEF Idle
<1> QED
  BY <1>2, <1>3, <1>4 DEF IInv, LoopInv

LEMMA IInvOneLoop == IInv => OneLoop
<1> SUFFICES ASSUME IInv PROVE OneLoop
  OBVIOUS
<1> DEFINE m == Concurrency - 1
           A == Running \X (1 .. Concurrency)
           B == Threw \X (1 .. m)
<1>1. faults \in Nat /\ m \in Nat /\ Concurrency \in Nat
  BY DEF IInv, TypeOK
<1>2. /\ IsFiniteSet(Threw) /\ Cardinality(Threw) \in Nat
      /\ Cardinality(Threw) <= faults
  BY FS_CardinalityType DEF IInv, FaultsAreCounted
<1>3. /\ IsFiniteSet(A) /\ Cardinality(A) = Cardinality(Running) * Concurrency
      /\ IsFiniteSet(B) /\ Cardinality(B) = Cardinality(Threw) * m
  BY <1>1, <1>2, AtMostOneRunning, Pairs
<1>4. Cardinality(A) \in Nat /\ Cardinality(A) <= Concurrency
  <2>1. Cardinality(Running) \in Nat /\ Cardinality(Running) <= 1
    BY AtMostOneRunning
  <2>2. Cardinality(Running) * Concurrency <= 1 * Concurrency
    BY <1>1, <2>1, TimesGrows
  <2>3. QED
    BY <1>1, <1>3, <2>2, FS_CardinalityType
<1>5. Cardinality(B) \in Nat /\ Cardinality(B) <= faults * m
  BY <1>1, <1>2, <1>3, TimesGrows
<1>6. InFlight \subseteq A \cup B
  BY WhoseRequests
<1> HIDE DEF A, B
<1>7. /\ IsFiniteSet(A \cup B)
      /\ Cardinality(A \cup B) \in Nat
      /\ Cardinality(A \cup B) <= Cardinality(A) + Cardinality(B)
  <2>1. /\ IsFiniteSet(A \cup B) /\ IsFiniteSet(A \cap B)
        /\ Cardinality(A \cup B)
             = Cardinality(A) + Cardinality(B) - Cardinality(A \cap B)
    BY <1>3, FS_Union, FS_Intersection
  <2>2. Cardinality(A \cap B) \in Nat /\ Cardinality(A \cup B) \in Nat
    BY <2>1, FS_CardinalityType
  <2>3. QED
    BY <1>4, <1>5, <2>1, <2>2
<1>8. Cardinality(InFlight) <= Cardinality(A \cup B) /\ Cardinality(InFlight) \in Nat
  BY <1>6, <1>7, FS_Subset, FS_CardinalityType
<1>9. faults * m \in Nat
  BY <1>1, TimesGrows
<1>10. Cardinality(InFlight) <= Concurrency + faults * (Concurrency - 1)
  BY <1>1, <1>4, <1>5, <1>7, <1>8, <1>9
<1> QED
  BY <1>10, AtMostOneRunning DEF OneLoop

(* Without a fault nothing is left behind by a tick that is over.          *)
LEMMA IInvQuiet == IInv => QuietAfterStop
<1> SUFFICES ASSUME IInv, stopped, stopAwaits = None PROVE
      /\ timers = {} /\ Running = {}
      /\ faults = 0 => \A k \in Ticks : tick[k].inFlight = 0
  BY DEF QuietAfterStop
<1>1. Idle
  BY DEF IInv, LoopInv, Waiting, InTick, TypeOK
<1>2. ASSUME faults = 0, NEW k \in Ticks PROVE tick[k].inFlight = 0
  <2>1. IsFiniteSet(Threw) /\ Cardinality(Threw) = 0
    BY <1>2, FS_CardinalityType DEF IInv, FaultsAreCounted
  <2>2. Threw = {}
    BY <2>1, FS_EmptySet
  <2>3. tick[k] \in TickRow /\ ~tick[k].threw /\ tick[k].phase # "running"
    BY <1>1, <2>2 DEF IInv, TypeOK, TickRow, Threw, Running, Idle
  <2>4. tick[k].phase = "free"
    BY <2>3, TickRowType DEF IInv, SlotsAreAccounted
  <2>5. QED
    BY <2>4 DEF IInv, SlotsAreAccounted
<1> QED
  BY <1>1, <1>2 DEF Idle

-----------------------------------------------------------------------------
(* What holds of every behaviour.  The embedding program awaits stop()     *)
(* before it calls start() again, as server.ts does.                       *)

(* The loop waits, is in its one tick, or is idle; every request slot that *)
(* an earlier tick still holds is accounted for by a task that threw.      *)
THEOREM LoopInvariant == ASSUME RestartDuringStop = FALSE PROVE Spec => []IInv
<1>1. Init => IInv
  BY InitIInv
<1>2. IInv /\ [Next]_vars => IInv'
  BY NextIInv
<1> QED
  BY <1>1, <1>2, PTL DEF Spec

(* The variables of the poll loop keep their types.                        *)
THEOREM LoopTypes == ASSUME RestartDuringStop = FALSE PROVE Spec => []TypeOK
<1>1. IInv => TypeOK
  BY DEF IInv
<1> QED
  BY <1>1, LoopInvariant, PTL

(* worker.ts:121-132: one timer or one tick, and no more requests than the *)
(* slots of one tick and those that ticks which threw left behind.         *)
THEOREM LoopIsOne == ASSUME RestartDuringStop = FALSE PROVE Spec => []OneLoop
BY IInvOneLoop, LoopInvariant, PTL

(* worker.ts:140-149: once stop() has returned nothing is scheduled or     *)
(* running, and without a fault no request is in flight.                   *)
THEOREM StopIsQuiet == ASSUME RestartDuringStop = FALSE PROVE Spec => []QuietAfterStop
BY IInvQuiet, LoopInvariant, PTL
=============================================================================
